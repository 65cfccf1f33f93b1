--------------------------- MODULE DelayedProperty ---------------------------
(***************************************************************************)
(* DelayedProperty (delayed-property.h): threads assign values, others     *)
(* apply what was assigned last.  A section under the mutex is one step;   *)
(* applyNewValue releases the mutex while it calls the handler.            *)
(***************************************************************************)
CONSTANTS
  Assignments,     \* the calls of setNewValue, each with its value
  PropertyValues, InitialValue,
  Appliers, Waiters,
  NoAssignment

ASSUME NoAssignmentAssumption == NoAssignment \notin Assignments

VARIABLES
  assigned,        \* the value of each assignment; for good
  current,         \* currentValue
  pending,         \* the assignment of newValue and promiseOpt
  applying,        \* per applier, the one it took out
  assignment,      \* the future of setNewValue
  waiter,          \* "none", "waiting" on newValCw, "woken", "returned"
  closed, released \* the property, and its shared state, are destroyed

propertyVars == <<assigned, current, pending, applying, assignment, waiter, closed, released>>

PropertyInit(used) ==
  /\ assigned \in IF used THEN [Assignments -> PropertyValues] ELSE {[a \in Assignments |-> InitialValue]}
  /\ current = InitialValue
  /\ pending = NoAssignment /\ applying = [p \in Appliers |-> NoAssignment]
  /\ assignment = [a \in Assignments |-> "none"]
  /\ waiter = [w \in Waiters |-> "none"]
  /\ closed = ~used /\ released = ~used

\* Mutant: the assignment that waited is forgotten, not given up.
SetNewValueOver(a) ==
  /\ ~released /\ assignment[a] = "none"
  /\ assignment' = [assignment EXCEPT ![a] = IF assigned[a] = current THEN "value" ELSE "pending"]
  /\ pending' = IF assigned[a] = current THEN pending ELSE a
  /\ waiter' = [w \in Waiters |-> IF waiter[w] = "waiting" THEN "woken" ELSE waiter[w]]
  /\ UNCHANGED <<assigned, current, applying, closed, released>>

\* setNewValue: nothing to do for the current value; otherwise the assignment
\* that waited is given up.
SetNewValue(a) ==
  /\ ~released /\ assignment[a] = "none"
  /\ IF assigned[a] = current
     THEN assignment' = [assignment EXCEPT ![a] = "value"] /\ UNCHANGED <<pending, waiter>>
     ELSE /\ assignment' = [b \in Assignments |-> CASE b = a -> "pending"
                                                   [] b = pending -> "cancelled"
                                                   [] OTHER -> assignment[b]]
          /\ pending' = a
          /\ waiter' = [w \in Waiters |-> IF waiter[w] = "waiting" THEN "woken" ELSE waiter[w]]
  /\ UNCHANGED <<assigned, current, applying, closed, released>>

\* A value comes by call, or from a producer through a PropertyInput, which knows
\* that the property is gone and answers Closed.
Assign(a) == ~closed /\ SetNewValue(a)

\* applyNewValue takes the assignment and calls the handler unlocked, ...
TakeNewValue(p) ==
  /\ ~closed /\ applying[p] = NoAssignment /\ pending # NoAssignment
  /\ applying' = [applying EXCEPT ![p] = pending] /\ pending' = NoAssignment
  /\ UNCHANGED <<assigned, current, assignment, waiter, closed, released>>

\* ... which succeeds or throws.
HandlerEnds(p) ==
  LET a == applying[p] IN
  /\ a # NoAssignment /\ applying' = [applying EXCEPT ![p] = NoAssignment]
  /\ \/ /\ current' = assigned[a] /\ assignment' = [assignment EXCEPT ![a] = "value"]
     \/ /\ assignment' = [assignment EXCEPT ![a] = "failed"] /\ UNCHANGED current
  /\ UNCHANGED <<assigned, pending, waiter, closed, released>>

\* waitNewValue, and its end by a value or by its timeout.
WaitNewValue(w) ==
  /\ ~closed /\ waiter[w] \in {"none", "woken"}
  /\ waiter' = [waiter EXCEPT ![w] = IF pending = NoAssignment THEN "waiting" ELSE "returned"]
  /\ UNCHANGED <<assigned, current, pending, applying, assignment, closed, released>>
WaitTimeOut(w) ==
  /\ waiter[w] = "waiting" /\ waiter' = [waiter EXCEPT ![w] = "returned"]
  /\ UNCHANGED <<assigned, current, pending, applying, assignment, closed, released>>

\* ~DelayedProperty, when no call is in it; the inputs keep the shared state for
\* a while, and the promise it holds breaks when they go.
DestroyProperty ==
  /\ ~closed /\ \A p \in Appliers : applying[p] = NoAssignment
  /\ \A w \in Waiters : waiter[w] \in {"none", "returned"}
  /\ closed' = TRUE
  /\ UNCHANGED <<assigned, current, pending, applying, assignment, waiter, released>>
ReleaseProperty ==
  /\ closed /\ ~released /\ released' = TRUE
  /\ assignment' = [b \in Assignments |-> IF b = pending THEN "broken" ELSE assignment[b]]
  /\ pending' = NoAssignment
  /\ UNCHANGED <<assigned, current, applying, waiter, closed>>

PropertyNext ==
  \/ \E a \in Assignments : Assign(a)
  \/ \E p \in Appliers : TakeNewValue(p) \/ HandlerEnds(p)
  \/ \E w \in Waiters : WaitNewValue(w) \/ WaitTimeOut(w)
  \/ DestroyProperty \/ ReleaseProperty

PropertySpec == PropertyInit(TRUE) /\ [][PropertyNext]_propertyVars

-----------------------------------------------------------------------------
\* Every assignment that is not answered is in one place that will answer it: it
\* waits, or one applier has it; and no waiter sleeps while there is one to apply.
AssignmentsAreKept ==
  /\ {a \in Assignments : assignment[a] = "pending"}
       = ({pending} \cup {applying[p] : p \in Appliers}) \ {NoAssignment}
  /\ \A p, q \in Appliers : applying[p] # NoAssignment =>
       applying[p] # pending /\ (applying[p] = applying[q] => p = q)
  /\ pending # NoAssignment => \A w \in Waiters : waiter[w] # "waiting"
=============================================================================
