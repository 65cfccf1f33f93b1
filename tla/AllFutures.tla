----------------------------- MODULE AllFutures -----------------------------
(***************************************************************************)
(* all() and run() (all.h, task.cpp): a function is started for every item *)
(* of a list (AllOpForVec) or of a tuple (AllOpForTuple), with a then and  *)
(* a fail in a context of the operation's own, here "all".  The callbacks  *)
(* hold the operation, and with it the promise, until they are gone.       *)
(***************************************************************************)
EXTENDS WorkContext, Integers, FiniteSets

CONSTANTS ItemCount   \* how many items the list or tuple has

ASSUME ItemCountAssumption == ItemCount \in Nat

VARIABLES
  form,        \* "vector" or "tuple"; for good
  starting,    \* the item that start is at; 0 when all was not called or is through
  item,        \* per item, its future: "none", "pending", "value", "error", "used"
  hooked,      \* the items whose callbacks are not gone
  finished,    \* m_taskFinishedCount
  promise,     \* m_promise
  returned     \* what the caller got: "none", "future", "exception"

allVars == <<form, starting, item, hooked, finished, promise, returned>>

Items == 1..ItemCount

AllInit(used) ==
  /\ form \in Choice(used, {"vector", "tuple"})
  /\ starting = IF used THEN 1 ELSE 0
  /\ item = [i \in Items |-> "none"] /\ hooked = {}
  /\ finished = 0 /\ promise = "pending"
  /\ returned = IF used THEN "none" ELSE "unused"

\* The operation goes with the last callback, and a promise that it did not
\* satisfy breaks.
Release(left, p) == promise' = IF left = {} /\ starting' = 0 /\ p = "pending" THEN "broken" ELSE p

\* Mutant: the callbacks of the futures that were resolved stay.
CloseAllButKeep(q) ==
  open' = open \ {"all"} /\ works' = Without(q, {"all"}) /\ UNCHANGED hooked

\* m_ctx closes: the callbacks of resolved futures go with their closures, those
\* of pending ones when the future's promise does.
CloseAll(q) ==
  /\ open' = open \ {"all"} /\ works' = Without(q, {"all"})
  /\ hooked' = {i \in hooked : item[i] = "pending"}

\* start: the next function gives a future, and then and fail are hung on it.
StartItem ==
  /\ starting \in Items /\ "all" \in open
  /\ item' = [item EXCEPT ![starting] = "pending"] /\ hooked' = hooked \cup {starting}
  /\ starting' = starting + 1
  /\ UNCHANGED <<contextVars, form, finished, promise, returned>>

\* The function throws, or then finds m_ctx closed and throws: the caller gets
\* the exception in place of the future; a vector closes m_ctx, a tuple does not.
StartThrows ==
  /\ starting \in Items /\ starting' = 0
  /\ returned' = "exception"
  /\ IF form = "vector" THEN CloseAll(works) ELSE UNCHANGED <<contextVars, hooked>>
  /\ UNCHANGED <<form, item, finished>>
  /\ Release(hooked', promise)

StartEnds ==
  /\ starting = ItemCount + 1 /\ starting' = 0
  /\ returned' = "future"
  /\ UNCHANGED <<contextVars, form, item, hooked, finished>>
  /\ Release(hooked, IF ItemCount = 0 THEN "values" ELSE promise)

\* An item's future is resolved, in any thread: then's callback goes to m_ctx,
\* and is dropped with all it holds if that is closed.
ItemEnds(i) ==
  /\ item[i] = "pending"
  /\ \E o \in {"value", "error"} : item' = [item EXCEPT ![i] = o]
  /\ works' = Exec(works, "all", [item |-> i, step |-> "then"])
  /\ hooked' = IF "all" \in open THEN hooked ELSE hooked \ {i}
  /\ UNCHANGED <<open, form, starting, finished, returned>>
  /\ Release(hooked', promise)

\* then: taskFinished counts, and sets the values when it was the last.  An
\* exception goes on to the callback of fail.
TaskFinished(i) ==
  /\ Runs("all", [item |-> i, step |-> "then"]) /\ item[i] = "value"
  /\ finished' = finished + 1 /\ hooked' = hooked \ {i}
  /\ item' = [item EXCEPT ![i] = "used"]
  /\ works' = Tail(works)
  /\ UNCHANGED <<open, form, starting, returned>>
  /\ Release(hooked', IF finished' = ItemCount THEN "values" ELSE promise)

PassError(i) ==
  /\ Runs("all", [item |-> i, step |-> "then"]) /\ item[i] = "error"
  /\ works' = Append(Tail(works), [ctx |-> "all", work |-> [item |-> i, step |-> "fail"]])
  /\ UNCHANGED <<open, allVars>>

\* Mutant: m_ctx stays open after a failure.
TaskFailedOpen(i) ==
  /\ Runs("all", [item |-> i, step |-> "fail"])
  /\ works' = Tail(works) /\ hooked' = hooked \ {i}
  /\ promise' = IF promise = "pending" THEN "error" ELSE "twice"
  /\ item' = [item EXCEPT ![i] = "used"]
  /\ UNCHANGED <<open, form, starting, finished, returned>>

\* fail: taskFailed sets the exception and closes m_ctx (the tuple in the other
\* order, which no other work can tell).  A promise that is satisfied already
\* throws, and "twice" is what that would be.
TaskFailed(i) ==
  /\ Runs("all", [item |-> i, step |-> "fail"])
  /\ CloseAll(Tail(works))
  /\ promise' = IF promise = "pending" THEN "error" ELSE "twice"
  /\ item' = [item EXCEPT ![i] = "used"]
  /\ UNCHANGED <<form, starting, finished, returned>>

\* The parent context closes.
CloseParent ==
  /\ returned # "unused" /\ "all" \in open
  /\ CloseAll(works)
  /\ UNCHANGED <<form, starting, item, finished, returned>>
  /\ Release(hooked', promise)

AllStart == StartItem \/ StartThrows \/ StartEnds
AllWork(i) == TaskFinished(i) \/ PassError(i) \/ TaskFailed(i)
AllNext == AllStart \/ CloseParent \/ \E i \in Items : ItemEnds(i) \/ AllWork(i)

\* start goes on, every item's future ends, the executor runs its works.
AllFairness ==
  LET v == <<contextVars, allVars>> IN
  WF_v(AllStart) /\ \A i \in Items : WF_v(ItemEnds(i)) /\ WF_v(AllWork(i))

AllSpec ==
  open = {"all"} /\ works = <<>> /\ AllInit(TRUE) /\ [][AllNext]_<<contextVars, allVars>>

-----------------------------------------------------------------------------
\* The promise is satisfied once and truly: with all the values when every item
\* gave one, with an error when an item failed, and then no item is listened to;
\* it breaks only when neither can happen any more.
AllIsAnsweredOnce ==
  /\ promise # "twice"
  /\ promise = "values" => \A i \in Items : item[i] = "used"
  /\ promise = "error" => "all" \notin open /\ finished < ItemCount
                          /\ \E i \in Items : item[i] = "used"
  /\ promise = "broken" => "all" \notin open \/ returned = "exception"

\* Who got the future of all() gets an answer, if every item's future ends.
AllEnds == returned = "future" ~> promise # "pending"
=============================================================================
