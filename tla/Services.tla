------------------------------- MODULE Services -------------------------------
(***************************************************************************)
(* What the library builds on contexts and futures: timers, all,           *)
(* StateObserver, DelayedProperty, CallQueue and the sockets share one     *)
(* executor here, and every behaviour has work for one of them.            *)
(***************************************************************************)
EXTENDS Timers, AllFutures, StateObserver, DelayedProperty, CallQueue, Connections

VARIABLE service   \* the one that is used; for good

serviceVars == <<contextVars, timerVars, allVars, observerVars, propertyVars, callVars, netVars, service>>

Init ==
  /\ service \in {"timers", "all", "observer", "property", "calls", "net"}
  /\ open = CASE service = "timers" -> {"root"} [] service = "all" -> {"all"}
              [] service = "observer" -> ObserverContexts
              [] service = "calls" -> CallContexts
              [] service = "net" -> {"net"} [] OTHER -> {}
  /\ works = IF service = "observer" THEN ObserverWorks ELSE <<>>
  /\ TimersInit(service = "timers") /\ AllInit(service = "all")
  /\ ObserverInit(service = "observer") /\ PropertyInit(service = "property")
  /\ CallQueueInit(service = "calls") /\ NetInit(service = "net")

Next ==
  /\ UNCHANGED service
  /\ \/ /\ service = "timers" /\ TimersNext
        /\ UNCHANGED <<allVars, observerVars, propertyVars, callVars, netVars>>
     \/ /\ service = "all" /\ AllNext
        /\ UNCHANGED <<timerVars, observerVars, propertyVars, callVars, netVars>>
     \/ /\ service = "observer" /\ ObserverNext
        /\ UNCHANGED <<timerVars, allVars, propertyVars, callVars, netVars>>
     \/ /\ service = "property" /\ PropertyNext
        /\ UNCHANGED <<contextVars, timerVars, allVars, observerVars, callVars, netVars>>
     \/ /\ service = "net" /\ NetNext
        /\ UNCHANGED <<timerVars, allVars, observerVars, propertyVars, callVars>>
     \/ /\ service = "calls" /\ CallQueueNext
        /\ UNCHANGED <<timerVars, allVars, observerVars, propertyVars, netVars>>

Spec == Init /\ [][Next]_serviceVars

FairSpec ==
  /\ Spec
  /\ TimersFairness /\ AllFairness /\ ObserverFairness /\ CallQueueFairness /\ NetFairness

-----------------------------------------------------------------------------
\* Timers and connections outlive what asio still does for them: no wakeup, and
\* no answer, finds its operation deleted.
NoOperationUsedAfterDelete == NoTimerUsedAfterDelete /\ NoConnectUsedAfterDelete

\* Whoever waits for a timer, a connection or all futures of a list is answered,
\* whatever closes when.
OperationsEnd == TimersEnd /\ ConnectionsEnd /\ AllEnds
=============================================================================
