-------------------------- MODULE FutureState_proofs --------------------------
(***************************************************************************)
(* The handshake of setFlag, for any number of waits: the callback fires   *)
(* once, no wake-up is lost, and on a machine that keeps its stores in     *)
(* order get returns the result.  And of a chain with a context: its       *)
(* callback serves one future once, whatever closes meanwhile.             *)
(***************************************************************************)
EXTENDS MCFutures, TLAPS

\* The values of the untyped variables that the argument needs.
Ranges ==
  /\ flags \subseteq {"HasResult", "HasCallback"}
  /\ pc \in [Actors -> {"client", "load", "exchange", "both", "fire",
                       "waiting", "read", "done"}]
  /\ pc["promise"] \notin {"waiting", "read"}
  /\ fired \in Nat
  /\ storage \in Kinds \cup {"Nothing"}

\* An actor's flag is set from the moment it has passed the exchange.
FlagsFollow ==
  /\ "HasResult" \in flags <=> pc["promise"] \in {"fire", "done"}
  /\ "HasCallback" \in flags <=>
       callback /\ pc["future"] \notin {"load", "exchange", "both"}
  /\ pc["future"] \in {"load", "exchange", "both", "fire", "waiting"} => callback
  /\ storage = "Nothing" <=> pc["promise"] = "client"

\* Who comes second found the other's flag; so they are never both second.
SecondIsAlone ==
  /\ pc["promise"] = "both" => "HasCallback" \in flags
  /\ pc["future"] = "both" => "HasResult" \in flags
  /\ \A a \in Actors : pc[a] = "fire" => flags = {"HasResult", "HasCallback"}
  /\ ~(pc["promise"] = "fire" /\ pc["future"] = "fire")

\* The callback was called if both flags are set and nobody is about to.
Firing == flags = {"HasResult", "HasCallback"} /\ \A a \in Actors : pc[a] # "fire"
FiredWhenBoth == /\ fired = IF Firing THEN 1 ELSE 0
                 /\ event <=> Firing

IInv == Ranges /\ FlagsFollow /\ SecondIsAlone /\ FiredWhenBoth

LEMMA InitIInv == Init => IInv
  BY DEF Init, IInv, Ranges, FlagsFollow, SecondIsAlone, FiredWhenBoth, Firing,
         Actors, Kinds

LEMMA NextKeepsIInv == IInv /\ [Next]_vars => IInv'
<1> SUFFICES ASSUME IInv, [Next]_vars PROVE IInv'
  OBVIOUS
<1> USE DEF IInv, Ranges, FlagsFollow, SecondIsAlone, FiredWhenBoth, Firing,
            Actors, Kinds, Goto, FlagOf, AfterSetFlag
<1>1. ASSUME NEW kind \in Kinds, Satisfy(kind) PROVE IInv'
  BY <1>1 DEF Satisfy
<1>2. ASSUME NEW a \in Actors, LoadFlags(a) PROVE IInv'
  BY <1>2 DEF LoadFlags
<1>3. ASSUME NEW a \in Actors, CompareExchange(a) PROVE IInv'
  <2>1. CASE flags = {}
    <3>1. flags' = {FlagOf(a)} /\ UNCHANGED <<storage, callback, event, fired>>
          /\ pc' = [pc EXCEPT ![a] = AfterSetFlag(a)]
      BY <1>3, <2>1 DEF CompareExchange
    <3>2. CASE a = "promise"
      BY <1>3, <2>1, <3>1, <3>2 DEF CompareExchange
    <3>3. CASE a = "future"
      BY <1>3, <2>1, <3>1, <3>3 DEF CompareExchange
    <3> QED BY <3>2, <3>3
  <2>2. CASE flags # {}
    <3>1. UNCHANGED <<flags, storage, callback, event, fired>>
          /\ pc' = [pc EXCEPT ![a] = "both"]
      BY <1>3, <2>2 DEF CompareExchange
    <3>2. CASE a = "promise"
      BY <1>3, <2>2, <3>1, <3>2 DEF CompareExchange
    <3>3. CASE a = "future"
      BY <1>3, <2>2, <3>1, <3>3 DEF CompareExchange
    <3> QED BY <3>2, <3>3
  <2> QED BY <2>1, <2>2
<1>4. ASSUME NEW a \in Actors, StoreBoth(a) PROVE IInv'
  BY <1>4 DEF StoreBoth
<1>5. ASSUME NEW a \in Actors, FutureReady(a) PROVE IInv'
  <2>1. fired = 0 /\ flags = {"HasResult", "HasCallback"}
    BY <1>5 DEF FutureReady
  <2>2. /\ event' = TRUE /\ fired' = 1
        /\ pc' = [pc EXCEPT ![a] = AfterSetFlag(a)]
        /\ UNCHANGED <<flags, storage, callback>>
    BY <1>5, <2>1 DEF FutureReady
  <2>3. CASE a = "promise"
    BY <1>5, <2>1, <2>2, <2>3 DEF FutureReady
  <2>4. CASE a = "future"
    BY <1>5, <2>1, <2>2, <2>4 DEF FutureReady
  <2> QED BY <2>3, <2>4
<1>6. ASSUME NEW c \in {"wait", "waitFor"}, Wait(c) PROVE IInv'
  BY <1>6 DEF Wait, MakeWaitFuture
<1>7. CASE Get
  BY <1>7 DEF Get, MakeWaitFuture
<1>8. CASE WakeUp
  BY <1>8 DEF WakeUp
<1>9. CASE TimeOut
  BY <1>9 DEF TimeOut
<1>10. CASE Read
  BY <1>10 DEF Read
<1>11. CASE UNCHANGED vars
  BY <1>11 DEF vars
<1> QED BY <1>1, <1>2, <1>3, <1>4, <1>5, <1>6, <1>7, <1>8, <1>9, <1>10, <1>11
        DEF Next, SetFlag, Quiescent

LEMMA Invariance == Spec => []IInv
  BY InitIInv, NextKeepsIInv, PTL DEF Spec

\* The callback is called once at most, with both flags set and a result.
THEOREM FiresOnce == Spec => []CallbackFiresOnce
<1>1. IInv => CallbackFiresOnce
  BY DEF IInv, Ranges, FlagsFollow, FiredWhenBoth, Firing, CallbackFiresOnce
<1> QED BY <1>1, Invariance, PTL

\* Once both sides have left setFlag the event is set.
THEOREM NoWakeUpIsLost == Spec => []NoLostWakeUp
<1>1. IInv => NoLostWakeUp
  BY DEF IInv, Ranges, FlagsFollow, SecondIsAlone, FiredWhenBoth, Firing,
         NoLostWakeUp, Actors
<1> QED BY <1>1, Invariance, PTL

-----------------------------------------------------------------------------
\* A thread that is about to read the result sees it.
ReaderIsSynced ==
  /\ pc["future"] = "read" => synced /\ storage # "Nothing"
  /\ pc["future"] # "done" => result = "none"
  /\ GetReturnsTheResult

\* Where stores are kept in order, get returns what the promise stored.
THEOREM GetIsRight ==
  ASSUME WeakMemory = FALSE
  PROVE  Spec => []GetReturnsTheResult
<1>1. Init => ReaderIsSynced
  BY DEF Init, ReaderIsSynced, GetReturnsTheResult, Actors
<1>2. IInv /\ ReaderIsSynced /\ [Next]_vars => ReaderIsSynced'
  <2> SUFFICES ASSUME IInv, ReaderIsSynced, [Next]_vars PROVE ReaderIsSynced'
    OBVIOUS
  <2> USE DEF IInv, Ranges, ReaderIsSynced, GetReturnsTheResult, Actors, Goto
  <2>1. ASSUME NEW kind \in Kinds, Satisfy(kind) PROVE ReaderIsSynced'
    BY <2>1 DEF Satisfy, Kinds, FlagsFollow, FiredWhenBoth, Firing
  <2>2. ASSUME NEW a \in Actors, SetFlag(a) PROVE ReaderIsSynced'
    BY <2>2 DEF SetFlag, LoadFlags, CompareExchange, StoreBoth, FutureReady,
                AfterSetFlag, Acquire
  <2>3. ASSUME NEW c \in {"wait", "waitFor"}, Wait(c) PROVE ReaderIsSynced'
    BY <2>3 DEF Wait, MakeWaitFuture
  <2>4. CASE Get
    BY <2>4 DEF Get, MakeWaitFuture, Acquire, FlagsFollow
  <2>5. CASE WakeUp
    BY <2>5 DEF WakeUp, FlagsFollow, FiredWhenBoth, Firing
  <2>6. CASE TimeOut
    BY <2>6 DEF TimeOut
  <2>7. CASE Read
    BY <2>7 DEF Read
  <2>8. CASE UNCHANGED vars
    BY <2>8 DEF vars
  <2> QED BY <2>1, <2>2, <2>3, <2>4, <2>5, <2>6, <2>7, <2>8 DEF Next, Quiescent
<1>3. ReaderIsSynced => GetReturnsTheResult
  BY DEF ReaderIsSynced
<1> QED BY <1>1, <1>2, <1>3, Invariance, PTL DEF Spec

-----------------------------------------------------------------------------
\* The values of the variables of a chain.
ChainPcs == {"client", "insert", "callback", "exec", "post", "release", "destroy", "done",
             "run", "fn", "wait", "pop", "call", "mark"}
InsidePcs == {"insert", "post", "run", "fn"}

ChainRanges ==
  /\ phase \in {"open", "preparing", "closing", "closed"}
  /\ chainPc \in [Chain!Threads -> ChainPcs]
  /\ chainPc["closer"] \in {"client", "wait", "pop", "call", "mark", "done"}
  /\ chainPc["worker"] \in {"client", "run", "fn", "release", "destroy", "done"}
  /\ chainPc["caller"] \notin {"run", "fn"} /\ chainPc["producer"] \notin {"run", "fn", "insert"}
  /\ hasNext \in BOOLEAN /\ alive \in BOOLEAN

\* A thread is inside the context where the code holds a block of it, and alone
\* with its close handlers the closer finds nobody there.
InsideAsCoded ==
  /\ inside = {t \in Chain!Threads : chainPc[t] \in InsidePcs}
  /\ phase \in {"closing", "closed"} => inside = {}
  /\ chainPc["closer"] \in {"pop", "call", "mark"} => phase = "closing"
  /\ phase # "open" => closer = "closer"

\* Whoever may still use the state holds a reference to it.
UsersHold ==
  /\ \A t \in {"producer", "caller"} :
       chainPc[t] \notin {"destroy", "done"} => t \in holders
  /\ chainPc["worker"] \in {"run", "fn", "release"} => "worker" \in holders
  /\ closure = "queued" /\ chainPc["worker"] = "client" => "worker" \in holders
  /\ holders \subseteq Chain!Threads

\* The callback is deleted by the thread whose reference was the last, and not
\* while the closer has it.
DeletedWithTheLast ==
  /\ \A t \in Chain!Threads : chainPc[t] = "destroy" => holders = {}
  /\ ~alive => holders = {} /\ handler # "listed"
  /\ chainPc["closer"] \in {"call", "mark"} => handler = "called" /\ alive

\* The next future is resolved by the one that took it out of the callback.
TakenThenResolved ==
  /\ hasNext => outcome = "none"
  /\ chainPc["worker"] = "fn" => ~hasNext /\ outcome = "none"
  /\ chainPc["worker"] \in {"client", "run"} /\ phase \in {"open", "preparing"} => outcome = "none"

ChainInv == ChainRanges /\ InsideAsCoded /\ UsersHold /\ DeletedWithTheLast /\ TakenThenResolved

LEMMA ChainInitHolds == Chain!Init => ChainInv
BY DEF Chain!Init, Chain!Gate!Init, ChainInv, ChainRanges, InsideAsCoded, UsersHold, DeletedWithTheLast,
   TakenThenResolved, ChainPcs, InsidePcs, Chain!Threads

LEMMA ChainStepHolds == ChainInv /\ [Chain!Next]_(Chain!vars) => ChainInv'
<1> SUFFICES ASSUME ChainInv, [Chain!Next]_(Chain!vars) PROVE ChainInv'
  OBVIOUS
<1> USE DEF ChainInv, ChainRanges, InsideAsCoded, UsersHold, DeletedWithTheLast, TakenThenResolved,
            ChainPcs, InsidePcs, Chain!Threads, Chain!Goto
<1>1. ASSUME NEW kind \in {"Value", "Exception"}, Chain!SetResult(kind) PROVE ChainInv'
  BY <1>1 DEF Chain!chain, Chain!gate, Chain!SetResult
<1>2. ASSUME Chain!AddCloseHandler PROVE ChainInv'
  BY <1>2 DEF Chain!chain, Chain!gate, Chain!AddCloseHandler, Chain!Gate!Enter
<1>3. ASSUME Chain!InsertHandler PROVE ChainInv'
  BY <1>3 DEF Chain!chain, Chain!gate, Chain!InsertHandler, Chain!Gate!Leave
<1>4. ASSUME Chain!SetCallback PROVE ChainInv'
  BY <1>4 DEF Chain!chain, Chain!gate, Chain!SetCallback
<1>5. ASSUME Chain!Cancel PROVE ChainInv'
  BY <1>5 DEF Chain!chain, Chain!gate, Chain!Cancel
<1>6. ASSUME Chain!RunClosure PROVE ChainInv'
  BY <1>6 DEF Chain!chain, Chain!gate, Chain!RunClosure, Chain!Gate!Enter
<1>7. ASSUME Chain!CallFn PROVE ChainInv'
  <2> USE <1>7 DEF Chain!chain, Chain!gate, Chain!CallFn
  <2>1. ChainRanges'
    OBVIOUS
  <2>2. InsideAsCoded'
    OBVIOUS
  <2>3. UsersHold'
    OBVIOUS
  <2>4. DeletedWithTheLast'
    OBVIOUS
  <2>5. TakenThenResolved'
    OBVIOUS
  <2> HIDE DEF ChainRanges, InsideAsCoded, UsersHold, DeletedWithTheLast, TakenThenResolved
  <2> QED BY <2>1, <2>2, <2>3, <2>4, <2>5
<1>8. ASSUME Chain!FnReturns PROVE ChainInv'
  BY <1>8 DEF Chain!chain, Chain!gate, Chain!FnReturns, Chain!Gate!Leave
<1>9. ASSUME Chain!StartClose PROVE ChainInv'
  BY <1>9 DEF Chain!chain, Chain!gate, Chain!StartClose, Chain!Gate!Prepare
<1>10. ASSUME Chain!WaitForClosing PROVE ChainInv'
  BY <1>10 DEF Chain!chain, Chain!gate, Chain!WaitForClosing, Chain!Gate!BeginClosing
<1>11. ASSUME Chain!PopHandler PROVE ChainInv'
  BY <1>11 DEF Chain!chain, Chain!gate, Chain!PopHandler, Chain!Gate!FinishClosing
<1>12. ASSUME Chain!FutureCancelled PROVE ChainInv'
  BY <1>12 DEF Chain!chain, Chain!gate, Chain!FutureCancelled
<1>13. ASSUME Chain!MarkDone PROVE ChainInv'
  BY <1>13 DEF Chain!chain, Chain!gate, Chain!MarkDone
<1>14. ASSUME NEW t \in Chain!Threads, Chain!Exec(t) PROVE ChainInv'
  BY <1>14 DEF Chain!chain, Chain!gate, Chain!Exec, Chain!Gate!Enter
<1>15. ASSUME NEW t \in Chain!Threads, Chain!Post(t) PROVE ChainInv'
  BY <1>15 DEF Chain!chain, Chain!gate, Chain!Post, Chain!Gate!Leave
<1>16. ASSUME NEW t \in Chain!Threads, Chain!Release(t) PROVE ChainInv'
  <2>1. /\ chainPc[t] = "release" /\ t \in holders /\ holders' = holders \ {t}
        /\ chainPc' = [chainPc EXCEPT ![t] = IF holders = {t} THEN "destroy" ELSE "done"]
        /\ UNCHANGED <<phase, inside, closer, handler, hasNext, alive, closure, outcome>>
    BY <1>16 DEF Chain!gate, Chain!Release
  <2>2. chainPc'[t] \in {"destroy", "done"} /\ \A u \in Chain!Threads \ {t} : chainPc'[u] = chainPc[u]
    BY <2>1
  <2>3. chainPc'[t] = "destroy" => holders' = {}
    BY <2>1
  <2>4. ChainRanges'
    BY <2>1, <2>2
  <2>5. InsideAsCoded'
    BY <2>1, <2>2
  <2>6. UsersHold'
    BY <2>1, <2>2
  <2>7. DeletedWithTheLast' /\ TakenThenResolved'
    BY <2>1, <2>2, <2>3
  <2>8. QED
    BY <2>4, <2>5, <2>6, <2>7
<1>17. ASSUME NEW t \in Chain!Threads, Chain!Destroy(t) PROVE ChainInv'
  <2>1. /\ chainPc[t] = "destroy" /\ holders = {} /\ handler # "called" /\ alive' = FALSE
        /\ handler' = IF handler = "listed" THEN "removed" ELSE handler
        /\ chainPc' = [chainPc EXCEPT ![t] = "done"]
        /\ UNCHANGED <<phase, inside, closer, holders, hasNext, closure, outcome>>
    BY <1>17 DEF Chain!gate, Chain!Destroy
  <2>2. chainPc'[t] = "done" /\ \A u \in Chain!Threads \ {t} : chainPc'[u] = chainPc[u]
    BY <2>1
  <2>3. chainPc["closer"] \notin {"call", "mark"}
    BY <2>1
  <2>4. ChainRanges'
    BY <2>1, <2>2
  <2>5. InsideAsCoded'
    BY <2>1, <2>2
  <2>6. UsersHold'
    BY <2>1, <2>2
  <2>7. DeletedWithTheLast' /\ TakenThenResolved'
    BY <2>1, <2>2, <2>3
  <2>8. QED
    BY <2>4, <2>5, <2>6, <2>7
<1>18. ASSUME UNCHANGED Chain!vars PROVE ChainInv'
  BY <1>18 DEF Chain!vars, Chain!chain, Chain!gate
<1>19. QED
  BY <1>1, <1>2, <1>3, <1>4, <1>5, <1>6, <1>7, <1>8, <1>9, <1>10, <1>11, <1>12, <1>13, <1>14, <1>15, <1>16, <1>17, <1>18
     DEF Chain!Next, Chain!ThenStep, Chain!ThreadStep, Chain!WorkerStep, Chain!CloserStep, Chain!Quiescent

\* The result of the next future is never changed: who is about to set it is the
\* only one that can.
LEMMA ResultStays ==
  ASSUME ChainInv, [Chain!Next]_(Chain!vars), outcome # "none"
  PROVE  outcome' = outcome
<1>1. ASSUME Chain!FnReturns PROVE FALSE
  BY <1>1 DEF Chain!FnReturns, Chain!Goto, ChainInv, TakenThenResolved
<1>2. Chain!FutureCancelled => outcome' = outcome
  BY DEF Chain!FutureCancelled, ChainInv, TakenThenResolved
<1>3. Chain!RunClosure \/ Chain!CallFn => outcome' = outcome
  BY DEF Chain!RunClosure, Chain!CallFn
<1>4. Chain!StartClose \/ Chain!WaitForClosing \/ Chain!PopHandler \/ Chain!MarkDone => outcome' = outcome
  BY DEF Chain!StartClose, Chain!WaitForClosing, Chain!PopHandler, Chain!MarkDone
<1>5. ASSUME NEW t \in Chain!Threads, Chain!ThreadStep(t) PROVE outcome' = outcome
  BY <1>5 DEF Chain!ThreadStep, Chain!Exec, Chain!Post, Chain!Release, Chain!Destroy
<1>6. ASSUME NEW kind, Chain!SetResult(kind) PROVE outcome' = outcome
  BY <1>6 DEF Chain!SetResult
<1>7. Chain!AddCloseHandler \/ Chain!ThenStep \/ Chain!Cancel \/ UNCHANGED Chain!vars => outcome' = outcome
  BY DEF Chain!AddCloseHandler, Chain!ThenStep, Chain!InsertHandler, Chain!SetCallback, Chain!Cancel,
     Chain!vars
<1>8. QED
  BY <1>1, <1>2, <1>3, <1>4, <1>5, <1>6, <1>7
     DEF Chain!Next, Chain!WorkerStep, Chain!CloserStep, Chain!Quiescent

LEMMA UsedAlone == ChainInv => Chain!CallbackIsUsedAlone
BY DEF ChainInv, ChainRanges, InsideAsCoded, UsersHold, DeletedWithTheLast, InsidePcs,
   Chain!CallbackIsUsedAlone, Chain!Threads

\* However the callback's run races with the close of its context and the end of the
\* promise, the next future gets one result, and the callback is used by one thread
\* at a time and not after it was deleted (future-state.h:193, 466-491).
THEOREM ChainCallbackServesOnce == Chain!Spec => CallbackServesOnce
<1>1. Chain!Spec => []ChainInv
  BY ChainInitHolds, ChainStepHolds, PTL DEF Chain!Spec
<1>2. ChainInv /\ ChainInv' /\ [Chain!Next]_(Chain!vars) =>
        [(outcome # "none" => outcome' = outcome) /\ Chain!CallbackIsUsedAlone']_(Chain!vars)
  <2>1. ChainInv' => Chain!CallbackIsUsedAlone'
    BY UsedAlone, PTL
  <2>2. QED
    BY <2>1, ResultStays
<1>3. QED
  BY <1>1, <1>2, PTL DEF Chain!Spec, CallbackServesOnce, Chain!CallbackServesOnce
=============================================================================
