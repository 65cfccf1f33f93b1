---------------------------- MODULE CloseProtocol ----------------------------
(***************************************************************************)
(* The closing protocol of one AOContext at the level of its atomic word   *)
(* (detail/ao-context-state.h) and of AOContextImpl::close                 *)
(* (detail/ao-context-impl.h).  Every fetch_add, fetch_or and load is one  *)
(* action.  A call is anything that takes a block on closing: exec, the    *)
(* closure it queues, addCloseHandler, startCancellableTask, makeChild.    *)
(* Only exec and the closure also put an item in WorkingInThisThreadSet,   *)
(* so only they are counted when close is called underneath them.          *)
(* References and the list of handlers are modelled in AOContext.          *)
(***************************************************************************)
EXTENDS Naturals, FiniteSets

CONSTANTS Calls,        \* calls that block closing
          Items,        \* those with an item in WorkingInThisThreadSet
          Threads,
          On,           \* On[k] is the thread that makes call k
          Nobody,       \* no thread closes the context yet
          BlockLimit    \* 2^24: the width of the blockClose counter

ASSUME ThreadsAssumption == Nobody \notin Threads
ASSUME CallsAssumption == /\ Items \subseteq Calls
                          /\ On \in [Calls -> Threads]
\* Fewer calls than the counter can count: 2^24 of them at one time would
\* wrap it round to zero.
ASSUME CounterAssumption == /\ IsFiniteSet(Calls)
                            /\ BlockLimit \in Nat
                            /\ Cardinality(Calls) < BlockLimit

VARIABLES flags,        \* the flags set in m_state
          blocks,       \* the blockClose counter of m_state
          pc,           \* where each call is
          cpc,          \* where each thread is in close()
          closer        \* the thread whose startClose was the first

vars == <<flags, blocks, pc, cpc, closer>>

Flags == {"PreparingForClosing", "Closing", "Closed"}

Init == /\ flags = {}
        /\ blocks = 0
        /\ pc = [k \in Calls |-> "idle"]
        /\ cpc = [t \in Threads |-> "out"]
        /\ closer = Nobody

-----------------------------------------------------------------------------
\* fetch_add and fetch_sub of oneBlockClose
Increment(n) == IF n + 1 = BlockLimit THEN 0 ELSE n + 1
Decrement(n) == IF n = 0 THEN BlockLimit - 1 ELSE n - 1

\* The thread is in client code: not in close() and not in blockClose().
AtClient(t) == /\ cpc[t] \in {"out", "returned"}
               /\ \A k \in Calls : On[k] = t => pc[k] # "undo"

\* blockCloseCountMadeFromThisThread
BlockCount(t) == Cardinality({k \in Items : On[k] = t /\ pc[k] = "inside"})

\* Mutant: blockClose looks at Closing, which is set after the wait.
LateBlockClose(k) ==
  /\ pc[k] = "idle"
  /\ AtClient(On[k])
  /\ blocks' = Increment(blocks)
  /\ pc' = [pc EXCEPT ![k] = IF "Closing" \in flags THEN "undo" ELSE "inside"]
  /\ UNCHANGED <<flags, cpc, closer>>

\* blockClose, blockCloseAndAddRef: the counter is raised whatever the flags,
\* and the old flags decide whether the call is let in.
BlockClose(k) ==
  /\ pc[k] = "idle"
  /\ AtClient(On[k])
  /\ blocks' = Increment(blocks)
  /\ pc' = [pc EXCEPT ![k] = IF "PreparingForClosing" \in flags
                             THEN "undo" ELSE "inside"]
  /\ UNCHANGED <<flags, cpc, closer>>

\* Mutant: a refused call is not taken off the counter.
UndoForgotten(k) ==
  /\ pc[k] = "undo"
  /\ pc' = [pc EXCEPT ![k] = "done"]
  /\ UNCHANGED <<flags, blocks, cpc, closer>>

\* The call came too late and takes its block back.
UndoBlock(k) ==
  /\ pc[k] = "undo"
  /\ blocks' = Decrement(blocks)
  /\ pc' = [pc EXCEPT ![k] = "done"]
  /\ UNCHANGED <<flags, cpc, closer>>

\* unblockClose, unblockCloseAndRelease: the call is over.
UnblockClose(k) ==
  /\ pc[k] = "inside"
  /\ AtClient(On[k])
  /\ blocks' = Decrement(blocks)
  /\ pc' = [pc EXCEPT ![k] = "done"]
  /\ UNCHANGED <<flags, cpc, closer>>

\* close(): startClose.  Only the first caller closes.  A client must not call
\* it from the start function of startCancellableTask: that call holds a block
\* without an item and close would wait for its own thread.
StartClose(t) ==
  /\ cpc[t] = "out"
  /\ AtClient(t)
  /\ \A k \in Calls \ Items : On[k] = t => pc[k] # "inside"
  /\ flags' = flags \cup {"PreparingForClosing"}
  /\ IF "PreparingForClosing" \in flags
     THEN /\ cpc' = [cpc EXCEPT ![t] = "lost"]
          /\ UNCHANGED closer
     ELSE /\ cpc' = [cpc EXCEPT ![t] = "wait"]
          /\ closer' = t
  /\ UNCHANGED <<blocks, pc>>

\* Mutant: the blocks made from this thread are counted against themselves.
WaitForNone(t) ==
  /\ cpc[t] = "wait"
  /\ blocks = 0
  /\ cpc' = [cpc EXCEPT ![t] = "flag"]
  /\ UNCHANGED <<flags, blocks, pc, closer>>

\* waitForClosing spins until only its own thread's blocks are left.
WaitForClosing(t) ==
  /\ cpc[t] = "wait"
  /\ blocks <= BlockCount(t)
  /\ cpc' = [cpc EXCEPT ![t] = "flag"]
  /\ UNCHANGED <<flags, blocks, pc, closer>>

SetClosingFlag(t) ==
  /\ cpc[t] = "flag"
  /\ flags' = flags \cup {"Closing"}
  /\ cpc' = [cpc EXCEPT ![t] = "handlers"]
  /\ UNCHANGED <<blocks, pc, closer>>

\* The close handlers have been called and the executor is released.
SetClosedFlag(t) ==
  /\ cpc[t] = "handlers"
  /\ flags' = flags \cup {"Closed"}
  /\ cpc' = [cpc EXCEPT ![t] = "returned"]
  /\ UNCHANGED <<blocks, pc, closer>>

\* waitForClosed: a thread that works for the context does not wait.
WaitForClosed(t) ==
  /\ cpc[t] = "lost"
  /\ BlockCount(t) > 0 \/ "Closed" \in flags
  /\ cpc' = [cpc EXCEPT ![t] = "returned"]
  /\ UNCHANGED <<flags, blocks, pc, closer>>

CloseStep(t) == \/ WaitForClosing(t) \/ SetClosingFlag(t)
                \/ SetClosedFlag(t) \/ WaitForClosed(t)

\* Everybody has returned.
Quiescent == /\ \A k \in Calls : pc[k] \in {"idle", "done"}
             /\ \A t \in Threads : cpc[t] = "returned"
             /\ UNCHANGED vars

Next == \/ \E k \in Calls : BlockClose(k) \/ UndoBlock(k) \/ UnblockClose(k)
        \/ \E t \in Threads : StartClose(t) \/ CloseStep(t)
        \/ Quiescent

Spec == Init /\ [][Next]_vars

\* A thread that is inside the library, or in a work, gets on with it.
Fairness == /\ \A k \in Calls : WF_vars(UndoBlock(k)) /\ WF_vars(UnblockClose(k))
            /\ \A t \in Threads : WF_vars(CloseStep(t))

FairSpec == Spec /\ Fairness

-----------------------------------------------------------------------------
Holding == {k \in Calls : pc[k] \in {"inside", "undo"}}

\* The variables are in their ranges; the counter never leaves the range of
\* what it counts, so it wraps round neither end of its 24 bits.
TypeOK ==
  /\ flags \subseteq Flags
  /\ blocks \in 0 .. Cardinality(Calls)
  /\ pc \in [Calls -> {"idle", "undo", "inside", "done"}]
  /\ cpc \in [Threads -> {"out", "wait", "flag", "handlers", "lost", "returned"}]
  /\ closer \in Threads \cup {Nobody}

\* Every block is counted once and only while it is held, whatever order
\* refused calls, admitted calls and the closing thread run in.
BlocksAreCounted == blocks = Cardinality(Holding)

\* From the moment Closing is set no thread but the closing one is inside the
\* context: no work runs beside the close handlers or after close() returned,
\* and no handler is added to a list that was already walked
\* (ao-context-impl.h:256, "Wait until other threads remove their blockClose").
ClosingExcludesOthers ==
  "Closing" \in flags => \A k \in Calls : pc[k] = "inside" => On[k] = closer

\* close() returns once the works that were let in have returned: a refused
\* call does not leave its block behind, a work that closes does not wait for
\* itself, and two threads that close, one of them from a work, do not wait
\* for each other.
CloseTerminates ==
  \A t \in Threads : cpc[t] \in {"wait", "lost"} ~> cpc[t] = "returned"

Gate == INSTANCE CloseGate WITH
          phase  <- IF "Closed" \in flags THEN "closed"
                    ELSE IF "Closing" \in flags THEN "closing"
                    ELSE IF "PreparingForClosing" \in flags THEN "preparing"
                    ELSE "open",
          inside <- {t \in Threads : \E k \in Calls : On[k] = t /\ pc[k] = "inside"}

\* The atomic word implements the gate: who is let in and when the closing
\* goes on are decided in one step each, as CloseGate says.
ImplementsCloseGate == Gate!Spec
=============================================================================
