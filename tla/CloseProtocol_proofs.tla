------------------------- MODULE CloseProtocol_proofs -------------------------
(***************************************************************************)
(* For every set of threads and calls (fewer than the counter can count):  *)
(* once Closing is set nobody but the closing thread is inside, and the    *)
(* protocol implements CloseGate.                                          *)
(***************************************************************************)
EXTENDS CloseProtocol, FiniteSetTheorems, TLAPS

Inside(t) == {k \in Calls : On[k] = t /\ pc[k] = "inside"}

\* Only the closing thread t is inside.
OnlyInside(t) == \A k \in Calls : pc[k] = "inside" => On[k] = t

\* The thread whose startClose was the first is the only one to go through
\* waitForClosing and what follows it, and the flags tell how far it is.
CloserIsAlone ==
  /\ closer = Nobody => flags = {}
  /\ closer \in Threads => "PreparingForClosing" \in flags
  /\ \A t \in Threads : cpc[t] \in {"wait", "flag", "handlers"} => t = closer
  /\ \A t \in Threads : cpc[t] \in {"wait", "flag"} => flags = {"PreparingForClosing"}
  /\ \A t \in Threads : cpc[t] = "handlers" => flags = {"PreparingForClosing", "Closing"}

\* The exclusion is decided by waitForClosing, one step before the flag.
ExcludedFromTheWaitOn ==
  /\ \A t \in Threads : cpc[t] = "flag" => OnlyInside(t)
  /\ "Closing" \in flags => closer \in Threads /\ OnlyInside(closer)

IInv == TypeOK /\ BlocksAreCounted /\ CloserIsAlone /\ ExcludedFromTheWaitOn

-----------------------------------------------------------------------------
LEMMA HoldingIsFinite ==
  IsFiniteSet(Holding) /\ Cardinality(Holding) \in 0 .. Cardinality(Calls)
<1>1. Holding \subseteq Calls
  BY DEF Holding
<1> QED
  BY <1>1, CounterAssumption, FS_Subset, FS_CardinalityType

\* Taking a block adds one call to those that hold one.
LEMMA TakingABlock ==
  ASSUME TypeOK, BlocksAreCounted, NEW k \in Calls, pc[k] = "idle",
         blocks' = Increment(blocks), pc' \in [Calls -> {"idle", "undo", "inside", "done"}],
         pc'[k] \in {"undo", "inside"}, \A j \in Calls \ {k} : pc'[j] = pc[j]
  PROVE  BlocksAreCounted' /\ blocks' \in 0 .. Cardinality(Calls)
<1>1. Holding' = Holding \cup {k} /\ k \notin Holding
  BY DEF Holding, TypeOK
<1>2. Cardinality(Holding') = Cardinality(Holding) + 1 /\ IsFiniteSet(Holding')
  BY <1>1, HoldingIsFinite, FS_AddElement
<1>3. Holding' \subseteq Calls
  BY DEF Holding
<1>4. Cardinality(Holding') <= Cardinality(Calls)
  BY <1>3, CounterAssumption, FS_Subset
<1>5. Cardinality(Calls) \in Nat /\ Cardinality(Holding) \in Nat
  BY CounterAssumption, HoldingIsFinite, FS_CardinalityType
<1>6. blocks' = blocks + 1
  BY <1>2, <1>4, <1>5, CounterAssumption DEF BlocksAreCounted, Increment
<1> QED
  BY <1>2, <1>4, <1>5, <1>6 DEF BlocksAreCounted

\* Giving a block back removes one call from those that hold one.
LEMMA GivingABlockBack ==
  ASSUME TypeOK, BlocksAreCounted, NEW k \in Calls, pc[k] \in {"undo", "inside"},
         blocks' = Decrement(blocks), pc' = [pc EXCEPT ![k] = "done"]
  PROVE  BlocksAreCounted' /\ blocks' \in 0 .. Cardinality(Calls)
<1>1. Holding' = Holding \ {k} /\ k \in Holding
  BY DEF Holding, TypeOK
<1>2. Cardinality(Holding') = Cardinality(Holding) - 1 /\ IsFiniteSet(Holding')
  BY <1>1, HoldingIsFinite, FS_RemoveElement
<1>3. Cardinality(Calls) \in Nat /\ Cardinality(Holding) \in Nat /\ Cardinality(Holding') \in Nat
  BY <1>2, CounterAssumption, HoldingIsFinite, FS_CardinalityType
<1>4. blocks' = blocks - 1
  BY <1>2, <1>3 DEF BlocksAreCounted, Decrement
<1>5. Cardinality(Holding) <= Cardinality(Calls)
  BY HoldingIsFinite, <1>3
<1> QED
  BY <1>2, <1>3, <1>4, <1>5 DEF BlocksAreCounted

\* When the counter is down to the blocks of thread t, all blocks are t's.
LEMMA OwnBlocksAreAllBlocks ==
  ASSUME TypeOK, BlocksAreCounted, NEW t \in Threads, blocks <= BlockCount(t)
  PROVE  OnlyInside(t)
<1> DEFINE Own == {k \in Items : On[k] = t /\ pc[k] = "inside"}
<1>1. Own \subseteq Holding
  BY CallsAssumption DEF Holding
<1>2. IsFiniteSet(Own) /\ Cardinality(Own) \in Nat /\ Cardinality(Holding) \in Nat
  BY <1>1, HoldingIsFinite, FS_Subset, FS_CardinalityType
<1>3. Cardinality(Own) <= Cardinality(Holding)
  BY <1>1, HoldingIsFinite, FS_Subset
<1>4. Cardinality(Own) = Cardinality(Holding)
  BY <1>2, <1>3 DEF BlocksAreCounted, BlockCount
<1>5. Own = Holding
  BY <1>1, <1>4, HoldingIsFinite, FS_Subset
<1> QED
  BY <1>5 DEF OnlyInside, Holding

-----------------------------------------------------------------------------
LEMMA InitEstablishesIInv == Init => IInv
<1> SUFFICES ASSUME Init PROVE IInv
  OBVIOUS
<1> USE DEF Init
<1>1. Holding = {}
  BY DEF Holding
<1>2. BlocksAreCounted
  BY <1>1, FS_EmptySet DEF BlocksAreCounted
<1>3. TypeOK
  BY CounterAssumption, FS_CardinalityType DEF TypeOK, Flags
<1> QED
  BY <1>2, <1>3, ThreadsAssumption
     DEF IInv, CloserIsAlone, ExcludedFromTheWaitOn

\* The counter and the ranges: the two lemmas above, action by action.
LEMMA NextPreservesCount == IInv /\ [Next]_vars => TypeOK' /\ BlocksAreCounted'
<1> SUFFICES ASSUME IInv, [Next]_vars PROVE TypeOK' /\ BlocksAreCounted'
  OBVIOUS
<1> USE DEF IInv
<1>1. ASSUME NEW k \in Calls, BlockClose(k) PROVE TypeOK' /\ BlocksAreCounted'
  <2>1. /\ pc' \in [Calls -> {"idle", "undo", "inside", "done"}]
        /\ pc'[k] \in {"undo", "inside"}
        /\ \A j \in Calls \ {k} : pc'[j] = pc[j]
    BY <1>1 DEF BlockClose, TypeOK
  <2>2. BlocksAreCounted' /\ blocks' \in 0 .. Cardinality(Calls)
    BY <1>1, <2>1, TakingABlock DEF BlockClose
  <2> QED BY <1>1, <2>1, <2>2 DEF BlockClose, TypeOK
<1>2. ASSUME NEW k \in Calls, UndoBlock(k) \/ UnblockClose(k)
      PROVE  TypeOK' /\ BlocksAreCounted'
  <2>1. BlocksAreCounted' /\ blocks' \in 0 .. Cardinality(Calls)
    BY <1>2, GivingABlockBack DEF UndoBlock, UnblockClose
  <2> QED BY <1>2, <2>1 DEF UndoBlock, UnblockClose, TypeOK
<1>3. ASSUME NEW t \in Threads, StartClose(t) \/ CloseStep(t)
      PROVE  TypeOK' /\ BlocksAreCounted'
  <2>1. UNCHANGED <<blocks, pc>>
    BY <1>3 DEF StartClose, CloseStep, WaitForClosing, SetClosingFlag,
                SetClosedFlag, WaitForClosed
  <2>2. BlocksAreCounted'
    BY <2>1 DEF BlocksAreCounted, Holding
  <2>3. flags' \subseteq Flags /\ closer' \in Threads \cup {Nobody}
    BY <1>3 DEF StartClose, CloseStep, WaitForClosing, SetClosingFlag,
                SetClosedFlag, WaitForClosed, TypeOK, Flags
  <2>4. cpc' \in [Threads -> {"out", "wait", "flag", "handlers", "lost", "returned"}]
    BY <1>3 DEF StartClose, CloseStep, WaitForClosing, SetClosingFlag,
                SetClosedFlag, WaitForClosed, TypeOK
  <2> QED BY <2>1, <2>2, <2>3, <2>4 DEF TypeOK
<1>4. CASE UNCHANGED vars
  BY <1>4 DEF vars, TypeOK, BlocksAreCounted, Holding
<1> QED
  BY <1>1, <1>2, <1>3, <1>4 DEF Next, Quiescent

\* There is one closing thread and the flags are set in order.
LEMMA NextPreservesCloserIsAlone == IInv /\ [Next]_vars => CloserIsAlone'
<1> SUFFICES ASSUME IInv, [Next]_vars PROVE CloserIsAlone'
  OBVIOUS
<1> USE ThreadsAssumption DEF IInv, TypeOK, CloserIsAlone
<1>1. ASSUME NEW k \in Calls, BlockClose(k) \/ UndoBlock(k) \/ UnblockClose(k)
      PROVE  CloserIsAlone'
  BY <1>1 DEF BlockClose, UndoBlock, UnblockClose
<1>2. ASSUME NEW t \in Threads, StartClose(t) PROVE CloserIsAlone'
  <2>1. CASE "PreparingForClosing" \in flags
    <3>1. flags' = flags /\ closer' = closer /\ cpc' = [cpc EXCEPT ![t] = "lost"]
      BY <1>2, <2>1 DEF StartClose
    <3> QED BY <3>1
  <2>2. CASE "PreparingForClosing" \notin flags
    <3>1. closer = Nobody /\ flags = {}
      BY <2>2
    <3>2. /\ flags' = {"PreparingForClosing"} /\ closer' = t
          /\ cpc' = [cpc EXCEPT ![t] = "wait"]
      BY <1>2, <2>2, <3>1 DEF StartClose
    <3> QED BY <3>1, <3>2
  <2> QED BY <2>1, <2>2
<1>3. ASSUME NEW t \in Threads, WaitForClosing(t) \/ WaitForClosed(t) PROVE CloserIsAlone'
  BY <1>3 DEF WaitForClosing, WaitForClosed
<1>4. ASSUME NEW t \in Threads, SetClosingFlag(t) PROVE CloserIsAlone'
  <2>1. t = closer /\ flags' = {"PreparingForClosing", "Closing"}
    BY <1>4 DEF SetClosingFlag
  <2> QED BY <1>4, <2>1 DEF SetClosingFlag
<1>5. ASSUME NEW t \in Threads, SetClosedFlag(t) PROVE CloserIsAlone'
  BY <1>5 DEF SetClosedFlag
<1>6. CASE UNCHANGED vars
  BY <1>6 DEF vars
<1> QED
  BY <1>1, <1>2, <1>3, <1>4, <1>5, <1>6 DEF Next, CloseStep, Quiescent

\* Nobody comes in once the flag is set, so what waitForClosing saw lasts.
LEMMA NextPreservesExclusion == IInv /\ [Next]_vars => ExcludedFromTheWaitOn'
<1> SUFFICES ASSUME IInv, [Next]_vars PROVE ExcludedFromTheWaitOn'
  OBVIOUS
<1> USE DEF IInv, ExcludedFromTheWaitOn, OnlyInside
<1>1. ASSUME NEW k \in Calls, BlockClose(k) PROVE ExcludedFromTheWaitOn'
  <2>1. CASE "PreparingForClosing" \in flags
    <3>1. pc'[k] = "undo" /\ \A j \in Calls \ {k} : pc'[j] = pc[j]
      BY <1>1, <2>1 DEF BlockClose, TypeOK
    <3> QED BY <1>1, <3>1 DEF BlockClose
  <2>2. CASE "PreparingForClosing" \notin flags
    <3>1. flags' = {} /\ \A t \in Threads : cpc'[t] # "flag"
      BY <1>1, <2>2 DEF BlockClose, CloserIsAlone, TypeOK
    <3> QED BY <3>1
  <2> QED BY <2>1, <2>2
<1>2. ASSUME NEW k \in Calls, UndoBlock(k) \/ UnblockClose(k)
      PROVE  ExcludedFromTheWaitOn'
  BY <1>2 DEF UndoBlock, UnblockClose, TypeOK
<1>3. ASSUME NEW t \in Threads, StartClose(t) PROVE ExcludedFromTheWaitOn'
  BY <1>3 DEF StartClose, CloserIsAlone, TypeOK
<1>4. ASSUME NEW t \in Threads, WaitForClosing(t) PROVE ExcludedFromTheWaitOn'
  <2>1. OnlyInside(t)
    BY <1>4, OwnBlocksAreAllBlocks DEF WaitForClosing
  <2> QED BY <1>4, <2>1 DEF WaitForClosing, TypeOK
<1>5. ASSUME NEW t \in Threads, SetClosingFlag(t) PROVE ExcludedFromTheWaitOn'
  BY <1>5 DEF SetClosingFlag, CloserIsAlone, TypeOK
<1>6. ASSUME NEW t \in Threads, SetClosedFlag(t) \/ WaitForClosed(t)
      PROVE  ExcludedFromTheWaitOn'
  BY <1>6 DEF SetClosedFlag, WaitForClosed, CloserIsAlone, TypeOK
<1>7. CASE UNCHANGED vars
  BY <1>7 DEF vars
<1> QED
  BY <1>1, <1>2, <1>3, <1>4, <1>5, <1>6, <1>7 DEF Next, CloseStep, Quiescent

LEMMA IInvHolds == Spec => []IInv
<1>1. IInv /\ [Next]_vars => IInv'
  BY NextPreservesCount, NextPreservesCloserIsAlone, NextPreservesExclusion DEF IInv
<1> QED
  BY InitEstablishesIInv, <1>1, PTL DEF Spec

-----------------------------------------------------------------------------
\* The variables stay in their ranges and the counter does not wrap.
THEOREM TypeCorrect == Spec => []TypeOK
<1>1. IInv => TypeOK
  BY DEF IInv
<1> QED BY IInvHolds, <1>1, PTL

\* The blockClose counter counts exactly the calls that hold a block.
THEOREM CounterIsExact == Spec => []BlocksAreCounted
<1>1. IInv => BlocksAreCounted
  BY DEF IInv
<1> QED BY IInvHolds, <1>1, PTL

\* From setClosingFlag on, no thread but the closing one is in the context
\* (AOContextImpl::waitForClosing).
THEOREM ClosingExclusion == Spec => []ClosingExcludesOthers
<1>1. IInv => ClosingExcludesOthers
  BY DEF IInv, ExcludedFromTheWaitOn, OnlyInside, ClosingExcludesOthers
<1> QED BY IInvHolds, <1>1, PTL

-----------------------------------------------------------------------------
\* Every atomic access is a step of the gate or leaves it as it was.
LEMMA StepImplementsStep == IInv /\ [Next]_vars => [Gate!Next]_(Gate!vars)
<1> SUFFICES ASSUME IInv, [Next]_vars PROVE [Gate!Next]_(Gate!vars)
  OBVIOUS
<1> USE DEF IInv, Gate!Next, Gate!vars
<1>1. ASSUME NEW k \in Calls, BlockClose(k) PROVE [Gate!Next]_(Gate!vars)
  <2>1. CASE "PreparingForClosing" \in flags
    <3>1. \A j \in Calls : pc'[j] = "inside" <=> pc[j] = "inside"
      BY <1>1, <2>1 DEF BlockClose, TypeOK
    <3> QED BY <1>1, <3>1 DEF BlockClose
  <2>2. CASE "PreparingForClosing" \notin flags
    <3>1. flags = {} /\ flags' = {} /\ closer' = closer /\ On[k] \in Threads
      BY <1>1, <2>2, CallsAssumption DEF BlockClose, CloserIsAlone, TypeOK
    <3>2. \A j \in Calls : pc'[j] = "inside" <=> pc[j] = "inside" \/ j = k
      BY <1>1, <2>2 DEF BlockClose, TypeOK
    <3>3. Gate!Enter(On[k])
      BY <3>1, <3>2 DEF Gate!Enter
    <3> QED BY <3>1, <3>3
  <2> QED BY <2>1, <2>2
<1>2. ASSUME NEW k \in Calls, UndoBlock(k) PROVE UNCHANGED Gate!vars
  <2>1. \A j \in Calls : pc'[j] = "inside" <=> pc[j] = "inside"
    BY <1>2 DEF UndoBlock, TypeOK
  <2> QED BY <1>2, <2>1 DEF UndoBlock
<1>3. ASSUME NEW k \in Calls, UnblockClose(k) PROVE [Gate!Next]_(Gate!vars)
  <2>1. \A j \in Calls : pc'[j] = "inside" <=> pc[j] = "inside" /\ j # k
    BY <1>3 DEF UnblockClose, TypeOK
  <2>2. CASE \E j \in Calls \ {k} : On[j] = On[k] /\ pc[j] = "inside"
    BY <1>3, <2>1, <2>2 DEF UnblockClose
  <2>3. CASE ~ \E j \in Calls \ {k} : On[j] = On[k] /\ pc[j] = "inside"
    <3>1. On[k] \in Threads /\ Gate!Leave(On[k])
      BY <1>3, <2>1, <2>3, CallsAssumption DEF UnblockClose, Gate!Leave
    <3> QED BY <3>1
  <2> QED BY <2>2, <2>3
<1>4. ASSUME NEW t \in Threads, StartClose(t) PROVE [Gate!Next]_(Gate!vars)
  <2>1. CASE "PreparingForClosing" \in flags
    <3>1. flags' = flags /\ closer' = closer /\ pc' = pc
      BY <1>4, <2>1 DEF StartClose
    <3> QED BY <3>1
  <2>2. CASE "PreparingForClosing" \notin flags
    <3>1. flags = {} /\ flags' = {"PreparingForClosing"} /\ closer' = t /\ pc' = pc
      BY <1>4, <2>2, ThreadsAssumption DEF StartClose, CloserIsAlone, TypeOK
    <3>2. Gate!Prepare(t)
      BY <3>1 DEF Gate!Prepare
    <3> QED BY <3>2
  <2> QED BY <2>1, <2>2
<1>5. ASSUME NEW t \in Threads, WaitForClosing(t) \/ WaitForClosed(t)
      PROVE  UNCHANGED Gate!vars
  BY <1>5 DEF WaitForClosing, WaitForClosed
<1>6. ASSUME NEW t \in Threads, SetClosingFlag(t) PROVE Gate!BeginClosing
  <2>1. /\ flags = {"PreparingForClosing"} /\ flags' = {"PreparingForClosing", "Closing"}
        /\ closer = t /\ closer' = closer /\ pc' = pc
    BY <1>6 DEF SetClosingFlag, CloserIsAlone
  <2>2. OnlyInside(closer)
    BY <1>6, <2>1 DEF SetClosingFlag, ExcludedFromTheWaitOn
  <2> QED BY <2>1, <2>2 DEF Gate!BeginClosing, OnlyInside
<1>7. ASSUME NEW t \in Threads, SetClosedFlag(t) PROVE Gate!FinishClosing
  <2>1. /\ flags = {"PreparingForClosing", "Closing"}
        /\ flags' = flags \cup {"Closed"} /\ closer' = closer /\ pc' = pc
    BY <1>7 DEF SetClosedFlag, CloserIsAlone
  <2> QED BY <2>1 DEF Gate!FinishClosing
<1>8. CASE UNCHANGED vars
  BY <1>8 DEF vars
<1> QED
  BY <1>1, <1>2, <1>3, <1>4, <1>5, <1>6, <1>7, <1>8 DEF Next, CloseStep, Quiescent

\* Who is let in, and when the close handlers may be called, is decided in
\* one step each, as CloseGate states it.
THEOREM ProtocolIsCloseGate == Spec => ImplementsCloseGate
<1>1. Init => Gate!Init
  BY DEF Init, Gate!Init
<1> QED
  BY <1>1, IInvHolds, StepImplementsStep, PTL
     DEF Spec, ImplementsCloseGate, Gate!Spec
=============================================================================
