--------------------------- MODULE Channel_proofs ---------------------------
(***************************************************************************)
(* For every number of producers, readers, clients and consumers and every *)
(* capacity: what a TSQueue was given is what was read and what is left,   *)
(* once a reader was told of the end nothing more is accepted, and nobody  *)
(* sleeps who could go on without another having been woken for it; and    *)
(* every consumer gets the values that are for it, a taker exactly one.    *)
(***************************************************************************)
EXTENDS Channel, FiniteSetTheorems, TLAPS

\* What is written to the queue: values of producers, or of the clients.
Data == Values \cup Nat

QueueTyped ==
  /\ values \in Seq(Data) /\ accepted \in Seq(Data) /\ taken \in Seq(Data)
  /\ closed \in BOOLEAN
  /\ \A t \in Threads : op[t].kind = "write" => op[t].value \in Data
  /\ DOMAIN op = Threads

ProducersTyped == produced \in [Producers -> Nat]

\* EndIsFinal alone is not inductive: a read that finds the queue empty and closed
\* has seen all that was accepted because of DrainedInOrder.
IInv == QueueTyped /\ ProducersTyped /\ DrainedInOrder /\ EndIsFinal

LEMMA InitEstablishesIInv == Init => IInv
<1> SUFFICES ASSUME Init PROVE IInv
  OBVIOUS
<1> USE DEF Init, InitWith, QueueInit
<1>1. QueueTyped
  <2>1. \A t \in Threads : op[t].kind # "write"
    BY DEF NoCall
  <2>2. closed \in BOOLEAN
    BY Zenon
  <2>3. DOMAIN op = Threads
    OBVIOUS
  <2>4. values \in Seq(Data) /\ accepted \in Seq(Data) /\ taken \in Seq(Data)
    OBVIOUS
  <2> QED BY <2>1, <2>2, <2>3, <2>4 DEF QueueTyped
<1>2. ProducersTyped
  BY DEF ProducersTyped
<1>3. DrainedInOrder
  BY DEF DrainedInOrder
<1>4. EndIsFinal
  BY DEF EndIsFinal
<1> QED BY <1>1, <1>2, <1>3, <1>4 DEF IInv

\* The first value goes over from values to taken.
LEMMA HeadIsTaken ==
  ASSUME NEW S, NEW taken0 \in Seq(S), NEW values0 \in Seq(S), values0 # <<>>
  PROVE  taken0 \o values0 = Append(taken0, Head(values0)) \o Tail(values0)
OBVIOUS

LEMMA AppendIsLast ==
  \A T, V \in Seq(Data), v \in Data : Append(T \o V, v) = T \o Append(V, v)
OBVIOUS

-----------------------------------------------------------------------------
\* The steps of the queue itself.
QueueKept == QueueTyped /\ DrainedInOrder /\ EndIsFinal

LEMMA WriteKeeps ==
  ASSUME QueueKept, NEW t \in Threads, Write(t) PROVE QueueKept'
<1> USE DEF QueueKept, Write, Return
<1>1. op[t].value \in Data
  BY DEF QueueTyped
<1>2. QueueTyped'
  <2>1. values' \in Seq(Data) /\ accepted' \in Seq(Data)
    BY <1>1 DEF QueueTyped
  <2>2. \A u \in Threads : op'[u].kind = "write" => op'[u].value \in Data
    BY DEF QueueTyped, NoCall
  <2>3. closed' \in BOOLEAN /\ taken' \in Seq(Data) /\ DOMAIN op' = Threads
    BY DEF QueueTyped
  <2> QED BY <2>1, <2>2, <2>3 DEF QueueTyped
<1>3. DrainedInOrder'
  <2>1. Append(taken \o values, op[t].value) = taken \o Append(values, op[t].value)
    <3>1. taken \in Seq(Data) /\ values \in Seq(Data)
      BY DEF QueueTyped
    <3> QED BY <1>1, <3>1, AppendIsLast
  <2>2. accepted' = Append(taken \o values, op[t].value)
    BY DEF DrainedInOrder
  <2>3. taken' = taken /\ values' = Append(values, op[t].value)
    OBVIOUS
  <2> QED BY <2>1, <2>2, <2>3 DEF DrainedInOrder
<1>4. EndIsFinal'
  BY DEF EndIsFinal
<1> QED BY <1>2, <1>3, <1>4

LEMMA ReadKeeps ==
  ASSUME QueueKept, NEW t \in Threads, Read(t) PROVE QueueKept'
<1> USE DEF QueueKept, Read, Return
<1>1. QueueTyped'
  <2>1. values' \in Seq(Data) /\ taken' \in Seq(Data)
    BY DEF QueueTyped
  <2>2. \A u \in Threads : op'[u].kind = "write" => op'[u].value \in Data
    BY DEF QueueTyped, NoCall
  <2> QED BY <2>1, <2>2 DEF QueueTyped
<1>2. DrainedInOrder'
  BY HeadIsTaken DEF DrainedInOrder, QueueTyped
\* Who was told of the end left nothing to be read.
<1>3. sawEnd = {}
  <2>1. ASSUME NEW a \in sawEnd PROVE FALSE
    <3>1. taken = taken \o values
      BY <2>1 DEF EndIsFinal, DrainedInOrder
    <3>2. Len(taken) = Len(taken) + Len(values)
      BY <3>1 DEF QueueTyped
    <3> QED BY <3>2 DEF QueueTyped
  <2> QED BY <2>1
<1>4. EndIsFinal'
  BY <1>3 DEF EndIsFinal
<1> QED BY <1>1, <1>2, <1>4

LEMMA ReadEndKeeps ==
  ASSUME QueueKept, NEW t \in Threads, ReadEnd(t) PROVE QueueKept'
<1> USE DEF QueueKept, ReadEnd, Return
<1>1. QueueTyped'
  <2>1. \A u \in Threads : op'[u].kind = "write" => op'[u].value \in Data
    BY DEF QueueTyped, NoCall
  <2> QED BY <2>1 DEF QueueTyped
<1>2. DrainedInOrder'
  BY DEF DrainedInOrder
<1>3. EndIsFinal'
  <2>1. closed /\ accepted = taken
    BY DEF CanRead, DrainedInOrder, QueueTyped
  <2> QED BY <2>1 DEF EndIsFinal
<1> QED BY <1>1, <1>2, <1>3

LEMMA OthersKeep ==
  ASSUME QueueKept, NEW t \in Threads,
         \/ WriteRefused(t) \/ Block(t) \/ Expire(t) \/ Close
  PROVE  QueueKept'
<1> USE DEF QueueKept
<1>1. CASE WriteRefused(t) \/ Expire(t)
  <2>1. UNCHANGED op \/ Return(t)
    BY <1>1 DEF WriteRefused, Expire
  <2>2. \A u \in Threads : op'[u].kind = "write" => op'[u].value \in Data
    BY <2>1 DEF QueueTyped, NoCall, Return
  <2>3. DOMAIN op' = Threads
    BY <2>1 DEF QueueTyped, Return
  <2> QED BY <1>1, <2>2, <2>3 DEF WriteRefused, Expire, QueueTyped, DrainedInOrder, EndIsFinal
<1>2. CASE Block(t)
  BY <1>2 DEF Block, QueueTyped, DrainedInOrder, EndIsFinal
<1>3. CASE Close
  BY <1>3 DEF Close, QueueTyped, DrainedInOrder, EndIsFinal
<1> QED BY <1>1, <1>2, <1>3

LEMMA CallKeeps ==
  ASSUME QueueKept, NEW t \in Threads, NEW call, Call(t, call),
         call.kind = "write" => call.value \in Data,
         UNCHANGED <<values, closed, accepted, taken, sawEnd>>
  PROVE  QueueKept'
BY DEF QueueKept, Call, QueueTyped, DrainedInOrder, EndIsFinal

LEMMA RefusedKeeps ==
  ASSUME QueueKept, NEW t \in Threads, Return(t),
         UNCHANGED <<values, closed, accepted, taken, sawEnd>>
  PROVE  QueueKept'
BY DEF QueueKept, Return, NoCall, QueueTyped, DrainedInOrder, EndIsFinal

LEMMA UnchangedKeeps ==
  ASSUME QueueKept, UNCHANGED queueVars PROVE QueueKept'
BY DEF QueueKept, queueVars, QueueTyped, DrainedInOrder, EndIsFinal

LEMMA CloseKeeps ==
  ASSUME QueueKept, Close PROVE QueueKept'
BY DEF QueueKept, Close, QueueTyped, DrainedInOrder, EndIsFinal

LEMMA DestroyKeeps ==
  ASSUME QueueKept, NEW gone, Destroy(gone) PROVE QueueKept'
BY UnchangedKeeps, CloseKeeps DEF Destroy

-----------------------------------------------------------------------------
\* The producers, the consumers and the users of the queue.
LEMMA ProducersStayTyped == ProducersTyped /\ [Next]_vars => ProducersTyped'
<1> SUFFICES ASSUME ProducersTyped, [Next]_vars, UNCHANGED produced \/ \E p \in Producers : Consume(p)
             PROVE ProducersTyped'
  <2>1. [Next]_vars => UNCHANGED produced \/ \E p \in Producers : Consume(p)
    BY DEF Next, Run, Make, AddConsumer, Start, Stop, FinishRun, CallTaker, CallInput,
           InputAnswers, CallNotifier, ExecHandler, PutBack, Handle, CloseNotifier, CloseChan,
           Get, ClientCall, ClientStep, vars, producerVars
  <2> QED BY <2>1
<1> QED BY DEF ProducersTyped, Consume

LEMMA ProducerKeeps ==
  ASSUME QueueKept, ProducersTyped, NEW p \in Producers, Run(p) PROVE QueueKept'
<1>t. p \in Threads
  BY ThreadsAssumption
<1>1. CASE Consume(p) \/ CallTaker(p) \/ CallNotifier(p) \/ ExecHandler(p) \/ PutBack(p)
  <2>1. UNCHANGED queueVars
    BY <1>1 DEF Consume, CallTaker, CallNotifier, ExecHandler, PutBack
  <2> QED BY <2>1, UnchangedKeeps
<1>2. CASE FinishRun(p)
  BY <1>2, DestroyKeeps DEF FinishRun
<1>3. CASE CallInput(p)
  <2>1. WriteCall(produced[p], FALSE).value \in Data
    BY DEF ProducersTyped, WriteCall, Data
  <2> QED BY <1>t, <1>3, <2>1, CallKeeps DEF CallInput
<1>4. CASE InputAnswers(p)
  BY <1>t, <1>4, WriteKeeps, OthersKeep, RefusedKeeps DEF InputAnswers
<1> QED BY <1>1, <1>2, <1>3, <1>4 DEF Run

LEMMA UserKeeps ==
  ASSUME QueueKept, NEW t \in Readers \cup Clients, Get(t) \/ ClientCall(t) \/ ClientStep(t)
  PROVE  QueueKept'
<1>t. t \in Threads
  BY ThreadsAssumption
<1>1. CASE Get(t)
  <2>1. CASE Call(t, ReadCall(FALSE)) /\ UNCHANGED <<values, closed, accepted, taken, sawEnd>>
    BY <1>t, <2>1, CallKeeps DEF ReadCall
  <2> QED BY <1>t, <1>1, <2>1, ReadKeeps, ReadEndKeeps, OthersKeep DEF Get
<1>2. CASE ClientCall(t)
  <2>1. PICK call \in Calls : Call(t, call)
    BY <1>2 DEF ClientCall
  <2>2. call.kind = "write" => call.value \in Data
    BY DEF Calls, NoCall, ReadCall, WriteCall, Data
  <2> QED BY <1>t, <1>2, <2>1, <2>2, CallKeeps DEF ClientCall
<1>3. CASE ClientStep(t)
  BY <1>t, <1>3, WriteKeeps, ReadKeeps, ReadEndKeeps, OthersKeep DEF ClientStep, Proceed
<1> QED BY <1>1, <1>2, <1>3

LEMMA NextPreservesIInv == IInv /\ [Next]_vars => IInv'
<1> SUFFICES ASSUME IInv, [Next]_vars PROVE IInv'
  OBVIOUS
<1>q. QueueKept /\ ProducersTyped
  BY DEF IInv, QueueKept
<1>p. ProducersTyped'
  BY <1>q, ProducersStayTyped
<1>1. ASSUME NEW c \in Consumers, Make(c) \/ AddConsumer(c) PROVE QueueKept'
  <2>1. UNCHANGED queueVars \/ Destroy({c})
    BY <1>1 DEF Make, AddConsumer
  <2> QED BY <1>q, <2>1, UnchangedKeeps, DestroyKeeps
<1>2. ASSUME NEW p \in Producers, Start(p) \/ Stop(p) \/ Run(p) PROVE QueueKept'
  <2>1. UNCHANGED queueVars \/ Run(p)
    BY <1>2 DEF Start, Stop
  <2> QED BY <1>q, <2>1, UnchangedKeeps, ProducerKeeps
<1>3. ASSUME NEW c \in Notifiers, Handle(c) \/ CloseNotifier(c) PROVE QueueKept'
  <2>1. UNCHANGED queueVars
    BY <1>3 DEF Handle, CloseNotifier
  <2> QED BY <1>q, <2>1, UnchangedKeeps
<1>4. ASSUME CloseChan PROVE QueueKept'
  <2>1. Close
    BY <1>4 DEF CloseChan
  <2> QED BY <1>q, <2>1, CloseKeeps
<1>5. ASSUME UNCHANGED vars PROVE QueueKept'
  <2>1. UNCHANGED queueVars
    BY <1>5 DEF vars
  <2> QED BY <1>q, <2>1, UnchangedKeeps
<1>6. QueueKept'
  <2>1. ASSUME NEW t \in Readers \cup Clients, Get(t) \/ ClientCall(t) \/ ClientStep(t)
        PROVE  QueueKept'
    BY <1>q, <2>1, UserKeeps
  <2>2. \/ \E c \in Consumers : Make(c) \/ AddConsumer(c)
        \/ \E p \in Producers : Start(p) \/ Stop(p) \/ Run(p)
        \/ \E c \in Notifiers : Handle(c) \/ CloseNotifier(c)
        \/ CloseChan \/ UNCHANGED vars
        \/ \E t \in Readers \cup Clients : Get(t) \/ ClientCall(t) \/ ClientStep(t)
    BY DEF Next
  <2> QED BY <1>1, <1>2, <1>3, <1>4, <1>5, <2>1, <2>2
<1> QED BY <1>p, <1>6 DEF IInv, QueueKept

\* Values come out in the order in which they went in, none is lost and none comes
\* twice, not even when the queue closes.
THEOREM QueueIsDrainedInOrder == Spec => []DrainedInOrder
<1>1. IInv => DrainedInOrder
  BY DEF IInv
<1> QED BY <1>1, InitEstablishesIInv, NextPreservesIInv, PTL DEF Spec

\* What a read was told of the end stays true.
THEOREM EndStaysFinal == Spec => []EndIsFinal
<1>1. IInv => EndIsFinal
  BY DEF IInv
<1> QED BY <1>1, InitEstablishesIInv, NextPreservesIInv, PTL DEF Spec
-----------------------------------------------------------------------------
\* Who sleeps.  That somebody is awake is not inductive: it has to be as many as
\* there are values to read, or places to fill, while others sleep.
Awake(kind) == {t \in Threads \ waiting : op[t].kind = kind}

SleepersKept ==
  /\ DOMAIN op = Threads /\ waiting \subseteq Threads
  /\ \A t \in waiting : op[t] # NoCall
  /\ closed => waiting = {}
  /\ values \in Seq(Data)
  /\ WaitingTo("read") # {} => Len(values) <= Cardinality(Awake("read"))
  /\ WaitingTo("write") # {} => Capacity - Len(values) <= Cardinality(Awake("write"))

LEMMA AwakeIsFinite ==
  \A k \in {"read", "write"} : IsFiniteSet(Awake(k)) /\ Cardinality(Awake(k)) \in Nat
<1> TAKE k \in {"read", "write"}
<1>1. Awake(k) \in SUBSET Threads /\ IsFiniteSet(Threads)
  BY ThreadsAssumption DEF Awake
<1>2. IsFiniteSet(Awake(k))
  BY <1>1, FS_Subset
<1> QED BY <1>2, FS_CardinalityType

LEMMA AwakeIsFiniteAfter ==
  \A k \in {"read", "write"} : IsFiniteSet(Awake(k)') /\ Cardinality(Awake(k)') \in Nat
<1> TAKE k \in {"read", "write"}
<1>1. Awake(k)' \in SUBSET Threads /\ IsFiniteSet(Threads)
  BY ThreadsAssumption DEF Awake
<1>2. IsFiniteSet(Awake(k)')
  BY <1>1, FS_Subset
<1> QED BY <1>2, FS_CardinalityType

\* Nobody new sleeps and who was awake is: nothing is lost while the values stay.
LEMMA MoreAwake ==
  ASSUME SleepersKept, waiting' \subseteq waiting, DOMAIN op' = Threads, UNCHANGED <<values, closed>>,
         \A t \in waiting' : op'[t] = op[t],
         \A k \in {"read", "write"} : Awake(k) \subseteq Awake(k)'
  PROVE  SleepersKept'
<1> USE DEF SleepersKept
<1>1. \A k \in {"read", "write"} : Cardinality(Awake(k)) <= Cardinality(Awake(k)')
  BY AwakeIsFiniteAfter, FS_Subset
<1>2. \A k \in {"read", "write"} : WaitingTo(k)' \subseteq WaitingTo(k)
  BY DEF WaitingTo
<1>3. WaitingTo("read")' # {} => Len(values') <= Cardinality(Awake("read")')
  BY <1>1, <1>2, AwakeIsFinite, AwakeIsFiniteAfter
<1>4. WaitingTo("write")' # {} => Capacity - Len(values') <= Cardinality(Awake("write")')
  BY <1>1, <1>2, AwakeIsFinite, AwakeIsFiniteAfter, CapacityAssumption
<1> QED BY <1>3, <1>4

LEMMA NobodySleeps ==
  ASSUME SleepersKept, waiting' = {}, DOMAIN op' = Threads, values' \in Seq(Data)
  PROVE  SleepersKept'
BY DEF SleepersKept, WaitingTo

\* A thread that is awake makes one step of a call of kind k, which brings one
\* value or place for those of the other kind; one of them, who sleeps, is woken.
LEMMA OneIsWoken ==
  ASSUME SleepersKept, NEW k \in {"read", "write"}, NEW other \in {"read", "write"} \ {k},
         NEW t \in Threads \ waiting, op[t].kind = k, NotifyOne(other), Return(t), UNCHANGED closed
  PROVE  /\ waiting' \subseteq waiting /\ DOMAIN op' = Threads
         /\ \A u \in waiting' : op'[u] # NoCall
         /\ WaitingTo(k)' \subseteq WaitingTo(k)
         /\ Cardinality(Awake(k)') = Cardinality(Awake(k)) - 1
         /\ WaitingTo(other)' # {} =>
              WaitingTo(other) # {} /\ Cardinality(Awake(other)') = Cardinality(Awake(other)) + 1
<1> USE DEF SleepersKept
<1>1. waiting' \subseteq waiting /\ DOMAIN op' = Threads /\ op'[t] = NoCall
      /\ \A u \in Threads \ {t} : op'[u] = op[u]
  BY DEF NotifyOne, WaitingTo, Return
<1>2. WaitingTo(k)' = WaitingTo(k)
  BY <1>1 DEF NotifyOne, WaitingTo
<1>3. Awake(k)' = Awake(k) \ {t} /\ t \in Awake(k)
  BY <1>1 DEF NotifyOne, WaitingTo, Awake, NoCall
<1>4. Cardinality(Awake(k)') = Cardinality(Awake(k)) - 1
  BY <1>3, AwakeIsFinite, FS_RemoveElement
<1>5. CASE WaitingTo(other) = {}
  BY <1>1, <1>2, <1>4, <1>5 DEF NotifyOne, WaitingTo
<1>6. CASE WaitingTo(other) # {}
  <2>1. PICK u \in WaitingTo(other) : waiting' = waiting \ {u}
    BY <1>6 DEF NotifyOne
  <2>2. Awake(other)' = Awake(other) \cup {u} /\ u \notin Awake(other)
    BY <1>1, <2>1 DEF WaitingTo, Awake, NoCall
  <2>3. Cardinality(Awake(other)') = Cardinality(Awake(other)) + 1
    BY <2>2, AwakeIsFinite, FS_AddElement
  <2> QED BY <1>1, <1>2, <1>4, <1>6, <2>3
<1> QED BY <1>5, <1>6

LEMMA WriteWakes == ASSUME SleepersKept, NEW t \in Threads, op[t].value \in Data, Write(t)
                    PROVE  SleepersKept'
<1>1. /\ waiting' \subseteq waiting /\ DOMAIN op' = Threads /\ \A u \in waiting' : op'[u] # NoCall
      /\ WaitingTo("write")' \subseteq WaitingTo("write")
      /\ Cardinality(Awake("write")') = Cardinality(Awake("write")) - 1
      /\ WaitingTo("read")' # {} =>
           /\ WaitingTo("read") # {}
           /\ Cardinality(Awake("read")') = Cardinality(Awake("read")) + 1
  BY OneIsWoken DEF Write
<1>2. values' \in Seq(Data) /\ Len(values') = Len(values) + 1 /\ closed' = closed
  BY DEF Write, SleepersKept
<1> QED BY <1>1, <1>2, AwakeIsFinite, CapacityAssumption DEF SleepersKept

LEMMA ReadWakes == ASSUME SleepersKept, NEW t \in Threads, Read(t) PROVE SleepersKept'
<1>1. /\ waiting' \subseteq waiting /\ DOMAIN op' = Threads /\ \A u \in waiting' : op'[u] # NoCall
      /\ WaitingTo("read")' \subseteq WaitingTo("read")
      /\ Cardinality(Awake("read")') = Cardinality(Awake("read")) - 1
      /\ WaitingTo("write")' # {} =>
           /\ WaitingTo("write") # {}
           /\ Cardinality(Awake("write")') = Cardinality(Awake("write")) + 1
  BY OneIsWoken DEF Read
<1>2. values' \in Seq(Data) /\ Len(values') = Len(values) - 1 /\ closed' = closed
  BY DEF Read, SleepersKept
<1> QED BY <1>1, <1>2, AwakeIsFinite, CapacityAssumption DEF SleepersKept

\* Who goes to sleep has seen that there is nothing to read, or no place.
LEMMA BlockKeepsWatch == ASSUME SleepersKept, NEW t \in Threads, Block(t) PROVE SleepersKept'
<1> USE DEF SleepersKept, Block
<1>1. ~closed
  BY DEF Ready, CanRead, CanWrite
<1>2. /\ WaitingTo("read")' # {} => Len(values') <= Cardinality(Awake("read")')
  <2>1. CASE op[t].kind = "read"
    BY <2>1, AwakeIsFiniteAfter DEF Ready, CanRead
  <2>2. CASE op[t].kind # "read"
    BY <2>2 DEF WaitingTo, Awake
  <2> QED BY <2>1, <2>2
<1>3. /\ WaitingTo("write")' # {} => Capacity - Len(values') <= Cardinality(Awake("write")')
  <2>1. CASE op[t].kind = "write"
    <3>1. Capacity - Len(values) <= 0 /\ Capacity - Len(values) \in Int
      BY <2>1, CapacityAssumption DEF Ready, CanWrite
    <3>2. Cardinality(Awake("write")') >= 0 /\ Cardinality(Awake("write")') \in Nat
      BY AwakeIsFiniteAfter
    <3> QED BY <3>1, <3>2
  <2>2. CASE op[t].kind # "write"
    BY <2>2 DEF WaitingTo, Awake
  <2> QED BY <2>1, <2>2
<1> QED BY <1>1, <1>2, <1>3

LEMMA ExpireKeepsWatch == ASSUME SleepersKept, NEW t \in Threads, Expire(t) PROVE SleepersKept'
<1>1. DOMAIN op' = Threads /\ \A u \in Threads \ {t} : op'[u] = op[u]
  BY DEF Expire, Return, SleepersKept
<1>2. \A k \in {"read", "write"} : Awake(k) \subseteq Awake(k)'
  BY <1>1 DEF Expire, Awake
<1> QED BY <1>1, <1>2, MoreAwake DEF Expire, SleepersKept

LEMMA RefusedKeepsWatch ==
  ASSUME SleepersKept, NEW t \in Threads, closed, Return(t), UNCHANGED <<values, waiting>>
  PROVE  SleepersKept'
BY NobodySleeps DEF Return, SleepersKept

LEMMA CallKeepsWatch ==
  ASSUME SleepersKept, NEW t \in Threads, NEW call, Call(t, call),
         UNCHANGED <<values, closed, waiting>>
  PROVE  SleepersKept'
<1>1. DOMAIN op' = Threads /\ \A u \in Threads \ {t} : op'[u] = op[u]
  BY DEF Call, SleepersKept
<1>2. t \notin waiting /\ op[t] = NoCall
  BY DEF Call, SleepersKept
<1>3. \A k \in {"read", "write"} : Awake(k) \subseteq Awake(k)'
  BY <1>1, <1>2 DEF Awake, NoCall
<1> QED BY <1>1, <1>2, <1>3, MoreAwake DEF SleepersKept

LEMMA StutterKeepsWatch == ASSUME SleepersKept, UNCHANGED queueVars PROVE SleepersKept'
BY DEF SleepersKept, queueVars, WaitingTo, Awake

LEMMA CloseKeepsWatch == ASSUME SleepersKept, Close PROVE SleepersKept'
BY NobodySleeps DEF Close, SleepersKept

LEMMA DestroyKeepsWatch == ASSUME SleepersKept, NEW gone, Destroy(gone) PROVE SleepersKept'
BY StutterKeepsWatch, CloseKeepsWatch DEF Destroy

LEMMA ProceedKeepsWatch ==
  ASSUME SleepersKept, QueueTyped, NEW t \in Threads, Proceed(t) \/ Expire(t)
  PROVE  SleepersKept'
<1>1. CASE Write(t)
  BY <1>1, WriteWakes DEF QueueTyped, Write
<1>2. CASE WriteRefused(t)
  BY <1>2, RefusedKeepsWatch DEF WriteRefused
<1>3. CASE ReadEnd(t)
  BY <1>3, RefusedKeepsWatch DEF ReadEnd, CanRead
<1> QED BY <1>1, <1>2, <1>3, ReadWakes, BlockKeepsWatch, ExpireKeepsWatch DEF Proceed

LEMMA NextKeepsWatch == ASSUME SleepersKept, IInv, [Next]_vars PROVE SleepersKept'
<1>1. ASSUME NEW c \in Consumers, Make(c) \/ AddConsumer(c) PROVE SleepersKept'
  <2>1. UNCHANGED queueVars \/ Destroy({c})
    BY <1>1 DEF Make, AddConsumer
  <2> QED BY <2>1, StutterKeepsWatch, DestroyKeepsWatch
<1>2. ASSUME NEW p \in Producers, Start(p) \/ Stop(p) \/ Run(p) PROVE SleepersKept'
  <2>0. p \in Threads
    BY ThreadsAssumption
  <2>1. CASE \/ Start(p) \/ Stop(p) \/ Consume(p) \/ CallTaker(p) \/ CallNotifier(p)
             \/ ExecHandler(p) \/ PutBack(p)
    <3>1. UNCHANGED queueVars
      BY <2>1 DEF Start, Stop, Consume, CallTaker, CallNotifier, ExecHandler, PutBack
    <3> QED BY <3>1, StutterKeepsWatch
  <2>2. CASE FinishRun(p)
    BY <2>2, DestroyKeepsWatch DEF FinishRun
  <2>3. CASE CallInput(p)
    BY <2>0, <2>3, CallKeepsWatch DEF CallInput
  <2>4. CASE InputAnswers(p)
    BY <2>0, <2>4, ProceedKeepsWatch, RefusedKeepsWatch DEF InputAnswers, Proceed, IInv
  <2> QED BY <1>2, <2>1, <2>2, <2>3, <2>4 DEF Run
<1>3. ASSUME NEW c \in Notifiers, Handle(c) \/ CloseNotifier(c) PROVE SleepersKept'
  <2>1. UNCHANGED queueVars
    BY <1>3 DEF Handle, CloseNotifier
  <2> QED BY <2>1, StutterKeepsWatch
<1>4. ASSUME CloseChan PROVE SleepersKept'
  BY <1>4, CloseKeepsWatch DEF CloseChan
<1>5. ASSUME NEW t \in Readers, Get(t) PROVE SleepersKept'
  <2>0. t \in Threads
    BY ThreadsAssumption
  <2>1. CASE Read(t) \/ Block(t) \/ ReadEnd(t)
    BY <2>0, <2>1, ProceedKeepsWatch DEF Proceed, IInv
  <2>2. CASE Call(t, ReadCall(FALSE)) /\ UNCHANGED <<values, closed, waiting>>
    BY <2>0, <2>2, CallKeepsWatch
  <2> QED BY <1>5, <2>1, <2>2 DEF Get
<1>6. ASSUME NEW t \in Clients, ClientCall(t) \/ ClientStep(t) PROVE SleepersKept'
  <2>0. t \in Threads
    BY ThreadsAssumption
  <2>1. CASE ClientStep(t)
    BY <2>0, <2>1, ProceedKeepsWatch DEF ClientStep, IInv
  <2>2. CASE ClientCall(t)
    BY <2>0, <2>2, CallKeepsWatch DEF ClientCall
  <2> QED BY <1>6, <2>1, <2>2
<1>7. CASE UNCHANGED vars
  <2>1. UNCHANGED queueVars
    BY <1>7 DEF vars
  <2> QED BY <2>1, StutterKeepsWatch
<1> QED BY <1>1, <1>2, <1>3, <1>4, <1>5, <1>6, <1>7 DEF Next

\* A thread that could read or write sleeps only if another was woken for the same,
\* or is on its way: no notify_one of ts-queue.h is lost or goes to the wrong thread,
\* whoever times out; and nobody sleeps on a closed queue.
THEOREM SleepersAreWoken == Spec => []NoSleeperForgotten
<1>1. Init => SleepersKept
  <2> SUFFICES ASSUME Init PROVE SleepersKept
    OBVIOUS
  <2>1. waiting = {} /\ DOMAIN op = Threads /\ values \in Seq(Data)
    BY DEF Init, InitWith, QueueInit
  <2> QED BY <2>1 DEF SleepersKept, WaitingTo
<1>2. SleepersKept => NoSleeperForgotten
  <2> SUFFICES ASSUME SleepersKept PROVE NoSleeperForgotten
    OBVIOUS
  <2>1. \A k \in {"read", "write"} : Cardinality(Awake(k)) # 0 => Awake(k) # {}
    BY FS_EmptySet
  <2>2. WaitingTo("read") # {} /\ values # <<>> => Awake("read") # {}
    BY <2>1, AwakeIsFinite DEF SleepersKept
  <2>3. WaitingTo("write") # {} /\ Len(values) < Capacity => Awake("write") # {}
    BY <2>1, AwakeIsFinite, CapacityAssumption DEF SleepersKept
  <2> QED BY <2>2, <2>3 DEF NoSleeperForgotten, SleepersKept, Awake
<1> QED BY <1>1, <1>2, InitEstablishesIInv, NextPreservesIInv, NextKeepsWatch, PTL DEF Spec

-----------------------------------------------------------------------------
\* A consumer c of the producer p that has been called with all values up to the
\* k-th, but for a notifier whose context is closed; a taker was not called yet.
UpTo(c, p, k) ==
  /\ c \in Consumers /\ home[c] = p /\ from[c] \in Nat \ {0}
  /\ c \notin Notifiers \/ ctxOpen[c] => Len(got[c]) = k + 1 - from[c]
  /\ c \in Takers => future[c] = "pending" /\ got[c] = <<>>

Calling == {"call", "write", "exec"}

\* The value that the consumer at n of the list in hand was called with last.
Reached(p, n) ==
  IF n < pos[p] \/ (n = pos[p] /\ pc[p] = "write") THEN produced[p] ELSE produced[p] - 1

Distinct(p) ==
  /\ \A m, n \in DOMAIN list[p] : list[p][m] = list[p][n] => m = n
  /\ \A m, n \in DOMAIN calling[p] : calling[p][m] = calling[p][n] => m = n
  /\ \A m \in DOMAIN list[p], n \in DOMAIN calling[p] : list[p][m] # calling[p][n]

\* The thread has a list in hand while it calls, and both lists have every
\* consumer once, with all values so far.
ListOK(p) ==
  /\ list[p] \in Seq(Consumers) /\ calling[p] \in Seq(Consumers)
  /\ pos[p] \in Nat /\ produced[p] \in Nat
  /\ IF pc[p] \in Calling THEN /\ pos[p] \in 1..(Len(calling[p]) + 1)
                               /\ pc[p] # "call" => pos[p] <= Len(calling[p])
                          ELSE calling[p] = <<>>
  /\ pc[p] = "write" => Current(p) \in Inputs
  /\ Distinct(p)
  /\ \A n \in DOMAIN list[p] : UpTo(list[p][n], p, produced[p])
  /\ \A n \in DOMAIN calling[p] : UpTo(calling[p][n], p, Reached(p, n))

Listed(c, p) == \/ \E n \in DOMAIN list[p] : list[p][n] = c
                \/ \E n \in DOMAIN calling[p] : calling[p][n] = c

\* What a consumer was called with, and how that goes with the future of a taker.
ConsumerOK(c) ==
  /\ from[c] \in Nat /\ got[c] \in Seq(Nat)
  /\ \A n \in DOMAIN got[c] : got[c][n] = from[c] + n - 1
  /\ from[c] = 0 => got[c] = <<>>
  /\ from[c] > 0 => c \in made
  /\ home[c] \in Producers \/ (home[c] = "none" /\ c \notin made)
  /\ c \in Takers =>
       /\ c \notin made => future[c] = "none"
       /\ c \in made /\ from[c] = 0 => future[c] = "pending"
       /\ future[c] = "value" => got[c] = <<from[c]>>
       /\ future[c] # "value" => got[c] = <<>>
       /\ future[c] = "pending" => from[c] = 0 \/ Listed(c, home[c])

Shapes ==
  /\ DOMAIN list = Producers /\ DOMAIN calling = Producers /\ DOMAIN pos = Producers
  /\ DOMAIN pc = Producers /\ DOMAIN produced = Producers
  /\ DOMAIN from = Consumers /\ DOMAIN got = Consumers /\ DOMAIN ctxOpen = Notifiers
  /\ DOMAIN future = Takers

ConsumersInv ==
  /\ Shapes /\ \A p \in Producers : ListOK(p)
  /\ \A c \in Consumers : ConsumerOK(c)

LEMMA ConsumersInvGives == ConsumersInv => SeesEveryValue /\ TakenOnce
<1> SUFFICES ASSUME ConsumersInv PROVE SeesEveryValue /\ TakenOnce
  OBVIOUS
<1>1. ASSUME NEW c \in Consumers, Attached(c)
      PROVE  /\ \A n \in DOMAIN got[c] : got[c][n] = from[c] + n - 1
             /\ c \in ToSet(list[home[c]]) /\ pc[home[c]] = "loop" /\ c \notin Notifiers =>
                  Len(got[c]) = produced[home[c]] + 1 - from[c]
  <2>1. ConsumerOK(c) /\ home[c] \in Producers
    BY <1>1 DEF ConsumersInv, ConsumerOK, Attached
  <2>2. ASSUME c \in ToSet(list[home[c]]), c \notin Notifiers
        PROVE  Len(got[c]) = produced[home[c]] + 1 - from[c]
    <3>1. ListOK(home[c])
      BY <2>1 DEF ConsumersInv
    <3>2. UpTo(c, home[c], produced[home[c]])
      BY <2>2, <3>1 DEF ListOK, ToSet
    <3> QED BY <2>2, <3>2 DEF UpTo
  <2> QED BY <2>1, <2>2 DEF ConsumerOK
<1>2. ASSUME NEW c \in Takers
      PROVE  /\ future[c] = "value" => got[c] = <<from[c]>>
             /\ future[c] = "cancelled" => got[c] = <<>>
             /\ future[c] = "pending" => ~Attached(c) \/ c \in Held(home[c])
  <2>1. ConsumerOK(c)
    BY DEF ConsumersInv, Consumers
  <2>2. Listed(c, home[c]) => c \in Held(home[c])
    BY DEF Listed, Held, ToSet
  <2> QED BY <2>1, <2>2 DEF ConsumerOK, Attached
<1> QED BY <1>1, <1>2 DEF SeesEveryValue, TakenOnce

LEMMA InitConsumers == Init => ConsumersInv
<1> SUFFICES ASSUME NEW s \in Scenarios, InitWith(s) PROVE ConsumersInv
  BY DEF Init
<1> USE DEF InitWith
<1>1. Shapes
  BY DEF Shapes
<1>2. ASSUME NEW p \in Producers PROVE ListOK(p)
  BY DEF ListOK, Calling, Distinct
<1>3. ASSUME NEW c \in Consumers PROVE ConsumerOK(c)
  <2>1. home[c] \in Producers \cup {"none"}
    BY ScenariosAssumption
  <2> QED BY <2>1 DEF ConsumerOK
<1> QED BY <1>1, <1>2, <1>3 DEF ConsumersInv

-----------------------------------------------------------------------------
\* What a step leaves as it is of the consumers that are not in X.
Touches(X) ==
  /\ home' = home
  /\ \A c \in Consumers \ X : /\ from'[c] = from[c] /\ got'[c] = got[c]
                              /\ c \in Notifiers /\ ctxOpen'[c] => ctxOpen[c]
                              /\ c \in Takers => future'[c] = future[c]

LEMMA UpToStays ==
  ASSUME NEW X, Touches(X), NEW c, c \notin X, NEW p, NEW k, UpTo(c, p, k)
  PROVE  UpTo(c, p, k)'
BY DEF Touches, UpTo

ListUnchanged(p) ==
  /\ list'[p] = list[p] /\ calling'[p] = calling[p] /\ pos'[p] = pos[p]
  /\ pc'[p] = pc[p] /\ produced'[p] = produced[p]

LEMMA ListStays ==
  ASSUME NEW p \in Producers, ListOK(p), ListUnchanged(p), NEW X, Touches(X),
         \A c \in X : ~Listed(c, p)
  PROVE  ListOK(p)'
<1>1. ASSUME NEW n \in DOMAIN list[p] PROVE UpTo(list[p][n], p, produced[p])'
  <2>1. PICK c : c = list[p][n]
    OBVIOUS
  <2>2. PICK k : k = produced[p]
    OBVIOUS
  <2>3. UpTo(c, p, k) /\ c \notin X
    BY <2>1, <2>2 DEF ListOK, Listed
  <2>4. UpTo(c, p, k)'
    BY <2>3, UpToStays
  <2>5. c = list'[p][n] /\ k = produced'[p]
    BY <2>1, <2>2 DEF ListUnchanged
  <2> QED BY <2>4, <2>5
<1>2. ASSUME NEW n \in DOMAIN calling[p] PROVE UpTo(calling[p][n], p, Reached(p, n))'
  <2>1. PICK c : c = calling[p][n]
    OBVIOUS
  <2>2. PICK k : k = Reached(p, n)
    OBVIOUS
  <2>3. UpTo(c, p, k) /\ c \notin X
    BY <2>1, <2>2 DEF ListOK, Listed
  <2>4. UpTo(c, p, k)'
    BY <2>3, UpToStays
  <2>5. c = calling'[p][n] /\ k = Reached(p, n)'
    BY <2>1, <2>2 DEF ListUnchanged, Reached
  <2> QED BY <2>4, <2>5
<1> QED BY <1>1, <1>2 DEF ListOK, ListUnchanged, Distinct, Current

\* The lists of another producer have none of the consumers of p.
LEMMA ListedAtHome ==
  ASSUME NEW p \in Producers, ListOK(p), NEW c, Listed(c, p)
  PROVE  c \in Consumers /\ home[c] = p /\ from[c] > 0
BY DEF ListOK, Listed, UpTo

LEMMA OtherListsStay ==
  ASSUME ConsumersInv, NEW p \in Producers, NEW X, Touches(X), \A c \in X : home[c] = p,
         \A q \in Producers \ {p} : ListUnchanged(q)
  PROVE  \A q \in Producers \ {p} : ListOK(q)'
<1> SUFFICES ASSUME NEW q \in Producers \ {p} PROVE ListOK(q)'
  OBVIOUS
<1>1. ListOK(q)
  BY DEF ConsumersInv
<1>2. \A c \in X : ~Listed(c, q)
  BY <1>1, ListedAtHome
<1> QED BY <1>1, <1>2, ListStays

LEMMA ConsumerStays ==
  ASSUME NEW X, Touches(X), NEW c \in Consumers \ X, ConsumerOK(c),
         c \in made' <=> c \in made,
         c \in made /\ Listed(c, home[c]) => Listed(c, home[c])'
  PROVE  ConsumerOK(c)'
<1>1. UNCHANGED <<home[c], from[c], got[c]>> /\ (c \in Takers => future'[c] = future[c])
  BY DEF Touches
<1> QED BY <1>1 DEF ConsumerOK
-----------------------------------------------------------------------------
\* The steps of the thread of a producer.
LEMMA RemoveAtIs ==
  ASSUME NEW S, NEW s \in Seq(S), NEW i \in 1..Len(s)
  PROVE  /\ RemoveAt(s, i) \in Seq(S) /\ DOMAIN RemoveAt(s, i) = 1..(Len(s) - 1)
         /\ Len(RemoveAt(s, i)) = Len(s) - 1
         /\ \A n \in 1..(Len(s) - 1) : RemoveAt(s, i)[n] = IF n < i THEN s[n] ELSE s[n + 1]
<1> DEFINE front == SubSeq(s, 1, i - 1)
           back == SubSeq(s, i + 1, Len(s))
<1>0. i \in Nat /\ Len(s) \in Nat /\ 1 <= i /\ i <= Len(s) /\ \A n \in 1..Len(s) : s[n] \in S
  OBVIOUS
<1>1. front \in Seq(S) /\ Len(front) = i - 1 /\ \A n \in 1..(i - 1) : front[n] = s[n]
  <2>1. \A n \in 1..(i - 1) : n \in 1..Len(s)
    BY <1>0
  <2>2. front \in Seq(S)
    BY <1>0, <2>1
  <2>3. Len(front) = i - 1
    BY <1>0
  <2>4. \A n \in 1..(i - 1) : front[n] = s[n]
    BY <1>0
  <2> QED BY <2>2, <2>3, <2>4
<1>2. back \in Seq(S) /\ Len(back) = Len(s) - i /\ \A n \in 1..(Len(s) - i) : back[n] = s[n + i]
  <2>1. \A n \in (i + 1)..Len(s) : n \in 1..Len(s)
    BY <1>0
  <2>2. back \in Seq(S)
    BY <1>0, <2>1
  <2>3. Len(back) = Len(s) - i
    BY <1>0
  <2>4. \A n \in 1..(Len(s) - i) : back[n] = s[n + i]
    BY <1>0
  <2> QED BY <2>2, <2>3, <2>4
<1>3. RemoveAt(s, i) = front \o back
  BY DEF RemoveAt
<1> HIDE DEF front, back
<1>4. PICK r : r = front \o back
  OBVIOUS
<1>5. r \in Seq(S) /\ Len(r) = Len(s) - 1 /\ DOMAIN r = 1..(Len(s) - 1) /\ i \in Nat /\ Len(s) \in Nat
  <2>f. front \in Seq(S) /\ back \in Seq(S)
    BY <1>1, <1>2
  <2>1. r \in Seq(S)
    BY <2>f, <1>4
  <2>2. Len(r) = Len(front) + Len(back)
    BY <2>f, <1>4
  <2>3. Len(r) = Len(s) - 1
    BY <1>0, <1>1, <1>2, <2>2
  <2>4. DOMAIN r = 1..Len(r)
    BY <2>1
  <2> QED BY <1>0, <2>1, <2>3, <2>4
<1>6. ASSUME NEW n \in 1..(Len(s) - 1) PROVE r[n] = IF n < i THEN s[n] ELSE s[n + 1]
  <2>1. CASE n < i
    <3>1. n \in 1..Len(front) /\ front[n] = s[n]
      BY <1>1, <1>5, <2>1
    <3>2. r[n] = front[n]
      BY <1>1, <1>2, <1>4, <3>1
    <3> QED BY <2>1, <3>1, <3>2
  <2>2. CASE ~(n < i)
    <3>1. n - (i - 1) \in 1..(Len(s) - i) /\ n - (i - 1) + i = n + 1
      BY <1>5, <2>2
    <3>2. r[n] = back[n - (i - 1)]
      BY <1>1, <1>2, <1>4, <1>5, <2>2
    <3>3. back[n - (i - 1)] = s[n - (i - 1) + i]
      BY <1>2, <3>1
    <3> QED BY <2>2, <3>1, <3>2, <3>3
  <2> QED BY <2>1, <2>2
<1> QED BY <1>3, <1>4, <1>5, <1>6

\* The consumer that is called is erased.
LEMMA EraseKeepsList ==
  ASSUME NEW p \in Producers, ListOK(p), pc[p] \in Calling, pos[p] <= Len(calling[p]),
         NEW c, c = Current(p), NEW X, X = {c}, Touches(X),
         list'[p] = list[p], produced'[p] = produced[p], pos'[p] = pos[p], pc'[p] = "call",
         calling'[p] = RemoveAt(calling[p], pos[p])
  PROVE  ListOK(p)' /\ \A d : d # c => (Listed(d, p) => Listed(d, p)')
<1> DEFINE old(n) == IF n < pos[p] THEN n ELSE n + 1
<1>l. /\ list[p] \in Seq(Consumers) /\ calling[p] \in Seq(Consumers)
      /\ pos[p] \in 1..Len(calling[p]) /\ produced[p] \in Nat /\ Distinct(p)
      /\ DOMAIN calling[p] = 1..Len(calling[p])
  BY DEF ListOK
<1>r. /\ calling'[p] \in Seq(Consumers) /\ Len(calling'[p]) = Len(calling[p]) - 1
      /\ DOMAIN calling'[p] = 1..(Len(calling[p]) - 1)
      /\ \A n \in DOMAIN calling'[p] : calling'[p][n] = calling[p][old(n)]
  <2> DEFINE s == calling[p]
             r == RemoveAt(s, pos[p])
  <2>1. s \in Seq(Consumers) /\ pos[p] \in 1..Len(s)
    BY <1>l
  <2> HIDE DEF s
  <2>2. /\ r \in Seq(Consumers) /\ DOMAIN r = 1..(Len(s) - 1) /\ Len(r) = Len(s) - 1
        /\ \A n \in 1..(Len(s) - 1) : r[n] = IF n < pos[p] THEN s[n] ELSE s[n + 1]
    BY <2>1, RemoveAtIs
  <2>3. calling'[p] = r
    BY DEF s
  <2> HIDE DEF r
  <2> QED BY <2>2, <2>3 DEF s
<1>o. \A n \in DOMAIN calling'[p] : old(n) \in DOMAIN calling[p] /\ old(n) # pos[p]
  BY <1>l, <1>r
<1>i. \A m, n \in DOMAIN calling'[p] : old(m) = old(n) => m = n
  BY <1>l, <1>r
<1>d. Distinct(p)'
  <2>1. \A m, n \in DOMAIN calling'[p] : calling'[p][m] = calling'[p][n] => m = n
    <3> HIDE DEF old
    <3> QED BY <1>l, <1>r, <1>o, <1>i DEF Distinct
  <2>2. \A m \in DOMAIN list[p], n \in DOMAIN calling'[p] : list[p][m] # calling'[p][n]
    <3> HIDE DEF old
    <3> QED BY <1>l, <1>r, <1>o DEF Distinct
  <2> QED BY <1>l, <2>1, <2>2 DEF Distinct
<1>1. ASSUME NEW n \in DOMAIN list[p] PROVE UpTo(list[p][n], p, produced[p])'
  <2>1. PICK d : d = list[p][n]
    OBVIOUS
  <2>2. PICK k : k = produced[p]
    OBVIOUS
  <2>3. UpTo(d, p, k) /\ d # c /\ d \notin X
    BY <1>l, <2>1, <2>2 DEF ListOK, Distinct, Current
  <2>4. UpTo(d, p, k)'
    BY <2>3, UpToStays
  <2> QED BY <2>1, <2>2, <2>4
<1>2. ASSUME NEW n \in DOMAIN calling'[p] PROVE UpTo(calling[p][n], p, Reached(p, n))'
  <2>1. PICK d : d = calling[p][old(n)]
    OBVIOUS
  <2>2. PICK k : k = Reached(p, old(n))
    OBVIOUS
  <2>3. UpTo(d, p, k) /\ d # c /\ d \notin X
    <3> HIDE DEF old
    <3> QED BY <1>l, <1>o, <2>1, <2>2 DEF ListOK, Distinct, Current
  <2>4. UpTo(d, p, k)'
    BY <2>3, UpToStays
  <2>5. k = Reached(p, n)'
    BY <1>l, <1>r, <2>2 DEF Reached
  <2> QED BY <1>r, <2>1, <2>4, <2>5
<1>3. ASSUME NEW d, d # c, Listed(d, p) PROVE Listed(d, p)'
  <2>1. CASE \E n \in DOMAIN list[p] : list[p][n] = d
    BY <2>1 DEF Listed
  <2>2. ASSUME NEW m \in DOMAIN calling[p], calling[p][m] = d PROVE Listed(d, p)'
    <3>1. m # pos[p] /\ m \in 1..Len(calling[p])
      BY <1>l, <1>3, <2>2 DEF Current
    <3>2. CASE m < pos[p]
      <4>1. m \in DOMAIN calling'[p] /\ calling'[p][m] = calling[p][m]
        BY <1>l, <1>r, <3>1, <3>2
      <4> QED BY <2>2, <4>1 DEF Listed
    <3>3. CASE m > pos[p]
      <4>1. m - 1 \in 1..(Len(calling[p]) - 1) /\ ~(m - 1 < pos[p]) /\ m - 1 + 1 = m
        BY <1>l, <3>1, <3>3
      <4>2. m - 1 \in DOMAIN calling'[p] /\ calling'[p][m - 1] = calling[p][m]
        BY <1>r, <4>1
      <4> QED BY <2>2, <4>2 DEF Listed
    <3> QED BY <1>l, <3>1, <3>2, <3>3
  <2> QED BY <1>3, <2>1, <2>2 DEF Listed
<1>4. pos'[p] \in 1..(Len(calling'[p]) + 1)
  BY <1>l, <1>r
<1> QED BY <1>l, <1>r, <1>d, <1>1, <1>2, <1>3, <1>4 DEF ListOK, Calling

\* The consumer that is called has the value now: its answer is awaited, or the
\* next one is called.
LEMMA ServedKeepsList ==
  ASSUME NEW p \in Producers, ListOK(p), pc[p] \in Calling, pos[p] <= Len(calling[p]),
         NEW c, c = Current(p), NEW X, X = {c}, Touches(X),
         list'[p] = list[p], produced'[p] = produced[p], calling'[p] = calling[p],
         \/ pos'[p] = pos[p] + 1 /\ pc'[p] = "call"
         \/ pos'[p] = pos[p] /\ pc'[p] = "write" /\ c \in Inputs,
         NEW v, v = produced[p], UpTo(c, p, v)'
  PROVE  ListOK(p)'
<1>l. /\ list[p] \in Seq(Consumers) /\ calling[p] \in Seq(Consumers)
      /\ pos[p] \in 1..Len(calling[p]) /\ produced[p] \in Nat /\ Distinct(p)
      /\ DOMAIN calling[p] = 1..Len(calling[p])
  BY DEF ListOK
<1>1. ASSUME NEW n \in DOMAIN list[p] PROVE UpTo(list[p][n], p, produced[p])'
  <2>1. PICK d : d = list[p][n]
    OBVIOUS
  <2>3. UpTo(d, p, v) /\ d # c /\ d \notin X
    BY <1>l, <2>1 DEF ListOK, Distinct, Current
  <2>4. UpTo(d, p, v)'
    BY <2>3, UpToStays
  <2> QED BY <2>1, <2>4
<1>2. ASSUME NEW n \in DOMAIN calling[p] PROVE UpTo(calling[p][n], p, Reached(p, n))'
  <2>1. PICK d : d = calling[p][n]
    OBVIOUS
  <2>2. PICK k : k = Reached(p, n)
    OBVIOUS
  <2>3. CASE n = pos[p]
    <3>1. d = c /\ Reached(p, n)' = v
      BY <1>l, <2>1, <2>3 DEF Current, Reached
    <3> QED BY <2>1, <3>1
  <2>4. CASE n # pos[p]
    <3>1. UpTo(d, p, k) /\ d # c /\ d \notin X
      BY <1>l, <2>1, <2>2, <2>4 DEF ListOK, Distinct, Current
    <3>2. UpTo(d, p, k)'
      BY <3>1, UpToStays
    <3>3. k = Reached(p, n)'
      BY <1>l, <2>2, <2>4 DEF Reached
    <3> QED BY <2>1, <3>2, <3>3
  <2> QED BY <2>3, <2>4
<1>3. Distinct(p)'
  BY <1>l DEF Distinct
<1>4. /\ pos'[p] \in 1..(Len(calling[p]) + 1) /\ pc'[p] \in Calling
      /\ pc'[p] # "call" => pos'[p] <= Len(calling[p])
  BY <1>l DEF Calling
<1>5. pc'[p] = "write" => Current(p)' \in Inputs
  BY DEF Current
<1> QED BY <1>l, <1>1, <1>2, <1>3, <1>4, <1>5 DEF ListOK
LEMMA ListsFollow ==
  ASSUME ConsumersInv, NEW p \in Producers, ListOK(p)', NEW X, Touches(X), \A c \in X : home[c] = p,
         \A q \in Producers \ {p} : ListUnchanged(q)
  PROVE  \A q \in Producers : ListOK(q)'
BY OtherListsStay

\* Only consumers of p changed, those in X.
LEMMA ConsumersFollow ==
  ASSUME ConsumersInv, NEW p \in Producers, NEW X, Touches(X), UNCHANGED made,
         \A q \in Producers \ {p} : ListUnchanged(q),
         \A d \in Consumers \ X : Listed(d, p) => Listed(d, p)',
         \A c \in X : ConsumerOK(c)'
  PROVE  \A c \in Consumers : ConsumerOK(c)'
<1> SUFFICES ASSUME NEW c \in Consumers \ X PROVE ConsumerOK(c)'
  OBVIOUS
<1>1. ConsumerOK(c)
  BY DEF ConsumersInv
<1>2. PICK q : q = home[c]
  OBVIOUS
<1>3. ASSUME c \in made, Listed(c, q) PROVE Listed(c, q)'
  <2>1. CASE q \in Producers \ {p}
    BY <1>3, <2>1 DEF ListUnchanged, Listed
  <2>2. CASE q = p
    BY <1>3, <2>2
  <2> QED BY <1>1, <1>2, <1>3, <2>1, <2>2 DEF ConsumerOK
<1>4. q = home'[c]
  BY <1>2 DEF Touches
<1> QED BY <1>1, <1>2, <1>3, <1>4, ConsumerStays

LEMMA NextValue ==
  ASSUME NEW f \in Nat, NEW g \in Seq(Nat), \A n \in DOMAIN g : g[n] = f + n - 1
  PROVE  /\ Append(g, f + Len(g)) \in Seq(Nat)
         /\ \A n \in DOMAIN Append(g, f + Len(g)) : Append(g, f + Len(g))[n] = f + n - 1
OBVIOUS

LEMMA CallTakerKeeps == ASSUME ConsumersInv, NEW p \in Producers, CallTaker(p) PROVE ConsumersInv'
<1> USE DEF CallTaker, AtConsumer, Erase, Received, notifierVars
<1>1. PICK c : c = Current(p)
  OBVIOUS
<1>2. PICK X : X = {c}
  OBVIOUS
<1>s. Shapes /\ ListOK(p)
  BY DEF ConsumersInv
<1>t. c \in Takers /\ c \in Consumers /\ c \notin Inputs /\ c \notin Notifiers
  BY <1>1, KindsAssumption DEF Consumers
<1>3. Touches(X)
  BY <1>1, <1>2, <1>s DEF Touches, Shapes
<1>4. \A q \in Producers \ {p} : ListUnchanged(q)
  BY <1>s DEF ListUnchanged, Shapes
<1>5. /\ list'[p] = list[p] /\ produced'[p] = produced[p] /\ pos'[p] = pos[p] /\ pc'[p] = "call"
      /\ calling'[p] = RemoveAt(calling[p], pos[p])
  BY <1>s DEF Shapes
<1>6. ListOK(p)' /\ \A d : d # c => (Listed(d, p) => Listed(d, p)')
  <2>1. pc[p] \in Calling /\ pos[p] <= Len(calling[p])
    BY DEF Calling
  <2> QED BY <1>1, <1>2, <1>s, <1>3, <1>5, <2>1, EraseKeepsList
<1>7. ConsumerOK(c)'
  <2>1. ConsumerOK(c)
    BY <1>t DEF ConsumersInv
  <2>2. UpTo(c, p, produced[p] - 1) /\ produced[p] \in Nat
    BY <1>1, <1>s DEF ListOK, Calling, Reached, Current
  <2>3. got[c] = <<>> /\ from[c] = produced[p] /\ c \in made
    BY <1>t, <2>1, <2>2 DEF UpTo, ConsumerOK
  <2>4. got'[c] = <<from[c]>> /\ future'[c] = "value"
    BY <1>1, <1>s, <1>t, <2>3 DEF Shapes
  <2>5. UNCHANGED <<from[c], home[c], made>>
    OBVIOUS
  <2>6. from[c] \in Nat /\ from[c] # 0
    BY <2>1, <2>2 DEF ConsumerOK, UpTo
  <2>7. got'[c] \in Seq(Nat) /\ \A n \in DOMAIN got'[c] : got'[c][n] = from[c] + n - 1
    <3>1. ASSUME NEW f \in Nat
          PROVE  <<f>> \in Seq(Nat) /\ \A n \in DOMAIN <<f>> : <<f>>[n] = f + n - 1
      OBVIOUS
    <3> QED BY ONLY <2>4, <2>6, <3>1
  <2>8. c \in Takers /\ home[c] \in Producers
    BY <1>t, <2>1, <2>3 DEF ConsumerOK
  <2> QED BY <2>3, <2>4, <2>5, <2>6, <2>7, <2>8 DEF ConsumerOK
<1>8. Shapes'
  BY <1>s DEF Shapes
<1>9. \A x \in X : home[x] = p
  BY <1>1, <1>2, <1>s DEF ListOK, UpTo, Calling, Current
<1>10. \A q \in Producers : ListOK(q)'
  BY <1>3, <1>4, <1>6, <1>9, ListsFollow
<1>11. \A d \in Consumers : ConsumerOK(d)'
  <2>1. UNCHANGED made
    OBVIOUS
  <2>2. \A d \in Consumers \ X : Listed(d, p) => Listed(d, p)'
    BY <1>2, <1>6
  <2>3. \A d \in X : ConsumerOK(d)'
    BY <1>2, <1>7
  <2> QED BY <1>3, <1>4, <2>1, <2>2, <2>3, ConsumersFollow
<1> QED BY <1>8, <1>10, <1>11 DEF ConsumersInv

\* An input or a notifier gets the next value.
LEMMA ReceivedKeeps ==
  ASSUME NEW c \in Consumers \ Takers, ConsumerOK(c), from[c] > 0,
         UNCHANGED <<from[c], home[c], made>>,
         got'[c] = Append(got[c], from[c] + Len(got[c]))
  PROVE  ConsumerOK(c)'
<1>1. from[c] \in Nat /\ got[c] \in Seq(Nat) /\ \A n \in DOMAIN got[c] : got[c][n] = from[c] + n - 1
  BY DEF ConsumerOK
<1>2. PICK f \in Nat, g \in Seq(Nat) : f = from[c] /\ g = got[c]
  BY <1>1
<1>3. /\ Append(g, f + Len(g)) \in Seq(Nat)
      /\ \A n \in DOMAIN Append(g, f + Len(g)) : Append(g, f + Len(g))[n] = f + n - 1
  BY <1>1, <1>2, NextValue
<1>4. got'[c] \in Seq(Nat) /\ \A n \in DOMAIN got'[c] : got'[c][n] = from'[c] + n - 1
  BY <1>2, <1>3
<1> QED BY <1>1, <1>4 DEF ConsumerOK

LEMMA CallInputKeeps == ASSUME ConsumersInv, NEW p \in Producers, CallInput(p) PROVE ConsumersInv'
<1>1. PICK c : c = Current(p)
  OBVIOUS
<1>2. PICK X : X = {c}
  OBVIOUS
<1>s. Shapes /\ ListOK(p)
  BY DEF ConsumersInv
<1>t. c \in Inputs /\ c \in Consumers /\ c \notin Takers /\ c \notin Notifiers
  BY <1>1, KindsAssumption DEF Consumers, CallInput, AtConsumer
<1>3. Touches(X)
  <2>1. /\ got' = [got EXCEPT ![c] = Append(@, produced[p])]
        /\ home' = home /\ from' = from /\ future' = future /\ ctxOpen' = ctxOpen
    BY <1>1 DEF CallInput, Received, notifierVars
  <2>2. \A d \in Consumers \ X : got'[d] = got[d]
    BY <1>2, <1>s, <2>1 DEF Shapes
  <2> QED BY <2>1, <2>2 DEF Touches
<1>r. /\ pc' = [pc EXCEPT ![p] = "write"] /\ got' = [got EXCEPT ![c] = Append(@, produced[p])]
      /\ UNCHANGED <<list, produced, pos, calling, from, home, made>>
      /\ pc[p] = "call" /\ pos[p] <= Len(calling[p])
  BY <1>1 DEF CallInput, AtConsumer, Received
<1>4. \A q \in Producers \ {p} : ListUnchanged(q)
  BY <1>s, <1>r DEF ListUnchanged, Shapes
<1>5. /\ list'[p] = list[p] /\ produced'[p] = produced[p] /\ pos'[p] = pos[p] /\ pc'[p] = "write"
      /\ calling'[p] = calling[p] /\ got'[c] = Append(got[c], produced[p])
      /\ UNCHANGED <<from[c], home[c], made>>
      /\ pc[p] = "call" /\ pos[p] <= Len(calling[p])
  <2>1. pc'[p] = "write"
    BY <1>s, <1>r DEF Shapes
  <2>2. got'[c] = Append(got[c], produced[p])
    BY <1>s, <1>t, <1>r DEF Shapes
  <2>3. list'[p] = list[p] /\ produced'[p] = produced[p] /\ pos'[p] = pos[p] /\ calling'[p] = calling[p]
    BY <1>r
  <2>4. UNCHANGED <<from[c], home[c], made>>
    BY <1>r
  <2> QED BY <1>r, <2>1, <2>2, <2>3, <2>4
<1>c. ConsumerOK(c)
  BY <1>t DEF ConsumersInv
<1>u. UpTo(c, p, produced[p] - 1) /\ produced[p] \in Nat
  <2>1. /\ calling[p] \in Seq(Consumers) /\ pos[p] \in 1..(Len(calling[p]) + 1) /\ produced[p] \in Nat
        /\ \A n \in DOMAIN calling[p] : UpTo(calling[p][n], p, Reached(p, n))
    BY <1>s, <1>5 DEF ListOK, Calling
  <2>2. pos[p] \in DOMAIN calling[p]
    BY <1>5, <2>1
  <2>3. Reached(p, pos[p]) = produced[p] - 1
    BY <1>5, <2>1 DEF Reached
  <2> QED BY <1>1, <2>1, <2>2, <2>3 DEF Current
<1>v. /\ from[c] \in Nat \ {0} /\ got[c] \in Seq(Nat) /\ Len(got[c]) \in Nat
      /\ Len(got[c]) = produced[p] - 1 + 1 - from[c]
  BY <1>t, <1>c, <1>u DEF UpTo, ConsumerOK
<1>w. produced[p] = from[c] + Len(got[c])
  BY <1>u, <1>v
<1>6. ListOK(p)'
  <2>1. pc[p] \in Calling /\ pos[p] <= Len(calling[p])
    BY <1>5 DEF Calling
  <2>2. PICK v : v = produced[p]
    OBVIOUS
  <2>3. Len(got'[c]) = v + 1 - from[c]
    BY <1>5, <1>u, <1>v, <2>2
  <2>4. UpTo(c, p, v)'
    BY <1>t, <1>u, <1>5, <2>3 DEF UpTo
  <2> QED BY <1>1, <1>2, <1>s, <1>t, <1>3, <1>5, <2>1, <2>2, <2>4, ServedKeepsList
<1>7. ConsumerOK(c)'
  <2>1. got'[c] = Append(got[c], from[c] + Len(got[c]))
    BY <1>5, <1>w
  <2>2. from[c] > 0
    BY <1>v
  <2> QED BY <1>t, <1>c, <1>5, <2>1, <2>2, ReceivedKeeps
<1>8. Shapes'
  BY <1>s DEF Shapes, CallInput, AtConsumer, Received, notifierVars
<1>9. \A x \in X : home[x] = p
  BY <1>2, <1>u DEF UpTo
<1>10. \A q \in Producers : ListOK(q)'
  BY <1>3, <1>4, <1>6, <1>9, ListsFollow
<1>11. \A d \in Consumers : ConsumerOK(d)'
  <2>1. UNCHANGED made
    BY <1>5
  <2>2. \A d \in Consumers \ X : Listed(d, p) => Listed(d, p)'
    BY <1>5 DEF Listed
  <2>3. \A d \in X : ConsumerOK(d)'
    BY <1>2, <1>7
  <2> QED BY <1>3, <1>4, <2>1, <2>2, <2>3, ConsumersFollow
<1> QED BY <1>8, <1>10, <1>11 DEF ConsumersInv

\* A step of the thread of p that changes no consumer outside X, and X is its own.
LEMMA ThreadStep ==
  ASSUME ConsumersInv, NEW p \in Producers, Shapes', UNCHANGED made,
         NEW X, Touches(X), \A c \in X : home[c] = p,
         \A q \in Producers \ {p} : ListUnchanged(q), ListOK(p)',
         \A d \in Consumers \ X : Listed(d, p) => Listed(d, p)',
         \A c \in X : ConsumerOK(c)'
  PROVE  ConsumersInv'
BY ListsFollow, ConsumersFollow DEF ConsumersInv

cview == <<pc, produced, list, calling, pos, home, made, from, got, future, ctxOpen>>

LEMMA ViewUnchanged == ConsumersInv /\ UNCHANGED cview => ConsumersInv'
<1> SUFFICES ASSUME ConsumersInv, UNCHANGED cview PROVE ConsumersInv'
  OBVIOUS
<1>1. PICK X : X = {}
  OBVIOUS
<1>2. Touches(X)
  BY DEF cview, Touches
<1>3. \A p \in Producers : ListOK(p)'
  <2> SUFFICES ASSUME NEW p \in Producers PROVE ListOK(p)'
    OBVIOUS
  <2>1. ListOK(p) /\ ListUnchanged(p)
    BY DEF ConsumersInv, cview, ListUnchanged
  <2> QED BY <1>1, <1>2, <2>1, ListStays
<1>4. \A c \in Consumers : ConsumerOK(c)'
  BY DEF ConsumersInv, cview, ConsumerOK, Listed
<1> QED BY <1>3, <1>4 DEF ConsumersInv, cview, Shapes

\* Who is called now, and with which values so far.
LEMMA CalledNow ==
  ASSUME ConsumersInv, NEW p \in Producers, pc[p] \in Calling, pos[p] <= Len(calling[p]),
         NEW c, c = Current(p)
  PROVE  /\ Shapes /\ ListOK(p) /\ c \in Consumers /\ home[c] = p /\ c \in made
         /\ ConsumerOK(c) /\ from[c] \in Nat \ {0} /\ produced[p] \in Nat
         /\ UpTo(c, p, IF pc[p] = "write" THEN produced[p] ELSE produced[p] - 1)
<1>1. ListOK(p) /\ Shapes
  BY DEF ConsumersInv
<1>2. UpTo(c, p, IF pc[p] = "write" THEN produced[p] ELSE produced[p] - 1) /\ produced[p] \in Nat
  BY <1>1 DEF ListOK, Reached, Current
<1>3. c \in Consumers /\ home[c] = p /\ from[c] \in Nat \ {0}
  BY <1>2 DEF UpTo
<1>4. ConsumerOK(c)
  BY <1>3 DEF ConsumersInv
<1> QED BY <1>1, <1>2, <1>3, <1>4 DEF ConsumerOK

LEMMA EraseKeeps ==
  ASSUME ConsumersInv, NEW p \in Producers, pc[p] \in Calling, pos[p] <= Len(calling[p]),
         Current(p) \notin Takers, Erase(p),
         UNCHANGED <<produced, list, home, made, from, got, future, ctxOpen>>
  PROVE  ConsumersInv'
<1>1. PICK c : c = Current(p)
  OBVIOUS
<1>2. PICK X : X = {c}
  OBVIOUS
<1>s. /\ Shapes /\ ListOK(p) /\ c \in Consumers /\ home[c] = p /\ ConsumerOK(c)
  BY <1>1, CalledNow
<1>3. Touches(X)
  BY DEF Touches
<1>4. \A q \in Producers \ {p} : ListUnchanged(q)
  BY <1>s DEF ListUnchanged, Shapes, Erase
<1>5. /\ list'[p] = list[p] /\ produced'[p] = produced[p] /\ pos'[p] = pos[p] /\ pc'[p] = "call"
      /\ calling'[p] = RemoveAt(calling[p], pos[p])
  BY <1>s DEF Shapes, Erase
<1>6. ListOK(p)' /\ \A d : d # c => (Listed(d, p) => Listed(d, p)')
  BY <1>1, <1>2, <1>s, <1>3, <1>5, EraseKeepsList
<1>7. \A x \in X : ConsumerOK(x)'
  BY <1>1, <1>2, <1>s DEF ConsumerOK
<1>8. Shapes'
  BY <1>s DEF Shapes, Erase
<1> QED BY <1>2, <1>s, <1>3, <1>4, <1>6, <1>7, <1>8, ThreadStep

\* The consumer answered Ok; it may have been called in this step.
LEMMA GoOnKeeps ==
  ASSUME ConsumersInv, NEW p \in Producers, pc[p] \in Calling, pos[p] <= Len(calling[p]),
         NEW c, c = Current(p), c \notin Takers, GoOn(p), NEW X, X = {c}, Touches(X),
         UNCHANGED <<produced, list, home, made, from, future, ctxOpen>>, DOMAIN got' = Consumers,
         NEW v, v = produced[p], UpTo(c, p, v)', ConsumerOK(c)'
  PROVE  ConsumersInv'
<1>s. /\ Shapes /\ ListOK(p) /\ c \in Consumers /\ home[c] = p /\ ConsumerOK(c)
  BY CalledNow
<1>4. \A q \in Producers \ {p} : ListUnchanged(q)
  BY <1>s DEF ListUnchanged, Shapes, GoOn
<1>5. /\ list'[p] = list[p] /\ produced'[p] = produced[p] /\ pos'[p] = pos[p] + 1 /\ pc'[p] = "call"
      /\ calling'[p] = calling[p]
  BY <1>s DEF Shapes, GoOn
<1>6. ListOK(p)'
  BY <1>s, <1>5, ServedKeepsList
<1>7. \A d \in Consumers \ X : Listed(d, p) => Listed(d, p)'
  BY <1>5 DEF Listed
<1>8. Shapes'
  BY <1>s DEF Shapes, GoOn
<1> QED BY <1>s, <1>4, <1>6, <1>7, <1>8, ThreadStep

LEMMA InputAnswersKeeps ==
  ASSUME ConsumersInv, NEW p \in Producers, InputAnswers(p) PROVE ConsumersInv'
<1>1. PICK c : c = Current(p)
  OBVIOUS
<1>2. /\ pc[p] = "write" /\ pc[p] \in Calling /\ pos[p] <= Len(calling[p]) /\ c \in Inputs
      /\ UNCHANGED <<produced, list, home, made, from, got, future, ctxOpen>>
  BY <1>1 DEF InputAnswers, Calling, notifierVars, ConsumersInv, ListOK
<1>3. c \notin Takers /\ c \notin Notifiers
  BY <1>2, KindsAssumption
<1>4. CASE Write(p) /\ GoOn(p)
  <2>1. PICK X : X = {c}
    OBVIOUS
  <2>2. PICK v : v = produced[p]
    OBVIOUS
  <2>3. Touches(X)
    BY <1>2 DEF Touches
  <2>4. UpTo(c, p, v) /\ ConsumerOK(c) /\ Shapes
    BY <1>1, <1>2, <2>2, CalledNow
  <2>5. UpTo(c, p, v)' /\ ConsumerOK(c)' /\ DOMAIN got' = Consumers
    BY <1>2, <1>3, <2>4 DEF UpTo, ConsumerOK, Shapes
  <2> QED BY <1>1, <1>2, <1>3, <1>4, <2>1, <2>2, <2>3, <2>5, GoOnKeeps
<1>5. CASE Block(p) /\ UNCHANGED <<pc, calling, pos>>
  BY <1>2, <1>5, ViewUnchanged DEF cview
<1>6. CASE Erase(p)
  BY <1>1, <1>2, <1>3, <1>6, EraseKeeps
<1> QED BY <1>4, <1>5, <1>6 DEF InputAnswers

LEMMA CallNotifierKeeps ==
  ASSUME ConsumersInv, NEW p \in Producers, CallNotifier(p) PROVE ConsumersInv'
<1>1. PICK c : c = Current(p)
  OBVIOUS
<1>2. /\ pc[p] = "call" /\ pc[p] \in Calling /\ pos[p] <= Len(calling[p]) /\ c \in Notifiers
      /\ UNCHANGED <<produced, list, home, made, from, got, future, ctxOpen>>
  BY <1>1 DEF CallNotifier, AtConsumer, Calling, consumerVars, notifierVars
<1>3. c \notin Takers
  BY <1>2, KindsAssumption
<1>4. CASE Erase(p)
  BY <1>1, <1>2, <1>3, <1>4, EraseKeeps
<1>5. CASE pc' = [pc EXCEPT ![p] = "exec"] /\ UNCHANGED <<calling, pos>>
  <2>s. Shapes /\ ListOK(p)
    BY <1>1, <1>2, CalledNow
  <2>1. \A q \in Producers \ {p} : ListUnchanged(q)
    BY <1>2, <1>5, <2>s DEF Shapes, ListUnchanged
  <2>2. Touches({})
    BY <1>2 DEF Touches
  <2>3. pc'[p] = "exec"
    BY <1>5, <2>s DEF Shapes
  <2>4. ListOK(p)'
    <3>1. \A n \in DOMAIN calling[p] : Reached(p, n)' = Reached(p, n)
      BY <1>2, <1>5, <2>3 DEF Reached
    <3>2. \A d, k : UpTo(d, p, k) => UpTo(d, p, k)'
      BY <1>2 DEF UpTo
    <3>3. \A n \in DOMAIN calling[p] : UpTo(calling[p][n], p, Reached(p, n))'
      <4> SUFFICES ASSUME NEW n \in DOMAIN calling[p] PROVE UpTo(calling[p][n], p, Reached(p, n))'
        BY <1>5
      <4>1. PICK d, k : d = calling[p][n] /\ k = Reached(p, n)
        OBVIOUS
      <4>2. UpTo(d, p, k)'
        BY <2>s, <3>2, <4>1 DEF ListOK
      <4> QED BY <1>5, <3>1, <4>1, <4>2
    <3>4. \A n \in DOMAIN list[p] : UpTo(list[p][n], p, produced[p])'
      <4> SUFFICES ASSUME NEW n \in DOMAIN list[p] PROVE UpTo(list[p][n], p, produced[p])'
        BY <1>2
      <4>1. PICK d, k : d = list[p][n] /\ k = produced[p]
        OBVIOUS
      <4>2. UpTo(d, p, k)'
        BY <2>s, <3>2, <4>1 DEF ListOK
      <4> QED BY <1>2, <4>1, <4>2
    <3>5. pc[p] # "write" /\ pc'[p] \in Calling /\ pc'[p] # "write"
      BY <1>2, <2>3 DEF Calling
    <3> QED BY <1>2, <1>5, <2>s, <3>3, <3>4, <3>5 DEF ListOK, Distinct
  <2>5. \A d \in Consumers \ {} : Listed(d, p) => Listed(d, p)'
    BY <1>2, <1>5 DEF Listed
  <2>6. Shapes'
    BY <1>2, <1>5, <2>s DEF Shapes
  <2>7. PICK X : X = {}
    OBVIOUS
  <2> QED BY <1>2, <2>1, <2>2, <2>4, <2>5, <2>6, <2>7, ThreadStep
<1> QED BY <1>4, <1>5 DEF CallNotifier

LEMMA ExecHandlerKeeps ==
  ASSUME ConsumersInv, NEW p \in Producers, ExecHandler(p) PROVE ConsumersInv'
<1>1. PICK c : c = Current(p)
  OBVIOUS
<1>x. PICK X : X = {c}
  OBVIOUS
<1>v. PICK v : v = produced[p]
  OBVIOUS
<1>2. /\ pc[p] = "exec" /\ pc[p] \in Calling /\ pos[p] <= Len(calling[p]) /\ c \in Notifiers
      /\ UNCHANGED <<produced, list, home, made, from, future, ctxOpen>> /\ GoOn(p)
  BY <1>1 DEF ExecHandler, AtConsumer, Calling
<1>3. c \notin Takers
  BY <1>2, KindsAssumption
<1>4. /\ Shapes /\ c \in Consumers /\ home[c] = p /\ ConsumerOK(c)
      /\ from[c] \in Nat \ {0} /\ v \in Nat /\ UpTo(c, p, v - 1)
  BY <1>1, <1>v, <1>2, CalledNow
<1>5. CASE ctxOpen[c]
  <2>1. got' = [got EXCEPT ![c] = Append(@, v)]
    BY <1>1, <1>v, <1>5 DEF ExecHandler, Received
  <2>2. got[c] \in Seq(Nat) /\ Len(got[c]) \in Nat /\ Len(got[c]) = v - 1 + 1 - from[c]
    BY <1>4, <1>5 DEF UpTo, ConsumerOK
  <2>3. v = from[c] + Len(got[c])
    BY <1>4, <2>2
  <2>4. got'[c] = Append(got[c], v) /\ DOMAIN got' = Consumers
    BY <1>4, <2>1 DEF Shapes
  <2>5. ConsumerOK(c)'
    <3>1. UNCHANGED <<from[c], home[c], made>>
      BY <1>2
    <3>2. got'[c] = Append(got[c], from[c] + Len(got[c])) /\ from[c] > 0
      BY <1>4, <2>3, <2>4
    <3>3. c \in Consumers \ Takers /\ ConsumerOK(c)
      BY <1>3, <1>4
    <3> QED BY <3>1, <3>2, <3>3, ReceivedKeeps
  <2>6. UpTo(c, p, v)'
    <3>1. Len(got'[c]) = v + 1 - from[c]
      BY <1>4, <2>2, <2>3, <2>4
    <3> QED BY <1>2, <1>3, <1>4, <3>1 DEF UpTo
  <2>7. Touches(X)
    BY <1>x, <1>2, <1>4, <2>1 DEF Touches, Shapes
  <2> QED BY <1>1, <1>x, <1>v, <1>2, <1>3, <2>4, <2>5, <2>6, <2>7, GoOnKeeps
<1>6. CASE ~ctxOpen[c]
  <2>1. got' = got
    BY <1>1, <1>6 DEF ExecHandler
  <2>2. UpTo(c, p, v)'
    BY <1>2, <1>3, <1>4, <1>6, <2>1 DEF UpTo
  <2>3. ConsumerOK(c)'
    BY <1>2, <1>3, <1>4, <2>1 DEF ConsumerOK
  <2>4. Touches(X) /\ DOMAIN got' = Consumers
    BY <1>2, <1>4, <2>1 DEF Touches, Shapes
  <2> QED BY <1>1, <1>x, <1>v, <1>2, <1>3, <2>2, <2>3, <2>4, GoOnKeeps
<1> QED BY <1>5, <1>6

\* The sequence c has the elements of a, and then those of b.
Joins(c, a, b) ==
  /\ \A n \in DOMAIN c : \/ n \in DOMAIN a /\ c[n] = a[n]
                         \/ n > Len(a) /\ n - Len(a) \in DOMAIN b /\ c[n] = b[n - Len(a)]
  /\ \A n \in DOMAIN a : n \in DOMAIN c /\ c[n] = a[n]
  /\ \A n \in DOMAIN b : \E m \in DOMAIN c : c[m] = b[n]

LEMMA ConcatIs ==
  ASSUME NEW S, NEW a \in Seq(S), NEW b \in Seq(S)
  PROVE  a \o b \in Seq(S) /\ Joins(a \o b, a, b)
<1>1. /\ a \o b \in Seq(S) /\ DOMAIN (a \o b) = 1..(Len(a) + Len(b))
      /\ Len(a) \in Nat /\ Len(b) \in Nat /\ DOMAIN a = 1..Len(a) /\ DOMAIN b = 1..Len(b)
  OBVIOUS
<1>2. \A n \in 1..(Len(a) + Len(b)) : (a \o b)[n] = IF n <= Len(a) THEN a[n] ELSE b[n - Len(a)]
  OBVIOUS
<1>3. ASSUME NEW n \in DOMAIN b PROVE \E m \in DOMAIN (a \o b) : (a \o b)[m] = b[n]
  <2>1. n + Len(a) \in 1..(Len(a) + Len(b)) /\ ~(n + Len(a) <= Len(a)) /\ n + Len(a) - Len(a) = n
    BY <1>1
  <2>2. (a \o b)[n + Len(a)] = b[n]
    BY <1>2, <2>1
  <2> QED BY <1>1, <2>1, <2>2
<1>4. ASSUME NEW n \in 1..(Len(a) + Len(b)), ~(n <= Len(a)) PROVE n > Len(a) /\ n - Len(a) \in 1..Len(b)
  BY <1>1, <1>4
<1>5. \A n \in 1..Len(a) : n \in 1..(Len(a) + Len(b)) /\ n <= Len(a)
  BY <1>1
<1>6. Joins(a \o b, a, b)
  BY <1>1, <1>2, <1>3, <1>4, <1>5 DEF Joins
<1> QED BY <1>1, <1>6

LEMMA ConcatDistinct ==
  ASSUME NEW S, NEW a \in Seq(S), NEW b \in Seq(S),
         \A m, n \in DOMAIN a : a[m] = a[n] => m = n,
         \A m, n \in DOMAIN b : b[m] = b[n] => m = n,
         \A m \in DOMAIN b, n \in DOMAIN a : b[m] # a[n]
  PROVE  \A m, n \in DOMAIN (a \o b) : (a \o b)[m] = (a \o b)[n] => m = n
<1> DEFINE c == a \o b
<1>1. \A n \in DOMAIN c :
             \/ n \in DOMAIN a /\ c[n] = a[n]
             \/ n > Len(a) /\ n - Len(a) \in DOMAIN b /\ c[n] = b[n - Len(a)]
  <2>1. Joins(c, a, b)
    BY ConcatIs
  <2> HIDE DEF c
  <2> QED BY <2>1 DEF Joins
<1>2. DOMAIN c \subseteq Nat /\ Len(a) \in Nat
  OBVIOUS
<1> HIDE DEF c
<1> SUFFICES ASSUME NEW m \in DOMAIN c, NEW n \in DOMAIN c, c[m] = c[n] PROVE m = n
  BY DEF c
<1>3. CASE m \in DOMAIN a /\ c[m] = a[m] /\ n \in DOMAIN a /\ c[n] = a[n]
  BY <1>3
<1>4. CASE m - Len(a) \in DOMAIN b /\ c[m] = b[m - Len(a)] /\ n - Len(a) \in DOMAIN b /\ c[n] = b[n - Len(a)]
  <2>1. m - Len(a) = n - Len(a)
    BY <1>4
  <2> QED BY <1>2, <2>1
<1> QED BY <1>1, <1>3, <1>4

\* consume has called everybody: who is left goes in front of who came meanwhile.
LEMMA PutBackKeeps == ASSUME ConsumersInv, NEW p \in Producers, PutBack(p) PROVE ConsumersInv'
<1>s. Shapes /\ ListOK(p)
  BY DEF ConsumersInv
<1>1. /\ pc[p] = "call" /\ pc'[p] = "loop" /\ list'[p] = calling[p] \o list[p]
      /\ calling'[p] = <<>> /\ pos'[p] = 0 /\ pos[p] > Len(calling[p]) /\ produced' = produced
      /\ UNCHANGED <<home, made, from, got, future, ctxOpen>>
      /\ \A q \in Producers \ {p} : ListUnchanged(q)
  BY <1>s DEF PutBack, Shapes, ListUnchanged, consumerVars, notifierVars
<1>t. PICK X : X = {}
  OBVIOUS
<1>2. Touches(X)
  BY <1>1 DEF Touches
<1>3. \A d, k : UpTo(d, p, k) => UpTo(d, p, k)'
  BY <1>1 DEF UpTo
<1>l. /\ list[p] \in Seq(Consumers) /\ calling[p] \in Seq(Consumers) /\ Distinct(p)
      /\ produced[p] \in Nat
  BY <1>s, <1>1 DEF ListOK
<1>i. PICK a \in Seq(Consumers), b \in Seq(Consumers) : a = calling[p] /\ b = list[p]
  BY <1>l
<1>j. /\ list'[p] = a \o b /\ a \o b \in Seq(Consumers)
      /\ \A n \in DOMAIN (a \o b) :
           \/ n \in DOMAIN a /\ (a \o b)[n] = a[n]
           \/ n - Len(a) \in DOMAIN b /\ (a \o b)[n] = b[n - Len(a)]
      /\ \A n \in DOMAIN a : n \in DOMAIN (a \o b) /\ (a \o b)[n] = a[n]
      /\ \A n \in DOMAIN b : \E m \in DOMAIN (a \o b) : (a \o b)[m] = b[n]
  <2>1. list'[p] = a \o b
    BY <1>1, <1>i
  <2> DEFINE c == a \o b
  <2>2. c \in Seq(Consumers) /\ Joins(c, a, b)
    BY ConcatIs
  <2> HIDE DEF c
  <2>3. \A n \in DOMAIN c :
             \/ n \in DOMAIN a /\ c[n] = a[n]
             \/ n - Len(a) \in DOMAIN b /\ c[n] = b[n - Len(a)]
    BY <2>2 DEF Joins
  <2>4. /\ \A n \in DOMAIN a : n \in DOMAIN c /\ c[n] = a[n]
        /\ \A n \in DOMAIN b : \E m \in DOMAIN c : c[m] = b[n]
    BY <2>2 DEF Joins
  <2> QED BY <2>1, <2>2, <2>3, <2>4 DEF c
<1>4. \A n \in DOMAIN list'[p] : UpTo(list[p][n], p, produced[p])'
  <2> SUFFICES ASSUME NEW n \in DOMAIN list'[p] PROVE UpTo(list[p][n], p, produced[p])'
    OBVIOUS
  <2>1. PICK d, k : d = list'[p][n] /\ k = produced[p]
    OBVIOUS
  <2>2. ASSUME NEW m \in DOMAIN calling[p], d = calling[p][m] PROVE UpTo(d, p, k)
    <3>1. m < pos[p]
      BY <1>s, <1>1, <2>2 DEF ListOK
    <3>2. Reached(p, m) = produced[p]
      BY <3>1 DEF Reached
    <3> QED BY <1>s, <2>1, <2>2, <3>2 DEF ListOK
  <2>3. ASSUME NEW m \in DOMAIN list[p], d = list[p][m] PROVE UpTo(d, p, k)
    BY <1>s, <2>1, <2>3 DEF ListOK
  <2>4. UpTo(d, p, k)
    <3>1. n \in DOMAIN (a \o b) /\ d = (a \o b)[n]
      BY <1>j, <2>1
    <3>2. CASE n \in DOMAIN a /\ d = a[n]
      BY <1>i, <2>2, <3>2
    <3>3. CASE n - Len(a) \in DOMAIN b /\ d = b[n - Len(a)]
      BY <1>i, <2>3, <3>3
    <3> QED BY <1>j, <3>1, <3>2, <3>3
  <2> QED BY <1>1, <1>3, <2>1, <2>4
<1>5. Distinct(p)'
  <2>1. \A m, n \in DOMAIN (a \o b) : (a \o b)[m] = (a \o b)[n] => m = n
    <3>1. /\ \A m, n \in DOMAIN a : a[m] = a[n] => m = n
          /\ \A m, n \in DOMAIN b : b[m] = b[n] => m = n
          /\ \A m \in DOMAIN b, n \in DOMAIN a : b[m] # a[n]
      BY <1>l, <1>i DEF Distinct
    <3> QED BY <3>1, ConcatDistinct
  <2>2. DOMAIN calling'[p] = {}
    BY <1>1
  <2> QED BY <1>j, <2>1, <2>2 DEF Distinct
<1>6. ListOK(p)'
  <2>1. /\ list'[p] \in Seq(Consumers) /\ calling'[p] \in Seq(Consumers) /\ DOMAIN calling'[p] = {}
        /\ pos'[p] \in Nat /\ produced'[p] \in Nat /\ pc'[p] \notin Calling /\ pc'[p] # "write"
    BY <1>1, <1>l, <1>j DEF Calling
  <2> QED BY <1>1, <1>4, <1>5, <2>1 DEF ListOK
<1>7. \A d \in Consumers \ X : Listed(d, p) => Listed(d, p)'
  <2> SUFFICES ASSUME NEW d \in Consumers, Listed(d, p) PROVE \E n \in DOMAIN list'[p] : list'[p][n] = d
    BY DEF Listed
  <2>1. \/ \E n \in DOMAIN a : a[n] = d
        \/ \E n \in DOMAIN b : b[n] = d
    BY <1>i DEF Listed
  <2>2. \E n \in DOMAIN (a \o b) : (a \o b)[n] = d
    BY <1>j, <2>1
  <2> QED BY <1>j, <2>2
<1>8. Shapes'
  BY <1>s, <1>1 DEF Shapes, PutBack
<1> QED BY <1>t, <1>1, <1>2, <1>6, <1>7, <1>8, ThreadStep

\* A new value: everybody in the list is to be called with it.
LEMMA ConsumeKeeps == ASSUME ConsumersInv, NEW p \in Producers, Consume(p) PROVE ConsumersInv'
<1>s. Shapes /\ ListOK(p)
  BY DEF ConsumersInv
<1>1. /\ pc[p] = "loop" /\ pc'[p] = "call" /\ calling'[p] = list[p] /\ list'[p] = <<>>
      /\ pos'[p] = 1 /\ produced'[p] = produced[p] + 1
      /\ UNCHANGED <<home, made, from, got, future, ctxOpen>>
      /\ \A q \in Producers \ {p} : ListUnchanged(q)
  BY <1>s DEF Consume, Shapes, ListUnchanged, consumerVars, notifierVars
<1>t. PICK X : X = {}
  OBVIOUS
<1>2. Touches(X)
  BY <1>1 DEF Touches
<1>3. \A d, k : UpTo(d, p, k) => UpTo(d, p, k)'
  BY <1>1 DEF UpTo
<1>l. /\ list[p] \in Seq(Consumers) /\ calling[p] = <<>> /\ Distinct(p) /\ produced[p] \in Nat
      /\ Len(list[p]) \in Nat
  BY <1>s, <1>1 DEF ListOK, Calling
<1>4. ASSUME NEW n \in DOMAIN calling'[p] PROVE UpTo(calling[p][n], p, Reached(p, n))'
  <2>1. PICK d, k : d = list[p][n] /\ k = produced[p]
    OBVIOUS
  <2>2. UpTo(d, p, k)'
    BY <1>s, <1>1, <1>3, <2>1 DEF ListOK
  <2>3. n \in 1..Len(list[p])
    BY <1>1, <1>l
  <2>4. Reached(p, n)' = k
    BY <1>1, <1>l, <2>1, <2>3 DEF Reached
  <2> QED BY <1>1, <2>1, <2>2, <2>4
<1>5. Distinct(p)'
  BY <1>1, <1>l DEF Distinct
<1>6. ListOK(p)'
  BY <1>1, <1>l, <1>4, <1>5 DEF ListOK, Calling
<1>7. \A d \in Consumers \ X : Listed(d, p) => Listed(d, p)'
  BY <1>1, <1>l DEF Listed
<1>8. Shapes'
  BY <1>s, <1>1 DEF Shapes, Consume
<1> QED BY <1>t, <1>1, <1>2, <1>6, <1>7, <1>8, ThreadStep

\* The thread is through: the list is closed, and its consumers are destroyed.
LEMMA FinishRunKeeps == ASSUME ConsumersInv, NEW p \in Producers, FinishRun(p) PROVE ConsumersInv'
<1>s. Shapes /\ ListOK(p)
  BY DEF ConsumersInv
<1>1. /\ pc[p] = "loop" /\ pc'[p] = "done" /\ list'[p] = <<>> /\ calling' = calling
      /\ pos' = pos /\ produced' = produced /\ UNCHANGED <<home, made, from, got, ctxOpen>>
      /\ \A q \in Producers \ {p} : ListUnchanged(q)
  BY <1>s DEF FinishRun, Shapes, ListUnchanged, consumerVars, notifierVars
<1>2. future' = [c \in Takers |-> IF c \in ToSet(list[p]) /\ future[c] = "pending"
                                  THEN "cancelled" ELSE future[c]]
  BY DEF FinishRun, Destroy
<1>t. PICK X : X = ToSet(list[p])
  OBVIOUS
<1>3. Touches(X)
  BY <1>t, <1>1, <1>2 DEF Touches
<1>4. calling[p] = <<>>
  BY <1>s, <1>1 DEF ListOK, Calling
<1>5. \A x \in X : Listed(x, p) /\ x \in Consumers /\ home[x] = p /\ from[x] > 0
  <2>1. \A x \in X : Listed(x, p)
    BY <1>t DEF ToSet, Listed
  <2> QED BY <2>1, <1>s, ListedAtHome
<1>6. ListOK(p)'
  BY <1>s, <1>1, <1>4 DEF ListOK, Calling, Distinct
<1>7. \A d \in Consumers \ X : Listed(d, p) => Listed(d, p)'
  BY <1>t, <1>4 DEF ToSet, Listed
<1>8. \A x \in X : ConsumerOK(x)'
  <2> SUFFICES ASSUME NEW x \in X PROVE ConsumerOK(x)'
    OBVIOUS
  <2>1. ConsumerOK(x) /\ from[x] > 0 /\ from[x] # 0
    BY <1>5 DEF ConsumersInv, ConsumerOK
  <2>2. UNCHANGED <<from[x], got[x], home[x], made>>
    BY <1>1
  <2>3. CASE x \notin Takers
    BY <2>1, <2>2, <2>3 DEF ConsumerOK
  <2>4. CASE x \in Takers
    <3>1. future'[x] = IF future[x] = "pending" THEN "cancelled" ELSE future[x]
      BY <1>t, <1>2, <2>4
    <3>2. x \in made
      BY <2>1 DEF ConsumerOK
    <3> QED BY <2>1, <2>2, <2>4, <3>1, <3>2 DEF ConsumerOK
  <2> QED BY <2>3, <2>4
<1>9. Shapes'
  BY <1>s, <1>1, <1>2 DEF Shapes, FinishRun
<1> QED BY <1>1, <1>3, <1>5, <1>6, <1>7, <1>8, <1>9, ThreadStep

-----------------------------------------------------------------------------
\* The steps of others.
\* A step that makes or hands over c, which no list has.
LEMMA NewcomerStep ==
  ASSUME ConsumersInv, NEW c \in Consumers, from[c] = 0, NEW X, X = {c}, Touches(X),
         NEW p \in Producers, home[c] = p, ListOK(p)', \A d : Listed(d, p) => Listed(d, p)',
         \A q \in Producers \ {p} : ListUnchanged(q),
         made' \subseteq made \cup {c}, made \subseteq made', ConsumerOK(c)', Shapes'
  PROVE  ConsumersInv'
<1>1. \A q \in Producers : ListOK(q)'
  BY ListsFollow
<1>2. ASSUME NEW d \in Consumers \ X PROVE ConsumerOK(d)'
  <2>1. ConsumerOK(d) /\ (d \in made' <=> d \in made)
    BY <1>2 DEF ConsumersInv
  <2>2. PICK q : q = home[d]
    OBVIOUS
  <2>3. ASSUME d \in made, Listed(d, q) PROVE Listed(d, q)'
    <3>1. q \in Producers
      BY <2>1, <2>2, <2>3 DEF ConsumerOK
    <3>2. CASE q # p
      BY <2>3, <3>1, <3>2 DEF ListUnchanged, Listed
    <3> QED BY <2>3, <3>2
  <2>4. q = home'[d]
    BY <2>2 DEF Touches
  <2> QED BY <2>1, <2>2, <2>3, <2>4, ConsumerStays
<1> QED BY <1>1, <1>2 DEF ConsumersInv

LEMMA MakeKeeps == ASSUME ConsumersInv, NEW c \in Consumers, Make(c) PROVE ConsumersInv'
<1>s. Shapes /\ ConsumerOK(c) /\ home[c] \in Producers /\ from[c] = 0
  BY DEF ConsumersInv, ConsumerOK, Make
<1>1. /\ UNCHANGED <<pc, produced, list, calling, pos, home, from, got, ctxOpen>>
      /\ made' = made \cup {c} /\ c \notin made
      /\ future' = [t \in Takers |-> IF t = c THEN "pending" ELSE future[t]]
  BY DEF Make, producerVars, notifierVars
<1>x. PICK X : X = {c}
  OBVIOUS
<1>p. PICK p \in Producers : p = home[c]
  BY <1>s
<1>2. Touches(X)
  BY <1>x, <1>1 DEF Touches
<1>3. ListOK(p) /\ ListUnchanged(p)
  BY <1>1 DEF ConsumersInv, ListUnchanged
<1>4. \A d \in X : ~Listed(d, p)
  BY <1>s, <1>x, <1>3, ListedAtHome
<1>5. ListOK(p)'
  BY <1>2, <1>3, <1>4, ListStays
<1>6. ConsumerOK(c)'
  BY <1>s, <1>1 DEF ConsumerOK
<1>7. Shapes'
  BY <1>s, <1>1 DEF Shapes
<1>8. \A d : Listed(d, p) => Listed(d, p)'
  BY <1>1 DEF Listed
<1>9. \A q \in Producers \ {p} : ListUnchanged(q)
  BY <1>1 DEF ListUnchanged
<1>10. made' \subseteq made \cup {c} /\ made \subseteq made'
  BY <1>1
<1> QED BY <1>s, <1>x, <1>p, <1>2, <1>5, <1>6, <1>7, <1>8, <1>9, <1>10, NewcomerStep

LEMMA AddConsumerKeeps == ASSUME ConsumersInv, NEW c \in Consumers, AddConsumer(c) PROVE ConsumersInv'
<1>s. /\ Shapes /\ ConsumerOK(c) /\ home[c] \in Producers /\ from[c] = 0 /\ c \in made
      /\ got[c] = <<>>
  BY DEF ConsumersInv, ConsumerOK, AddConsumer, Attached
<1>p. PICK p \in Producers : p = home[c]
  BY <1>s
<1>x. PICK X : X = {c}
  OBVIOUS
<1>l. ListOK(p) /\ produced[p] \in Nat
  BY DEF ConsumersInv, ListOK
<1>1. /\ UNCHANGED <<pc, produced, calling, pos, home, made, got, ctxOpen>>
      /\ from'[c] = produced[p] + 1 /\ DOMAIN from' = Consumers
      /\ \A d \in Consumers : d # c => from'[d] = from[d]
  BY <1>s, <1>p DEF AddConsumer, notifierVars, Shapes
<1>n. ~Listed(c, p)
  BY <1>s, <1>l, ListedAtHome
<1>2. CASE listClosed[p]
  <2>1. /\ list' = list
        /\ future' = [t \in Takers |-> IF t = c /\ future[t] = "pending" THEN "cancelled" ELSE future[t]]
    BY <1>p, <1>2 DEF AddConsumer, Destroy
  <2>2. Touches(X)
    BY <1>x, <1>1, <2>1 DEF Touches
  <2>3. ListUnchanged(p) /\ \A q \in Producers \ {p} : ListUnchanged(q)
    BY <1>1, <2>1 DEF ListUnchanged
  <2>4. ListOK(p)'
    BY <1>x, <1>l, <1>n, <2>2, <2>3, ListStays
  <2>5. ConsumerOK(c)'
    <3>1. c \in Takers => future'[c] = "cancelled"
      BY <1>s, <2>1 DEF ConsumerOK
    <3>2. from'[c] \in Nat /\ from'[c] > 0 /\ UNCHANGED <<got[c], home[c], made>>
      BY <1>l, <1>1
    <3>3. \A n \in DOMAIN got[c] : FALSE
      BY <1>s
    <3> QED BY <1>s, <3>1, <3>2, <3>3 DEF ConsumerOK
  <2>6. \A d : Listed(d, p) => Listed(d, p)'
    BY <1>1, <2>1 DEF Listed
  <2>7. Shapes'
    BY <1>s, <1>1, <2>1 DEF Shapes
  <2> QED BY <1>s, <1>p, <1>x, <1>1, <2>2, <2>3, <2>4, <2>5, <2>6, <2>7, NewcomerStep
<1>3. CASE ~listClosed[p]
  <2>1. /\ list'[p] = Append(list[p], c) /\ DOMAIN list' = Producers /\ future' = future
        /\ \A q \in Producers \ {p} : list'[q] = list[q]
    BY <1>s, <1>p, <1>3 DEF AddConsumer, Shapes
  <2>2. Touches(X)
    BY <1>x, <1>1, <2>1 DEF Touches
  <2>3. \A q \in Producers \ {p} : ListUnchanged(q)
    BY <1>1, <2>1 DEF ListUnchanged
  <2>l. /\ list[p] \in Seq(Consumers) /\ Len(list[p]) \in Nat /\ DOMAIN list[p] = 1..Len(list[p])
        /\ list'[p] \in Seq(Consumers) /\ DOMAIN list'[p] = 1..(Len(list[p]) + 1)
        /\ \A n \in DOMAIN list[p] : list'[p][n] = list[p][n]
        /\ list'[p][Len(list[p]) + 1] = c
    BY <1>l, <2>1 DEF ListOK
  <2>4. ListOK(p)'
    <3>1. ASSUME NEW n \in DOMAIN list'[p] PROVE UpTo(list[p][n], p, produced[p])'
      <4>1. PICK d, k : d = list'[p][n] /\ k = produced[p]
        OBVIOUS
      <4>2. CASE n \in DOMAIN list[p]
        <5>1. UpTo(d, p, k) /\ d \notin X
          BY <1>l, <1>n, <1>x, <2>l, <4>1, <4>2 DEF ListOK, Listed
        <5>2. UpTo(d, p, k)'
          BY <2>2, <5>1, UpToStays
        <5> QED BY <1>1, <4>1, <5>2
      <4>3. CASE n \notin DOMAIN list[p]
        <5>1. d = c
          BY <2>l, <4>1, <4>3
        <5>2. from'[c] \in Nat \ {0} /\ Len(got'[c]) = k + 1 - from'[c] /\ got'[c] = <<>> /\ home'[c] = p
          BY <1>s, <1>p, <1>l, <1>1, <4>1
        <5>3. c \in Takers => future'[c] = "pending"
          BY <1>s, <2>1 DEF ConsumerOK
        <5>4. UpTo(c, p, k)'
          BY <5>2, <5>3 DEF UpTo
        <5> QED BY <1>1, <4>1, <5>1, <5>4
      <4> QED BY <4>2, <4>3
    <3>2. ASSUME NEW n \in DOMAIN calling[p] PROVE UpTo(calling[p][n], p, Reached(p, n))'
      <4>1. PICK d, k : d = calling[p][n] /\ k = Reached(p, n)
        OBVIOUS
      <4>2. UpTo(d, p, k) /\ d \notin X
        BY <1>l, <1>n, <1>x, <4>1 DEF ListOK, Listed
      <4>3. UpTo(d, p, k)'
        BY <2>2, <4>2, UpToStays
      <4>4. d = calling'[p][n] /\ k = Reached(p, n)'
        BY <1>1, <4>1 DEF Reached
      <4> QED BY <4>3, <4>4
    <3>3. Distinct(p)'
      <4>1. Distinct(p) /\ \A n \in DOMAIN list[p] : list[p][n] # c
        BY <1>l, <1>n DEF ListOK, Listed
      <4>2. \A n \in DOMAIN calling[p] : calling[p][n] # c
        BY <1>n DEF Listed
      <4>3. \A m, n \in DOMAIN list'[p] : list'[p][m] = list'[p][n] => m = n
        BY <2>l, <4>1 DEF Distinct
      <4>4. \A m \in DOMAIN list'[p], n \in DOMAIN calling[p] : list'[p][m] # calling[p][n]
        BY <2>l, <4>1, <4>2 DEF Distinct
      <4> QED BY <1>1, <4>1, <4>3, <4>4 DEF Distinct
    <3> QED BY <1>l, <1>1, <2>l, <3>1, <3>2, <3>3 DEF ListOK, Current
  <2>5. ConsumerOK(c)'
    <3>1. Listed(c, p)'
      BY <2>l DEF Listed
    <3>2. from'[c] \in Nat /\ from'[c] > 0 /\ UNCHANGED <<got[c], home[c], made>>
      BY <1>l, <1>1
    <3>3. \A n \in DOMAIN got[c] : FALSE
      BY <1>s
    <3>4. c \in Takers => future'[c] = "pending"
      BY <1>s, <2>1 DEF ConsumerOK
    <3>5. home'[c] = p
      BY <1>p, <1>1
    <3>6. c \in Takers => (future'[c] = "pending" => from'[c] = 0 \/ Listed(c, home[c])')
      BY <3>1, <3>5
    <3> QED BY <1>s, <3>2, <3>3, <3>4, <3>6 DEF ConsumerOK
  <2>6. \A d : Listed(d, p) => Listed(d, p)'
    BY <1>1, <2>l DEF Listed
  <2>7. Shapes'
    BY <1>s, <1>1, <2>1 DEF Shapes
  <2> QED BY <1>s, <1>p, <1>x, <1>1, <2>2, <2>3, <2>4, <2>5, <2>6, <2>7, NewcomerStep
<1> QED BY <1>2, <1>3

LEMMA CloseNotifierKeeps ==
  ASSUME ConsumersInv, NEW c \in Notifiers, CloseNotifier(c) PROVE ConsumersInv'
<1>s. Shapes
  BY DEF ConsumersInv
<1>1. /\ UNCHANGED <<pc, produced, list, calling, pos, home, made, from, got, future>>
      /\ DOMAIN ctxOpen' = Notifiers /\ \A d \in Notifiers : ctxOpen'[d] => ctxOpen[d]
  BY <1>s DEF CloseNotifier, Shapes, producerVars, consumerVars
<1>2. PICK X : X = {}
  OBVIOUS
<1>3. Touches(X)
  BY <1>1 DEF Touches
<1>4. \A p \in Producers : ListOK(p)'
  <2> SUFFICES ASSUME NEW p \in Producers PROVE ListOK(p)'
    OBVIOUS
  <2>1. ListOK(p) /\ ListUnchanged(p)
    BY <1>1 DEF ConsumersInv, ListUnchanged
  <2> QED BY <1>2, <1>3, <2>1, ListStays
<1>5. \A d \in Consumers : ConsumerOK(d)'
  BY <1>1 DEF ConsumersInv, ConsumerOK, Listed
<1>6. Shapes'
  BY <1>s, <1>1 DEF Shapes
<1> QED BY <1>4, <1>5, <1>6 DEF ConsumersInv


\* The thread starts once.
NotStarted ==
  /\ DOMAIN state = Producers
  /\ \A p \in Producers : state[p] = "ReadyToStart" => pc[p] = "none"

LEMMA StartKeeps ==
  ASSUME ConsumersInv, NotStarted, NEW p \in Producers, Start(p) PROVE ConsumersInv'
<1>s. Shapes /\ ListOK(p)
  BY DEF ConsumersInv
<1>1. /\ UNCHANGED <<produced, list, calling, pos, home, made, from, got, future, ctxOpen>>
      /\ pc[p] = "none" /\ pc'[p] = "loop" /\ DOMAIN pc' = Producers
      /\ \A q \in Producers \ {p} : ListUnchanged(q)
  BY <1>s DEF NotStarted, Start, Shapes, ListUnchanged, consumerVars, notifierVars
<1>2. PICK X : X = {}
  OBVIOUS
<1>3. Touches(X)
  BY <1>1 DEF Touches
<1>4. ListOK(p)'
  <2>1. \A d, k : UpTo(d, p, k) => UpTo(d, p, k)'
    BY <1>1 DEF UpTo
  <2>2. calling[p] = <<>> /\ pc'[p] \notin Calling /\ pc'[p] # "write"
    BY <1>s, <1>1 DEF ListOK, Calling
  <2>3. ASSUME NEW n \in DOMAIN list[p] PROVE UpTo(list[p][n], p, produced[p])'
    <3>1. PICK d, k : d = list[p][n] /\ k = produced[p]
      OBVIOUS
    <3>2. UpTo(d, p, k)'
      BY <1>s, <2>1, <3>1 DEF ListOK
    <3> QED BY <1>1, <3>1, <3>2
  <2> QED BY <1>s, <1>1, <2>2, <2>3 DEF ListOK, Distinct
<1>5. \A d \in Consumers \ X : Listed(d, p) => Listed(d, p)'
  BY <1>1 DEF Listed
<1>6. Shapes'
  BY <1>s, <1>1 DEF Shapes
<1> QED BY <1>1, <1>2, <1>3, <1>4, <1>5, <1>6, ThreadStep

LEMMA RunKeeps ==
  ASSUME ConsumersInv, NEW p \in Producers, Run(p) PROVE ConsumersInv'
BY ConsumeKeeps, FinishRunKeeps, CallTakerKeeps, CallInputKeeps, InputAnswersKeeps,
   CallNotifierKeeps, ExecHandlerKeeps, PutBackKeeps DEF Run

LEMMA NotStartedStays == ConsumersInv /\ NotStarted /\ [Next]_vars => NotStarted'
<1> SUFFICES ASSUME ConsumersInv, NotStarted, [Next]_vars PROVE NotStarted'
  OBVIOUS
<1>s. DOMAIN pc = Producers
  BY DEF ConsumersInv, Shapes
<1>1. ASSUME NEW p \in Producers, Start(p) \/ Stop(p) PROVE NotStarted'
  BY <1>1, <1>s DEF NotStarted, Start, Stop
<1>2. ASSUME NEW p \in Producers, Run(p) PROVE NotStarted'
  <2>1. state' = state /\ pc[p] # "none" /\ \A q \in Producers \ {p} : pc'[q] = pc[q]
    BY <1>2, <1>s DEF Run, Consume, FinishRun, CallTaker, CallInput, InputAnswers, CallNotifier,
       ExecHandler, PutBack, AtConsumer, Erase, GoOn
  <2> QED BY <2>1 DEF NotStarted
<1>3. ASSUME UNCHANGED <<state, pc>> PROVE NotStarted'
  BY <1>3 DEF NotStarted
<1>4. \/ UNCHANGED <<state, pc>>
      \/ \E p \in Producers : Start(p) \/ Stop(p) \/ Run(p)
  BY DEF Next, Make, AddConsumer, Handle, CloseNotifier, CloseChan, Get, ClientCall, ClientStep,
         vars, producerVars
<1> QED BY <1>1, <1>2, <1>3, <1>4

LEMMA NextKeepsConsumers == ConsumersInv /\ NotStarted /\ [Next]_vars => ConsumersInv'
<1> SUFFICES ASSUME ConsumersInv, NotStarted, [Next]_vars PROVE ConsumersInv'
  OBVIOUS
<1>1. ASSUME NEW c \in Consumers, Make(c) \/ AddConsumer(c) PROVE ConsumersInv'
  BY <1>1, MakeKeeps, AddConsumerKeeps
<1>2. ASSUME NEW p \in Producers, Start(p) \/ Run(p) PROVE ConsumersInv'
  BY <1>2, StartKeeps, RunKeeps
<1>3. ASSUME NEW c \in Notifiers, CloseNotifier(c) PROVE ConsumersInv'
  BY <1>3, CloseNotifierKeeps
<1>4. ASSUME UNCHANGED cview PROVE ConsumersInv'
  BY <1>4, ViewUnchanged
<1>5. \/ UNCHANGED cview
      \/ \E c \in Consumers : Make(c) \/ AddConsumer(c)
      \/ \E p \in Producers : Start(p) \/ Run(p)
      \/ \E c \in Notifiers : CloseNotifier(c)
  BY DEF Next, Stop, Handle, CloseChan, Get, ClientCall, ClientStep,
         vars, producerVars, consumerVars, notifierVars, cview
<1> QED BY <1>1, <1>2, <1>3, <1>4, <1>5

LEMMA ConsumersInvHolds == Spec => [](ConsumersInv /\ NotStarted)
<1>1. Init => ConsumersInv /\ NotStarted
  <2>1. Init => NotStarted
    BY DEF Init, InitWith, NotStarted
  <2> QED BY <2>1, InitConsumers
<1>2. (ConsumersInv /\ NotStarted) /\ [Next]_vars => (ConsumersInv /\ NotStarted)'
  BY NotStartedStays, NextKeepsConsumers
<1> QED BY <1>1, <1>2, PTL DEF Spec

\* Every consumer gets the values from the one after it was attached on, none is
\* skipped while consume has the list in hand, and none comes twice.
THEOREM ConsumersSeeEveryValue == Spec => []SeesEveryValue
BY ConsumersInvHolds, ConsumersInvGives, PTL

\* The future of takeOne is resolved once, by the right value or by the end.
THEOREM TakersAreAnswered == Spec => []TakenOnce
BY ConsumersInvHolds, ConsumersInvGives, PTL
=============================================================================
