------------------------------- MODULE TSQueue -------------------------------
(***************************************************************************)
(* TSQueue (ts-queue.h): a bounded queue that threads write and read, with *)
(* or without a timeout, and that is closed once.  Every section under     *)
(* m_mutex is one step; a thread that waits on m_rcv or m_wcv is in        *)
(* `waiting' until it is notified, its time is over, or the queue closes.  *)
(***************************************************************************)
EXTENDS Integers, Sequences, FiniteSets, SequencesExt

CONSTANTS Threads, Values, Capacity

ASSUME CapacityAssumption == Capacity \in Nat \ {0}

VARIABLES
  values, closed,     \* m_values, m_closed
  waiting,            \* the threads that wait on a condition variable
  op,                 \* the call each thread is in
  accepted, taken,    \* what was written and what was read so far
  sawEnd              \* what was accepted when a read found the queue at its end

queueVars == <<values, closed, waiting, op, accepted, taken, sawEnd>>

NoCall == [kind |-> "none"]
ReadCall(timed) == [kind |-> "read", timed |-> timed]
WriteCall(v, timed) == [kind |-> "write", value |-> v, timed |-> timed]
Calls == {NoCall} \cup {ReadCall(b) : b \in BOOLEAN}
         \cup {WriteCall(v, b) : v \in Values, b \in BOOLEAN}

QueueInit ==
  /\ values = <<>> /\ closed = FALSE
  /\ waiting = {}
  /\ op = [t \in Threads |-> NoCall]
  /\ accepted = <<>> /\ taken = <<>> /\ sawEnd = {}

\* The predicates of the waits.
CanWrite == closed \/ Len(values) < Capacity
CanRead == closed \/ values # <<>>
Ready(t) == IF op[t].kind = "write" THEN CanWrite ELSE CanRead

\* The threads on m_rcv and on m_wcv, and notify_one on either.
WaitingTo(kind) == {t \in waiting : op[t].kind = kind}
NotifyOne(kind) ==
  IF WaitingTo(kind) = {} THEN UNCHANGED waiting
  ELSE \E t \in WaitingTo(kind) : waiting' = waiting \ {t}

Call(t, call) == op[t] = NoCall /\ op' = [op EXCEPT ![t] = call]
Return(t) == op' = [op EXCEPT ![t] = NoCall]

\* Mutant: a write that finds room does not look whether the queue is closed.
WriteIfRoom(t) ==
  /\ op[t].kind = "write" /\ t \notin waiting /\ Len(values) < Capacity
  /\ values' = Append(values, op[t].value)
  /\ accepted' = Append(accepted, op[t].value)
  /\ NotifyOne("read")
  /\ Return(t) /\ UNCHANGED <<closed, taken, sawEnd>>

\* write puts the value in, or finds the queue closed.
Write(t) ==
  /\ op[t].kind = "write" /\ t \notin waiting /\ CanWrite /\ ~closed
  /\ values' = Append(values, op[t].value)
  /\ accepted' = Append(accepted, op[t].value)
  /\ NotifyOne("read")
  /\ Return(t) /\ UNCHANGED <<closed, taken, sawEnd>>

WriteRefused(t) ==
  /\ op[t].kind = "write" /\ t \notin waiting /\ closed
  /\ Return(t) /\ UNCHANGED <<values, closed, waiting, accepted, taken, sawEnd>>

\* read takes the first value, or finds the queue closed and empty.
Read(t) ==
  /\ op[t].kind = "read" /\ t \notin waiting /\ values # <<>>
  /\ values' = Tail(values) /\ taken' = Append(taken, Head(values))
  /\ NotifyOne("write")
  /\ Return(t) /\ UNCHANGED <<closed, accepted, sawEnd>>

ReadEnd(t) ==
  /\ op[t].kind = "read" /\ t \notin waiting /\ CanRead /\ values = <<>>
  /\ sawEnd' = sawEnd \cup {accepted}
  /\ Return(t) /\ UNCHANGED <<values, closed, waiting, accepted, taken>>

\* The thread goes to sleep, having looked at the queue under the mutex.
Block(t) ==
  /\ op[t] # NoCall /\ t \notin waiting /\ ~Ready(t)
  /\ waiting' = waiting \cup {t}
  /\ UNCHANGED <<values, closed, op, accepted, taken, sawEnd>>

\* The time of a wait_for is over: it answers what its predicate says then.
Expire(t) ==
  /\ t \in waiting /\ op[t].timed
  /\ waiting' = waiting \ {t}
  /\ IF Ready(t) THEN UNCHANGED op ELSE Return(t)
  /\ UNCHANGED <<values, closed, accepted, taken, sawEnd>>

\* Mutant: close wakes the readers only.
CloseForReaders ==
  /\ closed' = TRUE /\ waiting' = WaitingTo("write")
  /\ UNCHANGED <<values, op, accepted, taken, sawEnd>>

\* close wakes everybody.
Close ==
  /\ closed' = TRUE /\ waiting' = {}
  /\ UNCHANGED <<values, op, accepted, taken, sawEnd>>

\* A thread in a call that does not sleep.
Proceed(t) == Write(t) \/ WriteRefused(t) \/ Read(t) \/ ReadEnd(t) \/ Block(t)

-----------------------------------------------------------------------------
QueueTypeOK ==
  /\ values \in Seq(Values) /\ accepted \in Seq(Values) /\ taken \in Seq(Values)
  /\ closed \in BOOLEAN
  /\ op \in [Threads -> Calls] /\ waiting \subseteq {t \in Threads : op[t] # NoCall}
  /\ sawEnd \subseteq Seq(Values)

\* Values are read in the order in which they were written (by whichever
\* threads), each of them once, and none is lost, not even by close.
DrainedInOrder == accepted = taken \o values

\* Once a read without a timeout was told that the queue is at its end, nothing
\* more comes in: what it was told stays true.
EndIsFinal == \A a \in sawEnd : closed /\ accepted = a /\ taken = a

\* Nobody sleeps in vain: if a call could go on, a thread that waits for the
\* same has been notified already, or the queue was closed and all have been.
NoSleeperForgotten ==
  /\ closed => waiting = {}
  /\ \A kind \in {"read", "write"} :
       WaitingTo(kind) # {} =>
         \/ ~(IF kind = "read" THEN values # <<>> ELSE Len(values) < Capacity)
         \/ \E t \in Threads \ waiting : op[t].kind = kind
=============================================================================
