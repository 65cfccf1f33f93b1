-------------------------------- MODULE Fifo --------------------------------
(***************************************************************************)
(* Fifo<T, Size> (seq/fifo.h): a ring buffer whose length is a power of    *)
(* two.  Head and tail run round the ring, the count tells full from       *)
(* empty.  A span that goes past the end of the ring is copied in two      *)
(* parts.                                                                  *)
(***************************************************************************)
EXTENDS Integers, Sequences

CONSTANTS
  Size,      \* how many values the queue may hold
  Values,    \* the values that are pushed
  MaxSpan,   \* bound: the length of a span
  Fits       \* whether a push that goes past the end has room for all its data

VARIABLES buffer, head, tail, count, answer

fifoVars == <<buffer, head, tail, count, answer>>

\* The loop of nextPowerOf2, from v = Size - 1 on.
NextPowerOf2[v \in 0..Size] == IF v \div 2 = 0 THEN 2 ELSE 2 * NextPowerOf2[v \div 2]
RingLength == NextPowerOf2[Size - 1]

Ring == 0..(RingLength - 1)
Nothing == [count |-> 0, data |-> <<>>]
Least(m, n) == IF m < n THEN m ELSE n

FifoInit ==
  /\ buffer = [i \in Ring |-> CHOOSE x \in Values : TRUE]   \* T{}
  /\ head = 0 /\ tail = 0 /\ count = 0 /\ answer = Nothing

\* copy: memcpy of the whole source to the place i of the buffer.
CopyTo(b, i, source) ==
  [j \in Ring |-> IF j - i \in 0..(Len(source) - 1) THEN source[j - i + 1] ELSE b[j]]
From(s, n) == SubSeq(s, n + 1, Len(s))

\* The second part of a push is all that is left of the data, and not the part
\* of it for which there is room.
Push(data) ==
  LET n == Least(Len(data), Size - count)
      first == RingLength - head
  IN
  /\ n > 0 /\ answer' = [Nothing EXCEPT !.count = n]
  /\ \/ /\ head + n <= RingLength
        /\ buffer' = CopyTo(buffer, head, SubSeq(data, 1, n))
     \/ /\ head + n > RingLength
        /\ Fits => n = Len(data)
        /\ buffer' = CopyTo(CopyTo(buffer, head, SubSeq(data, 1, first)), 0, From(data, first))
  /\ head' = (head + n) % RingLength
  /\ count' = count + n
  /\ UNCHANGED tail

PushNothing(data) ==
  /\ data = <<>> \/ count = Size
  /\ answer' = Nothing /\ UNCHANGED <<buffer, head, tail, count>>

\* Mutant: the values popped are not copied round the end.
PopStraight(n) ==
  LET got == Least(n, count) IN
  /\ answer' = [count |-> got, data |-> [i \in 1..got |-> buffer[Least(tail + i - 1, RingLength - 1)]]]
  /\ count' = count - got
  /\ tail' = (tail + got) % RingLength
  /\ UNCHANGED <<buffer, head>>

\* pop copies one part, or the part up to the end of the ring and the rest.
Pop(n) ==
  LET got == Least(n, count)  first == RingLength - tail IN
  /\ answer' = [count |-> got,
                data |-> [i \in 1..got |->
                            IF i <= first THEN buffer[tail + i - 1] ELSE buffer[i - first - 1]]]
  /\ count' = count - got
  /\ tail' = (tail + got) % RingLength
  /\ UNCHANGED <<buffer, head>>

Clear ==
  /\ count' = 0 /\ head' = 0 /\ tail' = 0 /\ answer' = Nothing
  /\ UNCHANGED buffer

FifoNext ==
  \/ \E n \in 0..MaxSpan :
       Pop(n) \/ \E data \in [1..n -> Values] : Push(data) \/ PushNothing(data)
  \/ Clear

Spec == FifoInit /\ [][FifoNext]_fifoVars

-----------------------------------------------------------------------------
Queue == INSTANCE BoundedQueue WITH
           content <- [i \in 1..count |-> buffer[(tail + i - 1) % RingLength]]

\* Every call does what a queue does, wherever in the ring its values are.
RingIsAQueue == Queue!Spec
=============================================================================
