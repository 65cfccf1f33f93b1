---------------------------- MODULE BoundedQueue ----------------------------
(***************************************************************************)
(* What Fifo (seq/fifo.h) promises: a queue of at most Size values.  push  *)
(* takes as many values of a span as there is room for, pop gives as many  *)
(* as are asked for and there are; both answer how many that was.          *)
(***************************************************************************)
EXTENDS Naturals, Sequences

CONSTANTS Size, Values, MaxSpan

VARIABLES
  content,   \* the values inside, the oldest first
  answer     \* what the last call returned: a number, and the values popped

queueVars == <<content, answer>>

Nothing == [count |-> 0, data |-> <<>>]
Least(m, n) == IF m < n THEN m ELSE n
First(s, n) == SubSeq(s, 1, n)

Init == content = <<>> /\ answer = Nothing

Push(data) ==
  LET count == Least(Len(data), Size - Len(content)) IN
  /\ content' = content \o First(data, count)
  /\ answer' = [Nothing EXCEPT !.count = count]

Pop(n) ==
  LET count == Least(n, Len(content)) IN
  /\ answer' = [count |-> count, data |-> First(content, count)]
  /\ content' = SubSeq(content, count + 1, Len(content))

Clear == content' = <<>> /\ answer' = Nothing

Next ==
  \/ \E n \in 0..MaxSpan : Pop(n) \/ \E data \in [1..n -> Values] : Push(data)
  \/ Clear

Spec == Init /\ [][Next]_queueVars
=============================================================================
