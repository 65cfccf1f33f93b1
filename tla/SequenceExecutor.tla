-------------------------- MODULE SequenceExecutor --------------------------
(***************************************************************************)
(* What nhope::SequenceExecutor (include/nhope/async/executor.h) promises  *)
(* its clients: works run one at a time and in the order of submission.    *)
(* A work that is still queued may be thrown away, and only together with  *)
(* the whole queue (the executor is destroyed).                            *)
(***************************************************************************)
EXTENDS Sequences

CONSTANT Works          \* identities of the submitted works (std::function)

VARIABLES queue,        \* accepted works that have not started, oldest first
          status        \* where each work is in its life

vars == <<queue, status>>

Status == {"new", "queued", "running", "finished", "discarded"}

Init == /\ queue = <<>>
        /\ status = [w \in Works |-> "new"]

\* SequenceExecutor::exec
Submit(w) == /\ status[w] = "new"
             /\ queue' = Append(queue, w)
             /\ status' = [status EXCEPT ![w] = "queued"]

\* The oldest work starts, and only when none is running.
Start == /\ queue # <<>>
         /\ \A w \in Works : status[w] # "running"
         /\ queue' = Tail(queue)
         /\ status' = [status EXCEPT ![Head(queue)] = "running"]

Finish(w) == /\ status[w] = "running"
             /\ status' = [status EXCEPT ![w] = "finished"]
             /\ UNCHANGED queue

\* The destructor: nothing that waits will ever run.
Discard == /\ queue' = <<>>
           /\ status' = [w \in Works |-> IF status[w] = "queued"
                                         THEN "discarded" ELSE status[w]]

Next == Start \/ Discard \/ \E w \in Works : Submit(w) \/ Finish(w)

Spec == Init /\ [][Next]_vars
=============================================================================
