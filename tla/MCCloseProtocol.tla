--------------------------- MODULE MCCloseProtocol ---------------------------
(***************************************************************************)
(* CloseProtocol for TLC: t1 runs a work that execs another one, t2 queues *)
(* a work and adds a handler, t3 adds a handler; every thread may close.   *)
(***************************************************************************)
EXTENDS CloseProtocol

CONSTANTS work, nested, post, add2, add3, t1, t2, t3

MCThreads == {t1, t2, t3}
MCCalls == {work, nested, post, add2, add3}
MCItems == {work, nested, post}
MCOn == [k \in MCCalls |-> CASE k \in {work, nested} -> t1
                             [] k \in {post, add2}   -> t2
                             [] k = add3             -> t3]
=============================================================================
