----------------------------- MODULE WorkContext -----------------------------
(***************************************************************************)
(* AOContexts on one executor as the code built on them sees them: what    *)
(* AOContext and StrandExecutor are shown to give.  Works run one at a     *)
(* time in the order in which they were posted; a context that closes      *)
(* loses the works it has and refuses those that come later, and it does   *)
(* not close from outside while one of its works runs.                     *)
(***************************************************************************)
EXTENDS Sequences, Integers, FiniteSets

VARIABLES
  open,    \* the contexts that are open
  works    \* the closures in the executor, each with its context

contextVars == <<open, works>>

\* AOContextRef::exec puts work behind the queue q, unless c is closed.
Exec(q, c, work) == IF c \in open THEN Append(q, [ctx |-> c, work |-> work]) ELSE q

\* The executor takes the next closure; the queue it leaves is Tail(works).
Runs(c, work) == works # <<>> /\ Head(works).work = work /\ Head(works).ctx = c

\* A scenario that a component has no part in starts it with one value of S.
Choice(used, S) == IF used THEN S ELSE {CHOOSE x \in S : TRUE}

\* A finite set of numbers, the smallest first: the n-th has n of them up to it.
InOrder(S) ==
  [n \in 1..Cardinality(S) |-> CHOOSE i \in S : Cardinality({j \in S : j <= i}) = n]

\* What is left of q when the contexts cs close.
Without(q, cs) ==
  LET left == InOrder({i \in DOMAIN q : q[i].ctx \notin cs})
  IN  [n \in DOMAIN left |-> q[left[n]]]
=============================================================================
