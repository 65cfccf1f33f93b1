----------------------------- MODULE MCAOContext -----------------------------
(***************************************************************************)
(* Small programs of the clients for TLC, over a root and two children.    *)
(***************************************************************************)
EXTENDS AOContext

CONSTANTS p, c1, c2, h1, h2, w1, w2, t1, t2, t3, worker,
          alone, inline, tree, parentWork, childWork

Call(op, c, arg, by) == [op |-> op, ctx |-> c, arg |-> arg, by |-> by]

MCParent == [c \in {p, c1, c2} |-> IF c = p THEN None ELSE p]
MCInitial == [g \in Programs |-> IF g \in {alone, inline} THEN {p} ELSE {p, c1}]
MCOwnsExecutor == [g \in Programs |-> g = alone]

\* alone: t1 destroys the context, t2 uses it; a work and a handler call back.
\* inline: a work and a handler exec works that run at once.
\* tree: t1 destroys the parent, t2 the child, t3 makes and destroys another.
\* parentWork: a work of the parent closes the child while t2 adds a handler.
\* childWork: a work of the child destroys the parent, t2 destroys the child.
MCCalls == [g \in Programs |->
  CASE g = alone ->
         {Call("destroy", p, None, t1), Call("exec", p, w1, t2),
          Call("add", p, h1, t2), Call("remove", p, h1, t2),
          Call("remove", p, h1, h1), Call("close", p, None, h1),
          Call("close", p, None, w1), Call("start", p, h2, w1),
          Call("exec", p, w2, t3), Call("remove", p, h2, w2)}
    [] g = inline ->
         {Call("exec", p, w1, t2), Call("exec", p, w2, w1),
          Call("close", p, None, w2), Call("add", p, h1, t3),
          Call("exec", p, w2, h1), Call("destroy", p, None, t1)}
    [] g = tree ->
         {Call("destroy", p, None, t1), Call("destroy", c1, None, t2),
          Call("exec", c1, w1, t3), Call("add", c1, h1, w1),
          Call("child", p, c2, t3), Call("destroy", c2, None, t3)}
    [] g = parentWork ->
         {Call("exec", p, w1, t3), Call("close", c1, None, w1),
          Call("add", c1, h1, t2)}
    [] g = childWork ->
         {Call("exec", c1, w1, t3), Call("destroy", p, None, w1),
          Call("destroy", c1, None, t2)}]

\* The theorems about closing are about programs like the first three.
ASSUME ProgramsAreAlone ==
  \A g \in Programs : ClosesAlone(g) <=> g \in {alone, inline, tree}
ASSUME TreeClosesFromThreads ==
  \A g \in Programs : ClosesFromThreads(g) <=> g = tree
=============================================================================
