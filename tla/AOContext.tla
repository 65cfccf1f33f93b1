------------------------------ MODULE AOContext ------------------------------
(***************************************************************************)
(* AOContextImpl (include/nhope/async/detail/ao-context-impl.h): a tree of *)
(* contexts that share one SequenceExecutor, the client threads that use   *)
(* them and the thread that runs the executor's closures.                  *)
(*                                                                         *)
(* A thread is a stack of frames, one per call in progress, innermost      *)
(* first: a close calls handlers, a handler of a child closes the child, a *)
(* work or a handler is client code that calls back into a context.  Each  *)
(* access to the atomic word of a context is a step.  A section under the  *)
(* close-handler spin lock is one step: it touches nothing but the list    *)
(* and the fields that lock guards, and never waits.                       *)
(***************************************************************************)
EXTENDS Naturals, Sequences, FiniteSets, SequencesExt

CONSTANTS
  Contexts,       \* the contexts of one tree: one group, one executor
  Parent,         \* Parent[c], or None for the root
  Handlers,       \* close handlers of the clients
  Works,          \* works the clients exec
  Threads,        \* client threads
  Worker,         \* the thread the executor runs closures on
  Programs,       \* what the clients do; for each program,
  Calls,          \*   [op, ctx, arg, by]: what client code calls, and where,
  Initial,        \*   the contexts that exist at the start,
  OwnsExecutor,   \*   and whether the root made its executor (makeStrand)
  None

Ops == {"exec", "add", "start", "child", "remove", "close", "destroy"}

ASSUME TreeAssumption ==
  /\ IsFiniteSet(Contexts) /\ Handlers \cap Contexts = {}
  /\ Works \cap (Handlers \cup Contexts) = {}
  /\ None \notin Handlers \cup Contexts \cup Works \cup Threads \cup {Worker}
  /\ Parent \in [Contexts -> Contexts \cup {None}]

\* The tree has one root and no cycles; threads are not works or handlers.
ASSUME RootAssumption ==
  \E root \in Contexts : \A c \in Contexts : Parent[c] = None <=> c = root
ASSUME DepthAssumption ==
  \E depth \in [Contexts -> 0..Cardinality(Contexts)] :
    \A c \in Contexts : Parent[c] # None => depth[Parent[c]] < depth[c]
ASSUME ThreadsAssumption == Threads \cap (Works \cup Handlers) = {}

\* Client code makes the calls: works are handed to exec, handlers are added and
\* started, contexts are made; a handler is removed from the context that it was
\* added to, as it always is in the library.
ASSUME ProgramsAssumption ==
  \A g \in Programs :
    /\ Initial[g] \subseteq Contexts
    /\ \A k \in Calls[g] :
         /\ k.op \in Ops /\ k.ctx \in Contexts /\ k.by \in Threads \cup Works \cup Handlers
         /\ k.arg \in IF k.op \in {"add", "start", "remove"} THEN Handlers
                     ELSE IF k.op = "child" THEN Contexts
                     ELSE IF k.op = "exec" THEN Works ELSE {None}
    /\ \A j, k \in Calls[g] : j.arg = k.arg /\ k.arg \in Handlers => j.ctx = k.ctx

\* The root exists at the start; contexts are made by their parents.
ASSUME ChildrenAssumption ==
  \A g \in Programs :
    /\ \A c \in Contexts : Parent[c] = None => c \in Initial[g]
    /\ \A c \in Initial[g] : Parent[c] # None => Parent[c] \in Initial[g]
    /\ \A k \in Calls[g] : k.op = "child" => Parent[k.arg] = k.ctx

AllThreads == Threads \cup {Worker}
Nodes == Handlers \cup Contexts     \* what a list of close handlers holds
Flags == {"PreparingForClosing", "Closing", "Closed"}

VARIABLES
  flags, refs, blocks,      \* m_state of each context
  list,                     \* m_closeHandlerList, head first
  hasPtr, destroyed, done,  \* m_destroyed # nullptr, *m_destroyed, m_done
  queue,                    \* closures [ctx, work] waiting in the executor
  holder,                   \* m_executorHolder is set
  stack,                    \* the frames of each thread, innermost first
  closer,                   \* history: the thread that closes each context
  fate, gone,               \* history: handlers, and whether they are removed
  owned, issued,            \* AOContext objects that live; calls made
  program                   \* one of Programs, for good

words   == <<flags, refs, blocks>>
nodes   == <<list, hasPtr, destroyed, done>>
exec    == <<queue, holder>>
history == <<fate, gone>>
clients == <<owned, issued, program>>
vars == <<words, nodes, exec, stack, closer, history, clients>>

-----------------------------------------------------------------------------
\* Frames.  ref: the caller holds an AOContextRef for the time of the call.
Frame(pc, c, x, ref) == [pc |-> pc, c |-> c, x |-> x, ref |-> ref]

Top(t) == Head(stack[t])
At(t, pc) == stack[t] # <<>> /\ Top(t).pc = pc
FramesOf(t) == ToSet(stack[t])
Frames == UNION {FramesOf(t) : t \in AllThreads}

Goto(t, pc) == stack' = [stack EXCEPT ![t][1].pc = pc]
Return(t) == stack' = [stack EXCEPT ![t] = Tail(@)]
\* The top frame calls f and goes on at pc when f returns.
Enter(t, pc, f) == stack' = [stack EXCEPT ![t] = <<f, [Head(@) EXCEPT !.pc = pc]>> \o Tail(@)]

\* Reference counts after the frame f of a call is left.
RefsAfter(f) == IF f.ref THEN [refs EXCEPT ![f.c] = @ - 1] ELSE refs

\* Frames with a WorkingInThisThreadSet item, and those with a block on ctx.
ItemPcs   == {"exec.post", "exec.inline", "work"}
InsidePcs == {"exec.post", "exec.inline", "exec.unblock", "work", "add.insert",
              "start.insert", "start.fn", "child.new", "child.add", "unblock"}
ClosingPcs == {"close.wait", "close.flag", "close.pop", "close.call",
               "close.parent", "close.reset", "close.closed", "close.release"}

\* The contexts of the tree are one group: blockCloseCountMadeFromThisThread
\* and aoContextWorkInThisThread count the items of all of them.
BlockCount(t) == Cardinality({i \in DOMAIN stack[t] : stack[t][i].pc \in ItemPcs})
WorkInThisThread(t) == BlockCount(t) > 0
ClosingInThisThread(t, c) == \E f \in FramesOf(t) : f.c = c /\ f.pc \in ClosingPcs

Root == CHOOSE c \in Contexts : Parent[c] = None

Init ==
  /\ program \in Programs
  /\ flags = [c \in Contexts |-> {}]
  /\ refs = [c \in Contexts |-> IF c \in Initial[program] THEN 1 ELSE 0]
  /\ blocks = [c \in Contexts |-> 0]
  /\ list = [c \in Contexts |-> SetToSeq({k \in Initial[program] : Parent[k] = c})]
  /\ hasPtr = [x \in Nodes |-> FALSE]
  /\ destroyed = [x \in Nodes |-> FALSE]
  /\ done = [x \in Nodes |-> FALSE]
  /\ queue = <<>>
  /\ holder = [c \in Contexts |-> c \in Initial[program]]
  /\ stack = [t \in AllThreads |-> <<>>]
  /\ closer = [c \in Contexts |-> None]
  /\ fate = [h \in Nodes |-> IF h \in Initial[program] THEN "added" ELSE "new"]
  /\ gone = [h \in Handlers |-> "no"]
  /\ owned = Initial[program]
  /\ issued = {}

-----------------------------------------------------------------------------
\* Client code: the outermost code of a thread, a work, or a close handler.
Site(t) == IF stack[t] = <<>> THEN t
           ELSE IF Top(t).pc \in {"work", "inline", "handler"} THEN Top(t).x
           ELSE None

\* The rules of the interface: a handler is added once and removed only if it
\* was added, a context is created and destroyed once.
Permitted(k) ==
  /\ k.op \in {"add", "start", "child"} => fate[k.arg] = "new"
  /\ k.op = "remove" => fate[k.arg] \in {"added", "called"} /\ gone[k.arg] = "no"
  /\ k.op \in {"close", "destroy"} => k.ctx \in owned

\* Client code makes one of its calls, through a reference that it holds: nobody
\* has the child that a makeChild is still making.
\* ~AOContext (ao-context.cpp:20) is close and then the release of the owner.
Issue(t, k) ==
  /\ k \notin issued
  /\ k.by = Site(t)
  /\ refs[k.ctx] > 0 /\ \A f \in Frames : f.pc = "child.add" => f.x # k.ctx
  /\ Permitted(k)
  /\ issued' = issued \cup {k}
  /\ refs' = [refs EXCEPT ![k.ctx] = @ + 1]
  /\ LET f == Frame(k.op, k.ctx, k.arg, TRUE) IN
       stack' = [stack EXCEPT ![t] =
                   (IF k.op = "destroy"
                    THEN <<[f EXCEPT !.pc = "close", !.ref = FALSE], f>>
                    ELSE <<f>>) \o @]
  /\ fate' = IF k.op \in {"add", "start", "child"}
             THEN [fate EXCEPT ![k.arg] = "adding"] ELSE fate
  /\ gone' = IF k.op = "remove" THEN [gone EXCEPT ![k.arg] = "asked"] ELSE gone
  /\ owned' = IF k.op = "destroy" THEN owned \ {k.ctx} ELSE owned
  /\ UNCHANGED <<flags, blocks, nodes, exec, closer, program>>

\* The owner's reference goes, with the one of the call.
ReleaseOwner(t) ==
  /\ At(t, "destroy")
  /\ refs' = [refs EXCEPT ![Top(t).c] = @ - 2]
  /\ Return(t)
  /\ UNCHANGED <<flags, blocks, nodes, exec, closer, history, clients>>

\* The client code of a close handler returns to callCloseHandlers.
HandlerReturns(t) ==
  /\ At(t, "handler")
  /\ Return(t)
  /\ UNCHANGED <<words, nodes, exec, closer, history, clients>>

\* blockClose in addCloseHandler, startCancellableTask and makeChild, and
\* blockCloseAndAddRef in exec: raise the counters, then look at the old flags.
BlockClose(t, pc, next) ==
  LET c == Top(t).c
      n == IF pc = "exec" THEN 1 ELSE 0   \* the reference of the closure
  IN /\ At(t, pc)
     /\ blocks' = [blocks EXCEPT ![c] = @ + 1]
     /\ refs' = [refs EXCEPT ![c] = @ + n]
     /\ Goto(t, IF "PreparingForClosing" \in flags[c]
                THEN (IF pc = "exec" THEN "exec.undo" ELSE "undo") ELSE next)
     /\ UNCHANGED <<flags, nodes, exec, closer, history, clients>>

\* The call came too late: exec returns, the others throw AOContextClosed.
UndoBlock(t, pc) ==
  LET f == Top(t)
      r == RefsAfter(f)
  IN /\ At(t, pc)
     /\ blocks' = [blocks EXCEPT ![f.c] = @ - 1]
     /\ refs' = IF pc = "exec.undo" THEN [r EXCEPT ![f.c] = @ - 1] ELSE r
     /\ fate' = IF pc = "undo" THEN [fate EXCEPT ![f.x] = "refused"] ELSE fate
     /\ Return(t)
     /\ UNCHANGED <<flags, nodes, exec, closer, gone, clients>>

\* The ScopeExit of exec, addCloseHandler, startCancellableTask, makeChild.
Unblock(t, pc) ==
  LET f == Top(t) IN
  /\ At(t, pc)
  /\ blocks' = [blocks EXCEPT ![f.c] = @ - 1]
  /\ refs' = RefsAfter(f)
  /\ Return(t)
  /\ UNCHANGED <<flags, nodes, exec, closer, history, clients>>

-----------------------------------------------------------------------------
\* exec hands the closure to the executor, ...
Post(t) ==
  /\ At(t, "exec.post")
  /\ queue' = Append(queue, [ctx |-> Top(t).c, work |-> Top(t).x])
  /\ Goto(t, "exec.unblock")
  /\ UNCHANGED <<words, nodes, holder, closer, history, clients>>

\* ... which runs it at once if it may: ImmediatelyIfPossible on the thread
\* of a ThreadExecutor or IOContextSequenceExecutor (a strand never does).
PostInline(t) ==
  /\ At(t, "exec.post")
  /\ t = Worker /\ ~OwnsExecutor[program]
  /\ Enter(t, "exec.inline", Frame("inline", Top(t).c, Top(t).x, TRUE))
  /\ UNCHANGED <<words, nodes, exec, closer, history, clients>>

\* The work ran in exec's own frame: the closure and its reference go.
InlineReturns(t) ==
  /\ At(t, "inline")
  /\ refs' = RefsAfter(Top(t))
  /\ stack' = [stack EXCEPT ![t] = <<[@[2] EXCEPT !.pc = "exec.unblock"]>> \o Tail(Tail(@))]
  /\ UNCHANGED <<flags, blocks, nodes, exec, closer, history, clients>>

\* The executor runs the oldest closure; one at a time.
TakeClosure ==
  /\ stack[Worker] = <<>>
  /\ queue # <<>>
  /\ stack' = [stack EXCEPT ![Worker] = <<Frame("run", Head(queue).ctx, Head(queue).work, TRUE)>>]
  /\ queue' = Tail(queue)
  /\ UNCHANGED <<words, nodes, holder, closer, history, clients>>

\* The closure blocks closing for the time of its work.
RunBlock(t) ==
  LET c == Top(t).c IN
  /\ At(t, "run")
  /\ blocks' = [blocks EXCEPT ![c] = @ + 1]
  /\ Goto(t, IF "PreparingForClosing" \in flags[c] THEN "run.undo" ELSE "work")
  /\ UNCHANGED <<flags, refs, nodes, exec, closer, history, clients>>

\* The context is being closed: the work is dropped, first the block ...
RunUndo(t) ==
  /\ At(t, "run.undo")
  /\ blocks' = [blocks EXCEPT ![Top(t).c] = @ - 1]
  /\ Goto(t, "run.drop")
  /\ UNCHANGED <<flags, refs, nodes, exec, closer, history, clients>>

\* ... then the closure with its reference.
RunDrop(t) ==
  /\ At(t, "run.drop")
  /\ refs' = RefsAfter(Top(t))
  /\ Return(t)
  /\ UNCHANGED <<flags, blocks, nodes, exec, closer, history, clients>>

\* The work returns or throws: unblockCloseAndRelease, in one atomic step.
WorkReturns(t) == Unblock(t, "work")

-----------------------------------------------------------------------------
\* addCloseHandlerNonBlockClose: the node goes to the head of the list.
Insert(t, pc, next) ==
  LET f == Top(t) IN
  /\ At(t, pc)
  /\ list' = [list EXCEPT ![f.c] = <<f.x>> \o @]
  /\ fate' = [fate EXCEPT ![f.x] = "added"]
  /\ Goto(t, next)
  /\ UNCHANGED <<words, hasPtr, destroyed, done, exec, closer, gone, clients>>

\* makeChild: the constructor of the child takes the parent's executor and
\* adds the child to the parent by addCloseHandler, under a second block.
ConstructChild(t) ==
  LET f == Top(t) IN
  /\ At(t, "child.new")
  /\ refs' = [refs EXCEPT ![f.x] = 1]
  /\ holder' = [holder EXCEPT ![f.x] = TRUE]
  /\ Enter(t, "child.add", Frame("add", f.c, f.x, FALSE))
  /\ UNCHANGED <<flags, blocks, nodes, queue, closer, history, clients>>

\* The constructor has returned, or thrown AOContextClosed.
ChildMade(t) ==
  LET f == Top(t)
      r == RefsAfter(f)
      made == fate[f.x] # "refused"
  IN /\ At(t, "child.add")
     /\ blocks' = [blocks EXCEPT ![f.c] = @ - 1]
     /\ refs' = IF made THEN r ELSE [r EXCEPT ![f.x] = 0]
     /\ owned' = IF made THEN owned \cup {f.x} ELSE owned
     /\ Return(t)
     /\ UNCHANGED <<flags, nodes, exec, closer, history, issued, program>>

\* startCancellableTask: start() succeeds, or it throws and the handler is
\* taken out again before the exception goes on.
StartSucceeds(t) ==
  /\ At(t, "start.fn")
  /\ Goto(t, "unblock")
  /\ UNCHANGED <<words, nodes, exec, closer, history, clients>>

StartThrows(t) ==
  /\ At(t, "start.fn")
  /\ gone[Top(t).x] = "no"
  /\ gone' = [gone EXCEPT ![Top(t).x] = "asked"]
  /\ Enter(t, "unblock", Frame("remove", Top(t).c, Top(t).x, FALSE))
  /\ UNCHANGED <<words, nodes, exec, closer, fate, clients>>

\* What is left of the node when removeCloseHandler returns: nothing, if it
\* was a client's handler; the context itself if it was a child.
GoneAfter(x) == IF x \in Handlers THEN [gone EXCEPT ![x] = "yes"] ELSE gone

\* The node x is out of the list s, wherever in it it was.
Unlink(s, x) == IF x \in ToSet(s) THEN RemoveAt(s, CHOOSE i \in DOMAIN s : s[i] = x) ELSE s

\* Mutant: the closing thread is not told that the handler is gone.
RemoveUntold(t) ==
  LET f == Top(t)
      finished == f.x \in ToSet(list[f.c]) \/ ClosingInThisThread(t, f.c)
  IN /\ At(t, "remove")
     /\ list' = [list EXCEPT ![f.c] = Unlink(@, f.x)]
     /\ IF finished THEN /\ gone' = GoneAfter(f.x)
                         /\ refs' = RefsAfter(f)
                         /\ Return(t)
                    ELSE /\ Goto(t, "remove.wait")
                         /\ UNCHANGED <<gone, refs>>
     /\ UNCHANGED <<flags, blocks, hasPtr, destroyed, done, exec, closer, fate, clients>>

\* Mutant: whichever thread is closing.
RemoveAtOnce(t) ==
  LET f == Top(t)
      popped == f.x \notin ToSet(list[f.c])
  IN /\ At(t, "remove")
     /\ list' = [list EXCEPT ![f.c] = Unlink(@, f.x)]
     /\ destroyed' = IF popped /\ hasPtr[f.x] THEN [destroyed EXCEPT ![f.x] = TRUE] ELSE destroyed
     /\ gone' = GoneAfter(f.x)
     /\ refs' = RefsAfter(f)
     /\ Return(t)
     /\ UNCHANGED <<flags, blocks, hasPtr, done, exec, closer, fate, clients>>

\* removeCloseHandler: out of the list; or, popped already by the closing
\* that goes on in this thread, tell callCloseHandlers not to touch it again.
RemoveCloseHandler(t) ==
  LET f == Top(t)
      inList == f.x \in ToSet(list[f.c])
      mine == ~inList /\ ClosingInThisThread(t, f.c)
  IN /\ At(t, "remove")
     /\ list' = [list EXCEPT ![f.c] = Unlink(@, f.x)]
     /\ destroyed' = IF mine /\ hasPtr[f.x]
                     THEN [destroyed EXCEPT ![f.x] = TRUE] ELSE destroyed
     /\ IF inList \/ mine THEN /\ gone' = GoneAfter(f.x)
                               /\ refs' = RefsAfter(f)
                               /\ Return(t)
                          ELSE /\ Goto(t, "remove.wait")
                               /\ UNCHANGED <<gone, refs>>
     /\ UNCHANGED <<flags, blocks, hasPtr, done, exec, closer, fate, clients>>

\* ... or popped by another thread: spin until it is done with the handler.
RemoveWait(t) ==
  LET f == Top(t) IN
  /\ At(t, "remove.wait")
  /\ done[f.x]
  /\ gone' = GoneAfter(f.x)
  /\ refs' = RefsAfter(f)
  /\ Return(t)
  /\ UNCHANGED <<flags, blocks, nodes, exec, closer, fate, clients>>

-----------------------------------------------------------------------------
\* close: startClose; the first caller takes an anchor and closes.
StartClose(t) ==
  LET c == Top(t).c IN
  /\ At(t, "close")
  /\ flags' = [flags EXCEPT ![c] = @ \cup {"PreparingForClosing"}]
  /\ IF "PreparingForClosing" \in flags[c]
     THEN /\ Goto(t, "close.lost")
          /\ UNCHANGED <<refs, closer>>
     ELSE /\ Goto(t, "close.wait")
          /\ refs' = [refs EXCEPT ![c] = @ + 1]
          /\ closer' = [closer EXCEPT ![c] = t]
  /\ UNCHANGED <<blocks, nodes, exec, history, clients>>

\* Mutant: close does not wait for the works of other threads.
WaitForNobody(t) ==
  /\ At(t, "close.wait")
  /\ Goto(t, "close.flag")
  /\ UNCHANGED <<words, nodes, exec, closer, history, clients>>

\* waitForClosing: until the blocks left are as many as this thread's items.
WaitForClosing(t) ==
  /\ At(t, "close.wait")
  /\ blocks[Top(t).c] <= BlockCount(t)
  /\ Goto(t, "close.flag")
  /\ UNCHANGED <<words, nodes, exec, closer, history, clients>>

SetClosingFlag(t) ==
  LET c == Top(t).c IN
  /\ At(t, "close.flag")
  /\ flags' = [flags EXCEPT ![c] = @ \cup {"Closing"}]
  /\ stack' = [stack EXCEPT ![t][1].pc = "close.pop", ![t][1].x = None]
  /\ UNCHANGED <<refs, blocks, nodes, exec, closer, history, clients>>

\* Mutant: a handler that destroyed itself ends the loop.
PopUntilDestroyed(t) ==
  LET c == Top(t).c
      last == Top(t).x
      over == list[c] = <<>> \/ (last # None /\ destroyed[last])
      next == IF over THEN None ELSE Head(list[c])
  IN /\ At(t, "close.pop")
     /\ done' = IF last # None /\ ~destroyed[last] THEN [done EXCEPT ![last] = TRUE] ELSE done
     /\ IF over
        THEN UNCHANGED <<list, hasPtr, destroyed>>
        ELSE /\ hasPtr' = [hasPtr EXCEPT ![next] = TRUE]
             /\ destroyed' = [destroyed EXCEPT ![next] = FALSE]
             /\ list' = [list EXCEPT ![c] = Tail(@)]
     /\ stack' = [stack EXCEPT ![t][1].x = next,
                               ![t][1].pc = IF over THEN "close.parent" ELSE "close.call"]
     /\ UNCHANGED <<words, exec, closer, history, clients>>

\* callCloseHandlers, one turn of its loop under the lock: finish with the
\* handler just called, unless that destroyed itself, and pop the next one.
PopHandler(t) ==
  LET c == Top(t).c
      last == Top(t).x
      touch == last # None /\ ~destroyed[last]
      ptrs == IF touch THEN [hasPtr EXCEPT ![last] = FALSE] ELSE hasPtr
      next == IF list[c] = <<>> THEN None ELSE Head(list[c])
  IN /\ At(t, "close.pop")
     /\ done' = IF touch THEN [done EXCEPT ![last] = TRUE] ELSE done
     /\ IF next = None
        THEN /\ hasPtr' = ptrs
             /\ UNCHANGED <<list, destroyed>>
        ELSE /\ hasPtr' = [ptrs EXCEPT ![next] = TRUE]
             /\ destroyed' = [destroyed EXCEPT ![next] = FALSE]
             /\ list' = [list EXCEPT ![c] = Tail(@)]
     /\ stack' = [stack EXCEPT ![t][1].x = next,
                               ![t][1].pc = IF next = None THEN "close.parent" ELSE "close.call"]
     /\ UNCHANGED <<words, exec, closer, history, clients>>

\* aoContextClose of a client's handler or of a child context.
CallHandler(t) ==
  LET x == Top(t).x IN
  /\ At(t, "close.call")
  /\ fate' = [fate EXCEPT ![x] = IF @ = "called" THEN "called twice" ELSE "called"]
  /\ Enter(t, "close.pop", IF x \in Contexts THEN Frame("child.anchor", x, None, FALSE)
                                             ELSE Frame("handler", Top(t).c, x, FALSE))
  /\ UNCHANGED <<words, nodes, exec, closer, gone, clients>>

\* Mutant: aoContextClose takes no anchor.
AnchorForgotten(t) ==
  /\ At(t, "child.anchor")
  /\ Goto(t, "child.done")
  /\ UNCHANGED <<words, nodes, exec, closer, history, clients>>

\* AOContextImpl::aoContextClose: hold the child, ...
Anchor(t) ==
  LET k == Top(t).c IN
  /\ At(t, "child.anchor")
  /\ refs' = [refs EXCEPT ![k] = @ + 1]
  /\ Goto(t, "child.done")
  /\ UNCHANGED <<flags, blocks, nodes, exec, closer, history, clients>>

\* Mutant: the child does not announce that it is done with before it closes.
CloseChildSilently(t) ==
  LET k == Top(t).c IN
  /\ At(t, "child.done")
  /\ Enter(t, "child.release", Frame("close", k, None, FALSE))
  /\ UNCHANGED <<words, nodes, exec, closer, history, clients>>

\* ... let a concurrent removeCloseHandler(child) pass, and close the child.
CloseChild(t) ==
  LET k == Top(t).c IN
  /\ At(t, "child.done")
  /\ destroyed' = [destroyed EXCEPT ![k] = TRUE]
  /\ done' = [done EXCEPT ![k] = TRUE]
  /\ Enter(t, "child.release", Frame("close", k, None, FALSE))
  /\ UNCHANGED <<words, list, hasPtr, exec, closer, history, clients>>

ReleaseAnchor(t) ==
  /\ At(t, "child.release")
  /\ refs' = [refs EXCEPT ![Top(t).c] = @ - 1]
  /\ Return(t)
  /\ UNCHANGED <<flags, blocks, nodes, exec, closer, history, clients>>

\* A child takes itself out of its parent's list.
LeaveParent(t) ==
  LET c == Top(t).c IN
  /\ At(t, "close.parent")
  /\ IF Parent[c] = None
     THEN Goto(t, "close.reset")
     ELSE Enter(t, "close.reset", Frame("remove", Parent[c], c, FALSE))
  /\ UNCHANGED <<words, nodes, exec, closer, history, clients>>

\* m_executorHolder.reset(): the strand, if the root owns it, drops its queue
\* and with every closure a reference.
ResetExecutor(t) ==
  LET c == Top(t).c
      drops == OwnsExecutor[program] /\ Parent[c] = None
      Closures(k) == Cardinality({i \in DOMAIN queue : queue[i].ctx = k})
  IN /\ At(t, "close.reset")
     /\ holder' = [holder EXCEPT ![c] = FALSE]
     /\ queue' = IF drops THEN <<>> ELSE queue
     /\ refs' = IF drops THEN [k \in Contexts |-> refs[k] - Closures(k)] ELSE refs
     /\ Goto(t, "close.closed")
     /\ UNCHANGED <<flags, blocks, nodes, closer, history, clients>>

SetClosedFlag(t) ==
  /\ At(t, "close.closed")
  /\ flags' = [flags EXCEPT ![Top(t).c] = @ \cup {"Closed"}]
  /\ Goto(t, "close.release")
  /\ UNCHANGED <<refs, blocks, nodes, exec, closer, history, clients>>

\* close returns: its anchor goes.
CloseReturns(t) ==
  LET f == Top(t) IN
  /\ At(t, "close.release")
  /\ refs' = [RefsAfter(f) EXCEPT ![f.c] = @ - 1]
  /\ Return(t)
  /\ UNCHANGED <<flags, blocks, nodes, exec, closer, history, clients>>

\* waitForClosed: not in the closing thread, not in a work of the group.
WaitForClosed(t) ==
  LET f == Top(t) IN
  /\ At(t, "close.lost")
  /\ ClosingInThisThread(t, f.c) \/ WorkInThisThread(t) \/ "Closed" \in flags[f.c]
  /\ refs' = RefsAfter(f)
  /\ Return(t)
  /\ UNCHANGED <<flags, blocks, nodes, exec, closer, history, clients>>

-----------------------------------------------------------------------------
ExecStep(t) == \/ BlockClose(t, "exec", "exec.post") \/ UndoBlock(t, "exec.undo")
               \/ Post(t) \/ PostInline(t) \/ InlineReturns(t)
               \/ Unblock(t, "exec.unblock")
               \/ RunBlock(t) \/ RunUndo(t) \/ RunDrop(t) \/ WorkReturns(t)

HandlerStep(t) == \/ BlockClose(t, "add", "add.insert")
                  \/ BlockClose(t, "start", "start.insert")
                  \/ BlockClose(t, "child", "child.new")
                  \/ UndoBlock(t, "undo")
                  \/ Insert(t, "add.insert", "unblock")
                  \/ Insert(t, "start.insert", "start.fn")
                  \/ ConstructChild(t) \/ ChildMade(t)
                  \/ StartSucceeds(t) \/ StartThrows(t)
                  \/ Unblock(t, "unblock")
                  \/ RemoveCloseHandler(t) \/ RemoveWait(t)

CloseStep(t) == \/ StartClose(t) \/ WaitForClosing(t) \/ SetClosingFlag(t)
                \/ PopHandler(t) \/ CallHandler(t) \/ HandlerReturns(t)
                \/ Anchor(t) \/ CloseChild(t) \/ ReleaseAnchor(t)
                \/ LeaveParent(t) \/ ResetExecutor(t) \/ SetClosedFlag(t)
                \/ CloseReturns(t) \/ WaitForClosed(t) \/ ReleaseOwner(t)

Step(t) == ExecStep(t) \/ HandlerStep(t) \/ CloseStep(t)

\* No call is in progress and nothing is queued: the clients may stop here.
Quiescent == /\ \A t \in AllThreads : stack[t] = <<>>
             /\ queue = <<>>
             /\ UNCHANGED vars

Next == \/ \E t \in AllThreads, k \in Calls[program] : Issue(t, k)
        \/ \E t \in AllThreads : Step(t)
        \/ TakeClosure
        \/ Quiescent

Spec == Init /\ [][Next]_vars

\* Threads are scheduled, works and handlers return, the executor runs.
FairSpec == /\ Spec
            /\ \A t \in AllThreads : WF_vars(Step(t))
            /\ WF_vars(TakeClosure)

-----------------------------------------------------------------------------
TypeOK ==
  /\ flags \in [Contexts -> SUBSET Flags]
  /\ refs \in [Contexts -> Nat] /\ blocks \in [Contexts -> Nat]
  /\ \A c \in Contexts : list[c] \in Seq(Nodes) /\ IsInjective(list[c])
  /\ {hasPtr, destroyed, done} \subseteq [Nodes -> BOOLEAN]
  /\ \A i \in DOMAIN queue : queue[i].ctx \in Contexts /\ queue[i].work \in Works
  /\ holder \in [Contexts -> BOOLEAN]
  /\ closer \in [Contexts -> AllThreads \cup {None}]
  /\ fate \in [Nodes -> {"new", "adding", "added", "refused", "called"}]
  /\ gone \in [Handlers -> {"no", "asked", "yes"}]
  /\ program \in Programs /\ owned \subseteq Contexts /\ issued \subseteq Calls[program]

Inside(t, c) == \E f \in FramesOf(t) : f.c = c /\ f.pc \in InsidePcs

\* Once the Closing flag of a context is set no other thread is inside it: no
\* work of it runs beside its close handlers, no handler is added behind their
\* back ("Wait until other threads remove their blockClose", line 256).
ClosingExcludesOthers ==
  \A c \in Contexts : "Closing" \in flags[c] =>
    \A t \in AllThreads : Inside(t, c) => t = closer[c]

\* A handler that was added is called, once, unless it was removed first: a
\* context that is Closed has an empty list of handlers.
NoHandlerForgotten ==
  \A c \in Contexts : "Closed" \in flags[c] => list[c] = <<>>

\* The thread t has popped the handler x and is not done with it, or is in it.
UsePcs == {"close.call", "close.pop", "handler"}
Uses(t, x) == \E f \in FramesOf(t) : f.pc \in UsePcs /\ f.x = x

\* When removeCloseHandler has returned callCloseHandlers will not write to the
\* handler (lines 198-213, 289-300), whoever popped it and whenever.
RemovedHandlerIsNotWritten ==
  \A t \in AllThreads, x \in Handlers : Uses(t, x) /\ gone[x] = "yes" => destroyed[x]

\* ... and no aoContextClose of it runs on another thread: when the call returns
\* the handler is in no thread's hands but those of the caller itself.
RemovalWaitsForOthers ==
  [][\A t \in AllThreads, x \in Handlers :
       Uses(t, x) /\ gone[x] # "yes" /\ gone'[x] = "yes" => stack'[t] # stack[t]]_vars

\* So the client may free its handler when removeCloseHandler has returned.
RemovedHandlerIsUnused == []RemovedHandlerIsNotWritten /\ RemovalWaitsForOthers

\* No call goes on in a context whose last reference is gone, and a closing
\* parent does not write to a child that was deleted: the anchors, the
\* reference of each closure and the wait of removeCloseHandler see to it.
\* exec and makeChild find the executor in m_executorHolder: close releases it
\* only when they are out.
NoUseAfterFree ==
  \A f \in Frames :
    /\ refs[f.c] > 0
    /\ f.pc \in {"close.call", "close.pop"} /\ f.x \in Contexts =>
         refs[f.x] > 0 \/ destroyed[f.x]
    /\ f.pc \in {"exec.post", "child.new"} => holder[f.c] /\ holder[Root]

\* No call into a context waits for ever: not close for a work that closes,
\* not removeCloseHandler for the handler that calls it, not a child and its
\* parent that are closed at the same time for each other (lines 316-330).
CallsReturn == \A t \in AllThreads : stack[t] # <<>> ~> stack[t] = <<>>

\* "When the parent is closed all its children will be closed automatically"
\* (ao-context.h:44): when close of the parent is over, the close handlers of
\* every child have been called.  (A child that another thread closes leaves
\* the parent's list just before it sets its own Closed flag.)
ClosedParentHasClosedChildren ==
  \A c \in Contexts :
    (Parent[c] # None /\ fate[c] \in {"added", "called"} /\ "Closed" \in flags[Parent[c]])
      => /\ "Closing" \in flags[c] /\ list[c] = <<>>
         /\ \A f \in Frames : f.pc = "handler" => f.c # c

\* What close promises to those who wait for it: nobody else is inside, every
\* handler was called, and the children went first.
CloseIsComplete ==
  TypeOK /\ ClosingExcludesOthers /\ NoHandlerForgotten /\ ClosedParentHasClosedChildren

\* The wait of close takes every block that is left for one of its own thread's
\* items (ao-context-impl.h:254-261), and the items are counted by group: it is
\* the wait that was meant where no work closes, or where the context that its
\* works close is the only one of the program.
ClosesAlone(g) ==
  \/ \A k \in Calls[g] : k.op \in {"close", "destroy"} => k.by \notin Works
  \/ \E c \in Contexts : /\ Parent[c] = None /\ Initial[g] \subseteq {c}
                        /\ \A k \in Calls[g] : k.ctx = c /\ k.op # "child"

\* Contexts are closed and destroyed by threads of their own, not by works or
\* handlers: then a close that finds the context closing may wait for its end.
ClosesFromThreads(g) == \A k \in Calls[g] : k.op \in {"close", "destroy"} => k.by \in Threads

Gate == INSTANCE CloseGate WITH
          Threads <- AllThreads,
          Nobody  <- None,
          phase   <- IF "Closed" \in flags[Root] THEN "closed"
                     ELSE IF "Closing" \in flags[Root] THEN "closing"
                     ELSE IF "PreparingForClosing" \in flags[Root] THEN "preparing"
                     ELSE "open",
          inside  <- {t \in AllThreads : Inside(t, Root)},
          closer  <- closer[Root]

\* The root keeps the promise of the gate, with works, handlers, children and
\* nested calls in place of CloseProtocol's bare calls.
ImplementsCloseGate == Gate!Spec
=============================================================================
