-------------------------- MODULE ContextLives_proofs --------------------------
(***************************************************************************)
(* How the contexts of a tree are made, called, closed and leave their     *)
(* parents, on top of what AOContext_proofs shows of their handlers,       *)
(* blocks and calls: where contexts are closed by threads of their own     *)
(* (ClosesFromThreads) every child of a closed context has been closed,    *)
(* the counter of a context is the number of those who refer to it, and    *)
(* no call goes on in a context that is gone.                              *)
(***************************************************************************)
EXTENDS AOContext_proofs

-----------------------------------------------------------------------------
\* The steps of the calls, each of its kind.

LEMMA GotoSpots ==
  ASSUME CloseInv, NEW t \in AllThreads, stack[t] # <<>>, NEW p \in Pcs, Goto(t, p),
         NEW s, s = TopSpot(t)
  PROVE  \E g \in FrameSet : /\ TurnsTo(s, g) /\ g.pc = p /\ g.c = Top(t).c /\ g.x = Top(t).x
                             /\ g.ref = Top(t).ref
<1>1. HandlersInv /\ Shapes /\ Top(t) \in FrameSet
  BY TopFacts DEF CloseInv, HandlersInv
<1>2. PICK g : g = [Top(t) EXCEPT !.pc = p]
  OBVIOUS
<1>3. PICK a : a = <<g>>
  OBVIOUS
<1>4. Moves(t, 1, a)
  BY <1>1, <1>2, <1>3, GotoMoves
<1>5. g \in FrameSet /\ g.pc = p /\ g.c = Top(t).c /\ g.x = Top(t).x /\ g.ref = Top(t).ref
  BY <1>1, <1>2 DEF FrameSet
<1>6. TurnsTo(s, g)
  BY <1>1, <1>3, <1>4, TurnSpots
<1> QED BY <1>5, <1>6

LEMMA ReturnSpots ==
  ASSUME CloseInv, NEW t \in AllThreads, stack[t] # <<>>, Return(t), NEW s, s = TopSpot(t)
  PROVE  Leaves(s)
<1>1. HandlersInv
  BY DEF CloseInv
<1>2. Moves(t, 1, <<>>)
  BY <1>1, ReturnMoves
<1> QED BY <1>1, <1>2, LeaveSpots

LEMMA EnterSpots ==
  ASSUME CloseInv, NEW t \in AllThreads, stack[t] # <<>>, NEW p \in Pcs, NEW h \in FrameSet,
         Enter(t, p, h), NEW s, s = TopSpot(t), NEW r, r = <<t, Len(stack[t]) + 1>>
  PROVE  \E g \in FrameSet : /\ CallsUp(s, r, h, g) /\ g.pc = p /\ g.c = Top(t).c /\ g.x = Top(t).x
                             /\ g.ref = Top(t).ref
<1>1. HandlersInv /\ Shapes /\ Top(t) \in FrameSet
  BY TopFacts DEF CloseInv, HandlersInv
<1>2. PICK g : g = [Top(t) EXCEPT !.pc = p]
  OBVIOUS
<1>3. PICK a : a = <<h, g>>
  OBVIOUS
<1>4. Moves(t, 1, a)
  BY <1>1, <1>2, <1>3, EnterMoves
<1>5. g \in FrameSet /\ g.pc = p /\ g.c = Top(t).c /\ g.x = Top(t).x /\ g.ref = Top(t).ref
  BY <1>1, <1>2 DEF FrameSet
<1>6. CallsUp(s, r, h, g)
  BY <1>1, <1>3, <1>4, <1>5, CallSpots
<1> QED BY <1>5, <1>6

\* A frame that goes on.
LEMMA GoesOnAlive ==
  ASSUME LifeInv, CloseInv, NEW t \in AllThreads, stack[t] # <<>>, NEW p, Goto(t, p), SameLife,
         <<Top(t).pc, p>> \in Gotos, p \notin {"child.add", "child.release"}
  PROVE  LifeInv'
<1>1. PICK s : s = TopSpot(t)
  OBVIOUS
<1>2. p \in Pcs
  BY DEF Gotos, Pcs, AddPcs, ChildPcs, KnowPcs, ClosingPcs
<1>3. PICK g \in FrameSet : /\ TurnsTo(s, g) /\ g.pc = p /\ g.c = Top(t).c /\ g.x = Top(t).x
                            /\ g.ref = Top(t).ref
  BY <1>1, <1>2, GotoSpots
<1>4. GoesTo(Top(t), g)
  BY <1>3, TopFacts DEF GoesTo
<1> QED BY <1>1, <1>3, <1>4, GotoKeeps

\* A frame that returns.
LEMMA GoesBackAlive ==
  ASSUME LifeInv, CloseInv, NEW t \in AllThreads, stack[t] # <<>>, Return(t), SameLife, EndsWell(Top(t))
  PROVE  LifeInv'
<1>1. PICK s : s = TopSpot(t)
  OBVIOUS
<1>2. Leaves(s)
  BY <1>1, ReturnSpots
<1> QED BY <1>1, <1>2, LeaveKeeps

\* A frame that calls h, and waits at p.
MayCall(t, p, h) ==
  /\ <<Top(t).pc, p>> \in Gotos /\ FrameLife(h)
  /\ \A g \in FrameSet : g.pc = p /\ g.c = Top(t).c /\ g.x = Top(t).x /\ g.ref = Top(t).ref => Above(h, g)
  /\ h.pc \in {"inline", "add", "remove", "close"}
  /\ h.pc = "add" => ~h.ref
  /\ h.pc = "remove" /\ h.x \in Contexts => Top(t).pc = "close.parent"
  /\ h.pc = "close" => h.c = Top(t).c /\ Top(t).pc = "child.done"

LEMMA CallsAlive ==
  ASSUME LifeInv, CloseInv, NEW t \in AllThreads, stack[t] # <<>>, NEW p, NEW h \in FrameSet,
         Enter(t, p, h), SameLife, MayCall(t, p, h)
  PROVE  LifeInv'
<1>1. PICK s, r : s = TopSpot(t) /\ r = <<t, Len(stack[t]) + 1>>
  OBVIOUS
<1>2. p \in Pcs
  BY DEF MayCall, Gotos, Pcs, AddPcs, ChildPcs, KnowPcs, ClosingPcs
<1>3. PICK g \in FrameSet : /\ CallsUp(s, r, h, g) /\ g.pc = p /\ g.c = Top(t).c /\ g.x = Top(t).x
                            /\ g.ref = Top(t).ref
  BY <1>1, <1>2, EnterSpots
<1>4. GoesTo(Top(t), g)
  BY <1>3, TopFacts DEF GoesTo, MayCall
<1>5. Above(h, g)
  BY <1>3 DEF MayCall
<1>6. /\ FrameLife(h) /\ h.pc \in {"inline", "add", "remove", "close"}
      /\ h.pc = "add" => ~h.ref
      /\ h.pc = "remove" /\ h.x \in Contexts => Top(t).pc = "close.parent"
      /\ h.pc = "close" => h.c = Top(t).c /\ Top(t).pc = "child.done"
  BY DEF MayCall
<1> QED BY <1>1, <1>3, <1>4, <1>5, <1>6, CallKeeps

Advances(t) == /\ stack[t] # <<>> /\ SameLife
               /\ \E p : Goto(t, p) /\ <<Top(t).pc, p>> \in Gotos /\ p \notin {"child.add", "child.release"}

LEMMA AdvancesAlive == ASSUME LifeInv, CloseInv, NEW t \in AllThreads, Advances(t) PROVE LifeInv'
BY GoesOnAlive DEF Advances

LEMMA GotosAlive ==
  ASSUME LifeInv, CloseInv, NEW t \in AllThreads,
         \/ BlockClose(t, "exec", "exec.post") \/ BlockClose(t, "add", "add.insert")
         \/ BlockClose(t, "start", "start.insert") \/ BlockClose(t, "child", "child.new")
         \/ Post(t) \/ RunBlock(t) \/ RunUndo(t) \/ StartSucceeds(t)
         \/ WaitForClosing(t) \/ Anchor(t) \/ ResetExecutor(t)
  PROVE  LifeInv'
<1> USE DEF At, SameLife, nodes, words, exec, history, clients
<1>1. ASSUME NEW q, NEW n, BlockClose(t, q, n),
             <<q, n>> \in {<<"exec", "exec.post">>, <<"add", "add.insert">>,
                           <<"start", "start.insert">>, <<"child", "child.new">>}
      PROVE  Advances(t)
  <2>1. PICK p : p = IF "PreparingForClosing" \in flags[Top(t).c]
                     THEN (IF q = "exec" THEN "exec.undo" ELSE "undo") ELSE n
    OBVIOUS
  <2>2. Goto(t, p) /\ stack[t] # <<>> /\ SameLife /\ Top(t).pc = q
    BY <1>1, <2>1 DEF BlockClose
  <2>3. <<q, p>> \in Gotos /\ p \notin {"child.add", "child.release"}
    BY <1>1, <2>1 DEF Gotos
  <2> QED BY <2>2, <2>3 DEF Advances
<1>2. BlockClose(t, "exec", "exec.post") \/ BlockClose(t, "add", "add.insert")
      \/ BlockClose(t, "start", "start.insert") \/ BlockClose(t, "child", "child.new") => Advances(t)
  BY <1>1
<1>3. Post(t) => Advances(t)
  BY DEF Post, Advances, Gotos
<1>4. RunBlock(t) => Advances(t)
  <2>1. SUFFICES ASSUME RunBlock(t) PROVE Advances(t)
    OBVIOUS
  <2>2. PICK p : p = IF "PreparingForClosing" \in flags[Top(t).c] THEN "run.undo" ELSE "work"
    OBVIOUS
  <2>3. Goto(t, p) /\ stack[t] # <<>> /\ SameLife /\ Top(t).pc = "run"
    BY <2>1, <2>2 DEF RunBlock
  <2>4. <<"run", p>> \in Gotos /\ p \notin {"child.add", "child.release"}
    BY <2>2 DEF Gotos
  <2> QED BY <2>3, <2>4 DEF Advances
<1>5. RunUndo(t) => Advances(t)
  BY DEF RunUndo, Advances, Gotos
<1>6. StartSucceeds(t) => Advances(t)
  BY DEF StartSucceeds, Advances, Gotos
<1>7. WaitForClosing(t) => Advances(t)
  BY DEF WaitForClosing, Advances, Gotos
<1>8. Anchor(t) => Advances(t)
  BY DEF Anchor, Advances, Gotos
<1>9. ResetExecutor(t) => Advances(t)
  BY DEF ResetExecutor, Advances, Gotos
<1> QED BY <1>2, <1>3, <1>4, <1>5, <1>6, <1>7, <1>8, <1>9, AdvancesAlive

\* A call that loses the race of closing waits, one that wins it closes.
LEMMA StartCloseAlive ==
  ASSUME LifeInv, CloseInv, NEW t \in AllThreads, StartClose(t)
  PROVE  LifeInv'
<1>1. PICK h, s : h = Top(t) /\ s = TopSpot(t)
  OBVIOUS
<1>2. /\ stack[t] # <<>> /\ h.pc = "close" /\ list' = list /\ fate' = fate /\ program' = program
      /\ flags' = [flags EXCEPT ![h.c] = @ \cup {"PreparingForClosing"}]
  BY <1>1 DEF StartClose, At, nodes, history, clients
<1>3. h.c \in Contexts /\ flags \in [Contexts -> SUBSET Flags]
  BY <1>1, <1>2, TopFacts DEF CloseInv, HandlersInv, Shapes
<1>4. CASE "PreparingForClosing" \in flags[h.c]
  <2>1. Goto(t, "close.lost")
    BY <1>1, <1>4 DEF StartClose
  <2>2. flags' = flags
    <3>1. PICK S : S = flags[h.c]
      OBVIOUS
    <3>2. S \cup {"PreparingForClosing"} = S
      BY <1>4, <3>1
    <3> QED BY <1>2, <1>3, <3>1, <3>2
  <2> QED BY <1>1, <1>2, <2>1, <2>2, AdvancesAlive DEF Advances, SameLife, Gotos
<1>5. CASE "PreparingForClosing" \notin flags[h.c]
  <2>1. Goto(t, "close.wait") /\ "close.wait" \in Pcs
    BY <1>1, <1>5 DEF StartClose, Pcs, ClosingPcs
  <2>2. PICK g \in FrameSet : /\ TurnsTo(s, g) /\ g.pc = "close.wait" /\ g.c = h.c /\ g.x = h.x
                              /\ g.ref = h.ref
    BY <1>1, <1>2, <2>1, GotoSpots
  <2>3. "Closed" \notin flags[h.c]
    BY <1>3, <1>5 DEF CloseInv, FlagsOK
  <2>4. \A c \in Contexts : "Closed" \in flags'[c] <=> "Closed" \in flags[c]
    BY <1>2, <1>3
  <2> QED BY <1>1, <1>2, <2>2, <2>3, <2>4, FlagLife
<1> QED BY <1>4, <1>5

LEMMA SetClosingAlive ==
  ASSUME LifeInv, CloseInv, NEW t \in AllThreads, SetClosingFlag(t)
  PROVE  LifeInv'
<1>1. PICK h, s : h = Top(t) /\ s = TopSpot(t)
  OBVIOUS
<1>2. /\ stack[t] # <<>> /\ h.pc = "close.flag" /\ list' = list /\ fate' = fate /\ program' = program
      /\ flags' = [flags EXCEPT ![h.c] = @ \cup {"Closing"}]
  BY <1>1 DEF SetClosingFlag, At, nodes, history, clients
<1>3. h.c \in Contexts /\ h \in FrameSet /\ flags \in [Contexts -> SUBSET Flags]
  BY <1>1, <1>2, TopFacts DEF CloseInv, HandlersInv, Shapes
<1>4. PICK g : g = [Top(t) EXCEPT !.pc = "close.pop", !.x = None]
  OBVIOUS
<1>5. stack' = [stack EXCEPT ![t] = [@ EXCEPT ![1] = g]]
  <2>1. Top(t) = stack[t][1] /\ Len(stack[t]) >= 1 /\ stack[t] \in Seq(FrameSet)
        /\ stack[t][1] \in FrameSet /\ stack \in [AllThreads -> Seq(FrameSet)]
    BY <1>2, TopIs DEF CloseInv, HandlersInv, Shapes
  <2> QED BY <1>4, <2>1 DEF SetClosingFlag
<1>6. g \in FrameSet /\ g.pc = "close.pop" /\ g.c = h.c /\ g.x = None /\ g.ref = h.ref
  <2>1. "close.pop" \in Pcs /\ None \in Arguments
    BY DEF Pcs, ClosingPcs, Arguments
  <2> QED BY <1>1, <1>3, <1>4, <2>1 DEF FrameSet
<1>7. PICK a : a = <<g>>
  OBVIOUS
<1>8. Moves(t, 1, a) /\ HandlersInv
  BY <1>2, <1>5, <1>6, <1>7, ReframeMoves DEF CloseInv
<1>9. TurnsTo(s, g)
  BY <1>1, <1>2, <1>7, <1>8, TurnSpots
<1>10. \A c \in Contexts : "Closed" \in flags'[c] <=> "Closed" \in flags[c]
  BY <1>2, <1>3
<1> QED BY <1>1, <1>2, <1>6, <1>9, <1>10, FlagLife

LEMMA SetClosedAlive ==
  ASSUME LifeInv, CloseInv, NEW t \in AllThreads, SetClosedFlag(t)
  PROVE  LifeInv'
<1>1. PICK h, s : h = Top(t) /\ s = TopSpot(t)
  OBVIOUS
<1>2. /\ stack[t] # <<>> /\ h.pc = "close.closed" /\ list' = list /\ fate' = fate /\ program' = program
      /\ flags' = [flags EXCEPT ![h.c] = @ \cup {"Closed"}] /\ Goto(t, "close.release")
  BY <1>1 DEF SetClosedFlag, At, nodes, history, clients
<1>3. "close.release" \in Pcs
  BY DEF Pcs, ClosingPcs
<1>4. PICK g \in FrameSet : /\ TurnsTo(s, g) /\ g.pc = "close.release" /\ g.c = h.c /\ g.x = h.x
                            /\ g.ref = h.ref
  BY <1>1, <1>2, <1>3, GotoSpots
<1> QED BY <1>1, <1>2, <1>4, ClosedLife

LEMMA PopAlive ==
  ASSUME LifeInv, CloseInv, NEW t \in AllThreads, PopHandler(t)
  PROVE  LifeInv'
<1>1. PICK h, s, l : h = Top(t) /\ s = TopSpot(t) /\ l = list[h.c]
  OBVIOUS
<1>2. PICK next, p : /\ next = IF l = <<>> THEN None ELSE Head(l)
                     /\ p = IF next = None THEN "close.parent" ELSE "close.call"
  OBVIOUS
<1>3. /\ stack[t] # <<>> /\ h.pc = "close.pop" /\ flags' = flags /\ fate' = fate /\ program' = program
      /\ list' = IF next = None THEN list ELSE [list EXCEPT ![h.c] = Tail(@)]
      /\ stack' = [stack EXCEPT ![t][1].x = next, ![t][1].pc = p]
  BY <1>1, <1>2 DEF PopHandler, At, words, exec, history, clients
<1>4. h.c \in Contexts /\ l \in Seq(Nodes) /\ h \in FrameSet
  BY <1>1, <1>3, TopFacts DEF CloseInv, HandlersInv, Shapes
<1>5. IF l = <<>> THEN next = None ELSE next \in Nodes /\ next # None /\ next = Head(l)
  BY <1>2, <1>4, TailIs, TreeAssumption DEF Nodes
<1>6. PICK g : g = [Top(t) EXCEPT !.pc = p, !.x = next]
  OBVIOUS
<1>7. stack' = [stack EXCEPT ![t] = [@ EXCEPT ![1] = g]]
  <2>1. Top(t) = stack[t][1] /\ Len(stack[t]) >= 1 /\ stack[t] \in Seq(FrameSet)
        /\ stack[t][1] \in FrameSet /\ stack \in [AllThreads -> Seq(FrameSet)]
    BY <1>3, TopIs DEF CloseInv, HandlersInv, Shapes
  <2> QED BY <1>3, <1>6, <2>1
<1>8. PICK a : a = <<g>>
  OBVIOUS
<1>9. g \in FrameSet /\ g.pc = p /\ g.c = h.c /\ g.x = next /\ g.ref = h.ref
  <2>1. p \in Pcs /\ next \in Arguments
    BY <1>2, <1>5 DEF Pcs, ClosingPcs, Arguments
  <2> QED BY <1>1, <1>4, <1>6, <2>1 DEF FrameSet
<1>10. Moves(t, 1, a) /\ HandlersInv
  BY <1>3, <1>7, <1>8, <1>9, ReframeMoves DEF CloseInv
<1>11. TurnsTo(s, g)
  BY <1>1, <1>3, <1>8, <1>10, TurnSpots
<1>12. \/ list[h.c] = <<>> /\ g.pc = "close.parent" /\ list' = list
       \/ /\ list[h.c] # <<>> /\ g.pc = "close.call" /\ g.x = Head(list[h.c])
          /\ list' = [list EXCEPT ![h.c] = Tail(@)]
  <2>1. CASE l = <<>>
    BY <1>1, <1>2, <1>3, <1>5, <1>9, <2>1
  <2>2. CASE l # <<>>
    <3>1. list' = [list EXCEPT ![h.c] = Tail(@)] /\ p = "close.call" /\ next = Head(l)
      BY <1>2, <1>3, <1>5, <2>2
    <3> QED BY <1>1, <1>9, <2>2, <3>1
  <2> QED BY <2>1, <2>2
<1> QED BY <1>1, <1>3, <1>9, <1>11, <1>12, PopLife

LEMMA CallHandlerAlive ==
  ASSUME LifeInv, CloseInv, NEW t \in AllThreads, CallHandler(t)
  PROVE  LifeInv'
<1>1. PICK h, s, r : h = Top(t) /\ s = TopSpot(t) /\ r = <<t, Len(stack[t]) + 1>>
  OBVIOUS
<1>2. PICK f : f = IF h.x \in Contexts THEN Frame("child.anchor", h.x, None, FALSE)
                                       ELSE Frame("handler", h.c, h.x, FALSE)
  OBVIOUS
<1>3. /\ stack[t] # <<>> /\ h.pc = "close.call" /\ flags' = flags /\ list' = list /\ program' = program
      /\ Enter(t, "close.pop", f)
  BY <1>1, <1>2 DEF CallHandler, At, words, nodes, clients
<1>4. h \in FrameSet /\ h.c \in Contexts /\ h.x \in Arguments /\ FrameLife(h)
  BY <1>1, <1>3, TopFacts, TopIs, TopLifeIs DEF CloseInv
<1>5. /\ f \in FrameSet /\ ~f.ref
      /\ \/ h.x \in Contexts /\ f.pc = "child.anchor" /\ f.c = h.x /\ f.x = None
         \/ h.x \notin Contexts /\ f.pc = "handler" /\ f.c = h.c /\ f.x = h.x
  <2>1. CASE h.x \in Contexts
    <3>1. f = Frame("child.anchor", h.x, None, FALSE) /\ None \in Arguments /\ "child.anchor" \in Pcs
      BY <1>2, <2>1 DEF Arguments, Pcs
    <3> QED BY <2>1, <3>1 DEF Frame, FrameSet
  <2>2. CASE h.x \notin Contexts
    <3>1. f = Frame("handler", h.c, h.x, FALSE) /\ "handler" \in Pcs
      BY <1>2, <2>2 DEF Pcs
    <3> QED BY <1>4, <2>2, <3>1 DEF Frame, FrameSet
  <2> QED BY <2>1, <2>2
<1>6. "close.pop" \in Pcs
  BY DEF Pcs, ClosingPcs
<1>7. PICK g \in FrameSet : /\ CallsUp(s, r, f, g) /\ g.pc = "close.pop" /\ g.c = h.c /\ g.x = h.x
                            /\ g.ref = h.ref
  BY <1>1, <1>3, <1>5, <1>6, EnterSpots
<1>8. fate'[h.x] = "called" /\ \A x \in Nodes \ {h.x} : fate'[x] = fate[x]
  <2>1. h.x \in Nodes /\ fate[h.x] = "added"
    <3>1. h.x \in Nodes /\ h.pc \in PoppedPcs
      BY <1>3, <1>4 DEF FrameLife, PoppedPcs
    <3>2. fate[h.x] = IF h.pc = "close.call" THEN "added" ELSE "called"
      BY <1>4, <3>1 DEF FrameLife
    <3> QED BY <1>3, <3>1, <3>2
  <2>2. PICK v : v = IF fate[h.x] = "called" THEN "called twice" ELSE "called"
    OBVIOUS
  <2>3. fate' = [fate EXCEPT ![h.x] = v] /\ fate \in [Nodes -> Fates]
    BY <1>1, <2>2 DEF CallHandler, CloseInv, HandlersInv, Shapes
  <2>4. v = "called"
    BY <2>1, <2>2
  <2> QED BY <2>1, <2>3, <2>4
<1> QED BY <1>1, <1>3, <1>5, <1>7, <1>8, CallLife

LEMMA InsertAlive ==
  ASSUME LifeInv, CloseInv, NEW t \in AllThreads, NEW q, NEW p, Insert(t, q, p),
         <<q, p>> \in {<<"add.insert", "unblock">>, <<"start.insert", "start.fn">>}
  PROVE  LifeInv'
<1>1. PICK h, s : h = Top(t) /\ s = TopSpot(t)
  OBVIOUS
<1>2. /\ stack[t] # <<>> /\ h.pc = q /\ flags' = flags /\ program' = program /\ Goto(t, p)
      /\ list' = [list EXCEPT ![h.c] = <<h.x>> \o @] /\ fate' = [fate EXCEPT ![h.x] = "added"]
  BY <1>1 DEF Insert, At, words, clients
<1>3. p \in Pcs
  BY DEF Pcs, KnowPcs
<1>4. PICK g \in FrameSet : /\ TurnsTo(s, g) /\ g.pc = p /\ g.c = h.c /\ g.x = h.x /\ g.ref = h.ref
  BY <1>1, <1>2, <1>3, GotoSpots
<1>5. <<h.pc, g.pc>> \in {<<"add.insert", "unblock">>, <<"start.insert", "start.fn">>}
  BY <1>2, <1>4
<1> QED BY <1>1, <1>2, <1>4, <1>5, InsertLife

\* Nothing but close.lost ends early.
LEMMA UndoAlive ==
  ASSUME LifeInv, CloseInv, NEW t \in AllThreads, UndoBlock(t, "undo") \/ UndoBlock(t, "exec.undo")
  PROVE  LifeInv'
<1>1. PICK h, s : h = Top(t) /\ s = TopSpot(t)
  OBVIOUS
<1>2. stack[t] # <<>> /\ flags' = flags /\ list' = list /\ program' = program /\ Return(t)
  BY DEF UndoBlock, At, nodes, clients
<1>3. CASE UndoBlock(t, "undo")
  <2>1. h.pc = "undo" /\ fate' = [fate EXCEPT ![h.x] = "refused"]
    BY <1>1, <1>3 DEF UndoBlock, At
  <2>2. Leaves(s)
    BY <1>1, <1>2, ReturnSpots
  <2> QED BY <1>1, <1>2, <2>1, <2>2, UndoLife
<1>4. CASE UndoBlock(t, "exec.undo")
  <2>1. Top(t).pc = "exec.undo" /\ fate' = fate
    BY <1>4 DEF UndoBlock, At
  <2>2. EndsWell(Top(t))
    BY <2>1 DEF EndsWell, CloserPcs, ClosingPcs
  <2> QED BY <1>2, <2>1, <2>2, GoesBackAlive DEF SameLife
<1> QED BY <1>3, <1>4

LEMMA RemoveAlive ==
  ASSUME LifeInv, CloseInv, NEW t \in AllThreads, RemoveCloseHandler(t)
  PROVE  LifeInv'
<1>1. PICK h, s : h = Top(t) /\ s = TopSpot(t)
  OBVIOUS
<1>2. PICK over : over = (h.x \in ToSet(list[h.c]) \/ (h.x \notin ToSet(list[h.c]) /\ ClosingInThisThread(t, h.c)))
  OBVIOUS
<1>3. /\ stack[t] # <<>> /\ h.pc = "remove" /\ flags' = flags /\ fate' = fate /\ program' = program
      /\ list' = [list EXCEPT ![h.c] = Unlink(@, h.x)]
      /\ IF over THEN Return(t) ELSE Goto(t, "remove.wait")
  BY <1>1, <1>2 DEF RemoveCloseHandler, At, clients
<1>4. CASE over
  <2>1. Leaves(s)
    BY <1>1, <1>3, <1>4, ReturnSpots
  <2> QED BY <1>1, <1>3, <2>1, UnlinkLife
<1>5. CASE ~over
  <2>1. list' = list
    <3>1. h.c \in Contexts /\ list \in [Contexts -> Seq(Nodes)]
      BY <1>1, <1>3, TopFacts DEF CloseInv, HandlersInv, Shapes
    <3>2. PICK l : l = list[h.c]
      OBVIOUS
    <3>3. Unlink(l, h.x) = l
      BY <1>2, <1>5, <3>2 DEF Unlink
    <3>4. PICK v : v = Unlink(l, h.x)
      OBVIOUS
    <3>5. list' = [list EXCEPT ![h.c] = v]
      BY <1>3, <3>2, <3>4
    <3> QED BY <3>1, <3>2, <3>3, <3>4, <3>5
  <2>2. Goto(t, "remove.wait") /\ <<"remove", "remove.wait">> \in Gotos
    BY <1>3, <1>5 DEF Gotos
  <2> QED BY <1>1, <1>3, <2>1, <2>2, AdvancesAlive DEF Advances, SameLife
<1> QED BY <1>4, <1>5

\* A close that finds the context closing returns when that is over: it is called
\* by none of the closes and works of its own thread.
LEMMA LostWaits ==
  ASSUME LifeInv, CloseInv, NEW t \in AllThreads, At(t, "close.lost")
  PROVE  ~ClosingInThisThread(t, Top(t).c)
<1>1. PICK h, s : h = Top(t) /\ s = TopSpot(t)
  OBVIOUS
<1>2. /\ s \in Spots /\ Fr(s) = h /\ s[1] = t /\ h.pc = "close.lost" /\ h.c \in Contexts
      /\ \A q \in Spots : q[1] = t => q[2] <= s[2]
  BY <1>1, TopLifeIs DEF At
<1>3. SUFFICES ASSUME NEW i \in DOMAIN stack[t], stack[t][i].c = h.c, stack[t][i].pc \in ClosingPcs
               PROVE  FALSE
  BY <1>1 DEF ClosingInThisThread, FramesOf, ToSet
<1>4. PICK q : q = <<t, Len(stack[t]) + 1 - i>>
  OBVIOUS
<1>5. q \in Spots /\ Fr(q) = stack[t][i] /\ q[1] = t
  BY <1>4, FrameSpot DEF CloseInv, HandlersInv
<1>6. q # s
  BY <1>2, <1>3, <1>5 DEF ClosingPcs
<1>7. q[2] < s[2]
  <2>1. q[2] \in Nat /\ s[2] \in Nat /\ q = <<q[1], q[2]>> /\ s = <<s[1], s[2]>>
    BY <1>2, <1>5, SpotIs DEF CloseInv, HandlersInv
  <2> QED BY <1>2, <1>5, <1>6, <2>1
<1>8. Depth[Fr(q).c] < Depth[Fr(s).c]
  <2>1. Fr(s).pc \in DescentPcs /\ Fr(q).pc \in ClosingPcs
    BY <1>2, <1>3, <1>5 DEF DescentPcs, CloserPcs
  <2> QED BY <1>2, <1>5, <1>7, <2>1 DEF LifeInv, Descends
<1>9. Depth[h.c] \in Nat /\ Depth[h.c] < Depth[h.c]
  BY <1>2, <1>3, <1>5, <1>8, DepthIs
<1> QED BY <1>9

LEMMA LostOutsideWorks ==
  ASSUME LifeInv, CloseInv, NEW t \in AllThreads, At(t, "close.lost")
  PROVE  ~WorkInThisThread(t)
<1>1. PICK h, s, n : h = Top(t) /\ s = TopSpot(t) /\ n = Len(stack[t])
  OBVIOUS
<1>2. /\ s \in Spots /\ Fr(s) = h /\ Lies(s) /\ h.pc = "close.lost" /\ stack[t] # <<>>
  BY <1>1, TopLifeIs DEF At
<1>3. h = stack[t][1] /\ n \in Nat /\ DOMAIN stack[t] = 1..n /\ Shapes /\ HandlersInv
  <2>1. Shapes /\ HandlersInv
    BY DEF CloseInv, HandlersInv
  <2>2. stack[t] \in Seq(FrameSet)
    BY <2>1 DEF Shapes
  <2>3. h = stack[t][1]
    BY <1>1, <1>2, <2>1, TopIs
  <2> QED BY <1>1, <2>1, <2>2, <2>3
<1>4. Unworked(stack[t])
  <2>1. NoWorkCloses
    BY ThreadsAssumption DEF LifeInv, ClosesFromThreads, NoWorkCloses
  <2> QED BY <2>1 DEF CloseInv, OutsideWorks
<1>5. ASSUME NEW i \in 1..n PROVE stack[t][i].pc \notin ItemPcs
  <2>1. CASE i = 1
    BY <1>2, <1>3, <2>1 DEF ItemPcs
  <2>2. CASE i # 1
    <3>1. 2 \in 1..n /\ 2 \in DOMAIN stack[t]
      BY <1>3, <2>2
    <3>2. PICK q : q = <<t, Len(stack[t]) + 1 - 2>>
      OBVIOUS
    <3>3. q \in Spots /\ Fr(q) = stack[t][2]
      BY <1>3, <3>1, <3>2, FrameSpot
    <3>4. q = Under(s)
      BY <1>1, <1>3, <3>2 DEF Under, TopSpot
    <3>5. Above(h, Fr(q))
      BY <1>2, <3>3, <3>4 DEF Lies
    <3>6. stack[t][2].pc \in {"destroy", "child.release"}
      BY <1>2, <3>3, <3>5 DEF Above, ClientPcs, AddCallPcs, RemovePcs, StartPcs, ChildPcs, ChildCallPcs
    <3>7. CASE i = 2
      BY <3>6, <3>7 DEF ItemPcs
    <3>8. CASE i # 2
      <4>1. 2 < i /\ i \in DOMAIN stack[t]
        BY <1>3, <2>2, <3>8
      <4>2. stack[t][2].pc \in CallerPcs
        BY <3>6 DEF CallerPcs
      <4> QED BY <1>4, <3>1, <4>1, <4>2 DEF Unworked
    <3> QED BY <3>7, <3>8
  <2> QED BY <2>1, <2>2
<1>6. {i \in DOMAIN stack[t] : stack[t][i].pc \in ItemPcs} = {}
  BY <1>3, <1>5
<1>7. BlockCount(t) = 0
  BY <1>6, FS_EmptySet DEF BlockCount
<1> QED BY <1>7 DEF WorkInThisThread

\* The calls that return.
LEMMA ReturnsAlive ==
  ASSUME LifeInv, CloseInv, NEW t \in AllThreads,
         \/ Unblock(t, "exec.unblock") \/ Unblock(t, "unblock") \/ WorkReturns(t) \/ RunDrop(t)
         \/ RemoveWait(t) \/ HandlerReturns(t) \/ ChildMade(t)
         \/ ReleaseAnchor(t) \/ ReleaseOwner(t) \/ CloseReturns(t) \/ WaitForClosed(t)
  PROVE  LifeInv'
<1> USE DEF At, SameLife, nodes, words, exec, history, clients
<1>1. PICK h : h = Top(t)
  OBVIOUS
<1>2. stack[t] # <<>> /\ Return(t) /\ SameLife
  <2>1. Unblock(t, "exec.unblock") \/ Unblock(t, "unblock") \/ WorkReturns(t) \/ RunDrop(t)
          => stack[t] # <<>> /\ Return(t) /\ SameLife
    BY DEF Unblock, WorkReturns, RunDrop
  <2>2. RemoveWait(t) \/ HandlerReturns(t) \/ ChildMade(t) => stack[t] # <<>> /\ Return(t) /\ SameLife
    BY DEF RemoveWait, HandlerReturns, ChildMade
  <2>3. ReleaseAnchor(t) \/ ReleaseOwner(t) \/ CloseReturns(t) \/ WaitForClosed(t)
          => stack[t] # <<>> /\ Return(t) /\ SameLife
    BY DEF ReleaseAnchor, ReleaseOwner, CloseReturns, WaitForClosed
  <2> QED BY <2>1, <2>2, <2>3
<1>3. h.pc \in {"exec.unblock", "unblock", "work", "run.drop", "remove.wait", "handler", "child.add",
                "child.release", "destroy", "close.release", "close.lost"}
  <2>1. Unblock(t, "exec.unblock") \/ Unblock(t, "unblock") \/ WorkReturns(t) \/ RunDrop(t)
          => h.pc \in {"exec.unblock", "unblock", "work", "run.drop"}
    BY <1>1 DEF Unblock, WorkReturns, RunDrop
  <2>2. RemoveWait(t) \/ HandlerReturns(t) \/ ChildMade(t)
          => h.pc \in {"remove.wait", "handler", "child.add"}
    BY <1>1 DEF RemoveWait, HandlerReturns, ChildMade
  <2>3. ReleaseAnchor(t) \/ ReleaseOwner(t) \/ CloseReturns(t) \/ WaitForClosed(t)
          => h.pc \in {"child.release", "destroy", "close.release", "close.lost"}
    BY <1>1 DEF ReleaseAnchor, ReleaseOwner, CloseReturns, WaitForClosed
  <2> QED BY <2>1, <2>2, <2>3
<1>4. h.pc \in CloserPcs => "Closed" \in flags[h.c]
  <2>1. h.pc \in CloserPcs => h.pc \in {"close.release", "close.lost"}
    BY <1>3 DEF CloserPcs, ClosingPcs
  <2>2. CASE h.pc = "close.release"
    <3>1. FrameLife(h) /\ h.pc \in ClosingPcs
      BY <1>1, <1>2, <2>2, TopLifeIs DEF ClosingPcs
    <3> QED BY <2>2, <3>1 DEF FrameLife
  <2>3. CASE h.pc = "close.lost"
    <3>1. At(t, "close.lost")
      BY <1>1, <1>2, <2>3
    <3>2. WaitForClosed(t)
      BY <1>1, <2>3 DEF Unblock, WorkReturns, RunDrop, RemoveWait, HandlerReturns, ChildMade, ReleaseAnchor,
                        ReleaseOwner, CloseReturns
    <3>3. ClosingInThisThread(t, h.c) \/ WorkInThisThread(t) \/ "Closed" \in flags[h.c]
      BY <1>1, <3>2 DEF WaitForClosed
    <3> QED BY <1>1, <3>1, <3>3, LostWaits, LostOutsideWorks
  <2> QED BY <2>1, <2>2, <2>3
<1>5. EndsWell(h)
  BY <1>3, <1>4 DEF EndsWell
<1> QED BY <1>1, <1>2, <1>5, GoesBackAlive

\* The calls that the calls make.
LEMMA PostInlineAlive ==
  ASSUME LifeInv, CloseInv, NEW t \in AllThreads, PostInline(t)
  PROVE  LifeInv'
<1>1. PICK h, f : h = Top(t) /\ f = Frame("inline", h.c, h.x, TRUE)
  OBVIOUS
<1>2. stack[t] # <<>> /\ h.pc = "exec.post" /\ SameLife /\ Enter(t, "exec.inline", f)
  BY <1>1 DEF PostInline, At, SameLife, words, nodes, exec, history, clients
<1>3. h \in FrameSet /\ h.c \in Contexts /\ h.x \in Arguments
  BY <1>1, <1>2, TopFacts, TopIs DEF CloseInv
<1>4. f \in FrameSet /\ f.pc = "inline" /\ f.c = h.c /\ f.x = h.x /\ f.ref
  BY <1>1, <1>3 DEF Frame, FrameSet, Pcs
<1>5. \A g \in FrameSet : g.pc = "exec.inline" /\ g.c = h.c /\ g.x = h.x /\ g.ref = h.ref => Above(f, g)
  BY <1>4 DEF Above
<1>6. FrameLife(f)
  BY <1>4 DEF FrameLife, AddCallPcs, RemovePcs, AddPcs, ChildPcs, PoppedPcs, ClosingPcs
<1>7. <<Top(t).pc, "exec.inline">> \in Gotos
  BY <1>1, <1>2 DEF Gotos
<1>8. /\ f.pc \in {"inline", "add", "remove", "close"} /\ (f.pc = "add" => ~f.ref)
      /\ (f.pc = "remove" /\ f.x \in Contexts => Top(t).pc = "close.parent")
      /\ (f.pc = "close" => f.c = Top(t).c /\ Top(t).pc = "child.done")
  BY <1>4
<1>9. MayCall(t, "exec.inline", f)
  BY <1>1, <1>5, <1>6, <1>7, <1>8 DEF MayCall
<1> QED BY <1>2, <1>4, <1>9, CallsAlive

LEMMA ConstructAlive ==
  ASSUME LifeInv, CloseInv, NEW t \in AllThreads, ConstructChild(t)
  PROVE  LifeInv'
<1>1. PICK h, f : h = Top(t) /\ f = Frame("add", h.c, h.x, FALSE)
  OBVIOUS
<1>2. stack[t] # <<>> /\ h.pc = "child.new" /\ SameLife /\ Enter(t, "child.add", f)
  BY <1>1 DEF ConstructChild, At, SameLife, nodes, history, clients
<1>3. h \in FrameSet /\ h.c \in Contexts /\ h.x \in Contexts /\ FrameLife(h)
  BY <1>1, <1>2, TopLifeIs DEF FrameOK, ChildPcs
<1>4. f \in FrameSet /\ f.pc = "add" /\ f.c = h.c /\ f.x = h.x /\ ~f.ref
  <2>1. h.x \in Arguments /\ "add" \in Pcs
    BY <1>3 DEF Arguments, Nodes, Pcs, AddPcs
  <2> QED BY <1>1, <1>3, <2>1 DEF Frame, FrameSet
<1>5. \A g \in FrameSet : g.pc = "child.add" /\ g.c = h.c /\ g.x = h.x /\ g.ref = h.ref => Above(f, g)
  BY <1>4 DEF Above, AddCallPcs
<1>6. FrameLife(f)
  <2>1. Parent[f.x] = f.c /\ fate[f.x] = "adding"
    BY <1>2, <1>3, <1>4 DEF FrameLife, ChildPcs
  <2> QED BY <1>4, <2>1 DEF FrameLife, PoppedPcs, ClosingPcs
<1>7. <<Top(t).pc, "child.add">> \in Gotos
  BY <1>1, <1>2 DEF Gotos
<1>8. /\ f.pc \in {"inline", "add", "remove", "close"} /\ (f.pc = "add" => ~f.ref)
      /\ (f.pc = "remove" /\ f.x \in Contexts => Top(t).pc = "close.parent")
      /\ (f.pc = "close" => f.c = Top(t).c /\ Top(t).pc = "child.done")
  BY <1>4
<1>9. MayCall(t, "child.add", f)
  BY <1>1, <1>5, <1>6, <1>7, <1>8 DEF MayCall
<1> QED BY <1>2, <1>4, <1>9, CallsAlive

LEMMA StartThrowsAlive ==
  ASSUME LifeInv, CloseInv, NEW t \in AllThreads, StartThrows(t)
  PROVE  LifeInv'
<1>1. PICK h, f, s : h = Top(t) /\ f = Frame("remove", h.c, h.x, FALSE) /\ s = TopSpot(t)
  OBVIOUS
<1>2. stack[t] # <<>> /\ h.pc = "start.fn" /\ SameLife /\ Enter(t, "unblock", f)
  BY <1>1 DEF StartThrows, At, SameLife, words, nodes, exec, clients
<1>3. h \in FrameSet /\ h.c \in Contexts /\ h.x \in Handlers /\ Lies(s) /\ Fr(s) = h
  BY <1>1, <1>2, TopLifeIs DEF FrameOK, StartPcs
<1>4. f \in FrameSet /\ f.pc = "remove" /\ f.c = h.c /\ f.x = h.x /\ ~f.ref
  <2>1. h.x \in Arguments /\ "remove" \in Pcs
    BY <1>3 DEF Arguments, Nodes, Pcs, KnowPcs
  <2> QED BY <1>1, <1>3, <2>1 DEF Frame, FrameSet
<1>5. h.ref
  <2>1. h.pc \notin CloserPcs \cup AddCallPcs \cup RemovePcs \cup ChildCallPcs \cup {"inline", "handler"}
    BY <1>2 DEF CloserPcs, ClosingPcs, AddCallPcs, RemovePcs, ChildCallPcs
  <2>2. Above(h, Fr(Under(s))) => h.ref
    BY <2>1 DEF Above
  <2>3. Lowest(h) => h.ref
    BY DEF Lowest
  <2> QED BY <1>3, <2>2, <2>3 DEF Lies
<1>6. \A g \in FrameSet : g.pc = "unblock" /\ g.c = h.c /\ g.x = h.x /\ g.ref = h.ref => Above(f, g)
  BY <1>3, <1>4, <1>5 DEF Above, RemovePcs
<1>7. FrameLife(f)
  <2>1. f.x \notin Contexts
    BY <1>3, <1>4, TreeAssumption
  <2> QED BY <1>4, <2>1 DEF FrameLife, PoppedPcs, ClosingPcs
<1>8. <<Top(t).pc, "unblock">> \in Gotos
  BY <1>1, <1>2 DEF Gotos
<1>9. /\ f.pc \in {"inline", "add", "remove", "close"} /\ (f.pc = "add" => ~f.ref)
      /\ (f.pc = "remove" /\ f.x \in Contexts => Top(t).pc = "close.parent")
      /\ (f.pc = "close" => f.c = Top(t).c /\ Top(t).pc = "child.done")
  BY <1>3, <1>4, TreeAssumption
<1>10. MayCall(t, "unblock", f)
  BY <1>1, <1>6, <1>7, <1>8, <1>9 DEF MayCall
<1> QED BY <1>2, <1>4, <1>10, CallsAlive

LEMMA CloseChildAlive ==
  ASSUME LifeInv, CloseInv, NEW t \in AllThreads, CloseChild(t)
  PROVE  LifeInv'
<1>1. PICK h, f : h = Top(t) /\ f = Frame("close", h.c, None, FALSE)
  OBVIOUS
<1>2. stack[t] # <<>> /\ h.pc = "child.done" /\ SameLife /\ Enter(t, "child.release", f)
  BY <1>1 DEF CloseChild, At, SameLife, words, exec, history, clients
<1>3. h \in FrameSet /\ h.c \in Contexts
  BY <1>1, <1>2, TopFacts
<1>4. f \in FrameSet /\ f.pc = "close" /\ f.c = h.c /\ f.x = None /\ ~f.ref
  BY <1>1, <1>3 DEF Frame, FrameSet, Pcs, Arguments
<1>5. \A g \in FrameSet : g.pc = "child.release" /\ g.c = h.c /\ g.x = h.x /\ g.ref = h.ref => Above(f, g)
  BY <1>4 DEF Above, CloserPcs
<1>6. FrameLife(f)
  BY <1>4 DEF FrameLife, AddCallPcs, RemovePcs, AddPcs, ChildPcs, PoppedPcs, ClosingPcs
<1>7. <<Top(t).pc, "child.release">> \in Gotos
  BY <1>1, <1>2 DEF Gotos
<1>8. /\ f.pc \in {"inline", "add", "remove", "close"} /\ (f.pc = "add" => ~f.ref)
      /\ (f.pc = "remove" /\ f.x \in Contexts => Top(t).pc = "close.parent")
      /\ (f.pc = "close" => f.c = Top(t).c /\ Top(t).pc = "child.done")
  BY <1>1, <1>2, <1>4
<1>9. MayCall(t, "child.release", f)
  BY <1>1, <1>5, <1>6, <1>7, <1>8 DEF MayCall
<1> QED BY <1>2, <1>4, <1>9, CallsAlive

LEMMA LeaveParentAlive ==
  ASSUME LifeInv, CloseInv, NEW t \in AllThreads, LeaveParent(t)
  PROVE  LifeInv'
<1>1. PICK h, f : h = Top(t) /\ f = Frame("remove", Parent[h.c], h.c, FALSE)
  OBVIOUS
<1>2. /\ stack[t] # <<>> /\ h.pc = "close.parent" /\ SameLife
      /\ IF Parent[h.c] = None THEN Goto(t, "close.reset") ELSE Enter(t, "close.reset", f)
  BY <1>1 DEF LeaveParent, At, SameLife, words, nodes, exec, history, clients
<1>3. h \in FrameSet /\ h.c \in Contexts
  BY <1>1, <1>2, TopFacts
<1>4. <<Top(t).pc, "close.reset">> \in Gotos
  BY <1>1, <1>2 DEF Gotos
<1>5. CASE Parent[h.c] = None
  BY <1>2, <1>4, <1>5, AdvancesAlive DEF Advances
<1>6. CASE Parent[h.c] # None
  <2>1. Parent[h.c] \in Contexts
    BY <1>3, <1>6, TreeAssumption
  <2>2. f \in FrameSet /\ f.pc = "remove" /\ f.c = Parent[h.c] /\ f.x = h.c /\ ~f.ref
    <3>1. h.c \in Arguments /\ "remove" \in Pcs
      BY <1>3 DEF Arguments, Nodes, Pcs, KnowPcs
    <3> QED BY <1>1, <2>1, <3>1 DEF Frame, FrameSet
  <2>3. \A g \in FrameSet : g.pc = "close.reset" /\ g.c = h.c /\ g.x = h.x /\ g.ref = h.ref => Above(f, g)
    BY <2>2 DEF Above, RemovePcs
  <2>4. FrameLife(f)
    BY <2>2 DEF FrameLife, AddPcs, ChildPcs, PoppedPcs, ClosingPcs
  <2>5. /\ f.pc \in {"inline", "add", "remove", "close"} /\ (f.pc = "add" => ~f.ref)
        /\ (f.pc = "remove" /\ f.x \in Contexts => Top(t).pc = "close.parent")
        /\ (f.pc = "close" => f.c = Top(t).c /\ Top(t).pc = "child.done")
    BY <1>1, <1>2, <2>2
  <2>6. Enter(t, "close.reset", f)
    BY <1>2, <1>6
  <2>7. MayCall(t, "close.reset", f)
    BY <1>1, <1>4, <2>3, <2>4, <2>5 DEF MayCall
  <2> QED BY <1>2, <2>2, <2>6, <2>7, CallsAlive
<1> QED BY <1>5, <1>6

LEMMA InlineReturnsAlive ==
  ASSUME LifeInv, CloseInv, NEW t \in AllThreads, InlineReturns(t)
  PROVE  LifeInv'
<1>1. /\ SameLife /\ stack[t] # <<>> /\ Top(t).pc = "inline" /\ Shapes /\ HandlersInv
  BY DEF InlineReturns, At, SameLife, nodes, exec, history, clients, CloseInv, HandlersInv
<1>2. /\ 1 + 1 \in DOMAIN stack[t] /\ stack[t][1 + 1].pc = "exec.inline" /\ stack[t] \in Seq(FrameSet)
  BY <1>1, TopIs DEF NestedOK, Shapes
<1>3. PICK f : f = stack[t][2]
  OBVIOUS
<1>4. f \in FrameSet /\ f.pc = "exec.inline" /\ 2 \in DOMAIN stack[t] /\ 2 <= Len(stack[t])
  BY <1>2, <1>3
<1>5. PICK g : g = [f EXCEPT !.pc = "exec.unblock"]
  OBVIOUS
<1>6. g \in FrameSet /\ g.pc = "exec.unblock" /\ g.c = f.c /\ g.x = f.x /\ g.ref = f.ref
  BY <1>4, <1>5 DEF FrameSet, Pcs
<1>7. PICK a : a = <<g>>
  OBVIOUS
<1>8. a \in Seq(FrameSet)
  BY <1>6, <1>7, OneIs
<1>9. Moves(t, 2, a)
  <2>1. stack' = [stack EXCEPT ![t] = a \o Tail(Tail(stack[t]))]
    BY <1>1, <1>3, <1>5, <1>7 DEF InlineReturns, Shapes
  <2>2. Tail(Tail(stack[t])) = IF 2 = 0 THEN stack[t] ELSE IF 2 = 1 THEN Tail(stack[t])
                               ELSE Tail(Tail(stack[t]))
    OBVIOUS
  <2>3. stack' = [stack EXCEPT ![t] = a \o (IF 2 = 0 THEN stack[t] ELSE IF 2 = 1 THEN Tail(stack[t])
                                                 ELSE Tail(Tail(stack[t])))]
    BY <2>1, <2>2
  <2> QED BY <1>1, <1>4, <1>8, <2>3, StackMoves
<1>10. PICK r, s : r = TopSpot(t) /\ s = <<t, Len(stack[t]) + 1 - 2>>
  OBVIOUS
<1>11. s \in Spots /\ Fr(s) = f
  BY <1>1, <1>3, <1>4, <1>10, FrameSpot
<1>12. s = Under(r)
  <2>1. Len(stack[t]) \in Nat
    BY <1>2
  <2> QED BY <1>10, <2>1 DEF Under, TopSpot
<1>13. LeavesTo(r, s, g)
  BY <1>1, <1>7, <1>9, <1>10, <1>11, <1>12, BackSpots
<1>14. GoesTo(Fr(s), g)
  BY <1>4, <1>6, <1>11 DEF GoesTo, Gotos
<1> QED BY <1>1, <1>4, <1>6, <1>10, <1>11, <1>13, <1>14, InlineKeeps

LEMMA TakeAlive ==
  ASSUME LifeInv, CloseInv, TakeClosure
  PROVE  LifeInv'
<1>1. /\ SameLife /\ stack[Worker] = <<>> /\ Worker \in AllThreads /\ Shapes
      /\ queue # <<>> /\ queue \in Seq(Closures)
  BY DEF TakeClosure, SameLife, words, nodes, history, clients, AllThreads, CloseInv, HandlersInv, Shapes
<1>2. PICK e : e = Head(queue)
  OBVIOUS
<1>3. e.ctx \in Contexts /\ e.work \in Arguments
  <2>1. e \in Closures
    BY <1>1, <1>2, TailIs
  <2> QED BY <2>1 DEF Closures
<1>4. PICK f : f = Frame("run", e.ctx, e.work, TRUE)
  OBVIOUS
<1>5. f \in FrameSet /\ f.pc = "run" /\ f.ref
  BY <1>3, <1>4 DEF Frame, FrameSet, Pcs
<1>6. PICK a, r : a = <<f>> /\ r = <<Worker, Len(stack[Worker]) + 1>>
  OBVIOUS
<1>7. a \in Seq(FrameSet)
  BY <1>5, <1>6, OneIs
<1>8. Moves(Worker, 0, a)
  <2>1. a \o stack[Worker] = a
    BY <1>1, <1>7
  <2>2. stack' = [stack EXCEPT ![Worker] = a \o stack[Worker]]
    BY <1>2, <1>4, <1>6, <2>1 DEF TakeClosure
  <2>3. HandlersInv
    BY DEF CloseInv
  <2> QED BY <1>1, <1>7, <2>2, <2>3, PushMoves
<1>9. Pushes(r, f) /\ Under(r) = TopSpot(Worker) /\ r[1] = Worker
  BY <1>1, <1>6, <1>8, PushSpots
<1>10. FrameLife(f)' /\ Lowest(f)
  BY <1>5 DEF FrameLife, AddCallPcs, RemovePcs, AddPcs, ChildPcs, PoppedPcs, ClosingPcs, Lowest
<1>11. Gentle
  BY <1>1, SameIsGentle
<1>12. /\ f.pc \in {"exec", "add", "start", "child", "remove", "close", "run"}
       /\ (f.pc = "child" => fate[f.x] = "new") /\ (f.pc = "remove" => f.x \notin Contexts)
  BY <1>5
<1> QED BY <1>1, <1>9, <1>10, <1>11, <1>12, PushKeeps

\* Client code on top of a stack is a work or a handler.
LEMMA SiteIs ==
  ASSUME LifeInv, CloseInv, NEW t \in AllThreads, stack[t] # <<>>
  PROVE  Site(t) = None \/ (Top(t).pc \in SitePcs /\ Site(t) \in Works \cup Handlers)
<1>1. PICK h, s : h = Top(t) /\ s = TopSpot(t)
  OBVIOUS
<1>2. h.pc \in WorkPcs => h.x \in Works
  BY <1>1, TopFacts
<1>3. Lies(s) /\ Fr(s) = h
  BY <1>1, TopLifeIs
<1>4. h.pc = "handler" => h.x \in Handlers
  <2>1. SUFFICES ASSUME h.pc = "handler" PROVE h.x \in Handlers
    OBVIOUS
  <2>2. h.pc \notin ClientPcs \cup CloserPcs \cup AddCallPcs \cup RemovePcs \cup ChildCallPcs
    BY <2>1 DEF ClientPcs, CloserPcs, ClosingPcs, AddCallPcs, RemovePcs, ChildCallPcs, StartPcs, ChildPcs
  <2>3. ~Lowest(h)
    BY <2>1, <2>2 DEF Lowest
  <2>4. Above(h, Fr(Under(s)))
    BY <1>3, <2>3 DEF Lies
  <2> QED BY <2>1, <2>2, <2>4 DEF Above
<1>5. CASE h.pc \in SitePcs
  <2>1. h.x \in Works \cup Handlers
    BY <1>2, <1>4, <1>5 DEF SitePcs, WorkPcs
  <2>2. Site(t) = h.x
    BY <1>1, <1>5 DEF Site, SitePcs
  <2> QED BY <1>1, <1>5, <2>1, <2>2
<1>6. CASE h.pc \notin SitePcs
  BY <1>1, <1>6 DEF Site, SitePcs
<1> QED BY <1>5, <1>6

LEMMA IssueAlive ==
  ASSUME LifeInv, CloseInv, NEW t \in AllThreads, NEW k \in Calls[program], Issue(t, k)
  PROVE  LifeInv'
<1>1. /\ flags' = flags /\ list' = list /\ program' = program /\ k.by = Site(t) /\ Permitted(k)
      /\ HandlersInv /\ Shapes /\ program \in Programs
      /\ fate' = IF k.op \in {"add", "start", "child"} THEN [fate EXCEPT ![k.arg] = "adding"] ELSE fate
  BY DEF Issue, nodes, exec, CloseInv, HandlersInv, Shapes
<1>2. /\ k.op \in Ops /\ k.ctx \in Contexts /\ k.by \in Threads \cup Works \cup Handlers
      /\ k.arg \in IF k.op \in {"add", "start", "remove"} THEN Handlers
                   ELSE IF k.op = "child" THEN Contexts
                   ELSE IF k.op = "exec" THEN Works ELSE {None}
  BY <1>1, ProgramsAssumption
<1>3. k.by # None
  BY <1>2, TreeAssumption
<1>4. stack[t] # <<>> => Top(t).pc \in SitePcs /\ k.op \notin {"close", "destroy"}
  <2>1. SUFFICES ASSUME stack[t] # <<>>
                 PROVE  Top(t).pc \in SitePcs /\ k.op \notin {"close", "destroy"}
    OBVIOUS
  <2>2. Top(t).pc \in SitePcs /\ k.by \in Works \cup Handlers
    BY <1>1, <1>3, <2>1, SiteIs
  <2>3. k.op \in {"close", "destroy"} => k.by \in Threads
    BY DEF LifeInv, ClosesFromThreads
  <2> QED BY <2>2, <2>3, ThreadsAssumption
<1>5. PICK f : f = Frame(k.op, k.ctx, k.arg, TRUE)
  OBVIOUS
<1>6. f \in FrameSet /\ f.pc = k.op /\ f.c = k.ctx /\ f.x = k.arg /\ f.ref
  <2>1. k.op \in Pcs /\ k.arg \in Arguments
    BY <1>2 DEF Ops, Pcs, AddPcs, ChildPcs, KnowPcs, Arguments, Nodes
  <2> QED BY <1>2, <1>5, <2>1 DEF Frame, FrameSet
<1>7. stack \in [AllThreads -> Seq(FrameSet)]
  BY <1>1 DEF Shapes
<1>8. CASE k.op = "destroy"
  <2>1. stack[t] = <<>> /\ SameLife
    BY <1>1, <1>4, <1>8 DEF SameLife
  <2>2. PICK h : h = [f EXCEPT !.pc = "close", !.ref = FALSE]
    OBVIOUS
  <2>3. h \in FrameSet /\ h.pc = "close" /\ h.c = f.c /\ ~h.ref
    BY <1>6, <2>2 DEF FrameSet, Pcs
  <2>4. PICK a, s, r : a = <<h, f>> /\ s = <<t, 1>> /\ r = <<t, 2>>
    OBVIOUS
  <2>5. a \in Seq(FrameSet)
    BY <1>6, <2>3, <2>4, TwoIs
  <2>6. stack' = [stack EXCEPT ![t] = a \o stack[t]]
    BY <1>5, <1>7, <1>8, <2>2, <2>4 DEF Issue
  <2>7. Moves(t, 0, a)
    BY <1>1, <2>5, <2>6, PushMoves
  <2>8. PushesTwo(s, r, h, f)
    BY <1>1, <1>6, <2>1, <2>3, <2>4, <2>7, PushTwoSpots
  <2>9. f.pc = "destroy"
    BY <1>6, <1>8
  <2> QED BY <1>6, <2>1, <2>3, <2>4, <2>8, <2>9, DestroyKeeps
<1>9. CASE k.op # "destroy"
  <2>1. PICK a, r : a = <<f>> /\ r = <<t, Len(stack[t]) + 1>>
    OBVIOUS
  <2>2. a \in Seq(FrameSet)
    BY <1>6, <2>1, OneIs
  <2>3. stack' = [stack EXCEPT ![t] = a \o stack[t]]
    BY <1>5, <1>7, <1>9, <2>1 DEF Issue
  <2>4. Moves(t, 0, a)
    BY <1>1, <2>2, <2>3, PushMoves
  <2>5. Pushes(r, f) /\ Under(r) = TopSpot(t) /\ r[1] = t
    BY <1>1, <2>1, <2>4, PushSpots
  <2>6. f.pc \in {"exec", "add", "start", "child", "remove", "close"}
    BY <1>2, <1>6, <1>9 DEF Ops
  <2>7. k.op \in {"add", "start", "child"} => k.arg \in Nodes /\ fate[k.arg] = "new"
    BY <1>1, <1>2 DEF Permitted, Nodes
  <2>8. fate \in [Nodes -> Fates]
    BY <1>1 DEF Shapes
  <2>9. Gentle
    <3>1. \A y \in Nodes : fate'[y] = fate[y] \/ (fate[y] = "new" /\ fate'[y] = "adding")
      BY <1>1, <2>7, <2>8
    <3> QED BY <1>1, <3>1 DEF Gentle
  <2>10. f.x \in Contexts => f.pc = "child"
    BY <1>2, <1>6, TreeAssumption
  <2>11. f.pc = "child" => Parent[f.x] = f.c /\ fate[f.x] = "new" /\ fate'[f.x] = "adding"
    <3>1. k.op = "child" => Parent[k.arg] = k.ctx
      BY <1>1, ChildrenAssumption
    <3> QED BY <1>1, <1>6, <2>7, <2>8, <3>1
  <2>12. FrameLife(f)'
    <3>1. f.pc \notin PoppedPcs /\ f.pc \notin ClosingPcs /\ f.pc # "unblock"
      BY <2>6 DEF PoppedPcs, ClosingPcs
    <3>2. "child" \notin AddCallPcs \cup RemovePcs
      BY DEF AddCallPcs, RemovePcs
    <3> QED BY <2>10, <2>11, <3>1, <3>2 DEF FrameLife, PoppedPcs
  <2>13. Lowest(f)
    BY <1>6, <2>6 DEF Lowest, ClientPcs, AddCallPcs, RemovePcs, StartPcs, ChildPcs, CloserPcs
  <2>14. stack[t] # <<>> => Top(t).pc \in SitePcs /\ f.ref /\ f.pc \in ClientPcs \ CloserPcs
    <3>1. f.pc # "close" => f.pc \in ClientPcs \ CloserPcs
      BY <2>6 DEF ClientPcs, AddCallPcs, RemovePcs, StartPcs, ChildPcs, CloserPcs, ClosingPcs
    <3> QED BY <1>4, <1>6, <3>1
  <2>15. f.pc = "remove" => f.x \notin Contexts
    BY <2>10
  <2>16. f.pc \in {"exec", "add", "start", "child", "remove", "close", "run"}
         /\ (f.pc = "child" => fate[f.x] = "new")
    BY <2>6, <2>11
  <2> QED BY <2>5, <2>9, <2>12, <2>13, <2>14, <2>15, <2>16, PushKeeps
<1> QED BY <1>8, <1>9

-----------------------------------------------------------------------------
\* The contexts that exist at the start, and every step.

LEMMA SetToSeqHas ==
  ASSUME NEW S, IsFiniteSet(S), NEW s, s = SetToSeq(S)
  PROVE  /\ s \in Seq(S) /\ \A y \in S : \E i \in DOMAIN s : s[i] = y
         /\ \A i, j \in DOMAIN s : s[i] = s[j] => i = j
<1>1. PICK n \in Nat : ExistsBijection(1..n, S)
  BY FS_NatBijection
<1>2. Cardinality(S) = n
  BY <1>1, FS_CountingElements
<1>3. \E f \in [1..n -> S] : IsInjective(f)
  <2>1. PICK f \in [1..n -> S] : \A i, j \in 1..n : f[i] = f[j] => i = j
    BY <1>1 DEF ExistsBijection, Bijection, Injection, IsInjective
  <2> QED BY <2>1 DEF IsInjective
<1>4. s \in [1..n -> S] /\ IsInjective(s)
  BY <1>2, <1>3 DEF SetToSeq
<1>5. s \in Seq(S) /\ DOMAIN s = 1..n /\ \A i, j \in 1..n : s[i] = s[j] => i = j
  BY <1>1, <1>4 DEF IsInjective
<1>6. ASSUME NEW y \in S, \A i \in 1..n : s[i] # y PROVE FALSE
  <2>1. PICK T, D : T = S \ {y} /\ D = 1..n
    OBVIOUS
  <2>2. IsFiniteSet(T) /\ Cardinality(T) = n - 1
    BY <1>2, <2>1, FS_RemoveElement
  <2>3. IsFiniteSet(D) /\ Cardinality(D) = n
    <3>1. Cardinality(D) = IF 1 > n THEN 0 ELSE n - 1 + 1
      BY <2>1, FS_Interval
    <3>2. IsFiniteSet(D)
      BY <2>1, FS_Interval
    <3> QED BY <3>1, <3>2
  <2>4. s \in [D -> T]
    BY <1>4, <1>6, <2>1
  <2>5. Cardinality(T) < Cardinality(D)
    BY <2>2, <2>3
  <2>6. \E i, j \in D : i # j /\ s[i] = s[j]
    BY <2>2, <2>3, <2>4, <2>5, FS_PigeonHole
  <2> QED BY <1>5, <2>1, <2>6
<1> QED BY <1>5, <1>6

LEMMA LifeInit ==
  ASSUME Init, ClosesFromThreads(program)
  PROVE  LifeInv
<1>1. \A t \in AllThreads : Len(stack[t]) = 0
  BY DEF Init
<1>2. \A q \in Spots : FALSE
  BY <1>1 DEF Spots
<1>3. Grammar /\ Descends /\ FramesLive /\ TopsLive
  BY <1>2 DEF Grammar, Descends, FramesLive, TopsLive
<1>4. OneAdder /\ OnePopper
  BY <1>2 DEF OneAdder, OnePopper, AtMostOne
<1>5. /\ program \in Programs /\ Initial[program] \subseteq Contexts
      /\ fate = [h \in Nodes |-> IF h \in Initial[program] THEN "added" ELSE "new"]
      /\ \A c \in Initial[program] : Parent[c] # None => Parent[c] \in Initial[program]
  BY ProgramsAssumption, ChildrenAssumption DEF Init
<1>6. ASSUME NEW c \in Contexts
      PROVE  /\ \A n \in DOMAIN list[c] : list[c][n] \in Initial[program] /\ Parent[list[c][n]] = c
             /\ \A y \in Initial[program] : Parent[y] = c => y \in ToSet(list[c])
             /\ \A m, n \in DOMAIN list[c] : list[c][m] = list[c][n] => m = n
  <2>1. PICK S, s : S = {k \in Initial[program] : Parent[k] = c} /\ s = list[c]
    OBVIOUS
  <2>2. s = SetToSeq(S)
    BY <2>1 DEF Init
  <2>3. IsFiniteSet(S)
    <3>1. S \subseteq Contexts
      BY <1>5, <2>1
    <3> QED BY <3>1, FS_Subset, TreeAssumption
  <2>4. /\ s \in Seq(S) /\ \A y \in S : \E i \in DOMAIN s : s[i] = y
        /\ \A i, j \in DOMAIN s : s[i] = s[j] => i = j
    BY <2>2, <2>3, SetToSeqHas
  <2>5. \A n \in DOMAIN s : s[n] \in S
    BY <2>4
  <2>6. \A y \in S : y \in ToSet(s)
    BY <2>4 DEF ToSet
  <2> QED BY <2>1, <2>4, <2>5, <2>6
<1>7. ListLives
  <2> SUFFICES ASSUME NEW c \in Contexts, NEW n \in DOMAIN list[c]
               PROVE  /\ fate[list[c][n]] = "added" /\ Parent[list[c][n]] = c
                      /\ \A m \in DOMAIN list[c] : list[c][m] = list[c][n] => m = n
    BY DEF ListLives
  <2>1. PICK x : x = list[c][n]
    OBVIOUS
  <2>2. x \in Initial[program] /\ Parent[x] = c
    BY <1>6, <2>1
  <2>3. x \in Nodes
    BY <1>5, <2>2 DEF Nodes
  <2>4. fate[x] = "added"
    BY <1>5, <2>2, <2>3
  <2> QED BY <1>6, <2>1, <2>2, <2>4
<1>8. ChildrenHeld
  <2> SUFFICES ASSUME NEW c \in Contexts, Born(c), Parent[c] # None PROVE Held(c)
    BY DEF ChildrenHeld
  <2>1. c \in Nodes
    BY DEF Nodes
  <2>2. c \in Initial[program]
    BY <1>5, <2>1 DEF Born
  <2>3. Parent[c] \in Contexts
    BY TreeAssumption
  <2>4. c \in ToSet(list[Parent[c]])
    BY <1>6, <2>2, <2>3
  <2> QED BY <2>4 DEF Held
<1> QED BY <1>3, <1>4, <1>7, <1>8 DEF LifeInv

LEMMA LifeStutters ==
  ASSUME LifeInv, CloseInv, UNCHANGED vars
  PROVE  LifeInv'
<1>1. /\ stack' = stack /\ flags' = flags /\ list' = list /\ fate' = fate /\ program' = program
  BY DEF vars, words, nodes, exec, history, clients
<1>2. Spots' = Spots /\ \A q \in Spots : Fr(q)' = Fr(q)
  BY <1>1 DEF Spots, Fr, FrameAt
<1>3. PICK K, N : K = Spots /\ N = {}
  OBVIOUS
<1>4. Given(K, N)
  BY <1>2, <1>3 DEF Given
<1>5. Gentle
  BY <1>1 DEF Gentle
<1>6. \A q \in N : FALSE
  BY <1>3
<1>7. Grammar'
  BY <1>4, <1>6, GrammarGiven DEF LifeInv
<1>8. Descends'
  BY <1>4, <1>6, DescendsGiven DEF LifeInv
<1>9. FramesLive'
  BY <1>4, <1>5, <1>6, FramesSame DEF LifeInv
<1>10. TopsLive'
  <2>1. \A q \in K : (\A r \in Spots' : Under(r) # q) /\ (\E r \in Spots : Under(r) = q)
                       => TopLife(Fr(q))'
    BY <1>2
  <2> QED BY <1>4, <1>5, <1>6, <2>1, OtherTops DEF LifeInv
<1>11. ASSUME NEW F, AtMostOne(F) PROVE AtMostOne(F)'
  BY <1>4, <1>6, <1>11, OneGiven
<1>12. OneAdder' /\ OnePopper'
  BY <1>11 DEF LifeInv, OneAdder, OnePopper, Adders, AboutX
<1>13. ListLives'
  BY <1>5, SameLists DEF LifeInv
<1>14. ChildrenHeld'
  <2>1. \A q \in Spots \ K : FALSE
    BY <1>3
  <2>2. ASSUME NEW c \in Contexts, Held(c) PROVE Held(c)'
    BY <1>1, <1>4, <1>6, <2>1, <2>2, HeldGiven
  <2> QED BY <1>5, <2>2, BornSame DEF LifeInv
<1>15. ClosesFromThreads(program)'
  BY <1>1 DEF LifeInv, ClosesFromThreads
<1> QED BY <1>7, <1>8, <1>9, <1>10, <1>12, <1>13, <1>14, <1>15 DEF LifeInv

LEMMA LifeKeeps ==
  ASSUME LifeInv, CloseInv, [Next]_vars
  PROVE  LifeInv'
<1>1. ASSUME NEW t \in AllThreads, ExecStep(t) PROVE LifeInv'
  BY <1>1, GotosAlive, UndoAlive, PostInlineAlive, InlineReturnsAlive, ReturnsAlive DEF ExecStep
<1>2. ASSUME NEW t \in AllThreads, HandlerStep(t) PROVE LifeInv'
  BY <1>2, GotosAlive, UndoAlive, InsertAlive, ConstructAlive, StartThrowsAlive, RemoveAlive, ReturnsAlive
     DEF HandlerStep
<1>3. ASSUME NEW t \in AllThreads, CloseStep(t) PROVE LifeInv'
  BY <1>3, GotosAlive, StartCloseAlive, SetClosingAlive, PopAlive, CallHandlerAlive, CloseChildAlive,
     LeaveParentAlive, SetClosedAlive, ReturnsAlive DEF CloseStep
<1>4. ASSUME NEW t \in AllThreads, NEW k \in Calls[program], Issue(t, k) PROVE LifeInv'
  BY <1>4, IssueAlive
<1> QED BY <1>1, <1>2, <1>3, <1>4, TakeAlive, LifeStutters DEF Next, Step, Quiescent

\* Where the clients close contexts from their own threads the calls nest as the tree
\* does, one call makes and one loop calls each context, and a child that was added is
\* in its parent's list, in the hands of its parent's close, or has left its parent.
THEOREM ContextsLive ==
  ASSUME \A g \in Programs : ClosesFromThreads(g)
  PROVE  Spec => [](CloseInv /\ LifeInv)
<1>1. \A g \in Programs : ClosesAlone(g)
  BY ThreadsAssumption DEF ClosesFromThreads, ClosesAlone
<1>2. Init => LifeInv
  BY LifeInit DEF Init
<1>3. LifeInv /\ CloseInv /\ [Next]_vars => LifeInv'
  BY LifeKeeps
<1>4. Spec => []CloseInv
  BY <1>1, ClosesAreKnown
<1> QED BY <1>2, <1>3, <1>4, PTL DEF Spec

\* "When the parent is closed all its children will be closed automatically"
\* (ao-context.h:44).
THEOREM ChildrenCloseFirst ==
  ASSUME \A g \in Programs : ClosesFromThreads(g)
  PROVE  Spec => []ClosedParentHasClosedChildren
<1>1. ASSUME CloseInv, LifeInv PROVE ClosedParentHasClosedChildren
  <2> SUFFICES ASSUME NEW c \in Contexts, Parent[c] # None, Born(c), "Closed" \in flags[Parent[c]]
               PROVE  /\ "Closing" \in flags[c] /\ list[c] = <<>>
                      /\ \A f \in Frames : f.pc = "handler" => f.c # c
    BY DEF ClosedParentHasClosedChildren, Born
  <2>1. Parent[c] \in Contexts /\ list[Parent[c]] = <<>>
    BY <1>1, TreeAssumption DEF CloseInv, FlagsOK
  <2>2. c \notin ToSet(list[Parent[c]])
    BY <2>1 DEF ToSet
  <2>3. ~Some(AboutX(c, PoppedPcs))
    <3>1. SUFFICES ASSUME NEW q \in Spots, Fr(q) \in AboutX(c, PoppedPcs) PROVE FALSE
      BY DEF Some
    <3>2. FrameLife(Fr(q)) /\ Fr(q).x = c /\ Fr(q).pc \in PoppedPcs
      BY <1>1, <3>1 DEF LifeInv, FramesLive, AboutX
    <3>3. Parent[c] = Fr(q).c
      BY <3>2 DEF FrameLife
    <3>4. Fr(q).pc \in ClosingPcs /\ Fr(q).pc # "close.release"
      BY <3>2 DEF PoppedPcs, ClosingPcs
    <3> QED BY <3>2, <3>3, <3>4 DEF FrameLife
  <2>4. Left(c)
    BY <1>1, <2>2, <2>3 DEF LifeInv, ChildrenHeld, Held
  <2>5. /\ "Closing" \in flags[c] /\ list[c] = <<>>
        /\ "Closed" \in flags[c] \/ Some(OnC(c, LatePcs))
    <3>1. CASE "Closed" \in flags[c]
      BY <1>1, <3>1 DEF CloseInv, FlagsOK
    <3>2. CASE Some(OnC(c, LatePcs))
      <4>1. PICK q \in Spots : Fr(q) \in OnC(c, LatePcs)
        BY <3>2 DEF Some
      <4>2. PICK t, i : t = q[1] /\ i = Len(stack[q[1]]) + 1 - q[2]
        OBVIOUS
      <4>3. t \in AllThreads /\ i \in DOMAIN stack[t] /\ Fr(q) = stack[t][i]
        BY <1>1, <4>2, SpotIs DEF CloseInv, HandlersInv
      <4>4. StageOK(Fr(q))
        BY <1>1, <4>3 DEF CloseInv, Stages
      <4> QED BY <3>2, <4>1, <4>4 DEF StageOK, OnC, LatePcs, EndPcs
    <3> QED BY <2>4, <3>1, <3>2 DEF Left
  <2>6. ASSUME NEW f \in Frames, f.pc = "handler", f.c = c PROVE FALSE
    <3>0. PICK t \in AllThreads : f \in FramesOf(t)
      BY <2>6 DEF Frames
    <3>1. PICK i \in DOMAIN stack[t] : f = stack[t][i]
      BY <3>0 DEF FramesOf, ToSet
    <3>2. PICK q : q = <<t, Len(stack[t]) + 1 - i>>
      OBVIOUS
    <3>3. q \in Spots /\ Fr(q) = f
      BY <1>1, <3>1, <3>2, FrameSpot DEF CloseInv, HandlersInv
    <3>4. ~Lowest(f) /\ f.pc \notin ClientPcs \cup CloserPcs \cup AddCallPcs \cup RemovePcs \cup ChildCallPcs
      BY <2>6 DEF Lowest, ClientPcs, CloserPcs, ClosingPcs, AddCallPcs, RemovePcs, ChildCallPcs,
                  StartPcs, ChildPcs
    <3>5. Under(q) \in Spots /\ Above(f, Fr(Under(q)))
      BY <1>1, <3>3, <3>4 DEF LifeInv, Grammar, Lies
    <3>6. PICK u, b : u = Under(q) /\ b = Fr(u)
      OBVIOUS
    <3>7. b.pc = "close.pop" /\ b.c = c
      BY <2>6, <3>4, <3>5, <3>6 DEF Above
    <3>8. u \in Spots /\ FrameLife(b) /\ b.pc \in ClosingPcs /\ b.pc \notin LatePcs
      BY <1>1, <3>5, <3>6, <3>7 DEF LifeInv, FramesLive, ClosingPcs, LatePcs
    <3>9. CASE "Closed" \in flags[c]
      BY <3>7, <3>8, <3>9 DEF FrameLife
    <3>10. CASE Some(OnC(c, LatePcs))
      <4>1. PICK r \in Spots : Fr(r) \in OnC(c, LatePcs)
        BY <3>10 DEF Some
      <4>2. Fr(r).c = c /\ Fr(r).pc \in LatePcs /\ Fr(r).pc \in ClosingPcs
        BY <4>1 DEF OnC, LatePcs, ClosingPcs
      <4>3. r = u
        BY <1>1, <3>6, <3>7, <3>8, <4>2, OneCloser DEF LifeInv
      <4> QED BY <3>6, <3>8, <4>2, <4>3
    <3> QED BY <2>5, <3>9, <3>10
  <2> QED BY <2>5, <2>6
<1> QED BY <1>1, ContextsLive, PTL
-----------------------------------------------------------------------------
\* The references of a context: those of the calls in it, the anchors that calls,
\* closes and closures hold, the one of a makeChild that has not returned, those of
\* the closures that wait in the executor, and its owner's.

AnchorPcs       == ClosingPcs \cup {"child.done", "child.release", "exec.post", "exec.undo", "destroy"}
RefFrames(c)    == {f \in FrameSet : f.c = c /\ f.ref}
AnchorFrames(c) == {f \in FrameSet : f.c = c /\ f.pc \in AnchorPcs}
MakingFrames(c) == {f \in FrameSet : f.x = c /\ f.pc = "child.add"}
Weight(f, c)    == One(f \in RefFrames(c)) + One(f \in AnchorFrames(c)) + One(f \in MakingFrames(c))

Those(F)      == {q \in Spots : Fr(q) \in F}
FiniteRefs(c) == IsFiniteSet(Those(RefFrames(c))) /\ IsFiniteSet(Those(AnchorFrames(c)))
                 /\ IsFiniteSet(Those(MakingFrames(c)))
FrameRefs(c)  == Cardinality(Those(RefFrames(c))) + Cardinality(Those(AnchorFrames(c)))
                 + Cardinality(Those(MakingFrames(c)))
CountIn(w, c) == Cardinality({n \in DOMAIN w : w[n].ctx = c})
QueueRefs(c)  == CountIn(queue, c)
OtherRefs(c)  == QueueRefs(c) + One(c \in owned)

RefsOK == /\ refs \in [Contexts -> Nat]
          /\ \A c \in Contexts : FiniteRefs(c) /\ refs[c] = FrameRefs(c) + OtherRefs(c)

LEMMA SetCounts ==
  ASSUME NEW S, IsFiniteSet(S), NEW s, NEW b \in BOOLEAN,
         NEW T, T = IF b THEN S \cup {s} ELSE S \ {s}
  PROVE  /\ IsFiniteSet(T) /\ Cardinality(S) \in Nat /\ Cardinality(T) \in Nat
         /\ Cardinality(T) = Cardinality(S) + One(b) - One(s \in S)
<1>1. Cardinality(S) \in Nat
  BY FS_CardinalityType
<1>2. CASE b
  <2>1. T = S \cup {s}
    BY <1>2
  <2>2. IsFiniteSet(T) /\ Cardinality(T) = IF s \in S THEN Cardinality(S) ELSE Cardinality(S) + 1
    BY <2>1, FS_AddElement
  <2>3. Cardinality(T) = Cardinality(S) + One(b) - One(s \in S)
    BY <1>1, <1>2, <2>2 DEF One
  <2> QED BY <1>1, <2>2, <2>3
<1>3. CASE ~b
  <2>1. T = S \ {s}
    BY <1>3
  <2>2. IsFiniteSet(T) /\ Cardinality(T) = IF s \in S THEN Cardinality(S) - 1 ELSE Cardinality(S)
    BY <2>1, FS_RemoveElement
  <2>3. Cardinality(T) = Cardinality(S) + One(b) - One(s \in S)
    BY <1>1, <1>3, <2>2 DEF One
  <2>4. Cardinality(T) \in Nat
    BY <2>2, FS_CardinalityType
  <2> QED BY <1>1, <2>2, <2>3, <2>4
<1> QED BY <1>2, <1>3

\* The step adds n to the number of the frames in F.
Counted(F, n) == /\ IsFiniteSet(Those(F)') /\ Cardinality(Those(F)) \in Nat /\ Cardinality(Those(F)') \in Nat
                 /\ Cardinality(Those(F)') = Cardinality(Those(F)) + n

LEMMA ThoseGiven ==
  ASSUME NEW K, NEW N, Given(K, N), NEW F
  PROVE  \A q : q \in Those(F)' <=> (q \in K /\ q \in Those(F)) \/ (q \in N /\ Fr(q)' \in F)
BY DEF Those, Given

LEMMA TurnCounts ==
  ASSUME NEW F, IsFiniteSet(Those(F)), NEW s, NEW g, TurnsTo(s, g)
  PROVE  Counted(F, One(g \in F) - One(Fr(s) \in F))
<1>1. PICK S, T, b : S = Those(F) /\ T = Those(F)' /\ b = (g \in F)
  OBVIOUS
<1>2. PICK K, N : K = Spots \ {s} /\ N = {s}
  OBVIOUS
<1>3. Given(K, N) /\ Fr(s)' = g /\ s \in Spots
  BY <1>2 DEF TurnsTo
<1>4. \A q : q \in T <=> (q \in K /\ q \in S) \/ (q \in N /\ Fr(q)' \in F)
  BY <1>1, <1>3, ThoseGiven
<1>5. S \subseteq Spots /\ (s \in S <=> Fr(s) \in F)
  BY <1>1, <1>3 DEF Those
<1>6. T = IF b THEN S \cup {s} ELSE S \ {s}
  BY <1>1, <1>2, <1>3, <1>4, <1>5
<1>7. /\ IsFiniteSet(T) /\ Cardinality(S) \in Nat /\ Cardinality(T) \in Nat
      /\ Cardinality(T) = Cardinality(S) + One(b) - One(s \in S)
  <2>1. b \in BOOLEAN /\ IsFiniteSet(S)
    BY <1>1
  <2> QED BY <1>6, <2>1, SetCounts
<1>8. One(b) = One(g \in F) /\ One(s \in S) = One(Fr(s) \in F)
  BY <1>1, <1>5 DEF One
<1>9. One(b) \in Int /\ One(s \in S) \in Int
  BY DEF One
<1>10. Cardinality(T) = Cardinality(S) + (One(g \in F) - One(Fr(s) \in F))
  BY <1>7, <1>8, <1>9
<1> QED BY <1>1, <1>7, <1>10 DEF Counted

LEMMA LeaveCounts ==
  ASSUME NEW F, IsFiniteSet(Those(F)), NEW s, Leaves(s)
  PROVE  Counted(F, 0 - One(Fr(s) \in F))
<1>1. PICK S, T, b : S = Those(F) /\ T = Those(F)' /\ b = FALSE
  OBVIOUS
<1>2. PICK K, N : K = Spots \ {s} /\ N = {}
  OBVIOUS
<1>3. Given(K, N) /\ s \in Spots
  BY <1>2 DEF Leaves
<1>4. \A q : q \in T <=> (q \in K /\ q \in S) \/ (q \in N /\ Fr(q)' \in F)
  BY <1>1, <1>3, ThoseGiven
<1>5. S \subseteq Spots /\ (s \in S <=> Fr(s) \in F)
  BY <1>1, <1>3 DEF Those
<1>6. T = IF b THEN S \cup {s} ELSE S \ {s}
  BY <1>1, <1>2, <1>3, <1>4, <1>5
<1>7. /\ IsFiniteSet(T) /\ Cardinality(S) \in Nat /\ Cardinality(T) \in Nat
      /\ Cardinality(T) = Cardinality(S) + One(b) - One(s \in S)
  <2>1. b \in BOOLEAN /\ IsFiniteSet(S)
    BY <1>1
  <2> QED BY <1>6, <2>1, SetCounts
<1>8. One(b) = 0 /\ One(s \in S) = One(Fr(s) \in F) /\ One(s \in S) \in Int
  BY <1>1, <1>5 DEF One
<1>10. Cardinality(T) = Cardinality(S) + (0 - One(Fr(s) \in F))
  BY <1>7, <1>8
<1> QED BY <1>1, <1>7, <1>10 DEF Counted

LEMMA PushCounts ==
  ASSUME NEW F, IsFiniteSet(Those(F)), NEW r, NEW h, Pushes(r, h)
  PROVE  Counted(F, One(h \in F))
<1>1. PICK S, T, b : S = Those(F) /\ T = Those(F)' /\ b = (h \in F)
  OBVIOUS
<1>2. PICK K, N : K = Spots /\ N = {r}
  OBVIOUS
<1>3. Given(K, N) /\ r \notin Spots /\ Fr(r)' = h
  BY <1>2 DEF Pushes
<1>4. \A q : q \in T <=> (q \in K /\ q \in S) \/ (q \in N /\ Fr(q)' \in F)
  BY <1>1, <1>3, ThoseGiven
<1>5. S \subseteq Spots /\ r \notin S
  BY <1>1, <1>3 DEF Those
<1>6. T = IF b THEN S \cup {r} ELSE S \ {r}
  BY <1>1, <1>2, <1>3, <1>4, <1>5
<1>7. /\ IsFiniteSet(T) /\ Cardinality(S) \in Nat /\ Cardinality(T) \in Nat
      /\ Cardinality(T) = Cardinality(S) + One(b) - One(r \in S)
  <2>1. b \in BOOLEAN /\ IsFiniteSet(S)
    BY <1>1
  <2> QED BY <1>6, <2>1, SetCounts
<1>8. One(b) = One(h \in F) /\ One(r \in S) = 0 /\ One(b) \in Int
  <2>1. One(b) = One(h \in F)
    BY <1>1
  <2>2. One(r \in S) = 0 /\ One(b) \in Int
    BY <1>5 DEF One
  <2> QED BY <2>1, <2>2
<1>10. Cardinality(T) = Cardinality(S) + One(h \in F)
  BY <1>7, <1>8
<1> QED BY <1>1, <1>7, <1>10 DEF Counted

\* Two frames that come or change, in place of one or of none.
LEMMA TwoCount ==
  ASSUME NEW F, IsFiniteSet(Those(F)), NEW s, NEW r, r # s, r \notin Spots, NEW g, NEW h,
         NEW K, K \subseteq Spots, s \notin K, \A q \in Spots : q # s => q \in K,
         Given(K, {s, r}), Fr(s)' = g, Fr(r)' = h
  PROVE  Counted(F, One(g \in F) + One(h \in F) - One(s \in Spots /\ Fr(s) \in F))
<1>1. PICK S, T, b, d : S = Those(F) /\ T = Those(F)' /\ b = (g \in F) /\ d = (h \in F)
  OBVIOUS
<1>2. PICK N, R : N = {s, r} /\ R = IF b THEN S \cup {s} ELSE S \ {s}
  OBVIOUS
<1>3. Given(K, N)
  BY <1>2
<1>4. \A q : q \in T <=> (q \in K /\ q \in S) \/ (q \in N /\ Fr(q)' \in F)
  BY <1>1, <1>3, ThoseGiven
<1>5. S \subseteq Spots /\ r \notin S /\ (s \in S <=> s \in Spots /\ Fr(s) \in F)
  BY <1>1 DEF Those
<1>6. r \notin R
  BY <1>2, <1>5
<1>7. T = IF d THEN R \cup {r} ELSE R \ {r}
  <2>1. \A q : q \in R <=> (q \in K /\ q \in S) \/ (q = s /\ b)
    BY <1>2, <1>5
  <2>2. \A q : q \in T <=> q \in R \/ (q = r /\ d)
    BY <1>1, <1>2, <1>4, <2>1
  <2>3. CASE d
    BY <2>2, <2>3
  <2>4. CASE ~d
    BY <1>6, <2>2, <2>4
  <2> QED BY <2>3, <2>4
<1>8. b \in BOOLEAN /\ d \in BOOLEAN /\ IsFiniteSet(S)
  BY <1>1
<1>9. /\ IsFiniteSet(R) /\ Cardinality(S) \in Nat /\ Cardinality(R) \in Nat
      /\ Cardinality(R) = Cardinality(S) + One(b) - One(s \in S)
  BY <1>2, <1>8, SetCounts
<1>10. /\ IsFiniteSet(T) /\ Cardinality(T) \in Nat
       /\ Cardinality(T) = Cardinality(R) + One(d) - One(r \in R)
  BY <1>7, <1>8, <1>9, SetCounts
<1>11. /\ One(b) = One(g \in F) /\ One(d) = One(h \in F) /\ One(r \in R) = 0
       /\ One(s \in S) = One(s \in Spots /\ Fr(s) \in F)
       /\ One(b) \in Int /\ One(d) \in Int /\ One(s \in S) \in Int
  <2>1. One(b) = One(g \in F) /\ One(d) = One(h \in F)
    BY <1>1
  <2>2. One(r \in R) = 0 /\ One(b) \in Int /\ One(d) \in Int
    BY <1>6 DEF One
  <2>3. One(s \in S) = One(s \in Spots /\ Fr(s) \in F) /\ One(s \in S) \in Int
    BY <1>5 DEF One
  <2> QED BY <2>1, <2>2, <2>3
<1>12. Cardinality(T) = Cardinality(S) + (One(g \in F) + One(h \in F) - One(s \in Spots /\ Fr(s) \in F))
  BY <1>9, <1>10, <1>11
<1> QED BY <1>1, <1>9, <1>10, <1>12 DEF Counted

LEMMA CallCounts ==
  ASSUME NEW F, IsFiniteSet(Those(F)), NEW s, NEW r, NEW h, NEW g, CallsUp(s, r, h, g)
  PROVE  Counted(F, One(g \in F) + One(h \in F) - One(Fr(s) \in F))
<1>1. PICK K : K = Spots \ {s}
  OBVIOUS
<1>2. s \in Spots /\ r \notin Spots /\ Given(K, {s, r}) /\ Fr(s)' = g /\ Fr(r)' = h
  BY <1>1 DEF CallsUp
<1>3. Counted(F, One(g \in F) + One(h \in F) - One(s \in Spots /\ Fr(s) \in F))
  BY <1>1, <1>2, TwoCount
<1>4. One(s \in Spots /\ Fr(s) \in F) = One(Fr(s) \in F)
  BY <1>2 DEF One
<1> QED BY <1>3, <1>4

LEMMA PushTwoCounts ==
  ASSUME NEW F, IsFiniteSet(Those(F)), NEW s, NEW r, NEW h, NEW g, PushesTwo(s, r, h, g)
  PROVE  Counted(F, One(g \in F) + One(h \in F))
<1>1. PICK K : K = Spots
  OBVIOUS
<1>2. s \notin Spots /\ r \notin Spots /\ Given(K, {s, r}) /\ Fr(s)' = g /\ Fr(r)' = h
  BY <1>1 DEF PushesTwo
<1>0. r # s
  <2>1. r[1] = s[1] /\ s[2] < r[2] /\ Under(r) = s
    BY DEF PushesTwo
  <2>2. s[2] = r[2] - 1
    BY <2>1 DEF Under
  <2>3. SUFFICES ASSUME r = s PROVE FALSE
    OBVIOUS
  <2>4. s \in Spots'
    BY <1>2 DEF Given
  <2>5. s[2] \in Nat
    BY <2>4 DEF Spots
  <2> QED BY <2>1, <2>3, <2>5
<1>3. Counted(F, One(g \in F) + One(h \in F) - One(s \in Spots /\ Fr(s) \in F))
  BY <1>0, <1>1, <1>2, TwoCount
<1>4. One(s \in Spots /\ Fr(s) \in F) = 0
  BY <1>2 DEF One
<1>5. One(g \in F) + One(h \in F) - 0 = One(g \in F) + One(h \in F)
  BY DEF One
<1> QED BY <1>3, <1>4, <1>5

LEMMA BackCounts ==
  ASSUME NEW F, IsFiniteSet(Those(F)), NEW r, NEW s, NEW g, r # s, LeavesTo(r, s, g)
  PROVE  Counted(F, One(g \in F) - One(Fr(s) \in F) - One(Fr(r) \in F))
<1>1. PICK S, T, b, R : S = Those(F) /\ T = Those(F)' /\ b = (g \in F) /\ R = S \ {r}
  OBVIOUS
<1>2. PICK K, N : K = Spots \ {s, r} /\ N = {s}
  OBVIOUS
<1>3. Given(K, N) /\ r \in Spots /\ s \in Spots /\ Fr(s)' = g
  BY <1>2 DEF LeavesTo
<1>4. \A q : q \in T <=> (q \in K /\ q \in S) \/ (q \in N /\ Fr(q)' \in F)
  BY <1>1, <1>3, ThoseGiven
<1>5. S \subseteq Spots /\ (r \in S <=> Fr(r) \in F) /\ (s \in S <=> Fr(s) \in F)
  BY <1>1, <1>3 DEF Those
<1>6. T = IF b THEN R \cup {s} ELSE R \ {s}
  <2>1. \A q : q \in T <=> (q \in R /\ q # s) \/ (q = s /\ b)
    BY <1>1, <1>2, <1>3, <1>4, <1>5
  <2> QED BY <2>1
<1>7. R = IF FALSE THEN S \cup {r} ELSE S \ {r}
  BY <1>1
<1>8. b \in BOOLEAN /\ FALSE \in BOOLEAN /\ IsFiniteSet(S)
  BY <1>1
<1>9. /\ IsFiniteSet(R) /\ Cardinality(S) \in Nat /\ Cardinality(R) \in Nat
      /\ Cardinality(R) = Cardinality(S) + One(FALSE) - One(r \in S)
  BY <1>7, <1>8, SetCounts
<1>10. /\ IsFiniteSet(T) /\ Cardinality(T) \in Nat
       /\ Cardinality(T) = Cardinality(R) + One(b) - One(s \in R)
  BY <1>6, <1>8, <1>9, SetCounts
<1>11. /\ One(FALSE) = 0 /\ One(b) = One(g \in F) /\ One(r \in S) = One(Fr(r) \in F)
       /\ One(s \in R) = One(Fr(s) \in F)
       /\ One(b) \in Int /\ One(r \in S) \in Int /\ One(s \in R) \in Int
  <2>0. One(b) = One(g \in F)
    BY <1>1
  <2>1. One(FALSE) = 0 /\ One(b) \in Int
    BY DEF One
  <2>2. One(r \in S) = One(Fr(r) \in F) /\ One(r \in S) \in Int
    BY <1>5 DEF One
  <2>3. s \in R <=> Fr(s) \in F
    BY <1>1, <1>5
  <2>4. One(s \in R) = One(Fr(s) \in F) /\ One(s \in R) \in Int
    BY <2>3 DEF One
  <2> QED BY <2>0, <2>1, <2>2, <2>4
<1>12. Cardinality(T) = Cardinality(S) + (One(g \in F) - One(Fr(s) \in F) - One(Fr(r) \in F))
  <2>1. PICK x, y, z : x = One(g \in F) /\ y = One(Fr(s) \in F) /\ z = One(Fr(r) \in F)
    OBVIOUS
  <2>2. /\ x \in Int /\ y \in Int /\ z \in Int
        /\ Cardinality(R) = Cardinality(S) + 0 - z /\ Cardinality(T) = Cardinality(R) + x - y
    BY <1>9, <1>10, <1>11, <2>1
  <2>3. Cardinality(T) = Cardinality(S) + (x - y - z)
    BY <1>9, <2>2
  <2> QED BY <2>1, <2>3
<1> QED BY <1>1, <1>9, <1>10, <1>12 DEF Counted

LEMMA OneIn == ASSUME NEW f, NEW F PROVE One(f \in F) \in Int
BY DEF One

LEMMA WeightIs ==
  ASSUME NEW f \in FrameSet, NEW c
  PROVE  Weight(f, c) = One(f.c = c /\ f.ref) + One(f.c = c /\ f.pc \in AnchorPcs)
                          + One(f.x = c /\ f.pc = "child.add")
BY DEF Weight, RefFrames, AnchorFrames, MakingFrames

LEMMA WeightIn == ASSUME NEW f, NEW c PROVE Weight(f, c) \in Nat
BY DEF Weight, One

\* The step adds n to the references that the frames hold of c.
Weighed(c, n) == FiniteRefs(c)' /\ FrameRefs(c) \in Nat /\ FrameRefs(c)' \in Nat
                 /\ FrameRefs(c)' = FrameRefs(c) + n

LEMMA WeighedIs ==
  ASSUME NEW c, NEW i \in Int, NEW j \in Int, NEW k \in Int, Counted(RefFrames(c), i),
         Counted(AnchorFrames(c), j), Counted(MakingFrames(c), k)
  PROVE  Weighed(c, i + j + k)
<1>1. PICK F, G, H : F = RefFrames(c) /\ G = AnchorFrames(c) /\ H = MakingFrames(c)
  OBVIOUS
<1>2. /\ FiniteRefs(c)' /\ FrameRefs(c) = Cardinality(Those(F)) + Cardinality(Those(G)) + Cardinality(Those(H))
      /\ FrameRefs(c)' = Cardinality(Those(F)') + Cardinality(Those(G)') + Cardinality(Those(H)')
  <2>1. RefFrames(c)' = F /\ AnchorFrames(c)' = G /\ MakingFrames(c)' = H
    BY <1>1 DEF RefFrames, AnchorFrames, MakingFrames
  <2> QED BY <1>1, <2>1 DEF FiniteRefs, FrameRefs, Counted
<1>3. /\ Cardinality(Those(F)) \in Nat /\ Cardinality(Those(F)') \in Nat
      /\ Cardinality(Those(F)') = Cardinality(Those(F)) + i
      /\ Cardinality(Those(G)) \in Nat /\ Cardinality(Those(G)') \in Nat
      /\ Cardinality(Those(G)') = Cardinality(Those(G)) + j
      /\ Cardinality(Those(H)) \in Nat /\ Cardinality(Those(H)') \in Nat
      /\ Cardinality(Those(H)') = Cardinality(Those(H)) + k
  BY <1>1 DEF Counted
<1> QED BY <1>2, <1>3 DEF Weighed

LEMMA TurnWeighs ==
  ASSUME NEW c, FiniteRefs(c), NEW s, NEW g, TurnsTo(s, g)
  PROVE  Weighed(c, Weight(g, c) - Weight(Fr(s), c))
<1>1. PICK F, G, H : F = RefFrames(c) /\ G = AnchorFrames(c) /\ H = MakingFrames(c)
  OBVIOUS
<1>2. PICK i, j, k : /\ i = One(g \in F) - One(Fr(s) \in F)
                     /\ j = One(g \in G) - One(Fr(s) \in G)
                     /\ k = One(g \in H) - One(Fr(s) \in H)
  OBVIOUS
<1>3. IsFiniteSet(Those(F)) /\ IsFiniteSet(Those(G)) /\ IsFiniteSet(Those(H))
  BY <1>1 DEF FiniteRefs
<1>4. Counted(F, i)
  BY <1>2, <1>3, TurnCounts
<1>5. Counted(G, j)
  BY <1>2, <1>3, TurnCounts
<1>6. Counted(H, k)
  BY <1>2, <1>3, TurnCounts
<1>7. i \in Int /\ j \in Int /\ k \in Int /\ i + j + k = Weight(g, c) - Weight(Fr(s), c)
  <2>1. PICK n1, n2, n3, n4, n5, n6 :
          /\ n1 = One(g \in F)
          /\ n2 = One(g \in G)
          /\ n3 = One(g \in H)
          /\ n4 = One(Fr(s) \in F)
          /\ n5 = One(Fr(s) \in G)
          /\ n6 = One(Fr(s) \in H)
    OBVIOUS
  <2>2. n1 \in Int /\ n2 \in Int /\ n3 \in Int /\ n4 \in Int /\ n5 \in Int /\ n6 \in Int
    BY <2>1, OneIn
  <2>3. Weight(g, c) = n1 + n2 + n3 /\ Weight(Fr(s), c) = n4 + n5 + n6
    BY <1>1, <2>1 DEF Weight
  <2>4. i = n1 - n4 /\ j = n2 - n5 /\ k = n3 - n6
    BY <1>2, <2>1
  <2>5. Weight(g, c) \in Int /\ Weight(Fr(s), c) \in Int
    BY WeightIn
  <2> QED BY <2>2, <2>3, <2>4, <2>5
<1>8. Counted(RefFrames(c), i) /\ Counted(AnchorFrames(c), j) /\ Counted(MakingFrames(c), k)
  BY <1>1, <1>4, <1>5, <1>6
<1>9. Weighed(c, i + j + k)
  BY <1>7, <1>8, WeighedIs
<1> QED BY <1>7, <1>9

LEMMA LeaveWeighs ==
  ASSUME NEW c, FiniteRefs(c), NEW s, Leaves(s)
  PROVE  Weighed(c, 0 - Weight(Fr(s), c))
<1>1. PICK F, G, H : F = RefFrames(c) /\ G = AnchorFrames(c) /\ H = MakingFrames(c)
  OBVIOUS
<1>2. PICK i, j, k : /\ i = 0 - One(Fr(s) \in F)
                     /\ j = 0 - One(Fr(s) \in G)
                     /\ k = 0 - One(Fr(s) \in H)
  OBVIOUS
<1>3. IsFiniteSet(Those(F)) /\ IsFiniteSet(Those(G)) /\ IsFiniteSet(Those(H))
  BY <1>1 DEF FiniteRefs
<1>4. Counted(F, i)
  BY <1>2, <1>3, LeaveCounts
<1>5. Counted(G, j)
  BY <1>2, <1>3, LeaveCounts
<1>6. Counted(H, k)
  BY <1>2, <1>3, LeaveCounts
<1>7. i \in Int /\ j \in Int /\ k \in Int /\ i + j + k = 0 - Weight(Fr(s), c)
  <2>1. PICK n1, n2, n3 :
          /\ n1 = One(Fr(s) \in F)
          /\ n2 = One(Fr(s) \in G)
          /\ n3 = One(Fr(s) \in H)
    OBVIOUS
  <2>2. n1 \in Int /\ n2 \in Int /\ n3 \in Int
    BY <2>1, OneIn
  <2>3. Weight(Fr(s), c) = n1 + n2 + n3
    BY <1>1, <2>1 DEF Weight
  <2>4. i = 0 - n1 /\ j = 0 - n2 /\ k = 0 - n3
    BY <1>2, <2>1
  <2>5. Weight(Fr(s), c) \in Int
    BY WeightIn
  <2> QED BY <2>2, <2>3, <2>4, <2>5
<1>8. Counted(RefFrames(c), i) /\ Counted(AnchorFrames(c), j) /\ Counted(MakingFrames(c), k)
  BY <1>1, <1>4, <1>5, <1>6
<1>9. Weighed(c, i + j + k)
  BY <1>7, <1>8, WeighedIs
<1> QED BY <1>7, <1>9

LEMMA CallWeighs ==
  ASSUME NEW c, FiniteRefs(c), NEW s, NEW r, NEW h, NEW g, CallsUp(s, r, h, g)
  PROVE  Weighed(c, Weight(g, c) + Weight(h, c) - Weight(Fr(s), c))
<1>1. PICK F, G, H : F = RefFrames(c) /\ G = AnchorFrames(c) /\ H = MakingFrames(c)
  OBVIOUS
<1>2. PICK i, j, k : /\ i = One(g \in F) + One(h \in F) - One(Fr(s) \in F)
                     /\ j = One(g \in G) + One(h \in G) - One(Fr(s) \in G)
                     /\ k = One(g \in H) + One(h \in H) - One(Fr(s) \in H)
  OBVIOUS
<1>3. IsFiniteSet(Those(F)) /\ IsFiniteSet(Those(G)) /\ IsFiniteSet(Those(H))
  BY <1>1 DEF FiniteRefs
<1>4. Counted(F, i)
  BY <1>2, <1>3, CallCounts
<1>5. Counted(G, j)
  BY <1>2, <1>3, CallCounts
<1>6. Counted(H, k)
  BY <1>2, <1>3, CallCounts
<1>7. i \in Int /\ j \in Int /\ k \in Int /\ i + j + k = Weight(g, c) + Weight(h, c) - Weight(Fr(s), c)
  <2>1. PICK n1, n2, n3, n4, n5, n6, n7, n8, n9 :
          /\ n1 = One(g \in F)
          /\ n2 = One(g \in G)
          /\ n3 = One(g \in H)
          /\ n4 = One(h \in F)
          /\ n5 = One(h \in G)
          /\ n6 = One(h \in H)
          /\ n7 = One(Fr(s) \in F)
          /\ n8 = One(Fr(s) \in G)
          /\ n9 = One(Fr(s) \in H)
    OBVIOUS
  <2>2. n1 \in Int /\ n2 \in Int /\ n3 \in Int /\ n4 \in Int /\ n5 \in Int /\ n6 \in Int /\ n7 \in Int /\ n8 \in Int /\ n9 \in Int
    BY <2>1, OneIn
  <2>3. Weight(g, c) = n1 + n2 + n3 /\ Weight(h, c) = n4 + n5 + n6 /\ Weight(Fr(s), c) = n7 + n8 + n9
    BY <1>1, <2>1 DEF Weight
  <2>4. i = n1 + n4 - n7 /\ j = n2 + n5 - n8 /\ k = n3 + n6 - n9
    BY <1>2, <2>1
  <2>5. Weight(g, c) \in Int /\ Weight(h, c) \in Int /\ Weight(Fr(s), c) \in Int
    BY WeightIn
  <2> QED BY <2>2, <2>3, <2>4, <2>5
<1>8. Counted(RefFrames(c), i) /\ Counted(AnchorFrames(c), j) /\ Counted(MakingFrames(c), k)
  BY <1>1, <1>4, <1>5, <1>6
<1>9. Weighed(c, i + j + k)
  BY <1>7, <1>8, WeighedIs
<1> QED BY <1>7, <1>9

LEMMA PushWeighs ==
  ASSUME NEW c, FiniteRefs(c), NEW r, NEW h, Pushes(r, h)
  PROVE  Weighed(c, Weight(h, c))
<1>1. PICK F, G, H : F = RefFrames(c) /\ G = AnchorFrames(c) /\ H = MakingFrames(c)
  OBVIOUS
<1>2. PICK i, j, k : /\ i = One(h \in F)
                     /\ j = One(h \in G)
                     /\ k = One(h \in H)
  OBVIOUS
<1>3. IsFiniteSet(Those(F)) /\ IsFiniteSet(Those(G)) /\ IsFiniteSet(Those(H))
  BY <1>1 DEF FiniteRefs
<1>4. Counted(F, i)
  BY <1>2, <1>3, PushCounts
<1>5. Counted(G, j)
  BY <1>2, <1>3, PushCounts
<1>6. Counted(H, k)
  BY <1>2, <1>3, PushCounts
<1>7. i \in Int /\ j \in Int /\ k \in Int /\ i + j + k = Weight(h, c)
  <2>1. PICK n1, n2, n3 :
          /\ n1 = One(h \in F)
          /\ n2 = One(h \in G)
          /\ n3 = One(h \in H)
    OBVIOUS
  <2>2. n1 \in Int /\ n2 \in Int /\ n3 \in Int
    BY <2>1, OneIn
  <2>3. Weight(h, c) = n1 + n2 + n3
    BY <1>1, <2>1 DEF Weight
  <2>4. i = n1 /\ j = n2 /\ k = n3
    BY <1>2, <2>1
  <2>5. Weight(h, c) \in Int
    BY WeightIn
  <2> QED BY <2>2, <2>3, <2>4, <2>5
<1>8. Counted(RefFrames(c), i) /\ Counted(AnchorFrames(c), j) /\ Counted(MakingFrames(c), k)
  BY <1>1, <1>4, <1>5, <1>6
<1>9. Weighed(c, i + j + k)
  BY <1>7, <1>8, WeighedIs
<1> QED BY <1>7, <1>9

LEMMA PushTwoWeighs ==
  ASSUME NEW c, FiniteRefs(c), NEW s, NEW r, NEW h, NEW g, PushesTwo(s, r, h, g)
  PROVE  Weighed(c, Weight(g, c) + Weight(h, c))
<1>1. PICK F, G, H : F = RefFrames(c) /\ G = AnchorFrames(c) /\ H = MakingFrames(c)
  OBVIOUS
<1>2. PICK i, j, k : /\ i = One(g \in F) + One(h \in F)
                     /\ j = One(g \in G) + One(h \in G)
                     /\ k = One(g \in H) + One(h \in H)
  OBVIOUS
<1>3. IsFiniteSet(Those(F)) /\ IsFiniteSet(Those(G)) /\ IsFiniteSet(Those(H))
  BY <1>1 DEF FiniteRefs
<1>4. Counted(F, i)
  BY <1>2, <1>3, PushTwoCounts
<1>5. Counted(G, j)
  BY <1>2, <1>3, PushTwoCounts
<1>6. Counted(H, k)
  BY <1>2, <1>3, PushTwoCounts
<1>7. i \in Int /\ j \in Int /\ k \in Int /\ i + j + k = Weight(g, c) + Weight(h, c)
  <2>1. PICK n1, n2, n3, n4, n5, n6 :
          /\ n1 = One(g \in F)
          /\ n2 = One(g \in G)
          /\ n3 = One(g \in H)
          /\ n4 = One(h \in F)
          /\ n5 = One(h \in G)
          /\ n6 = One(h \in H)
    OBVIOUS
  <2>2. n1 \in Int /\ n2 \in Int /\ n3 \in Int /\ n4 \in Int /\ n5 \in Int /\ n6 \in Int
    BY <2>1, OneIn
  <2>3. Weight(g, c) = n1 + n2 + n3 /\ Weight(h, c) = n4 + n5 + n6
    BY <1>1, <2>1 DEF Weight
  <2>4. i = n1 + n4 /\ j = n2 + n5 /\ k = n3 + n6
    BY <1>2, <2>1
  <2>5. Weight(g, c) \in Int /\ Weight(h, c) \in Int
    BY WeightIn
  <2> QED BY <2>2, <2>3, <2>4, <2>5
<1>8. Counted(RefFrames(c), i) /\ Counted(AnchorFrames(c), j) /\ Counted(MakingFrames(c), k)
  BY <1>1, <1>4, <1>5, <1>6
<1>9. Weighed(c, i + j + k)
  BY <1>7, <1>8, WeighedIs
<1> QED BY <1>7, <1>9

LEMMA BackWeighs ==
  ASSUME NEW c, FiniteRefs(c), NEW r, NEW s, NEW g, r # s, LeavesTo(r, s, g)
  PROVE  Weighed(c, Weight(g, c) - Weight(Fr(s), c) - Weight(Fr(r), c))
<1>1. PICK F, G, H : F = RefFrames(c) /\ G = AnchorFrames(c) /\ H = MakingFrames(c)
  OBVIOUS
<1>2. PICK i, j, k : /\ i = One(g \in F) - One(Fr(s) \in F) - One(Fr(r) \in F)
                     /\ j = One(g \in G) - One(Fr(s) \in G) - One(Fr(r) \in G)
                     /\ k = One(g \in H) - One(Fr(s) \in H) - One(Fr(r) \in H)
  OBVIOUS
<1>3. IsFiniteSet(Those(F)) /\ IsFiniteSet(Those(G)) /\ IsFiniteSet(Those(H))
  BY <1>1 DEF FiniteRefs
<1>4. Counted(F, i)
  BY <1>2, <1>3, BackCounts
<1>5. Counted(G, j)
  BY <1>2, <1>3, BackCounts
<1>6. Counted(H, k)
  BY <1>2, <1>3, BackCounts
<1>7. i \in Int /\ j \in Int /\ k \in Int /\ i + j + k = Weight(g, c) - Weight(Fr(s), c) - Weight(Fr(r), c)
  <2>1. PICK n1, n2, n3, n4, n5, n6, n7, n8, n9 :
          /\ n1 = One(g \in F)
          /\ n2 = One(g \in G)
          /\ n3 = One(g \in H)
          /\ n4 = One(Fr(s) \in F)
          /\ n5 = One(Fr(s) \in G)
          /\ n6 = One(Fr(s) \in H)
          /\ n7 = One(Fr(r) \in F)
          /\ n8 = One(Fr(r) \in G)
          /\ n9 = One(Fr(r) \in H)
    OBVIOUS
  <2>2. n1 \in Int /\ n2 \in Int /\ n3 \in Int /\ n4 \in Int /\ n5 \in Int /\ n6 \in Int /\ n7 \in Int /\ n8 \in Int /\ n9 \in Int
    BY <2>1, OneIn
  <2>3. Weight(g, c) = n1 + n2 + n3 /\ Weight(Fr(s), c) = n4 + n5 + n6 /\ Weight(Fr(r), c) = n7 + n8 + n9
    BY <1>1, <2>1 DEF Weight
  <2>4. i = n1 - n4 - n7 /\ j = n2 - n5 - n8 /\ k = n3 - n6 - n9
    BY <1>2, <2>1
  <2>5. Weight(g, c) \in Int /\ Weight(Fr(s), c) \in Int /\ Weight(Fr(r), c) \in Int
    BY WeightIn
  <2> QED BY <2>2, <2>3, <2>4, <2>5
<1>8. Counted(RefFrames(c), i) /\ Counted(AnchorFrames(c), j) /\ Counted(MakingFrames(c), k)
  BY <1>1, <1>4, <1>5, <1>6
<1>9. Weighed(c, i + j + k)
  BY <1>7, <1>8, WeighedIs
<1> QED BY <1>7, <1>9

\* The counters follow the frames, the queue and the owners.
Books(c, n) == refs'[c] + OtherRefs(c) = refs[c] + n + OtherRefs(c)'
RefsTyped   == refs' \in [Contexts -> Int] /\ queue \in Seq(Closures) /\ queue' \in Seq(Closures)

LEMMA ClosuresCount ==
  ASSUME NEW w \in Seq(Closures), NEW c
  PROVE  CountIn(w, c) \in Nat
<1>1. PICK n \in Nat : n = Len(w)
  OBVIOUS
<1>2. PICK S : S = {i \in DOMAIN w : w[i].ctx = c}
  OBVIOUS
<1>3. S \subseteq 1..n /\ IsFiniteSet(1..n)
  <2>1. IsFiniteSet(1..n)
    BY FS_Interval
  <2> QED BY <1>1, <1>2, <2>1
<1>4. IsFiniteSet(S)
  BY <1>3, FS_Subset
<1> QED BY <1>2, <1>4, FS_CardinalityType DEF CountIn

LEMMA OtherRefsIn == ASSUME RefsTyped, NEW c PROVE OtherRefs(c) \in Nat /\ OtherRefs(c)' \in Nat
<1>1. QueueRefs(c) \in Nat /\ QueueRefs(c)' \in Nat
  BY ClosuresCount DEF QueueRefs, RefsTyped
<1>2. One(c \in owned) \in Nat /\ One(c \in owned') \in Nat
  BY DEF One
<1> QED BY <1>1, <1>2 DEF OtherRefs

LEMMA RefsFollow ==
  ASSUME RefsOK, RefsTyped,
         \A c \in Contexts : \E n \in Int : Weighed(c, n) /\ Books(c, n)
  PROVE  RefsOK'
<1>1. ASSUME NEW c \in Contexts
      PROVE  FiniteRefs(c)' /\ refs'[c] = FrameRefs(c)' + OtherRefs(c)' /\ refs'[c] \in Nat
  <2>1. PICK n \in Int : Weighed(c, n) /\ Books(c, n)
    OBVIOUS
  <2>2. refs[c] = FrameRefs(c) + OtherRefs(c) /\ refs[c] \in Nat
    BY DEF RefsOK
  <2>3. OtherRefs(c) \in Nat /\ OtherRefs(c)' \in Nat
    BY OtherRefsIn
  <2>4. FiniteRefs(c)' /\ FrameRefs(c) \in Nat /\ FrameRefs(c)' \in Nat /\ FrameRefs(c)' = FrameRefs(c) + n
    BY <2>1 DEF Weighed
  <2>5. refs'[c] + OtherRefs(c) = refs[c] + n + OtherRefs(c)' /\ refs'[c] \in Int
    BY <2>1 DEF Books, RefsTyped
  <2>6. PICK i, j, k, l, m, r : /\ i = FrameRefs(c) /\ j = FrameRefs(c)' /\ k = OtherRefs(c)
                                /\ l = OtherRefs(c)' /\ m = refs[c] /\ r = refs'[c]
    OBVIOUS
  <2>7. i \in Nat /\ j \in Nat /\ k \in Nat /\ l \in Nat /\ m \in Nat /\ r \in Int /\ n \in Int
        /\ m = i + k /\ j = i + n /\ r + k = m + n + l
    BY <2>1, <2>2, <2>3, <2>4, <2>5, <2>6
  <2>8. r = j + l /\ r \in Nat
    BY <2>7
  <2> QED BY <2>4, <2>6, <2>8
<1>2. refs' \in [Contexts -> Nat]
  BY <1>1 DEF RefsTyped
<1> QED BY <1>1, <1>2 DEF RefsOK

LEMMA TurnRefs ==
  ASSUME RefsOK, RefsTyped, NEW s, NEW g, TurnsTo(s, g),
         \A c \in Contexts : Books(c, Weight(g, c) - Weight(Fr(s), c))
  PROVE  RefsOK'
<1>1. SUFFICES ASSUME NEW c \in Contexts PROVE \E n \in Int : Weighed(c, n) /\ Books(c, n)
  BY RefsFollow
<1>2. PICK n : n = Weight(g, c) - Weight(Fr(s), c)
  OBVIOUS
<1>3. n \in Int
  BY <1>2, WeightIn
<1>4. Weighed(c, n)
  BY <1>2, TurnWeighs DEF RefsOK
<1>5. Books(c, n)
  BY <1>2
<1> QED BY <1>3, <1>4, <1>5

LEMMA LeaveRefs ==
  ASSUME RefsOK, RefsTyped, NEW s, Leaves(s),
         \A c \in Contexts : Books(c, 0 - Weight(Fr(s), c))
  PROVE  RefsOK'
<1>1. SUFFICES ASSUME NEW c \in Contexts PROVE \E n \in Int : Weighed(c, n) /\ Books(c, n)
  BY RefsFollow
<1>2. PICK n : n = 0 - Weight(Fr(s), c)
  OBVIOUS
<1>3. n \in Int
  BY <1>2, WeightIn
<1>4. Weighed(c, n)
  BY <1>2, LeaveWeighs DEF RefsOK
<1>5. Books(c, n)
  BY <1>2
<1> QED BY <1>3, <1>4, <1>5

LEMMA CallRefs ==
  ASSUME RefsOK, RefsTyped, NEW s, NEW r, NEW h, NEW g, CallsUp(s, r, h, g),
         \A c \in Contexts : Books(c, Weight(g, c) + Weight(h, c) - Weight(Fr(s), c))
  PROVE  RefsOK'
<1>1. SUFFICES ASSUME NEW c \in Contexts PROVE \E n \in Int : Weighed(c, n) /\ Books(c, n)
  BY RefsFollow
<1>2. PICK n : n = Weight(g, c) + Weight(h, c) - Weight(Fr(s), c)
  OBVIOUS
<1>3. n \in Int
  BY <1>2, WeightIn
<1>4. Weighed(c, n)
  BY <1>2, CallWeighs DEF RefsOK
<1>5. Books(c, n)
  BY <1>2
<1> QED BY <1>3, <1>4, <1>5

LEMMA PushRefs ==
  ASSUME RefsOK, RefsTyped, NEW r, NEW h, Pushes(r, h),
         \A c \in Contexts : Books(c, Weight(h, c))
  PROVE  RefsOK'
<1>1. SUFFICES ASSUME NEW c \in Contexts PROVE \E n \in Int : Weighed(c, n) /\ Books(c, n)
  BY RefsFollow
<1>2. PICK n : n = Weight(h, c)
  OBVIOUS
<1>3. n \in Int
  BY <1>2, WeightIn
<1>4. Weighed(c, n)
  BY <1>2, PushWeighs DEF RefsOK
<1>5. Books(c, n)
  BY <1>2
<1> QED BY <1>3, <1>4, <1>5

LEMMA PushTwoRefs ==
  ASSUME RefsOK, RefsTyped, NEW s, NEW r, NEW h, NEW g, PushesTwo(s, r, h, g),
         \A c \in Contexts : Books(c, Weight(g, c) + Weight(h, c))
  PROVE  RefsOK'
<1>1. SUFFICES ASSUME NEW c \in Contexts PROVE \E n \in Int : Weighed(c, n) /\ Books(c, n)
  BY RefsFollow
<1>2. PICK n : n = Weight(g, c) + Weight(h, c)
  OBVIOUS
<1>3. n \in Int
  BY <1>2, WeightIn
<1>4. Weighed(c, n)
  BY <1>2, PushTwoWeighs DEF RefsOK
<1>5. Books(c, n)
  BY <1>2
<1> QED BY <1>3, <1>4, <1>5

LEMMA BackRefs ==
  ASSUME RefsOK, RefsTyped, NEW r, NEW s, NEW g, r # s, LeavesTo(r, s, g),
         \A c \in Contexts : Books(c, Weight(g, c) - Weight(Fr(s), c) - Weight(Fr(r), c))
  PROVE  RefsOK'
<1>1. SUFFICES ASSUME NEW c \in Contexts PROVE \E n \in Int : Weighed(c, n) /\ Books(c, n)
  BY RefsFollow
<1>2. PICK n : n = Weight(g, c) - Weight(Fr(s), c) - Weight(Fr(r), c)
  OBVIOUS
<1>3. n \in Int
  BY <1>2, WeightIn
<1>4. Weighed(c, n)
  BY <1>2, BackWeighs DEF RefsOK
<1>5. Books(c, n)
  BY <1>2
<1> QED BY <1>3, <1>4, <1>5

-----------------------------------------------------------------------------
\* The step adds d to the references of c, and leaves the queue and the owners alone.
Adds(c, d) == refs' = [e \in Contexts |-> refs[e] + (IF e = c THEN d ELSE 0)]
SameOthers == queue' = queue /\ owned' = owned

LEMMA AddsIs ==
  ASSUME RefsOK, NEW c \in Contexts, NEW d \in Int, NEW v, v = refs[c] + d, refs' = [refs EXCEPT ![c] = v]
  PROVE  Adds(c, d)
<1>1. refs \in [Contexts -> Nat]
  BY DEF RefsOK
<1>2. \A e \in Contexts : refs'[e] = refs[e] + (IF e = c THEN d ELSE 0)
  BY <1>1
<1>3. refs' = [e \in Contexts |-> refs'[e]]
  BY <1>1
<1> QED BY <1>2, <1>3 DEF Adds

LEMMA AddsNothing ==
  ASSUME RefsOK, NEW c, refs' = refs
  PROVE  Adds(c, 0)
<1>1. refs \in [Contexts -> Nat]
  BY DEF RefsOK
<1>2. \A e \in Contexts : refs[e] = refs[e] + (IF e = c THEN 0 ELSE 0)
  BY <1>1
<1>3. refs = [e \in Contexts |-> refs[e]]
  BY <1>1
<1> QED BY <1>2, <1>3 DEF Adds

LEMMA AddsTyped ==
  ASSUME RefsOK, CloseInv, NEW c, NEW d \in Int, Adds(c, d), SameOthers
  PROVE  /\ RefsTyped
         /\ \A e \in Contexts : \A n \in Int : n = (IF e = c THEN d ELSE 0) => Books(e, n)
<1>1. refs \in [Contexts -> Nat] /\ queue \in Seq(Closures)
  BY DEF RefsOK, CloseInv, HandlersInv, Shapes
<1>2. refs' \in [Contexts -> Int] /\ \A e \in Contexts : refs'[e] = refs[e] + (IF e = c THEN d ELSE 0)
  BY <1>1 DEF Adds
<1>3. RefsTyped
  BY <1>1, <1>2 DEF RefsTyped, SameOthers
<1>4. \A e : OtherRefs(e)' = OtherRefs(e)
  BY DEF OtherRefs, QueueRefs, SameOthers
<1>5. ASSUME NEW e \in Contexts, NEW n \in Int, n = (IF e = c THEN d ELSE 0) PROVE Books(e, n)
  BY <1>1, <1>2, <1>3, <1>4, <1>5, OtherRefsIn DEF Books
<1> QED BY <1>3, <1>5

\* What a frame of a call weighs, other than that of a makeChild.
Tokens(f) == One(f.ref) + One(f.pc \in AnchorPcs)

LEMMA TokensIn == ASSUME NEW f PROVE Tokens(f) \in Nat
BY DEF Tokens, One

LEMMA WeightHere ==
  ASSUME NEW f \in FrameSet, f.pc # "child.add", NEW c
  PROVE  Weight(f, c) = IF c = f.c THEN Tokens(f) ELSE 0
BY WeightIs DEF Tokens, One

LEMMA TurnShift ==
  ASSUME RefsOK, CloseInv, NEW s, NEW h \in FrameSet, NEW g \in FrameSet, h = Fr(s), TurnsTo(s, g),
         g.c = h.c, g.pc # "child.add", h.pc # "child.add",
         Adds(h.c, Tokens(g) - Tokens(h)), SameOthers
  PROVE  RefsOK'
<1>1. PICK i, j, d : i = Tokens(g) /\ j = Tokens(h) /\ d = i - j
  OBVIOUS
<1>2. i \in Nat /\ j \in Nat /\ d \in Int
  BY <1>1, TokensIn
<1>3. RefsTyped /\ \A e \in Contexts : \A n \in Int : n = (IF e = h.c THEN d ELSE 0) => Books(e, n)
  BY <1>1, <1>2, AddsTyped
<1>4. ASSUME NEW c \in Contexts PROVE Books(c, Weight(g, c) - Weight(Fr(s), c))
  <2>1. Weight(g, c) = (IF c = h.c THEN i ELSE 0) /\ Weight(h, c) = (IF c = h.c THEN j ELSE 0)
    BY <1>1, WeightHere
  <2>2. PICK n : n = Weight(g, c) - Weight(h, c)
    OBVIOUS
  <2>3. n \in Int /\ n = IF c = h.c THEN d ELSE 0
    BY <1>1, <1>2, <2>1, <2>2
  <2>4. Books(c, n)
    BY <1>3, <2>3
  <2> QED BY <2>2, <2>4
<1> QED BY <1>3, <1>4, TurnRefs

LEMMA LeaveShift ==
  ASSUME RefsOK, CloseInv, NEW s, NEW h \in FrameSet, h = Fr(s), Leaves(s), h.pc # "child.add",
         Adds(h.c, 0 - Tokens(h)), SameOthers
  PROVE  RefsOK'
<1>1. PICK j, d : j = Tokens(h) /\ d = 0 - j
  OBVIOUS
<1>2. j \in Nat /\ d \in Int
  BY <1>1, TokensIn
<1>3. RefsTyped /\ \A e \in Contexts : \A n \in Int : n = (IF e = h.c THEN d ELSE 0) => Books(e, n)
  BY <1>1, <1>2, AddsTyped
<1>4. ASSUME NEW c \in Contexts PROVE Books(c, 0 - Weight(Fr(s), c))
  <2>1. Weight(h, c) = (IF c = h.c THEN j ELSE 0)
    BY <1>1, WeightHere
  <2>2. PICK n : n = 0 - Weight(h, c)
    OBVIOUS
  <2>3. n \in Int /\ n = IF c = h.c THEN d ELSE 0
    BY <1>1, <1>2, <2>1, <2>2
  <2>4. Books(c, n)
    BY <1>3, <2>3
  <2> QED BY <2>2, <2>4
<1> QED BY <1>3, <1>4, LeaveRefs

\* A call that holds nothing itself.
LEMMA CallShift ==
  ASSUME RefsOK, CloseInv, NEW s, NEW r, NEW f \in FrameSet, NEW h \in FrameSet, NEW g \in FrameSet,
         h = Fr(s), CallsUp(s, r, f, g), g.c = h.c, Tokens(g) = Tokens(h), Tokens(f) = 0,
         g.pc # "child.add", h.pc # "child.add", f.pc # "child.add", refs' = refs, SameOthers
  PROVE  RefsOK'
<1>2. 0 \in Int /\ Adds(h.c, 0)
  BY AddsNothing
<1>3. RefsTyped /\ \A e \in Contexts : \A n \in Int : n = (IF e = h.c THEN 0 ELSE 0) => Books(e, n)
  BY <1>2, AddsTyped
<1>4. ASSUME NEW c \in Contexts PROVE Books(c, Weight(g, c) + Weight(f, c) - Weight(Fr(s), c))
  <2>1. Weight(g, c) = Weight(h, c) /\ Weight(f, c) = 0
    BY WeightHere
  <2>2. PICK n : n = Weight(g, c) + Weight(f, c) - Weight(h, c)
    OBVIOUS
  <2>3. Weight(h, c) \in Nat
    BY WeightIn
  <2>4. n \in Int /\ n = IF c = h.c THEN 0 ELSE 0
    BY <2>1, <2>2, <2>3
  <2>5. Books(c, n)
    BY <1>3, <2>4
  <2> QED BY <2>2, <2>5
<1> QED BY <1>3, <1>4, CallRefs

\* The pcs of the calls, by what they hold.
LEMMA TokensAre ==
  ASSUME NEW f
  PROVE  /\ f.pc \in AnchorPcs => Tokens(f) = One(f.ref) + 1
         /\ f.pc \notin AnchorPcs => Tokens(f) = One(f.ref)
BY DEF Tokens, One

LEMMA GotoShift ==
  ASSUME RefsOK, CloseInv, NEW t \in AllThreads, stack[t] # <<>>, NEW p \in Pcs, Goto(t, p), SameOthers,
         p # "child.add", Top(t).pc # "child.add",
         Adds(Top(t).c, One(p \in AnchorPcs) - One(Top(t).pc \in AnchorPcs))
  PROVE  RefsOK'
<1>1. PICK h, s : h = Top(t) /\ s = TopSpot(t)
  OBVIOUS
<1>2. h \in FrameSet /\ h = Fr(s)
  BY <1>1, TopFacts, TopSpotIs DEF CloseInv
<1>3. PICK g \in FrameSet : TurnsTo(s, g) /\ g.pc = p /\ g.c = h.c /\ g.x = h.x /\ g.ref = h.ref
  BY <1>1, GotoSpots
<1>4. PICK i, j, k : i = One(h.ref) /\ j = One(p \in AnchorPcs) /\ k = One(h.pc \in AnchorPcs)
  OBVIOUS
<1>5. i \in Int /\ j \in Int /\ k \in Int
  BY <1>4 DEF One
<1>6. Tokens(g) = i + j /\ Tokens(h) = i + k
  BY <1>3, <1>4 DEF Tokens
<1>7. Tokens(g) - Tokens(h) = j - k
  BY <1>5, <1>6
<1> QED BY <1>1, <1>2, <1>3, <1>4, <1>7, TurnShift

LEMMA ReturnShift ==
  ASSUME RefsOK, CloseInv, NEW t \in AllThreads, stack[t] # <<>>, Return(t), SameOthers,
         Top(t).pc # "child.add", Adds(Top(t).c, 0 - Tokens(Top(t)))
  PROVE  RefsOK'
<1>1. PICK h, s : h = Top(t) /\ s = TopSpot(t)
  OBVIOUS
<1>2. h \in FrameSet /\ h = Fr(s) /\ Leaves(s)
  BY <1>1, TopFacts, TopSpotIs, ReturnSpots DEF CloseInv
<1> QED BY <1>1, <1>2, LeaveShift

LEMMA EnterShift ==
  ASSUME RefsOK, CloseInv, NEW t \in AllThreads, stack[t] # <<>>, NEW p \in Pcs, NEW f \in FrameSet,
         Enter(t, p, f), SameOthers, refs' = refs, p # "child.add", Top(t).pc # "child.add", f.pc # "child.add",
         ~f.ref, f.pc \notin AnchorPcs, p \in AnchorPcs <=> Top(t).pc \in AnchorPcs
  PROVE  RefsOK'
<1>1. PICK h, s, r : h = Top(t) /\ s = TopSpot(t) /\ r = <<t, Len(stack[t]) + 1>>
  OBVIOUS
<1>2. h \in FrameSet /\ h = Fr(s)
  BY <1>1, TopFacts, TopSpotIs DEF CloseInv
<1>3. PICK g \in FrameSet : CallsUp(s, r, f, g) /\ g.pc = p /\ g.c = h.c /\ g.x = h.x /\ g.ref = h.ref
  BY <1>1, EnterSpots
<1>4. Tokens(f) = 0
  BY DEF Tokens, One
<1>5. Tokens(g) = Tokens(h)
  BY <1>1, <1>3 DEF Tokens, One
<1> QED BY <1>1, <1>2, <1>3, <1>4, <1>5, CallShift

-----------------------------------------------------------------------------
\* The references, call by call.

LEMMA AfterAdds ==
  ASSUME RefsOK, NEW f \in FrameSet, NEW n \in Nat, NEW v, v = RefsAfter(f)[f.c] - n,
         refs' = [RefsAfter(f) EXCEPT ![f.c] = v]
  PROVE  Adds(f.c, 0 - (One(f.ref) + n))
<1>1. refs \in [Contexts -> Nat] /\ f.c \in Contexts /\ f.ref \in BOOLEAN
  BY DEF RefsOK, FrameSet
<1>2. PICK d : d = 0 - (One(f.ref) + n)
  OBVIOUS
<1>3. d \in Int /\ v = refs[f.c] + d /\ refs' = [refs EXCEPT ![f.c] = v]
  <2>1. CASE f.ref
    <3>1. PICK w : w = refs[f.c] - 1
      OBVIOUS
    <3>2. RefsAfter(f) = [refs EXCEPT ![f.c] = w]
      BY <2>1, <3>1 DEF RefsAfter
    <3>3. v = w - n /\ refs' = [refs EXCEPT ![f.c] = v]
      BY <1>1, <3>2
    <3>4. One(f.ref) = 1
      BY <2>1 DEF One
    <3>5. d = 0 - (1 + n)
      BY <1>2, <3>4
    <3>6. PICK m \in Nat : m = refs[f.c]
      BY <1>1
    <3>7. d \in Int /\ v = m + d
      BY <3>1, <3>3, <3>5, <3>6
    <3> QED BY <3>3, <3>6, <3>7
  <2>2. CASE ~f.ref
    <3>1. RefsAfter(f) = refs /\ One(f.ref) = 0
      BY <2>2 DEF RefsAfter, One
    <3>2. d = 0 - (0 + n)
      BY <1>2, <3>1
    <3> QED BY <1>1, <3>1, <3>2
  <2> QED BY <1>1, <2>1, <2>2
<1>4. Adds(f.c, d)
  BY <1>1, <1>3, AddsIs
<1> QED BY <1>2, <1>4

LEMMA JustAfter ==
  ASSUME RefsOK, NEW f \in FrameSet, refs' = RefsAfter(f)
  PROVE  Adds(f.c, 0 - One(f.ref))
<1>1. refs \in [Contexts -> Nat] /\ f.c \in Contexts /\ f.ref \in BOOLEAN
  BY DEF RefsOK, FrameSet
<1>2. PICK d : d = 0 - One(f.ref)
  OBVIOUS
<1>3. CASE f.ref
  <2>1. PICK v : v = refs[f.c] - 1
    OBVIOUS
  <2>2. refs' = [refs EXCEPT ![f.c] = v]
    BY <1>3, <2>1 DEF RefsAfter
  <2>3. d = 0 - 1 /\ d \in Int /\ v = refs[f.c] + d
    BY <1>1, <1>2, <1>3, <2>1 DEF One
  <2> QED BY <1>1, <1>2, <2>2, <2>3, AddsIs
<1>4. CASE ~f.ref
  <2>1. refs' = refs /\ One(f.ref) = 0
    BY <1>4 DEF RefsAfter, One
  <2>2. d = 0
    BY <1>2, <2>1
  <2> QED BY <1>2, <2>1, <2>2, AddsNothing
<1> QED BY <1>1, <1>3, <1>4

\* A call that goes on and holds what it held, and one that takes an anchor.
Goes(t, d) == /\ stack[t] # <<>> /\ SameOthers
              /\ \E p \in Pcs : /\ Goto(t, p) /\ p # "child.add" /\ Top(t).pc # "child.add"
                                /\ Adds(Top(t).c, d) /\ d = One(p \in AnchorPcs) - One(Top(t).pc \in AnchorPcs)

LEMMA GoesRefs == ASSUME RefsOK, CloseInv, NEW t \in AllThreads, NEW d, Goes(t, d) PROVE RefsOK'
<1>1. PICK p \in Pcs : /\ Goto(t, p) /\ p # "child.add" /\ Top(t).pc # "child.add"
                       /\ Adds(Top(t).c, d) /\ d = One(p \in AnchorPcs) - One(Top(t).pc \in AnchorPcs)
  BY DEF Goes
<1> QED BY <1>1, GotoShift DEF Goes

LEMMA BlockCloseRefs ==
  ASSUME RefsOK, CloseInv, NEW t \in AllThreads,
         \/ BlockClose(t, "exec", "exec.post") \/ BlockClose(t, "add", "add.insert")
         \/ BlockClose(t, "start", "start.insert") \/ BlockClose(t, "child", "child.new")
  PROVE  RefsOK'
<1>1. ASSUME NEW q, NEW n, BlockClose(t, q, n),
             <<q, n>> \in {<<"exec", "exec.post">>, <<"add", "add.insert">>,
                           <<"start", "start.insert">>, <<"child", "child.new">>}
      PROVE  RefsOK'
  <2>1. PICK p, c, d, v : /\ p = IF "PreparingForClosing" \in flags[Top(t).c]
                                 THEN (IF q = "exec" THEN "exec.undo" ELSE "undo") ELSE n
                          /\ c = Top(t).c /\ d = (IF q = "exec" THEN 1 ELSE 0) /\ v = refs[c] + d
    OBVIOUS
  <2>2. Goto(t, p) /\ stack[t] # <<>> /\ SameOthers /\ Top(t).pc = q /\ refs' = [refs EXCEPT ![c] = v]
    BY <1>1, <2>1 DEF BlockClose, At, SameOthers, exec, clients
  <2>3. c \in Contexts /\ d \in Int
    BY <2>1, <2>2, TopFacts
  <2>4. Adds(c, d)
    BY <2>1, <2>2, <2>3, AddsIs
  <2>5. p \in Pcs /\ p # "child.add" /\ q # "child.add"
    BY <1>1, <2>1 DEF Pcs, AddPcs, ChildPcs
  <2>6. /\ q = "exec" => p \in {"exec.post", "exec.undo"}
        /\ q # "exec" => q \in {"add", "start", "child"} /\ p \in {"add.insert", "start.insert", "child.new", "undo"}
    BY <1>1, <2>1
  <2>7. d = One(p \in AnchorPcs) - One(q \in AnchorPcs)
    <3>1. q \notin AnchorPcs /\ (p \in AnchorPcs <=> q = "exec")
      BY <2>6 DEF AnchorPcs, ClosingPcs
    <3> QED BY <2>1, <3>1 DEF One
  <2>8. Goes(t, d)
    BY <2>1, <2>2, <2>4, <2>5, <2>7 DEF Goes
  <2> QED BY <2>8, GoesRefs
<1> QED BY <1>1

LEMMA GotosRefs ==
  ASSUME RefsOK, CloseInv, NEW t \in AllThreads,
         \/ RunBlock(t) \/ RunUndo(t) \/ StartSucceeds(t) \/ WaitForClosing(t) \/ SetClosedFlag(t)
         \/ Insert(t, "add.insert", "unblock") \/ Insert(t, "start.insert", "start.fn")
  PROVE  RefsOK'
<1>1. ASSUME NEW p, Goto(t, p), stack[t] # <<>>, SameOthers, refs' = refs,
             <<Top(t).pc, p>> \in {<<"run", "run.undo">>, <<"run", "work">>, <<"run.undo", "run.drop">>,
               <<"start.fn", "unblock">>, <<"close.wait", "close.flag">>, <<"close.closed", "close.release">>,
               <<"add.insert", "unblock">>, <<"start.insert", "start.fn">>}
      PROVE  RefsOK'
  <2>1. Adds(Top(t).c, 0)
    BY <1>1, AddsNothing
  <2>2. p \in Pcs /\ p # "child.add" /\ Top(t).pc # "child.add"
    BY <1>1 DEF Pcs, KnowPcs, ClosingPcs
  <2>3. 0 = One(p \in AnchorPcs) - One(Top(t).pc \in AnchorPcs)
    <3>1. p \in AnchorPcs <=> Top(t).pc \in AnchorPcs
      BY <1>1 DEF AnchorPcs, ClosingPcs
    <3> QED BY <3>1 DEF One
  <2>4. Goes(t, 0)
    BY <1>1, <2>1, <2>2, <2>3 DEF Goes
  <2> QED BY <2>4, GoesRefs
<1>2. CASE RunBlock(t)
  <2>1. PICK p : p = IF "PreparingForClosing" \in flags[Top(t).c] THEN "run.undo" ELSE "work"
    OBVIOUS
  <2>2. Goto(t, p) /\ stack[t] # <<>> /\ SameOthers /\ refs' = refs /\ Top(t).pc = "run"
    BY <1>2, <2>1 DEF RunBlock, At, SameOthers, exec, clients
  <2> QED BY <1>1, <2>1, <2>2
<1>3. CASE RunUndo(t)
  BY <1>1, <1>3 DEF RunUndo, At, SameOthers, exec, clients
<1>4. CASE StartSucceeds(t) \/ WaitForClosing(t)
  BY <1>1, <1>4 DEF StartSucceeds, WaitForClosing, At, SameOthers, words, exec, clients
<1>5. CASE SetClosedFlag(t)
  BY <1>1, <1>5 DEF SetClosedFlag, At, SameOthers, exec, clients
<1>6. CASE Insert(t, "add.insert", "unblock") \/ Insert(t, "start.insert", "start.fn")
  BY <1>1, <1>6 DEF Insert, At, SameOthers, words, exec, clients
<1> QED BY <1>2, <1>3, <1>4, <1>5, <1>6

LEMMA AnchorsRefs ==
  ASSUME RefsOK, CloseInv, NEW t \in AllThreads, Anchor(t) \/ StartClose(t)
  PROVE  RefsOK'
<1>1. ASSUME NEW p, Goto(t, p), stack[t] # <<>>, SameOthers, refs' = [refs EXCEPT ![Top(t).c] = @ + 1],
             <<Top(t).pc, p>> \in {<<"child.anchor", "child.done">>, <<"close", "close.wait">>}
      PROVE  RefsOK'
  <2>1. PICK c, v, d : c = Top(t).c /\ v = refs[c] + 1 /\ d = 1
    OBVIOUS
  <2>2. refs' = [refs EXCEPT ![c] = v] /\ c \in Contexts /\ d \in Int /\ v = refs[c] + d
    BY <1>1, <2>1, TopFacts
  <2>0. Adds(c, d)
    BY <2>2, AddsIs
  <2>3. Adds(c, 1)
    BY <2>0, <2>1
  <2>4. p \in Pcs /\ p # "child.add" /\ Top(t).pc # "child.add"
    BY <1>1 DEF Pcs, ClosingPcs
  <2>5. 1 = One(p \in AnchorPcs) - One(Top(t).pc \in AnchorPcs)
    <3>1. p \in AnchorPcs /\ Top(t).pc \notin AnchorPcs
      BY <1>1 DEF AnchorPcs, ClosingPcs
    <3> QED BY <3>1 DEF One
  <2>6. Goes(t, 1)
    BY <1>1, <2>1, <2>3, <2>4, <2>5 DEF Goes
  <2> QED BY <2>6, GoesRefs
<1>2. CASE Anchor(t)
  BY <1>1, <1>2 DEF Anchor, At, SameOthers, exec, clients
<1>3. CASE StartClose(t) /\ "PreparingForClosing" \notin flags[Top(t).c]
  BY <1>1, <1>3 DEF StartClose, At, SameOthers, exec, clients
<1>4. CASE StartClose(t) /\ "PreparingForClosing" \in flags[Top(t).c]
  <2>1. Goto(t, "close.lost") /\ stack[t] # <<>> /\ SameOthers /\ refs' = refs /\ Top(t).pc = "close"
    BY <1>4 DEF StartClose, At, SameOthers, exec, clients
  <2>2. Adds(Top(t).c, 0)
    BY <2>1, AddsNothing
  <2>3. "close.lost" \in Pcs
    BY DEF Pcs
  <2>4. 0 = One("close.lost" \in AnchorPcs) - One(Top(t).pc \in AnchorPcs)
    <3>1. "close.lost" \notin AnchorPcs /\ Top(t).pc \notin AnchorPcs
      BY <2>1 DEF AnchorPcs, ClosingPcs
    <3> QED BY <3>1 DEF One
  <2>5. Goes(t, 0)
    BY <2>1, <2>2, <2>3, <2>4 DEF Goes
  <2> QED BY <2>5, GoesRefs
<1> QED BY <1>2, <1>3, <1>4

\* What the grammar says of who holds a reference for the time of a call.
LEMMA RefIs ==
  ASSUME LifeInv, CloseInv, NEW q \in Spots
  PROVE  /\ Fr(q).pc \in {"handler", "child.anchor", "child.done", "child.release"} => ~Fr(q).ref
         /\ Fr(q).pc \in {"destroy", "child", "child.new", "child.add", "exec", "exec.post", "exec.undo",
                          "exec.inline", "exec.unblock", "inline", "run", "run.undo", "run.drop", "work"}
              => Fr(q).ref
<1>1. PICK f, g : f = Fr(q) /\ g = Fr(Under(q))
  OBVIOUS
<1>2. Above(f, g) \/ Lowest(f)
  BY <1>1 DEF LifeInv, Grammar, Lies
<1>3. f.pc \in {"handler", "child.anchor", "child.done", "child.release"} => ~f.ref
  <2>1. SUFFICES ASSUME f.pc \in {"handler", "child.anchor", "child.done", "child.release"} PROVE ~f.ref
    OBVIOUS
  <2>2. f.pc \notin ClientPcs \cup CloserPcs
    BY <2>1 DEF ClientPcs, CloserPcs, ClosingPcs, AddCallPcs, RemovePcs, StartPcs, ChildPcs
  <2>3. ~Lowest(f)
    BY <2>1, <2>2 DEF Lowest
  <2> QED BY <1>2, <2>1, <2>2, <2>3 DEF Above
<1>4. f.pc \in {"destroy", "child", "child.new", "child.add", "exec", "exec.post", "exec.undo",
                "exec.inline", "exec.unblock", "inline", "run", "run.undo", "run.drop", "work"} => f.ref
  <2>1. SUFFICES ASSUME f.pc \in {"destroy", "child", "child.new", "child.add", "exec", "exec.post", "exec.undo",
                "exec.inline", "exec.unblock", "inline", "run", "run.undo", "run.drop", "work"} PROVE f.ref
    OBVIOUS
  <2>2. f.pc \notin CloserPcs \cup AddCallPcs \cup RemovePcs \cup ChildCallPcs \cup {"handler"}
    BY <2>1 DEF CloserPcs, ClosingPcs, AddCallPcs, RemovePcs, ChildCallPcs
  <2> QED BY <1>2, <2>2 DEF Above, Lowest
<1> QED BY <1>1, <1>3, <1>4

LEMMA ReframesRefs ==
  ASSUME RefsOK, CloseInv, NEW t \in AllThreads, SetClosingFlag(t) \/ PopHandler(t)
  PROVE  RefsOK'
<1>1. PICK h, s : h = Top(t) /\ s = TopSpot(t)
  OBVIOUS
<1>2. stack[t] # <<>> /\ h.pc \in {"close.flag", "close.pop"} /\ refs' = refs /\ SameOthers
  BY <1>1 DEF SetClosingFlag, PopHandler, At, SameOthers, words, exec, clients
<1>3. h.c \in Contexts /\ h \in FrameSet /\ h = Fr(s) /\ list \in [Contexts -> Seq(Nodes)]
  BY <1>1, <1>2, TopFacts, TopSpotIs DEF CloseInv, HandlersInv, Shapes
<1>4. \E x \in Arguments, p \in {"close.pop", "close.parent", "close.call"} :
        stack' = [stack EXCEPT ![t][1].x = x, ![t][1].pc = p]
  <2>1. CASE SetClosingFlag(t)
    <3>1. None \in Arguments
      BY DEF Arguments
    <3>2. stack' = [stack EXCEPT ![t][1].pc = "close.pop", ![t][1].x = None]
      BY <2>1 DEF SetClosingFlag
    <3>3. stack' = [stack EXCEPT ![t][1].x = None, ![t][1].pc = "close.pop"]
      <4>1. /\ Len(stack[t]) >= 1 /\ stack[t] \in Seq(FrameSet)
            /\ stack[t][1] \in FrameSet /\ stack \in [AllThreads -> Seq(FrameSet)]
        BY <1>2, TopIs DEF CloseInv, HandlersInv, Shapes
      <4> QED BY <3>2, <4>1 DEF FrameSet
    <3> QED BY <3>1, <3>3
  <2>2. CASE PopHandler(t)
    <3>1. PICK l, next, p : /\ l = list[h.c] /\ next = (IF l = <<>> THEN None ELSE Head(l))
                            /\ p = IF next = None THEN "close.parent" ELSE "close.call"
      OBVIOUS
    <3>2. stack' = [stack EXCEPT ![t][1].x = next, ![t][1].pc = p]
      BY <1>1, <2>2, <3>1 DEF PopHandler
    <3>3. l \in Seq(Nodes)
      BY <1>3, <3>1
    <3>4. next \in Arguments
      BY <3>1, <3>3, TailIs DEF Arguments
    <3> QED BY <3>1, <3>2, <3>4
  <2> QED BY <2>1, <2>2
<1>5. PICK x \in Arguments, p \in {"close.pop", "close.parent", "close.call"} :
        stack' = [stack EXCEPT ![t][1].x = x, ![t][1].pc = p]
  BY <1>4
<1>6. PICK g : g = [Top(t) EXCEPT !.pc = p, !.x = x]
  OBVIOUS
<1>7. stack' = [stack EXCEPT ![t] = [@ EXCEPT ![1] = g]]
  <2>1. Top(t) = stack[t][1] /\ Len(stack[t]) >= 1 /\ stack[t] \in Seq(FrameSet)
        /\ stack[t][1] \in FrameSet /\ stack \in [AllThreads -> Seq(FrameSet)]
    BY <1>2, TopIs DEF CloseInv, HandlersInv, Shapes
  <2> QED BY <1>5, <1>6, <2>1
<1>8. PICK a : a = <<g>>
  OBVIOUS
<1>9. g \in FrameSet /\ g.pc = p /\ g.c = h.c /\ g.ref = h.ref
  <2>1. p \in Pcs
    BY <1>5 DEF Pcs, ClosingPcs
  <2> QED BY <1>1, <1>3, <1>6, <2>1 DEF FrameSet
<1>10. Moves(t, 1, a) /\ HandlersInv
  BY <1>2, <1>7, <1>8, <1>9, ReframeMoves DEF CloseInv
<1>11. TurnsTo(s, g)
  BY <1>1, <1>2, <1>8, <1>10, TurnSpots
<1>12. Tokens(g) - Tokens(h) = 0
  <2>1. g.pc \in AnchorPcs /\ h.pc \in AnchorPcs
    BY <1>2, <1>5, <1>9 DEF AnchorPcs, ClosingPcs
  <2>2. Tokens(g) = Tokens(h)
    BY <1>9, <2>1 DEF Tokens
  <2> QED BY <2>2, TokensIn
<1>13. Adds(h.c, Tokens(g) - Tokens(h))
  BY <1>2, <1>12, AddsNothing
<1>14. g.pc # "child.add" /\ h.pc # "child.add"
  BY <1>2, <1>5, <1>9
<1> QED BY <1>2, <1>3, <1>9, <1>11, <1>13, <1>14, TurnShift

\* The calls that return, with the reference of the call and with n more.
Drops(t, n) == /\ stack[t] # <<>> /\ Return(t) /\ SameOthers /\ Top(t).pc # "child.add"
               /\ \/ n = 0 /\ refs' = RefsAfter(Top(t))
                  \/ \E v : v = RefsAfter(Top(t))[Top(t).c] - n /\ refs' = [RefsAfter(Top(t)) EXCEPT ![Top(t).c] = v]

LEMMA DropsRefs ==
  ASSUME RefsOK, CloseInv, NEW t \in AllThreads, NEW n \in Nat, Drops(t, n),
         n = One(Top(t).pc \in AnchorPcs)
  PROVE  RefsOK'
<1>1. PICK h, i : h = Top(t) /\ i = One(h.ref)
  OBVIOUS
<1>2. h \in FrameSet /\ stack[t] # <<>> /\ Return(t) /\ SameOthers /\ h.pc # "child.add" /\ i \in Int
  BY <1>1, TopFacts DEF Drops, One
<1>3. Tokens(h) = i + n
  BY <1>1 DEF Tokens
<1>4. Adds(h.c, 0 - (i + n))
  <2>1. CASE n = 0 /\ refs' = RefsAfter(h)
    <3>1. Adds(h.c, 0 - i)
      BY <1>1, <1>2, <2>1, JustAfter
    <3>2. 0 - i = 0 - (i + n)
      BY <1>2, <2>1
    <3> QED BY <3>1, <3>2
  <2>2. CASE \E v : v = RefsAfter(h)[h.c] - n /\ refs' = [RefsAfter(h) EXCEPT ![h.c] = v]
    <3>1. PICK v : v = RefsAfter(h)[h.c] - n /\ refs' = [RefsAfter(h) EXCEPT ![h.c] = v]
      BY <2>2
    <3> QED BY <1>1, <1>2, <3>1, AfterAdds
  <2> QED BY <1>1, <2>1, <2>2 DEF Drops
<1> QED BY <1>1, <1>2, <1>3, <1>4, ReturnShift

LEMMA ReturnsRefs ==
  ASSUME RefsOK, LifeInv, CloseInv, NEW t \in AllThreads,
         \/ Unblock(t, "exec.unblock") \/ Unblock(t, "unblock") \/ WorkReturns(t) \/ RunDrop(t)
         \/ RemoveWait(t) \/ HandlerReturns(t) \/ WaitForClosed(t) \/ UndoBlock(t, "undo")
  PROVE  RefsOK'
<1>1. stack[t] # <<>> /\ Return(t) /\ SameOthers
      /\ Top(t).pc \in {"exec.unblock", "unblock", "work", "run.drop", "remove.wait", "handler", "close.lost", "undo"}
  <2>1. CASE Unblock(t, "exec.unblock") \/ Unblock(t, "unblock") \/ WorkReturns(t) \/ RunDrop(t)
    BY <2>1 DEF Unblock, WorkReturns, RunDrop, At, SameOthers, exec, clients
  <2>2. CASE RemoveWait(t) \/ HandlerReturns(t) \/ WaitForClosed(t) \/ UndoBlock(t, "undo")
    BY <2>2 DEF RemoveWait, HandlerReturns, WaitForClosed, UndoBlock, At, SameOthers, exec, clients
  <2> QED BY <2>1, <2>2
<1>2. refs' = RefsAfter(Top(t))
  <2>1. CASE Unblock(t, "exec.unblock") \/ Unblock(t, "unblock") \/ WorkReturns(t) \/ RunDrop(t)
    BY <2>1 DEF Unblock, WorkReturns, RunDrop
  <2>2. CASE RemoveWait(t) \/ WaitForClosed(t)
    BY <2>2 DEF RemoveWait, WaitForClosed
  <2>3. CASE UndoBlock(t, "undo")
    BY <2>3 DEF UndoBlock
  <2>4. CASE HandlerReturns(t)
    <3>1. PICK s : s = TopSpot(t)
      OBVIOUS
    <3>2. s \in Spots /\ Fr(s) = Top(t) /\ Top(t).pc = "handler" /\ refs' = refs
      BY <1>1, <2>4, <3>1, TopLifeIs DEF HandlerReturns, At, words
    <3>3. ~Top(t).ref
      BY <3>2, RefIs
    <3> QED BY <3>2, <3>3 DEF RefsAfter
  <2> QED BY <2>1, <2>2, <2>3, <2>4
<1>3. Top(t).pc \notin AnchorPcs /\ Top(t).pc # "child.add"
  BY <1>1 DEF AnchorPcs, ClosingPcs
<1>4. 0 = One(Top(t).pc \in AnchorPcs)
  BY <1>3 DEF One
<1>5. Drops(t, 0)
  BY <1>1, <1>2, <1>3 DEF Drops
<1> QED BY <1>4, <1>5, DropsRefs

LEMMA AnchorsGoRefs ==
  ASSUME RefsOK, LifeInv, CloseInv, NEW t \in AllThreads,
         ReleaseAnchor(t) \/ ReleaseOwner(t) \/ CloseReturns(t) \/ UndoBlock(t, "exec.undo")
  PROVE  RefsOK'
<1>1. PICK h, s, r : h = Top(t) /\ s = TopSpot(t) /\ r = RefsAfter(h)
  OBVIOUS
<1>2. stack[t] # <<>> /\ Return(t) /\ SameOthers
      /\ h.pc \in {"child.release", "destroy", "close.release", "exec.undo"}
  <2>1. CASE ReleaseAnchor(t) \/ ReleaseOwner(t)
    BY <1>1, <2>1 DEF ReleaseAnchor, ReleaseOwner, At, SameOthers, exec, clients
  <2>2. CASE CloseReturns(t) \/ UndoBlock(t, "exec.undo")
    BY <1>1, <2>2 DEF CloseReturns, UndoBlock, At, SameOthers, exec, clients
  <2> QED BY <2>1, <2>2
<1>3. h \in FrameSet /\ h.c \in Contexts /\ s \in Spots /\ Fr(s) = h /\ refs \in [Contexts -> Nat]
  BY <1>1, <1>2, TopLifeIs DEF RefsOK
<1>4. \E v : v = r[h.c] - 1 /\ refs' = [r EXCEPT ![h.c] = v]
  <2>1. CASE ReleaseAnchor(t)
    <3>1. h.pc = "child.release" /\ refs' = [refs EXCEPT ![h.c] = @ - 1]
      BY <1>1, <2>1 DEF ReleaseAnchor, At
    <3>2. ~h.ref
      BY <1>3, <3>1, RefIs
    <3>3. r = refs
      BY <1>1, <3>2 DEF RefsAfter
    <3> QED BY <3>1, <3>3
  <2>2. CASE ReleaseOwner(t)
    <3>1. h.pc = "destroy" /\ refs' = [refs EXCEPT ![h.c] = @ - 2]
      BY <1>1, <2>2 DEF ReleaseOwner, At
    <3>2. h.ref
      BY <1>3, <3>1, RefIs
    <3>3. PICK w, v : w = refs[h.c] - 1 /\ v = refs[h.c] - 2
      OBVIOUS
    <3>4. r = [refs EXCEPT ![h.c] = w] /\ refs' = [refs EXCEPT ![h.c] = v]
      BY <1>1, <3>1, <3>2, <3>3 DEF RefsAfter
    <3>5. v = r[h.c] - 1 /\ refs' = [r EXCEPT ![h.c] = v]
      BY <1>3, <3>3, <3>4
    <3> QED BY <3>5
  <2>3. CASE CloseReturns(t)
    BY <1>1, <2>3 DEF CloseReturns
  <2>4. CASE UndoBlock(t, "exec.undo")
    BY <1>1, <2>4 DEF UndoBlock
  <2> QED BY <2>1, <2>2, <2>3, <2>4
<1>5. h.pc \in AnchorPcs /\ h.pc # "child.add"
  BY <1>2 DEF AnchorPcs, ClosingPcs
<1>6. 1 = One(h.pc \in AnchorPcs)
  BY <1>5 DEF One
<1>7. Drops(t, 1)
  BY <1>1, <1>2, <1>4, <1>5 DEF Drops
<1> QED BY <1>1, <1>6, <1>7, DropsRefs

LEMMA RemoveRefs ==
  ASSUME RefsOK, CloseInv, NEW t \in AllThreads, RemoveCloseHandler(t)
  PROVE  RefsOK'
<1>1. stack[t] # <<>> /\ Top(t).pc = "remove" /\ SameOthers
  BY DEF RemoveCloseHandler, At, SameOthers, exec, clients
<1>2. CASE Return(t) /\ refs' = RefsAfter(Top(t))
  <2>1. Top(t).pc \notin AnchorPcs /\ Top(t).pc # "child.add"
    BY <1>1 DEF AnchorPcs, ClosingPcs
  <2>2. 0 = One(Top(t).pc \in AnchorPcs)
    BY <2>1 DEF One
  <2>3. Drops(t, 0)
    BY <1>1, <1>2, <2>1 DEF Drops
  <2> QED BY <2>2, <2>3, DropsRefs
<1>3. CASE Goto(t, "remove.wait") /\ refs' = refs
  <2>1. Adds(Top(t).c, 0)
    BY <1>3, AddsNothing
  <2>2. "remove.wait" \in Pcs
    BY DEF Pcs, KnowPcs
  <2>3. 0 = One("remove.wait" \in AnchorPcs) - One(Top(t).pc \in AnchorPcs)
    <3>1. "remove.wait" \notin AnchorPcs /\ Top(t).pc \notin AnchorPcs
      BY <1>1 DEF AnchorPcs, ClosingPcs
    <3> QED BY <3>1 DEF One
  <2>4. Goes(t, 0)
    BY <1>1, <1>3, <2>1, <2>2, <2>3 DEF Goes
  <2> QED BY <2>4, GoesRefs
<1> QED BY <1>2, <1>3 DEF RemoveCloseHandler

LEMMA EntersRefs ==
  ASSUME RefsOK, LifeInv, CloseInv, NEW t \in AllThreads,
         StartThrows(t) \/ CallHandler(t) \/ CloseChild(t) \/ LeaveParent(t)
  PROVE  RefsOK'
<1>1. PICK h, s : h = Top(t) /\ s = TopSpot(t)
  OBVIOUS
<1>2. stack[t] # <<>> /\ SameOthers /\ refs' = refs
      /\ h.pc \in {"start.fn", "close.call", "child.done", "close.parent"}
  <2>1. CASE StartThrows(t) \/ CallHandler(t)
    BY <1>1, <2>1 DEF StartThrows, CallHandler, At, SameOthers, words, exec, clients
  <2>2. CASE CloseChild(t) \/ LeaveParent(t)
    BY <1>1, <2>2 DEF CloseChild, LeaveParent, At, SameOthers, words, exec, clients
  <2> QED BY <2>1, <2>2
<1>3. h \in FrameSet /\ h.c \in Contexts /\ h.x \in Arguments /\ h.ref \in BOOLEAN
  BY <1>1, <1>2, TopFacts DEF FrameSet
<1>4. ASSUME NEW p, NEW f, Enter(t, p, f), f \in FrameSet, ~f.ref,
             f.pc \in {"remove", "child.anchor", "handler", "close"},
             <<h.pc, p>> \in {<<"start.fn", "unblock">>, <<"close.call", "close.pop">>,
                              <<"child.done", "child.release">>, <<"close.parent", "close.reset">>}
      PROVE  RefsOK'
  <2>1. p \in Pcs /\ p # "child.add" /\ h.pc # "child.add"
    BY <1>4 DEF Pcs, ClosingPcs
  <2>2. f.pc # "child.add" /\ f.pc \notin AnchorPcs
    BY <1>4 DEF AnchorPcs, ClosingPcs
  <2>3. p \in AnchorPcs <=> h.pc \in AnchorPcs
    BY <1>4 DEF AnchorPcs, ClosingPcs
  <2> QED BY <1>1, <1>2, <1>4, <2>1, <2>2, <2>3, EnterShift
<1>5. CASE StartThrows(t)
  <2>1. PICK f : f = Frame("remove", h.c, h.x, FALSE)
    OBVIOUS
  <2>2. f \in FrameSet /\ ~f.ref /\ f.pc = "remove"
    BY <1>3, <2>1 DEF Frame, FrameSet, Pcs, KnowPcs
  <2>3. Enter(t, "unblock", f) /\ h.pc = "start.fn"
    BY <1>1, <1>5, <2>1 DEF StartThrows, At
  <2> QED BY <1>4, <2>2, <2>3
<1>6. CASE CallHandler(t)
  <2>1. PICK f : f = IF h.x \in Contexts THEN Frame("child.anchor", h.x, None, FALSE)
                                         ELSE Frame("handler", h.c, h.x, FALSE)
    OBVIOUS
  <2>2. f \in FrameSet /\ ~f.ref /\ f.pc \in {"child.anchor", "handler"}
    <3>1. CASE h.x \in Contexts
      <4>1. f = Frame("child.anchor", h.x, None, FALSE) /\ None \in Arguments /\ "child.anchor" \in Pcs
        BY <2>1, <3>1 DEF Arguments, Pcs
      <4> QED BY <3>1, <4>1 DEF Frame, FrameSet
    <3>2. CASE h.x \notin Contexts
      <4>1. f = Frame("handler", h.c, h.x, FALSE) /\ "handler" \in Pcs
        BY <2>1, <3>2 DEF Pcs
      <4> QED BY <1>3, <4>1 DEF Frame, FrameSet
    <3> QED BY <3>1, <3>2
  <2>3. Enter(t, "close.pop", f) /\ h.pc = "close.call"
    BY <1>1, <1>6, <2>1 DEF CallHandler, At
  <2> QED BY <1>4, <2>2, <2>3
<1>7. CASE CloseChild(t)
  <2>1. PICK f : f = Frame("close", h.c, None, FALSE)
    OBVIOUS
  <2>2. f \in FrameSet /\ ~f.ref /\ f.pc = "close"
    BY <1>3, <2>1 DEF Frame, FrameSet, Pcs, Arguments
  <2>3. Enter(t, "child.release", f) /\ h.pc = "child.done"
    BY <1>1, <1>7, <2>1 DEF CloseChild, At
  <2> QED BY <1>4, <2>2, <2>3
<1>8. CASE LeaveParent(t) /\ Parent[h.c] # None
  <2>1. PICK f : f = Frame("remove", Parent[h.c], h.c, FALSE)
    OBVIOUS
  <2>2. f \in FrameSet /\ ~f.ref /\ f.pc = "remove"
    <3>1. Parent[h.c] \in Contexts /\ h.c \in Arguments /\ "remove" \in Pcs
      BY <1>3, <1>8, TreeAssumption DEF Arguments, Nodes, Pcs, KnowPcs
    <3> QED BY <2>1, <3>1 DEF Frame, FrameSet
  <2>3. Enter(t, "close.reset", f) /\ h.pc = "close.parent"
    BY <1>1, <1>8, <2>1 DEF LeaveParent, At
  <2> QED BY <1>4, <2>2, <2>3
<1>9. CASE LeaveParent(t) /\ Parent[h.c] = None
  <2>1. Goto(t, "close.reset") /\ h.pc = "close.parent"
    BY <1>1, <1>9 DEF LeaveParent, At
  <2>2. Adds(h.c, 0)
    BY <1>2, AddsNothing
  <2>3. "close.reset" \in Pcs
    BY DEF Pcs, ClosingPcs
  <2>4. 0 = One("close.reset" \in AnchorPcs) - One(h.pc \in AnchorPcs)
    <3>1. "close.reset" \in AnchorPcs /\ h.pc \in AnchorPcs
      BY <2>1 DEF AnchorPcs, ClosingPcs
    <3> QED BY <3>1 DEF One
  <2>5. Goes(t, 0)
    BY <1>1, <1>2, <2>1, <2>2, <2>3, <2>4 DEF Goes
  <2> QED BY <2>5, GoesRefs
<1> QED BY <1>5, <1>6, <1>7, <1>8, <1>9

\* exec and the executor.
LEMMA PostInlineRefs ==
  ASSUME RefsOK, CloseInv, NEW t \in AllThreads, PostInline(t)
  PROVE  RefsOK'
<1>1. PICK h, s, r, f : /\ h = Top(t) /\ s = TopSpot(t) /\ r = <<t, Len(stack[t]) + 1>>
                        /\ f = Frame("inline", h.c, h.x, TRUE)
  OBVIOUS
<1>2. /\ stack[t] # <<>> /\ SameOthers /\ refs' = refs /\ h.pc = "exec.post" /\ Enter(t, "exec.inline", f)
  BY <1>1 DEF PostInline, At, SameOthers, words, exec, clients
<1>3. h \in FrameSet /\ h = Fr(s)
  BY <1>1, <1>2, TopFacts, TopSpotIs DEF CloseInv
<1>4. f \in FrameSet /\ f.c = h.c /\ f.pc = "inline" /\ f.ref
  <2>1. h.c \in Contexts /\ h.x \in Arguments
    BY <1>3 DEF FrameSet
  <2> QED BY <1>1, <2>1 DEF Frame, FrameSet, Pcs
<1>5. "exec.inline" \in Pcs /\ f \in FrameSet /\ Enter(t, "exec.inline", f)
  BY <1>2, <1>4 DEF Pcs
<1>6. PICK g \in FrameSet : CallsUp(s, r, f, g) /\ g.pc = "exec.inline" /\ g.c = h.c /\ g.x = h.x /\ g.ref = h.ref
  <2>1. \E g \in FrameSet : /\ CallsUp(s, r, f, g) /\ g.pc = "exec.inline" /\ g.c = Top(t).c /\ g.x = Top(t).x
                            /\ g.ref = Top(t).ref
    <3>1. s = TopSpot(t) /\ r = <<t, Len(stack[t]) + 1>> /\ stack[t] # <<>>
      BY <1>1, <1>2
    <3> QED BY <1>5, <3>1, EnterSpots
  <2> QED BY <1>1, <2>1
<1>7. RefsTyped /\ \A e \in Contexts : \A n \in Int : n = (IF e = h.c THEN 0 ELSE 0) => Books(e, n)
  <2>1. 0 \in Int /\ Adds(h.c, 0)
    BY <1>2, AddsNothing
  <2> QED BY <1>2, <2>1, AddsTyped
<1>8. ASSUME NEW c \in Contexts PROVE Books(c, Weight(g, c) + Weight(f, c) - Weight(Fr(s), c))
  <2>1. PICK i : i = One(h.ref)
    OBVIOUS
  <2>2. i \in Int /\ Tokens(g) = i /\ Tokens(f) = 1 /\ Tokens(h) = i + 1
    <3>1. h.pc \in AnchorPcs /\ g.pc \notin AnchorPcs /\ f.pc \notin AnchorPcs
      BY <1>2, <1>4, <1>6 DEF AnchorPcs, ClosingPcs
    <3>2. One(f.ref) = 1 /\ One(g.ref) = i /\ i \in Int
      BY <1>4, <1>6, <2>1 DEF One
    <3> QED BY <2>1, <3>1, <3>2, TokensAre
  <2>3. /\ Weight(g, c) = (IF c = h.c THEN i ELSE 0) /\ Weight(f, c) = (IF c = h.c THEN 1 ELSE 0)
        /\ Weight(h, c) = (IF c = h.c THEN i + 1 ELSE 0)
    BY <1>2, <1>3, <1>4, <1>6, <2>2, WeightHere
  <2>4. PICK n : n = Weight(g, c) + Weight(f, c) - Weight(h, c)
    OBVIOUS
  <2>5. n \in Int /\ n = IF c = h.c THEN 0 ELSE 0
    BY <2>2, <2>3, <2>4
  <2>6. Books(c, n)
    BY <1>7, <2>5
  <2> QED BY <1>3, <2>4, <2>6
<1> QED BY <1>6, <1>7, <1>8, CallRefs

LEMMA InlineReturnsRefs ==
  ASSUME RefsOK, LifeInv, CloseInv, NEW t \in AllThreads, InlineReturns(t)
  PROVE  RefsOK'
<1>1. /\ SameOthers /\ stack[t] # <<>> /\ Top(t).pc = "inline" /\ Shapes /\ HandlersInv
      /\ refs' = RefsAfter(Top(t))
  BY DEF InlineReturns, At, SameOthers, exec, clients, CloseInv, HandlersInv
<1>2. /\ 1 + 1 \in DOMAIN stack[t] /\ stack[t][1 + 1].pc = "exec.inline" /\ stack[t] \in Seq(FrameSet)
  BY <1>1, TopIs DEF NestedOK, Shapes
<1>3. PICK f : f = stack[t][2]
  OBVIOUS
<1>4. f \in FrameSet /\ f.pc = "exec.inline" /\ 2 \in DOMAIN stack[t] /\ 2 <= Len(stack[t])
  BY <1>2, <1>3
<1>5. PICK g : g = [f EXCEPT !.pc = "exec.unblock"]
  OBVIOUS
<1>6. g \in FrameSet /\ g.pc = "exec.unblock" /\ g.c = f.c /\ g.x = f.x /\ g.ref = f.ref
  BY <1>4, <1>5 DEF FrameSet, Pcs
<1>7. PICK a : a = <<g>>
  OBVIOUS
<1>8. a \in Seq(FrameSet)
  BY <1>6, <1>7, OneIs
<1>9. Moves(t, 2, a)
  <2>1. stack' = [stack EXCEPT ![t] = a \o Tail(Tail(stack[t]))]
    BY <1>1, <1>3, <1>5, <1>7 DEF InlineReturns, Shapes
  <2>2. Tail(Tail(stack[t])) = IF 2 = 0 THEN stack[t] ELSE IF 2 = 1 THEN Tail(stack[t])
                               ELSE Tail(Tail(stack[t]))
    OBVIOUS
  <2>3. stack' = [stack EXCEPT ![t] = a \o (IF 2 = 0 THEN stack[t] ELSE IF 2 = 1 THEN Tail(stack[t])
                                                 ELSE Tail(Tail(stack[t])))]
    BY <2>1, <2>2
  <2> QED BY <1>1, <1>4, <1>8, <2>3, StackMoves
<1>10. PICK r, s : r = TopSpot(t) /\ s = <<t, Len(stack[t]) + 1 - 2>>
  OBVIOUS
<1>11. s \in Spots /\ Fr(s) = f
  BY <1>1, <1>3, <1>4, <1>10, FrameSpot
<1>12. s = Under(r) /\ r # s
  <2>1. PICK l \in Nat : l = Len(stack[t])
    BY <1>2
  <2>2. r = <<t, l>> /\ s = <<t, l - 1>> /\ Under(r) = <<t, l - 1>>
    BY <1>10, <2>1 DEF Under, TopSpot
  <2> QED BY <2>2
<1>13. LeavesTo(r, s, g)
  BY <1>1, <1>7, <1>9, <1>10, <1>11, <1>12, BackSpots
<1>14. PICK h : h = Top(t)
  OBVIOUS
<1>15. h \in FrameSet /\ h = Fr(r) /\ h.ref /\ h.c \in Contexts /\ h.pc = "inline"
  BY <1>1, <1>10, <1>14, TopLifeIs, RefIs
<1>16. PICK d : d = 0 - One(h.ref)
  OBVIOUS
<1>17. d = 0 - 1 /\ Adds(h.c, d)
  <2>1. One(h.ref) = 1
    BY <1>15 DEF One
  <2> QED BY <1>1, <1>14, <1>15, <1>16, <2>1, JustAfter
<1>18. RefsTyped /\ \A e \in Contexts : \A n \in Int : n = (IF e = h.c THEN d ELSE 0) => Books(e, n)
  BY <1>1, <1>17, AddsTyped
<1>19. ASSUME NEW c \in Contexts PROVE Books(c, Weight(g, c) - Weight(Fr(s), c) - Weight(Fr(r), c))
  <2>2. Tokens(g) = Tokens(f) /\ Tokens(h) = 1
    <3>1. g.pc \notin AnchorPcs /\ f.pc \notin AnchorPcs /\ h.pc \notin AnchorPcs
      BY <1>4, <1>6, <1>15 DEF AnchorPcs, ClosingPcs
    <3>2. One(h.ref) = 1 /\ One(g.ref) = One(f.ref)
      BY <1>6, <1>15 DEF One
    <3> QED BY <3>1, <3>2, TokensAre
  <2>3. /\ Weight(g, c) = Weight(f, c) /\ Weight(h, c) = (IF c = h.c THEN 1 ELSE 0)
    BY <1>4, <1>6, <1>15, <2>2, WeightHere
  <2>4. PICK n : n = Weight(g, c) - Weight(f, c) - Weight(h, c)
    OBVIOUS
  <2>5. n \in Int /\ n = IF c = h.c THEN d ELSE 0
    BY <1>17, <2>3, <2>4, WeightIn
  <2>6. Books(c, n)
    BY <1>18, <2>5
  <2> QED BY <1>11, <1>15, <2>4, <2>6
<1> QED BY <1>12, <1>13, <1>18, <1>19, BackRefs

\* The closures of a context, when one comes and when one goes.
Appended(w, k, v) == v = Append(w, k)
Shortened(w, v)   == w # <<>> /\ v = Tail(w)

LEMMA AppendCount ==
  ASSUME NEW w \in Seq(Closures), NEW k \in Closures, NEW v, Appended(w, k, v), NEW c
  PROVE  /\ v \in Seq(Closures)
         /\ CountIn(v, c) = CountIn(w, c) + One(k.ctx = c)
<1>1. PICK n \in Nat : n = Len(w)
  OBVIOUS
<1>2. /\ v \in Seq(Closures) /\ DOMAIN w = 1..n /\ DOMAIN v = 1..(n + 1)
      /\ \A i \in 1..n : v[i] = w[i]
      /\ v[n + 1] = k
  BY <1>1 DEF Appended
<1>3. PICK S, T, b : /\ S = {i \in DOMAIN w : w[i].ctx = c} /\ T = {i \in DOMAIN v : v[i].ctx = c}
                     /\ b = (k.ctx = c)
  OBVIOUS
<1>4. IsFiniteSet(S)
  <2>1. S \subseteq 1..n
    BY <1>2, <1>3
  <2>2. IsFiniteSet(1..n)
    BY FS_Interval
  <2> QED BY <2>1, <2>2, FS_Subset
<1>5. n + 1 \notin S /\ T = IF b THEN S \cup {n + 1} ELSE S \ {n + 1}
  <2>1. n + 1 \notin 1..n /\ \A i : i \in 1..(n + 1) <=> i \in 1..n \/ i = n + 1
    OBVIOUS
  <2> QED BY <1>2, <1>3, <2>1
<1>6. b \in BOOLEAN
  BY <1>3
<1>7. Cardinality(S) \in Nat /\ Cardinality(T) = Cardinality(S) + One(b) - One(n + 1 \in S)
  BY <1>4, <1>5, <1>6, SetCounts
<1>8. One(n + 1 \in S) = 0 /\ One(b) \in Int
  BY <1>5 DEF One
<1>9. Cardinality(T) = Cardinality(S) + One(b)
  BY <1>7, <1>8
<1> QED BY <1>2, <1>3, <1>9 DEF CountIn

LEMMA TailCount ==
  ASSUME NEW w \in Seq(Closures), NEW v, Shortened(w, v), NEW c
  PROVE  /\ v \in Seq(Closures)
         /\ CountIn(w, c) = CountIn(v, c) + One(w[1].ctx = c)
<1>1. PICK n \in Nat : n = Len(w) /\ n >= 1
  BY TailIs DEF Shortened
<1>2. /\ v \in Seq(Closures) /\ DOMAIN w = 1..n /\ DOMAIN v = 1..(n - 1)
      /\ \A i \in 1..(n - 1) : v[i] = w[i + 1]
  BY <1>1, TailIs DEF Shortened
<1>3. PICK S, T, R, b : /\ S = {i \in DOMAIN w : w[i].ctx = c} /\ T = {i \in DOMAIN v : v[i].ctx = c}
                        /\ R = S \ {1} /\ b = (w[1].ctx = c)
  OBVIOUS
<1>4. IsFiniteSet(S) /\ IsFiniteSet(T)
  <2>1. S \subseteq 1..n /\ T \subseteq 1..n
    BY <1>2, <1>3
  <2>2. IsFiniteSet(1..n)
    BY FS_Interval
  <2> QED BY <2>1, <2>2, FS_Subset
<1>5. Cardinality(R) = Cardinality(T)
  <2>1. PICK f : f = [i \in T |-> i + 1]
    OBVIOUS
  <2>2. \A i \in T : i \in Nat /\ i + 1 \in R
    BY <1>1, <1>2, <1>3
  <2>3. \A j \in R : j - 1 \in T /\ (j - 1) + 1 = j
    <3>1. SUFFICES ASSUME NEW j \in R PROVE j - 1 \in T /\ (j - 1) + 1 = j
      OBVIOUS
    <3>2. j \in 1..n /\ j # 1 /\ w[j].ctx = c
      BY <1>2, <1>3
    <3>3. j - 1 \in 1..(n - 1) /\ (j - 1) + 1 = j
      BY <3>2
    <3> QED BY <1>2, <1>3, <3>2, <3>3
  <2>4. f \in Bijection(T, R)
    BY <2>1, <2>2, <2>3 DEF Bijection, Injection, Surjection, IsInjective
  <2>5. ExistsBijection(T, R)
    BY <2>4 DEF ExistsBijection
  <2> QED BY <1>4, <2>5, FS_Bijection
<1>6. Cardinality(R) = Cardinality(S) - One(1 \in S) /\ Cardinality(S) \in Nat
  <2>1. R = IF FALSE THEN S \cup {1} ELSE S \ {1}
    BY <1>3
  <2>2. Cardinality(S) \in Nat /\ Cardinality(R) = Cardinality(S) + One(FALSE) - One(1 \in S)
    BY <1>4, <2>1, SetCounts
  <2>3. One(FALSE) = 0 /\ One(1 \in S) \in Int
    BY DEF One
  <2>4. PICK i, j, l : i = Cardinality(S) /\ j = One(FALSE) /\ l = One(1 \in S)
    OBVIOUS
  <2>5. i \in Nat /\ l \in Int /\ Cardinality(R) = i + 0 - l
    BY <2>2, <2>3, <2>4
  <2>6. Cardinality(R) = i - l
    BY <2>5
  <2> QED BY <2>2, <2>4, <2>6
<1>7. One(1 \in S) = One(b) /\ One(b) \in Int
  <2>0. 1 \in 1..n
    BY <1>1
  <2>1. 1 \in S <=> b
    BY <1>2, <1>3, <2>0
  <2> QED BY <2>1 DEF One
<1>8. Cardinality(S) = Cardinality(T) + One(b)
  <2>1. PICK i, j : i = Cardinality(S) /\ j = One(b)
    OBVIOUS
  <2>2. i \in Nat /\ j \in Int /\ Cardinality(T) = i - j
    BY <1>5, <1>6, <1>7, <2>1
  <2> QED BY <2>1, <2>2
<1> QED BY <1>2, <1>3, <1>8 DEF CountIn

LEMMA BooksIs ==
  ASSUME NEW e, NEW i \in Int, NEW m \in Int, NEW n \in Int, refs[e] \in Nat, OtherRefs(e) \in Nat,
         refs'[e] = refs[e] + i, OtherRefs(e)' = OtherRefs(e) + m, n = i - m
  PROVE  Books(e, n)
BY DEF Books

LEMMA OtherIs ==
  ASSUME queue \in Seq(Closures), NEW e
  PROVE  OtherRefs(e) \in Nat /\ QueueRefs(e) \in Nat /\ One(e \in owned) \in Nat
<1>1. QueueRefs(e) \in Nat
  BY ClosuresCount DEF QueueRefs
<1>2. One(e \in owned) \in Nat
  BY DEF One
<1> QED BY <1>1, <1>2 DEF OtherRefs

LEMMA PostRefs ==
  ASSUME RefsOK, CloseInv, NEW t \in AllThreads, Post(t)
  PROVE  RefsOK'
<1>1. PICK h, s, k : h = Top(t) /\ s = TopSpot(t) /\ k = [ctx |-> h.c, work |-> h.x]
  OBVIOUS
<1>2. /\ stack[t] # <<>> /\ h.pc = "exec.post" /\ refs' = refs /\ owned' = owned
      /\ queue' = Append(queue, k) /\ Goto(t, "exec.unblock")
  BY <1>1 DEF Post, At, words, clients
<1>3. h \in FrameSet /\ h = Fr(s) /\ h.c \in Contexts /\ h.x \in Arguments
  BY <1>1, <1>2, TopFacts, TopSpotIs DEF CloseInv, FrameSet
<1>4. "exec.unblock" \in Pcs
  BY DEF Pcs
<1>5. PICK g \in FrameSet : TurnsTo(s, g) /\ g.pc = "exec.unblock" /\ g.c = h.c /\ g.x = h.x /\ g.ref = h.ref
  BY <1>1, <1>2, <1>4, GotoSpots
<1>6. queue \in Seq(Closures) /\ k \in Closures /\ refs \in [Contexts -> Nat] /\ k.ctx = h.c
  BY <1>1, <1>3 DEF CloseInv, HandlersInv, Shapes, Closures, RefsOK
<1>7. \A e : QueueRefs(e)' = QueueRefs(e) + One(h.c = e)
  <2>1. PICK w, v : w = queue /\ v = queue'
    OBVIOUS
  <2>2. w \in Seq(Closures) /\ v = Append(w, k)
    BY <1>2, <1>6, <2>1
  <2>3. ASSUME NEW e PROVE CountIn(v, e) = CountIn(w, e) + One(k.ctx = e)
    <3>1. k \in Closures /\ w \in Seq(Closures) /\ Appended(w, k, v)
      BY <1>6, <2>2 DEF Appended
    <3> QED BY <3>1, AppendCount
  <2> QED BY <1>6, <2>1, <2>3 DEF QueueRefs
<1>8. RefsTyped
  <2>1. queue' \in Seq(Closures)
    BY <1>2, <1>6
  <2>2. refs' \in [Contexts -> Int]
    BY <1>2, <1>6
  <2> QED BY <1>6, <2>1, <2>2 DEF RefsTyped
<1>9. ASSUME NEW c \in Contexts PROVE Books(c, Weight(g, c) - Weight(Fr(s), c))
  <2>1. PICK i, m : i = One(h.ref) /\ m = One(h.c = c)
    OBVIOUS
  <2>2. i \in Int /\ m = (IF c = h.c THEN 1 ELSE 0) /\ Tokens(g) = i /\ Tokens(h) = i + 1
    <3>1. h.pc \in AnchorPcs /\ g.pc \notin AnchorPcs
      BY <1>2, <1>5 DEF AnchorPcs, ClosingPcs
    <3>2. One(g.ref) = i /\ i \in Int /\ m = (IF c = h.c THEN 1 ELSE 0)
      BY <1>5, <2>1 DEF One
    <3> QED BY <2>1, <3>1, <3>2, TokensAre
  <2>3. /\ Weight(g, c) = (IF c = h.c THEN i ELSE 0) /\ Weight(h, c) = (IF c = h.c THEN i + 1 ELSE 0)
    BY <1>2, <1>3, <1>5, <2>2, WeightHere
  <2>4. PICK n : n = Weight(g, c) - Weight(h, c)
    OBVIOUS
  <2>5. n \in Int /\ m \in Int /\ n = 0 - m
    BY <2>2, <2>3, <2>4
  <2>6. OtherRefs(c) \in Nat /\ OtherRefs(c)' = OtherRefs(c) + m
    <3>1. QueueRefs(c) \in Nat /\ One(c \in owned) \in Nat /\ OtherRefs(c) \in Nat
      BY <1>6, OtherIs
    <3>2. OtherRefs(c)' = QueueRefs(c) + m + One(c \in owned)
      BY <1>2, <1>7, <2>1 DEF OtherRefs
    <3>3. OtherRefs(c) = QueueRefs(c) + One(c \in owned)
      BY DEF OtherRefs
    <3> QED BY <2>5, <3>1, <3>2, <3>3
  <2>7. refs[c] \in Nat /\ refs'[c] = refs[c] + 0
    BY <1>2, <1>6
  <2>8. Books(c, n)
    BY <2>5, <2>6, <2>7, BooksIs
  <2> QED BY <1>3, <2>4, <2>8
<1> QED BY <1>5, <1>8, <1>9, TurnRefs

LEMMA TakeRefs ==
  ASSUME RefsOK, CloseInv, TakeClosure
  PROVE  RefsOK'
<1>1. /\ refs' = refs /\ owned' = owned /\ stack[Worker] = <<>> /\ Worker \in AllThreads /\ Shapes /\ HandlersInv
      /\ queue # <<>> /\ queue \in Seq(Closures) /\ queue' = Tail(queue) /\ refs \in [Contexts -> Nat]
  BY DEF TakeClosure, words, clients, AllThreads, CloseInv, HandlersInv, Shapes, RefsOK
<1>2. PICK e : e = Head(queue)
  OBVIOUS
<1>3. e.ctx \in Contexts /\ e.work \in Arguments /\ e = queue[1]
  <2>1. e \in Closures /\ e = queue[1]
    BY <1>1, <1>2, TailIs
  <2> QED BY <2>1 DEF Closures
<1>4. PICK f : f = Frame("run", e.ctx, e.work, TRUE)
  OBVIOUS
<1>5. f \in FrameSet /\ f.pc = "run" /\ f.ref /\ f.c = e.ctx
  BY <1>3, <1>4 DEF Frame, FrameSet, Pcs
<1>6. PICK a, r : a = <<f>> /\ r = <<Worker, Len(stack[Worker]) + 1>>
  OBVIOUS
<1>7. a \in Seq(FrameSet)
  BY <1>5, <1>6, OneIs
<1>8. Moves(Worker, 0, a)
  <2>1. a \o stack[Worker] = a
    BY <1>1, <1>7
  <2>2. stack' = [stack EXCEPT ![Worker] = a \o stack[Worker]]
    BY <1>2, <1>4, <1>6, <2>1 DEF TakeClosure
  <2> QED BY <1>1, <1>7, <2>2, PushMoves
<1>9. Pushes(r, f)
  BY <1>1, <1>6, <1>8, PushSpots
<1>10. queue' \in Seq(Closures) /\ \A c : QueueRefs(c) = QueueRefs(c)' + One(e.ctx = c)
  <2>1. PICK w, v : w = queue /\ v = queue'
    OBVIOUS
  <2>2. w \in Seq(Closures) /\ w # <<>> /\ v = Tail(w) /\ w[1] = e
    BY <1>1, <1>3, <2>1
  <2>3. ASSUME NEW c PROVE CountIn(w, c) = CountIn(v, c) + One(w[1].ctx = c)
    <3>1. w \in Seq(Closures) /\ Shortened(w, v)
      BY <2>2 DEF Shortened
    <3> QED BY <3>1, TailCount
  <2>4. v \in Seq(Closures)
    BY <2>2, TailIs
  <2> QED BY <2>1, <2>2, <2>3, <2>4 DEF QueueRefs
<1>11. RefsTyped
  BY <1>1, <1>10 DEF RefsTyped
<1>12. ASSUME NEW c \in Contexts PROVE Books(c, Weight(f, c))
  <2>1. PICK m : m = One(e.ctx = c)
    OBVIOUS
  <2>2. m = (IF c = f.c THEN 1 ELSE 0) /\ Tokens(f) = 1
    <3>1. f.pc \notin AnchorPcs
      BY <1>5 DEF AnchorPcs, ClosingPcs
    <3>2. One(f.ref) = 1 /\ m = (IF c = f.c THEN 1 ELSE 0)
      BY <1>5, <2>1 DEF One
    <3> QED BY <3>1, <3>2, TokensAre
  <2>3. Weight(f, c) = m
    BY <1>5, <2>2, WeightHere
  <2>4. m \in Int
    BY <2>2
  <2>6. OtherRefs(c) \in Nat /\ OtherRefs(c)' = OtherRefs(c) + (0 - m)
    <3>1. QueueRefs(c) \in Nat /\ One(c \in owned) \in Nat /\ OtherRefs(c) \in Nat
      BY <1>1, OtherIs
    <3>2. QueueRefs(c)' \in Nat
      BY <1>10, ClosuresCount DEF QueueRefs
    <3>3. OtherRefs(c)' = QueueRefs(c)' + One(c \in owned) /\ QueueRefs(c) = QueueRefs(c)' + m
      BY <1>1, <1>10, <2>1 DEF OtherRefs
    <3>4. OtherRefs(c) = QueueRefs(c) + One(c \in owned)
      BY DEF OtherRefs
    <3> QED BY <2>4, <3>1, <3>2, <3>3, <3>4
  <2>7. refs[c] \in Nat /\ refs'[c] = refs[c] + 0
    BY <1>1
  <2>8. Books(c, m)
    BY <2>4, <2>6, <2>7, BooksIs
  <2> QED BY <2>3, <2>8
<1> QED BY <1>9, <1>11, <1>12, PushRefs

LEMMA ResetRefs ==
  ASSUME RefsOK, CloseInv, NEW t \in AllThreads, ResetExecutor(t)
  PROVE  RefsOK'
<1>1. PICK h, s, drops : h = Top(t) /\ s = TopSpot(t) /\ drops = (OwnsExecutor[program] /\ Parent[h.c] = None)
  OBVIOUS
<1>2. /\ stack[t] # <<>> /\ h.pc = "close.reset" /\ owned' = owned /\ Goto(t, "close.closed")
      /\ queue' = IF drops THEN <<>> ELSE queue
      /\ refs' = IF drops THEN [k \in Contexts |-> refs[k] - CountIn(queue, k)] ELSE refs
  BY <1>1 DEF ResetExecutor, At, clients, CountIn
<1>3. "close.closed" \in Pcs /\ h \in FrameSet /\ h = Fr(s)
  BY <1>1, <1>2, TopFacts, TopSpotIs DEF CloseInv, Pcs, ClosingPcs
<1>4. CASE ~drops
  <2>1. Adds(h.c, 0) /\ SameOthers
    BY <1>2, <1>4, AddsNothing DEF SameOthers
  <2>2. 0 = One("close.closed" \in AnchorPcs) - One(h.pc \in AnchorPcs)
    <3>1. "close.closed" \in AnchorPcs /\ h.pc \in AnchorPcs
      BY <1>2 DEF AnchorPcs, ClosingPcs
    <3> QED BY <3>1 DEF One
  <2>3. Goes(t, 0)
    BY <1>1, <1>2, <1>3, <2>1, <2>2 DEF Goes
  <2> QED BY <2>3, GoesRefs
<1>5. CASE drops
  <2>1. PICK g \in FrameSet : TurnsTo(s, g) /\ g.pc = "close.closed" /\ g.c = h.c /\ g.x = h.x /\ g.ref = h.ref
    <3>1. PICK p : p = "close.closed"
      OBVIOUS
    <3>2. s = TopSpot(t) /\ stack[t] # <<>> /\ p \in Pcs /\ Goto(t, p)
      BY <1>1, <1>2, <1>3, <3>1
    <3>3. \E g \in FrameSet : /\ TurnsTo(s, g) /\ g.pc = p /\ g.c = Top(t).c /\ g.x = Top(t).x
                              /\ g.ref = Top(t).ref
      BY <3>2, GotoSpots
    <3> QED BY <1>1, <3>1, <3>3
  <2>2. queue \in Seq(Closures) /\ refs \in [Contexts -> Nat] /\ \A c : QueueRefs(c) \in Nat
    <3>1. queue \in Seq(Closures) /\ refs \in [Contexts -> Nat]
      BY DEF CloseInv, HandlersInv, Shapes, RefsOK
    <3> QED BY <3>1, OtherIs
  <2>3. \A c : QueueRefs(c)' = 0
    <3>1. ASSUME NEW c PROVE CountIn(<<>>, c) = 0
      <4>1. {n \in DOMAIN <<>> : <<>>[n].ctx = c} = {}
        OBVIOUS
      <4> QED BY <4>1, FS_EmptySet DEF CountIn
    <3>2. queue' = <<>>
      BY <1>2, <1>5
    <3> QED BY <3>1, <3>2 DEF QueueRefs
  <2>4. \A c \in Contexts : refs'[c] = refs[c] - QueueRefs(c)
    BY <1>2, <1>5 DEF QueueRefs
  <2>5. RefsTyped
    <3>1. queue' = <<>> /\ refs' = [k \in Contexts |-> refs[k] - CountIn(queue, k)]
      BY <1>2, <1>5
    <3>2. refs' \in [Contexts -> Int]
      BY <2>2, <3>1 DEF QueueRefs
    <3>3. queue' \in Seq(Closures)
      BY <3>1
    <3> QED BY <2>2, <3>2, <3>3 DEF RefsTyped
  <2>6. ASSUME NEW c \in Contexts PROVE Books(c, Weight(g, c) - Weight(Fr(s), c))
    <3>1. Weight(g, c) = Weight(h, c)
      <4>1. g.pc \in AnchorPcs /\ h.pc \in AnchorPcs
        BY <1>2, <2>1 DEF AnchorPcs, ClosingPcs
      <4>2. Tokens(g) = Tokens(h)
        BY <2>1, <4>1 DEF Tokens
      <4> QED BY <1>2, <1>3, <2>1, <4>2, WeightHere
    <3>2. PICK n : n = Weight(g, c) - Weight(h, c)
      OBVIOUS
    <3>3. n = 0
      BY <3>1, <3>2, WeightIn
    <3>4. PICK m, k : m = 0 - QueueRefs(c) /\ k = One(c \in owned)
      OBVIOUS
    <3>5. m \in Int /\ k \in Nat /\ OtherRefs(c) \in Nat
      BY <2>2, <3>4, OtherIs
    <3>6. refs[c] \in Nat /\ refs'[c] = refs[c] + m
      BY <2>2, <2>4, <3>4
    <3>7. OtherRefs(c)' = OtherRefs(c) + m
      <4>1. OtherRefs(c)' = 0 + k /\ OtherRefs(c) = QueueRefs(c) + k
        BY <1>2, <2>3, <3>4 DEF OtherRefs
      <4>2. QueueRefs(c) \in Nat
        BY <2>2
      <4> QED BY <3>4, <3>5, <4>1, <4>2
    <3>8. n \in Int /\ n = m - m
      BY <3>3, <3>5
    <3>9. Books(c, n)
      BY <3>5, <3>6, <3>7, <3>8, BooksIs
    <3> QED BY <1>3, <3>2, <3>9
  <2> QED BY <2>1, <2>5, <2>6, TurnRefs
<1> QED BY <1>4, <1>5

-----------------------------------------------------------------------------
\* Who is known has been made: calls and closures are about contexts that were added
\* to their parents, and so were the parents of those; an owner comes after makeChild.
Known == /\ \A q \in Spots : Born(Fr(q).c)
         /\ \A n \in DOMAIN queue : Born(queue[n].ctx)
         /\ \A c \in owned : c \in Contexts /\ Born(c) /\ ~Some(MakingFrames(c))
         /\ \A c \in Contexts : Born(c) /\ Parent[c] # None => Born(Parent[c])
         /\ \A x \in Nodes : fate[x] # "called twice"

LEMMA NobodyRefers ==
  ASSUME RefsOK, Known, CloseInv, NEW c \in Contexts, ~Born(c)
  PROVE  /\ refs[c] = Cardinality(Those(MakingFrames(c)))
         /\ IsFiniteSet(Those(MakingFrames(c)))
         /\ c \notin owned
<1>1. /\ \A q \in Spots : Fr(q).c # c
      /\ \A n \in DOMAIN queue : queue[n].ctx # c
      /\ c \notin owned
  BY DEF Known
<1>2. Those(RefFrames(c)) = {} /\ Those(AnchorFrames(c)) = {}
  BY <1>1 DEF Those, RefFrames, AnchorFrames
<1>3. OtherRefs(c) = 0
  <2>1. {n \in DOMAIN queue : queue[n].ctx = c} = {}
    BY <1>1
  <2>2. QueueRefs(c) = 0
    BY <2>1, FS_EmptySet DEF QueueRefs, CountIn
  <2>3. One(c \in owned) = 0
    BY <1>1 DEF One
  <2> QED BY <2>2, <2>3 DEF OtherRefs
<1>4. IsFiniteSet(Those(MakingFrames(c))) /\ refs[c] = FrameRefs(c) + OtherRefs(c)
  BY DEF RefsOK, FiniteRefs
<1>5. PICK m : m = Cardinality(Those(MakingFrames(c)))
  OBVIOUS
<1>6. m \in Nat /\ FrameRefs(c) = 0 + 0 + m
  BY <1>2, <1>4, <1>5, FS_EmptySet, FS_CardinalityType DEF FrameRefs
<1> QED BY <1>1, <1>3, <1>4, <1>5, <1>6

LEMMA NoMaker ==
  ASSUME RefsOK, Known, CloseInv, NEW c \in Contexts, ~Born(c), ~Some(MakingFrames(c))
  PROVE  refs[c] = 0
<1>1. Those(MakingFrames(c)) = {}
  BY DEF Those, Some
<1> QED BY <1>1, NobodyRefers, FS_EmptySet

LEMMA MakersAdd == 
  ASSUME LifeInv, CloseInv, NEW q \in Spots, Fr(q).pc \in {"child", "child.new", "child.add"}, NEW x, Fr(q).x = x
  PROVE  x \in Contexts /\ Fr(q) \in Adders(x) /\ Parent[x] = Fr(q).c /\ Fr(q).c # x /\ fate[x] # "new"
         /\ (Fr(q).pc # "child.add" => fate[x] = "adding")
<1>1. PICK f : f = Fr(q)
  OBVIOUS
<1>2. f \in FrameSet /\ FrameOK(q[1], f) /\ f.c \in Contexts /\ FrameLife(f) /\ f.ref /\ f.pc \in ChildPcs
  BY <1>1, SpotFrame, RefIs DEF LifeInv, FramesLive, ChildPcs
<1>3. x \in Contexts /\ Parent[x] = f.c /\ fate[x] # "new" /\ (f.pc # "child.add" => fate[x] = "adding")
  BY <1>1, <1>2 DEF FrameOK, FrameLife
<1>4. f.c # x
  <2>1. Parent[x] # None
    BY <1>2, <1>3, TreeAssumption
  <2>2. Depth[f.c] < Depth[x] /\ Depth[x] \in Nat
    BY <1>3, <2>1, DepthIs
  <2>3. SUFFICES ASSUME f.c = x PROVE FALSE
    OBVIOUS
  <2> QED BY <2>2, <2>3
<1>5. f \in Adders(x)
  BY <1>1, <1>2 DEF Adders
<1> QED BY <1>1, <1>3, <1>4, <1>5

LEMMA OneMaker ==
  ASSUME LifeInv, CloseInv, NEW q \in Spots, NEW r \in Spots, NEW x, Fr(q).x = x, Fr(r).x = x,
         Fr(q).pc \in {"child", "child.new", "child.add"}, Fr(r).pc \in {"child", "child.new", "child.add"}
  PROVE  q = r
<1>1. x \in Contexts /\ Fr(q) \in Adders(x) /\ Fr(r) \in Adders(x)
  BY MakersAdd
<1> QED BY <1>1 DEF LifeInv, OneAdder, AtMostOne

LEMMA ConstructRefs ==
  ASSUME RefsOK, Known, LifeInv, CloseInv, NEW t \in AllThreads, ConstructChild(t)
  PROVE  RefsOK'
<1>1. PICK h, s, r, f, x : /\ h = Top(t) /\ s = TopSpot(t) /\ r = <<t, Len(stack[t]) + 1>>
                           /\ x = h.x /\ f = Frame("add", h.c, x, FALSE)
  OBVIOUS
<1>2. /\ stack[t] # <<>> /\ SameOthers /\ h.pc = "child.new" /\ Enter(t, "child.add", f)
      /\ refs' = [refs EXCEPT ![x] = 1]
  BY <1>1 DEF ConstructChild, At, SameOthers, exec, clients
<1>3. h \in FrameSet /\ h = Fr(s) /\ s \in Spots /\ h.c \in Contexts
  BY <1>1, <1>2, TopLifeIs
<1>4. x \in Contexts /\ h.c # x /\ fate[x] = "adding"
  BY <1>1, <1>2, <1>3, MakersAdd
<1>5. ~Born(x) /\ ~Some(MakingFrames(x))
  <2>1. ~Born(x)
    BY <1>4 DEF Born
  <2>2. SUFFICES ASSUME NEW q \in Spots, Fr(q) \in MakingFrames(x) PROVE FALSE
    BY <2>1 DEF Some
  <2>3. Fr(q).x = x /\ Fr(q).pc = "child.add"
    BY <2>2 DEF MakingFrames
  <2>4. q = s
    BY <1>1, <1>2, <1>3, <2>3, OneMaker
  <2> QED BY <1>2, <1>3, <2>3, <2>4
<1>6. refs[x] = 0
  BY <1>4, <1>5, NoMaker
<1>7. PICK d, v : d = 1 /\ v = 1
  OBVIOUS
<1>8. Adds(x, d)
  <2>1. d \in Int /\ v = refs[x] + d /\ refs' = [refs EXCEPT ![x] = v]
    BY <1>2, <1>6, <1>7
  <2> QED BY <1>4, <2>1, AddsIs
<1>9. RefsTyped /\ \A e \in Contexts : \A n \in Int : n = (IF e = x THEN d ELSE 0) => Books(e, n)
  BY <1>2, <1>7, <1>8, AddsTyped
<1>10. f \in FrameSet /\ f.pc = "add" /\ ~f.ref /\ "child.add" \in Pcs
  <2>1. x \in Arguments /\ "add" \in Pcs /\ "child.add" \in Pcs
    BY <1>4 DEF Arguments, Nodes, Pcs, AddPcs, ChildPcs
  <2> QED BY <1>1, <1>3, <2>1 DEF Frame, FrameSet
<1>11. PICK g \in FrameSet : CallsUp(s, r, f, g) /\ g.pc = "child.add" /\ g.c = h.c /\ g.x = h.x /\ g.ref = h.ref
  <2>1. \E g \in FrameSet : /\ CallsUp(s, r, f, g) /\ g.pc = "child.add" /\ g.c = Top(t).c /\ g.x = Top(t).x
                            /\ g.ref = Top(t).ref
    <3>1. s = TopSpot(t) /\ r = <<t, Len(stack[t]) + 1>> /\ stack[t] # <<>>
      BY <1>1, <1>2
    <3>2. "child.add" \in Pcs /\ f \in FrameSet /\ Enter(t, "child.add", f)
      BY <1>2, <1>10
    <3> QED BY <3>1, <3>2, EnterSpots
  <2> QED BY <1>1, <2>1
<1>12. ASSUME NEW c \in Contexts PROVE Books(c, Weight(g, c) + Weight(f, c) - Weight(Fr(s), c))
  <2>1. PICK i, j : i = One(h.c = c /\ h.ref) /\ j = One(x = c)
    OBVIOUS
  <2>2. Weight(f, c) = 0
    <3>1. f.pc \notin AnchorPcs /\ f.pc # "child.add"
      BY <1>10 DEF AnchorPcs, ClosingPcs
    <3>2. Tokens(f) = 0
      BY <1>10, <3>1 DEF Tokens, One
    <3> QED BY <1>10, <3>1, <3>2, WeightHere
  <2>3. Weight(h, c) = i /\ Weight(g, c) = i + j /\ i \in Nat /\ j = (IF c = x THEN 1 ELSE 0)
    <3>1. h.pc \notin AnchorPcs /\ g.pc \notin AnchorPcs /\ g.pc = "child.add" /\ h.pc # "child.add"
      BY <1>2, <1>11 DEF AnchorPcs, ClosingPcs
    <3>2. One(h.c = c /\ h.pc \in AnchorPcs) = 0 /\ One(h.x = c /\ h.pc = "child.add") = 0
          /\ One(g.c = c /\ g.pc \in AnchorPcs) = 0
      BY <3>1 DEF One
    <3>3. One(g.x = c /\ g.pc = "child.add") = j /\ j = (IF c = x THEN 1 ELSE 0)
      BY <1>1, <1>11, <2>1, <3>1 DEF One
    <3>4. One(g.c = c /\ g.ref) = i /\ i \in Nat
      BY <1>11, <2>1 DEF One
    <3>5. /\ Weight(h, c) = One(h.c = c /\ h.ref) + One(h.c = c /\ h.pc \in AnchorPcs) + One(h.x = c /\ h.pc = "child.add")
          /\ Weight(g, c) = One(g.c = c /\ g.ref) + One(g.c = c /\ g.pc \in AnchorPcs) + One(g.x = c /\ g.pc = "child.add")
      BY <1>3, <1>11, WeightIs
    <3>6. Weight(h, c) = i + 0 + 0 /\ Weight(g, c) = i + 0 + j
      BY <2>1, <3>2, <3>3, <3>4, <3>5
    <3> QED BY <3>3, <3>4, <3>6
  <2>4. PICK n : n = Weight(g, c) + Weight(f, c) - Weight(h, c)
    OBVIOUS
  <2>5. n \in Int /\ n = IF c = x THEN d ELSE 0
    BY <1>7, <2>2, <2>3, <2>4
  <2>6. Books(c, n)
    BY <1>9, <2>5
  <2> QED BY <1>3, <2>4, <2>6
<1> QED BY <1>9, <1>10, <1>11, <1>12, CallRefs

LEMMA MadeRefs ==
  ASSUME RefsOK, Known, LifeInv, CloseInv, NEW t \in AllThreads, ChildMade(t)
  PROVE  RefsOK'
<1>1. PICK h, s, x, made : h = Top(t) /\ s = TopSpot(t) /\ x = h.x /\ made = (fate[x] # "refused")
  OBVIOUS
<1>2. /\ stack[t] # <<>> /\ queue' = queue /\ h.pc = "child.add" /\ Return(t)
      /\ refs' = IF made THEN RefsAfter(h) ELSE [RefsAfter(h) EXCEPT ![x] = 0]
      /\ owned' = IF made THEN owned \cup {x} ELSE owned
  BY <1>1 DEF ChildMade, At, exec
<1>3. h \in FrameSet /\ h = Fr(s) /\ s \in Spots /\ h.c \in Contexts /\ TopLife(h) /\ h.ref
  BY <1>1, <1>2, TopLifeIs, RefIs
<1>4. x \in Contexts /\ h.c # x
  BY <1>1, <1>2, <1>3, MakersAdd
<1>5. queue \in Seq(Closures) /\ refs \in [Contexts -> Nat]
  BY DEF CloseInv, HandlersInv, Shapes, RefsOK
<1>6. RefsAfter(h) \in [Contexts -> Int] /\ \A c \in Contexts : RefsAfter(h)[c] = refs[c] - (IF c = h.c THEN 1 ELSE 0)
  <2>1. PICK v : v = refs[h.c] - 1
    OBVIOUS
  <2>2. RefsAfter(h) = [refs EXCEPT ![h.c] = v]
    BY <1>3, <2>1 DEF RefsAfter
  <2> QED BY <1>3, <1>5, <2>1, <2>2
<1>7. RefsTyped /\ \A c \in Contexts \ {x} : refs'[c] = refs[c] - (IF c = h.c THEN 1 ELSE 0)
  <2>1. refs' \in [Contexts -> Int]
    <3>1. PICK r : r = RefsAfter(h)
      OBVIOUS
    <3>2. r \in [Contexts -> Int] /\ (refs' = r \/ refs' = [r EXCEPT ![x] = 0])
      BY <1>2, <1>6, <3>1
    <3> QED BY <3>2
  <2>2. \A c \in Contexts \ {x} : refs'[c] = RefsAfter(h)[c]
    BY <1>2, <1>6
  <2> QED BY <1>2, <1>5, <1>6, <2>1, <2>2 DEF RefsTyped
<1>8. Leaves(s)
  BY <1>1, <1>2, ReturnSpots
<1>9. \A c \in Contexts : OtherRefs(c) \in Nat
  BY <1>5, OtherIs
<1>10. ASSUME NEW c \in Contexts PROVE Weight(h, c) = IF c \in {x, h.c} THEN 1 ELSE 0
  <2>1. h.pc \notin AnchorPcs
    BY <1>2 DEF AnchorPcs, ClosingPcs
  <2>2. /\ One(h.c = c /\ h.pc \in AnchorPcs) = 0
        /\ One(h.x = c /\ h.pc = "child.add") = (IF c = x THEN 1 ELSE 0)
        /\ One(h.c = c /\ h.ref) = (IF c = h.c THEN 1 ELSE 0)
    BY <1>1, <1>2, <1>3, <2>1 DEF One
  <2>3. Weight(h, c) = One(h.c = c /\ h.ref) + One(h.c = c /\ h.pc \in AnchorPcs) + One(h.x = c /\ h.pc = "child.add")
    BY <1>3, WeightIs
  <2> QED BY <1>4, <2>2, <2>3
<1>11. ASSUME NEW c \in Contexts, c # x PROVE Books(c, 0 - Weight(Fr(s), c))
  <2>1. OtherRefs(c)' = OtherRefs(c)
    <3>1. c \in owned' <=> c \in owned
      BY <1>2, <1>11
    <3>2. One(c \in owned') = One(c \in owned)
      BY <3>1 DEF One
    <3> QED BY <1>2, <3>2 DEF OtherRefs, QueueRefs
  <2>2. PICK n : n = 0 - Weight(h, c)
    OBVIOUS
  <2>3. n = (IF c = h.c THEN 0 - 1 ELSE 0) /\ n \in Int
    BY <1>10, <1>11, <2>2
  <2>4. refs[c] \in Nat /\ refs'[c] = refs[c] + n
    BY <1>5, <1>7, <1>11, <2>3
  <2>5. OtherRefs(c) \in Nat /\ OtherRefs(c)' = OtherRefs(c) + 0 /\ n = n - 0
    BY <1>9, <2>1, <2>3
  <2>6. Books(c, n)
    BY <2>3, <2>4, <2>5, BooksIs
  <2> QED BY <1>3, <2>2, <2>6
<1>12. Some(MakingFrames(x)) /\ x \notin owned
  <2>1. h \in MakingFrames(x)
    BY <1>1, <1>2, <1>3 DEF MakingFrames
  <2>2. Some(MakingFrames(x))
    BY <1>3, <2>1 DEF Some
  <2> QED BY <2>2 DEF Known
<1>13. Books(x, 0 - Weight(Fr(s), x))
  <2>1. PICK n : n = 0 - Weight(h, x)
    OBVIOUS
  <2>2. n = 0 - 1
    BY <1>4, <1>10, <2>1
  <2>3. CASE made
    <3>1. OtherRefs(x)' = OtherRefs(x) + 1
      <4>1. One(x \in owned') = 1 /\ One(x \in owned) = 0
        BY <1>2, <1>12, <2>3 DEF One
      <4>2. QueueRefs(x) \in Nat
        BY <1>5, OtherIs
      <4>3. OtherRefs(x)' = QueueRefs(x) + 1 /\ OtherRefs(x) = QueueRefs(x) + 0
        BY <1>2, <4>1 DEF OtherRefs, QueueRefs
      <4> QED BY <4>2, <4>3
    <3>2. refs'[x] = refs[x] + 0 /\ refs[x] \in Nat
      BY <1>2, <1>4, <1>5, <1>6, <2>3
    <3>3. n \in Int /\ n = 0 - 1
      BY <2>2
    <3>4. Books(x, n)
      BY <1>4, <1>9, <3>1, <3>2, <3>3, BooksIs
    <3> QED BY <1>3, <2>1, <3>4
  <2>4. CASE ~made
    <3>1. fate[x] = "refused"
      BY <1>1, <2>4
    <3>2. ~Born(x)
      BY <3>1 DEF Born
    <3>3. Those(MakingFrames(x)) = {s}
      <4>1. s \in Those(MakingFrames(x))
        BY <1>1, <1>2, <1>3 DEF Those, MakingFrames
      <4>2. ASSUME NEW q \in Those(MakingFrames(x)) PROVE q = s
        <5>1. q \in Spots /\ Fr(q).x = x /\ Fr(q).pc = "child.add"
          BY DEF Those, MakingFrames
        <5> QED BY <1>1, <1>2, <1>3, <5>1, OneMaker
      <4> QED BY <4>1, <4>2
    <3>4. refs[x] = 1
      BY <1>4, <3>2, <3>3, NobodyRefers, FS_Singleton
    <3>5. refs'[x] = 0
      BY <1>2, <1>4, <1>6, <2>4
    <3>6. OtherRefs(x)' = OtherRefs(x) /\ OtherRefs(x) \in Nat
      <4>1. owned' = owned
        BY <1>2, <2>4
      <4> QED BY <1>2, <1>4, <1>9, <4>1 DEF OtherRefs, QueueRefs
    <3>7. Books(x, n)
      BY <2>2, <3>4, <3>5, <3>6 DEF Books
    <3> QED BY <1>3, <2>1, <3>7
  <2> QED BY <2>3, <2>4
<1>14. \A c \in Contexts : Books(c, 0 - Weight(Fr(s), c))
  BY <1>11, <1>13
<1> QED BY <1>7, <1>8, <1>14, LeaveRefs

-----------------------------------------------------------------------------
\* A call that client code makes, through a reference of its own.

LEMMA IssueRefs ==
  ASSUME RefsOK, LifeInv, CloseInv, NEW t \in AllThreads, NEW k \in Calls[program], Issue(t, k)
  PROVE  RefsOK'
<1>1. /\ queue' = queue /\ k.by = Site(t) /\ Permitted(k)
      /\ HandlersInv /\ Shapes /\ program \in Programs
      /\ refs' = [refs EXCEPT ![k.ctx] = @ + 1]
      /\ owned' = IF k.op = "destroy" THEN owned \ {k.ctx} ELSE owned
  BY DEF Issue, nodes, exec, CloseInv, HandlersInv, Shapes
<1>2. /\ k.op \in Ops /\ k.ctx \in Contexts /\ k.by \in Threads \cup Works \cup Handlers
      /\ k.arg \in IF k.op \in {"add", "start", "remove"} THEN Handlers
                   ELSE IF k.op = "child" THEN Contexts
                   ELSE IF k.op = "exec" THEN Works ELSE {None}
  BY <1>1, ProgramsAssumption
<1>3. k.op = "destroy" => stack[t] = <<>>
  <2>1. SUFFICES ASSUME stack[t] # <<>>, k.op = "destroy" PROVE FALSE
    OBVIOUS
  <2>2. k.by # None
    BY <1>2, TreeAssumption
  <2>3. k.by \in Works \cup Handlers
    BY <1>1, <2>1, <2>2, SiteIs
  <2>4. k.by \in Threads
    BY <2>1 DEF LifeInv, ClosesFromThreads
  <2> QED BY <2>3, <2>4, ThreadsAssumption
<1>4. PICK f : f = Frame(k.op, k.ctx, k.arg, TRUE)
  OBVIOUS
<1>5. f \in FrameSet /\ f.pc = k.op /\ f.c = k.ctx /\ f.x = k.arg /\ f.ref
  <2>1. k.op \in Pcs /\ k.arg \in Arguments
    BY <1>2 DEF Ops, Pcs, AddPcs, ChildPcs, KnowPcs, Arguments, Nodes
  <2> QED BY <1>2, <1>4, <2>1 DEF Frame, FrameSet
<1>6. stack \in [AllThreads -> Seq(FrameSet)] /\ queue \in Seq(Closures) /\ refs \in [Contexts -> Nat]
  BY <1>1 DEF Shapes, HandlersInv, RefsOK
<1>7. PICK d, v : d = 1 /\ v = refs[k.ctx] + d
  OBVIOUS
<1>8. Adds(k.ctx, d)
  <2>1. d \in Int /\ refs' = [refs EXCEPT ![k.ctx] = v]
    BY <1>1, <1>7
  <2> QED BY <1>2, <1>7, <2>1, AddsIs
<1>9. refs' \in [Contexts -> Int] /\ \A c \in Contexts : refs'[c] = refs[c] + (IF c = f.c THEN 1 ELSE 0)
  <2>1. \A c \in Contexts : refs'[c] = refs[c] + (IF c = f.c THEN d ELSE 0)
    BY <1>5, <1>8 DEF Adds
  <2>2. refs' \in [Contexts -> Int]
    <3>1. PICK c : c = k.ctx
      OBVIOUS
    <3>2. refs' = [e \in Contexts |-> refs[e] + (IF e = c THEN d ELSE 0)] /\ d \in Int
      BY <1>7, <1>8, <3>1 DEF Adds
    <3>3. \A e \in Contexts : refs[e] + (IF e = c THEN d ELSE 0) \in Int
      BY <1>6, <3>2
    <3> QED BY <3>2, <3>3
  <2> QED BY <1>7, <2>1, <2>2
<1>10. RefsTyped
  BY <1>1, <1>6, <1>9 DEF RefsTyped
<1>11. f.pc # "child.add"
  BY <1>2, <1>5 DEF Ops
<1>12. CASE k.op = "destroy"
  <2>1. stack[t] = <<>> /\ k.ctx \in owned /\ owned' = owned \ {k.ctx}
    BY <1>1, <1>3, <1>12 DEF Permitted
  <2>2. PICK h : h = [f EXCEPT !.pc = "close", !.ref = FALSE]
    OBVIOUS
  <2>3. h \in FrameSet /\ h.pc = "close" /\ h.c = f.c /\ ~h.ref
    BY <1>5, <2>2 DEF FrameSet, Pcs
  <2>4. PICK a, s, r : a = <<h, f>> /\ s = <<t, 1>> /\ r = <<t, 2>>
    OBVIOUS
  <2>5. a \in Seq(FrameSet)
    BY <1>5, <2>3, <2>4, TwoIs
  <2>6. stack' = [stack EXCEPT ![t] = a \o stack[t]]
    BY <1>4, <1>6, <1>12, <2>2, <2>4 DEF Issue
  <2>7. Moves(t, 0, a)
    BY <1>1, <2>5, <2>6, PushMoves
  <2>8. PushesTwo(s, r, h, f)
    BY <1>1, <1>5, <2>1, <2>3, <2>4, <2>7, PushTwoSpots
  <2>9. ASSUME NEW c \in Contexts PROVE Books(c, Weight(f, c) + Weight(h, c))
    <3>1. Weight(h, c) = 0
      <4>1. h.pc \notin AnchorPcs /\ h.pc # "child.add"
        BY <2>3 DEF AnchorPcs, ClosingPcs
      <4>2. Tokens(h) = 0
        BY <2>3, <4>1 DEF Tokens, One
      <4> QED BY <2>3, <4>1, <4>2, WeightHere
    <3>2. Weight(f, c) = IF c = f.c THEN 2 ELSE 0
      <4>1. f.pc \in AnchorPcs
        BY <1>5, <1>12 DEF AnchorPcs
      <4>2. One(f.ref) = 1 /\ Tokens(f) = One(f.ref) + 1
        BY <1>5, <4>1, TokensAre DEF One
      <4>3. Tokens(f) = 2
        BY <4>2
      <4> QED BY <1>5, <1>11, <4>3, WeightHere
    <3>3. PICK n, i, m : /\ n = Weight(f, c) + Weight(h, c) /\ i = (IF c = f.c THEN 1 ELSE 0)
                         /\ m = (IF c = f.c THEN 0 - 1 ELSE 0)
      OBVIOUS
    <3>4. n \in Int /\ i \in Int /\ m \in Int /\ n = i - m
      BY <3>1, <3>2, <3>3
    <3>5. OtherRefs(c) \in Nat /\ refs[c] \in Nat /\ refs'[c] = refs[c] + i
      BY <1>6, <1>9, <3>3, OtherIs
    <3>6. OtherRefs(c)' = OtherRefs(c) + m
      <4>1. PICK j : j = QueueRefs(c)
        OBVIOUS
      <4>2. j \in Nat /\ QueueRefs(c)' = j
        BY <1>1, <1>6, <4>1, OtherIs DEF QueueRefs
      <4>3. One(c \in owned') = One(c \in owned) + m /\ One(c \in owned) \in Nat /\ One(c \in owned') \in Nat
        BY <1>5, <2>1, <3>3 DEF One
      <4>4. OtherRefs(c) = j + One(c \in owned) /\ OtherRefs(c)' = j + One(c \in owned')
        BY <4>1, <4>2 DEF OtherRefs
      <4> QED BY <3>4, <4>2, <4>3, <4>4
    <3>7. Books(c, n)
      BY <3>4, <3>5, <3>6, BooksIs
    <3> QED BY <3>3, <3>7
  <2> QED BY <1>10, <2>8, <2>9, PushTwoRefs
<1>13. CASE k.op # "destroy"
  <2>1. PICK a, r : a = <<f>> /\ r = <<t, Len(stack[t]) + 1>>
    OBVIOUS
  <2>2. a \in Seq(FrameSet)
    BY <1>5, <2>1, OneIs
  <2>3. stack' = [stack EXCEPT ![t] = a \o stack[t]]
    BY <1>4, <1>6, <1>13, <2>1 DEF Issue
  <2>4. Moves(t, 0, a)
    BY <1>1, <2>2, <2>3, PushMoves
  <2>5. Pushes(r, f)
    BY <1>1, <2>1, <2>4, PushSpots
  <2>6. SameOthers
    BY <1>1, <1>13 DEF SameOthers
  <2>7. \A e \in Contexts : \A n \in Int : n = (IF e = k.ctx THEN d ELSE 0) => Books(e, n)
    <3>1. d \in Int
      BY <1>7
    <3> QED BY <1>8, <2>6, <3>1, AddsTyped
  <2>8. Tokens(f) = 1
    <3>1. f.pc \notin AnchorPcs
      BY <1>2, <1>5, <1>13 DEF Ops, AnchorPcs, ClosingPcs
    <3>2. One(f.ref) = 1 /\ Tokens(f) = One(f.ref)
      BY <1>5, <3>1, TokensAre DEF One
    <3> QED BY <3>2
  <2>9. ASSUME NEW c \in Contexts PROVE Books(c, Weight(f, c))
    <3>1. PICK n : n = Weight(f, c)
      OBVIOUS
    <3>2. n = (IF c = f.c THEN 1 ELSE 0)
      BY <1>5, <1>11, <2>8, <3>1, WeightHere
    <3>3. n \in Int /\ n = (IF c = k.ctx THEN d ELSE 0)
      BY <1>5, <1>7, <3>2
    <3>4. Books(c, n)
      BY <2>7, <3>3
    <3> QED BY <3>1, <3>4
  <2> QED BY <1>10, <2>5, <2>9, PushRefs
<1> QED BY <1>12, <1>13

LEMMA RefsStutter == ASSUME RefsOK, UNCHANGED vars PROVE RefsOK'
<1>1. stack' = stack /\ queue' = queue /\ owned' = owned /\ refs' = refs
  BY DEF vars, words, exec, clients
<1>2. Spots' = Spots
  BY <1>1 DEF Spots
<1>3. \A q : Fr(q)' = Fr(q)
  BY <1>1 DEF Fr, FrameAt
<1>4. \A F : Those(F)' = Those(F)
  BY <1>2, <1>3 DEF Those
<1>5. ASSUME NEW c PROVE FiniteRefs(c)' = FiniteRefs(c) /\ FrameRefs(c)' = FrameRefs(c) /\ OtherRefs(c)' = OtherRefs(c)
  <2>1. PICK F, G, H : F = RefFrames(c) /\ G = AnchorFrames(c) /\ H = MakingFrames(c)
    OBVIOUS
  <2>2. RefFrames(c)' = F /\ AnchorFrames(c)' = G /\ MakingFrames(c)' = H
    BY <2>1 DEF RefFrames, AnchorFrames, MakingFrames
  <2>3. Those(F)' = Those(F) /\ Those(G)' = Those(G) /\ Those(H)' = Those(H)
    BY <1>4
  <2>4. OtherRefs(c)' = OtherRefs(c)
    BY <1>1 DEF OtherRefs, QueueRefs
  <2> QED BY <2>1, <2>2, <2>3, <2>4 DEF FiniteRefs, FrameRefs
<1> QED BY <1>1, <1>5 DEF RefsOK

LEMMA RefsInit == ASSUME Init PROVE RefsOK
<1>1. Spots = {}
  <2>1. \A t \in AllThreads : Len(stack[t]) = 0
    BY DEF Init
  <2> QED BY <2>1 DEF Spots
<1>2. \A F : Those(F) = {}
  BY <1>1 DEF Those
<1>3. queue = <<>> /\ owned = Initial[program]
      /\ refs = [c \in Contexts |-> IF c \in Initial[program] THEN 1 ELSE 0]
  BY DEF Init
<1>4. ASSUME NEW c \in Contexts PROVE FiniteRefs(c) /\ refs[c] = FrameRefs(c) + OtherRefs(c)
  <2>1. FiniteRefs(c) /\ FrameRefs(c) = 0 + 0 + 0
    BY <1>2, FS_EmptySet DEF FiniteRefs, FrameRefs
  <2>2. QueueRefs(c) = 0
    <3>1. {n \in DOMAIN <<>> : <<>>[n].ctx = c} = {}
      OBVIOUS
    <3> QED BY <1>3, <3>1, FS_EmptySet DEF QueueRefs, CountIn
  <2>3. refs[c] = One(c \in owned) /\ One(c \in owned) \in Nat
    BY <1>3 DEF One
  <2> QED BY <2>1, <2>2, <2>3 DEF OtherRefs
<1>5. refs \in [Contexts -> Nat]
  BY <1>3
<1> QED BY <1>4, <1>5 DEF RefsOK

LEMMA RefsKeep == ASSUME RefsOK, Known, LifeInv, CloseInv, [Next]_vars PROVE RefsOK'
<1>1. CASE \E t \in AllThreads, k \in Calls[program] : Issue(t, k)
  BY <1>1, IssueRefs
<1>2. ASSUME NEW t \in AllThreads, Step(t) PROVE RefsOK'
  <2>1. CASE ExecStep(t)
    BY <2>1, BlockCloseRefs, AnchorsGoRefs, PostRefs, PostInlineRefs, InlineReturnsRefs, ReturnsRefs, GotosRefs
       DEF ExecStep
  <2>2. CASE HandlerStep(t)
    BY <2>2, BlockCloseRefs, ReturnsRefs, GotosRefs, ConstructRefs, MadeRefs, EntersRefs, RemoveRefs DEF HandlerStep
  <2>3. CASE CloseStep(t)
    BY <2>3, AnchorsRefs, GotosRefs, ReframesRefs, EntersRefs, ReturnsRefs, AnchorsGoRefs, ResetRefs DEF CloseStep
  <2> QED BY <1>2, <2>1, <2>2, <2>3 DEF Step
<1>3. CASE TakeClosure
  BY <1>3, TakeRefs
<1>4. CASE UNCHANGED vars
  BY <1>4, RefsStutter
<1> QED BY <1>1, <1>2, <1>3, <1>4 DEF Next, Quiescent

-----------------------------------------------------------------------------
\* Who is known stays known, and who is new is known when it is called.

NewFrames(F) == \E K, N : Given(K, N) /\ \A q \in N : Fr(q)' \in F

LEMMA NewFramesAre ==
  ASSUME NEW s, NEW r, NEW g, NEW h
  PROVE  /\ TurnsTo(s, g) => NewFrames({g})
         /\ Leaves(s) => NewFrames({})
         /\ CallsUp(s, r, h, g) => NewFrames({g, h})
         /\ Pushes(r, h) => NewFrames({h})
         /\ PushesTwo(s, r, h, g) => NewFrames({g, h})
         /\ LeavesTo(r, s, g) => NewFrames({g})
<1>1. TurnsTo(s, g) => NewFrames({g})
  <2>1. PICK K, N : K = Spots \ {s} /\ N = {s}
    OBVIOUS
  <2> QED BY <2>1 DEF TurnsTo, NewFrames
<1>2. Leaves(s) => NewFrames({})
  <2>1. PICK K, N : K = Spots \ {s} /\ N = {}
    OBVIOUS
  <2> QED BY <2>1 DEF Leaves, NewFrames
<1>3. CallsUp(s, r, h, g) => NewFrames({g, h})
  <2>1. PICK K, N : K = Spots \ {s} /\ N = {s, r}
    OBVIOUS
  <2> QED BY <2>1 DEF CallsUp, NewFrames
<1>4. Pushes(r, h) => NewFrames({h})
  <2>1. PICK K, N : K = Spots /\ N = {r}
    OBVIOUS
  <2> QED BY <2>1 DEF Pushes, NewFrames
<1>5. PushesTwo(s, r, h, g) => NewFrames({g, h})
  <2>1. PICK K, N : K = Spots /\ N = {s, r}
    OBVIOUS
  <2> QED BY <2>1 DEF PushesTwo, NewFrames
<1>6. LeavesTo(r, s, g) => NewFrames({g})
  <2>1. PICK K, N : K = Spots \ {s, r} /\ N = {s}
    OBVIOUS
  <2> QED BY <2>1 DEF LeavesTo, NewFrames
<1> QED BY <1>1, <1>2, <1>3, <1>4, <1>5, <1>6

BornStay == \A c \in Contexts : Born(c) => Born(c)'

LEMMA KnownGiven ==
  ASSUME Known, CloseInv, BornStay, NEW F, NewFrames(F),
         \A f \in F : f.c \in Contexts /\ Born(f.c)' /\ (f.pc = "child.add" => ~Born(f.x)'),
         \A n \in DOMAIN queue' : Born(queue[n].ctx)',
         \A c \in owned' : c \in Contexts /\ Born(c)' /\ ~Some(MakingFrames(c)),
         \A c \in Contexts : Born(c)' /\ Parent[c] # None => Born(Parent[c])',
         \A x \in Nodes : fate'[x] # "called twice"
  PROVE  Known'
<1>1. PICK K, N : Given(K, N) /\ \A q \in N : Fr(q)' \in F
  BY DEF NewFrames
<1>2. ASSUME NEW q \in Spots' PROVE Born(Fr(q).c)'
  <2>1. CASE q \in K
    <3>1. q \in Spots /\ Fr(q)' = Fr(q)
      BY <1>1, <2>1 DEF Given
    <3>2. PICK d : d = Fr(q).c
      OBVIOUS
    <3>3. d \in Contexts /\ Born(d)
      BY <3>1, <3>2, SpotFrame DEF Known
    <3>4. Born(d)'
      BY <3>3 DEF BornStay
    <3> QED BY <3>1, <3>2, <3>4 DEF Born
  <2>2. CASE q \in N
    <3>1. PICK f \in F : f = Fr(q)'
      BY <1>1, <2>2
    <3> QED BY <3>1 DEF Born
  <2> QED BY <1>1, <2>1, <2>2 DEF Given
<1>3. ASSUME NEW c \in owned' PROVE ~Some(MakingFrames(c))'
  <2>1. SUFFICES ASSUME Some(MakingFrames(c))' PROVE FALSE
    OBVIOUS
  <2>2. PICK M : M = MakingFrames(c)
    OBVIOUS
  <2>3. MakingFrames(c)' = M
    BY <2>2 DEF MakingFrames
  <2>4. PICK q \in Spots' : Fr(q)' \in M
    BY <2>1, <2>3 DEF Some
  <2>5. CASE q \in K
    <3>1. q \in Spots /\ Fr(q)' = Fr(q)
      BY <1>1, <2>5 DEF Given
    <3> QED BY <2>2, <2>4, <3>1 DEF Some
  <2>6. CASE q \in N
    <3>1. PICK f \in F : f = Fr(q)'
      BY <1>1, <2>6
    <3>2. f.pc = "child.add" /\ f.x = c
      BY <2>2, <2>4, <3>1 DEF MakingFrames
    <3> QED BY <3>1, <3>2
  <2> QED BY <1>1, <2>4, <2>5, <2>6 DEF Given
<1> QED BY <1>2, <1>3 DEF Known

\* A node is refused or about to be added, and nobody is added.
FateGrows == \A y \in Nodes : \/ fate'[y] = fate[y]
                              \/ fate[y] = "new" /\ fate'[y] = "adding"
                              \/ fate[y] = "adding" /\ fate'[y] = "refused"

LEMMA FateKeeps ==
  ASSUME FateGrows
  PROVE  \A c \in Contexts : Born(c)' <=> Born(c)
BY DEF FateGrows, Born, Nodes

LEMMA KnownSteady ==
  ASSUME Known, CloseInv, FateGrows, NEW F, NewFrames(F),
         \A f \in F : f.c \in Contexts /\ Born(f.c) /\ (f.pc = "child.add" => f.x \in Contexts /\ ~Born(f.x)),
         \A n \in DOMAIN queue' : queue'[n].ctx \in Contexts /\ Born(queue'[n].ctx),
         \A c \in owned' : c \in owned
  PROVE  Known'
<1>1. \A c \in Contexts : Born(c)' <=> Born(c)
  BY FateKeeps
<1>2. BornStay
  BY <1>1 DEF BornStay
<1>3. \A f \in F : f.c \in Contexts /\ Born(f.c)' /\ (f.pc = "child.add" => ~Born(f.x)')
  BY <1>1
<1>4. ASSUME NEW n \in DOMAIN queue' PROVE Born(queue[n].ctx)'
  <2>1. PICK d : d = queue'[n].ctx
    OBVIOUS
  <2>2. Born(d)'
    BY <1>1, <2>1
  <2> QED BY <2>1, <2>2 DEF Born
<1>5. \A c \in owned' : c \in Contexts /\ Born(c)' /\ ~Some(MakingFrames(c))
  BY <1>1 DEF Known
<1>6. \A c \in Contexts : Born(c)' /\ Parent[c] # None => Born(Parent[c])'
  BY <1>1, DepthIs DEF Known
<1>7. \A x \in Nodes : fate'[x] # "called twice"
  BY DEF FateGrows, Known
<1> QED BY <1>2, <1>3, <1>4, <1>5, <1>6, <1>7, KnownGiven

\* The top frame goes on, returns or calls into a context that is known.
PlainMove(t) ==
  /\ stack[t] # <<>>
  /\ \/ \E p \in Pcs \ {"child.add"} : Goto(t, p)
     \/ Return(t)
     \/ \E p \in Pcs \ {"child.add"}, h \in FrameSet : Enter(t, p, h) /\ h.pc # "child.add" /\ Born(h.c)

LEMMA QueueKnown ==
  ASSUME Known, CloseInv
  PROVE  \A n \in DOMAIN queue : queue[n].ctx \in Contexts /\ Born(queue[n].ctx)
<1>1. queue \in Seq(Closures)
  BY DEF CloseInv, HandlersInv, Shapes
<1>2. ASSUME NEW n \in DOMAIN queue PROVE queue[n].ctx \in Contexts
  <2>1. queue[n] \in Closures
    BY <1>1
  <2> QED BY <2>1 DEF Closures
<1> QED BY <1>2 DEF Known

LEMMA TopKnown ==
  ASSUME Known, CloseInv, NEW t \in AllThreads, stack[t] # <<>>
  PROVE  Top(t) \in FrameSet /\ Top(t).c \in Contexts /\ Born(Top(t).c)
         /\ TopSpot(t) \in Spots /\ Fr(TopSpot(t)) = Top(t)
<1>1. TopSpot(t) \in Spots /\ Fr(TopSpot(t)) = Top(t)
  BY TopSpotIs DEF CloseInv
<1> QED BY <1>1, SpotFrame DEF Known

LEMMA PlainFrames ==
  ASSUME Known, CloseInv, NEW t \in AllThreads, PlainMove(t)
  PROVE  \E F : /\ NewFrames(F)
                /\ \A f \in F : f.c \in Contexts /\ Born(f.c) /\ f.pc # "child.add"
<1>1. PICK h, s : h = Top(t) /\ s = TopSpot(t)
  OBVIOUS
<1>2. stack[t] # <<>> /\ h.c \in Contexts /\ Born(h.c)
  BY <1>1, TopKnown DEF PlainMove
<1>3. ASSUME NEW p \in Pcs, p # "child.add", Goto(t, p)
      PROVE  \E F : NewFrames(F) /\ \A f \in F : f.c \in Contexts /\ Born(f.c) /\ f.pc # "child.add"
  <2>1. \E g \in FrameSet : /\ TurnsTo(s, g) /\ g.pc = p /\ g.c = Top(t).c /\ g.x = Top(t).x
                            /\ g.ref = Top(t).ref
    BY <1>1, <1>2, <1>3, GotoSpots
  <2>2. PICK g : TurnsTo(s, g) /\ g.pc = p /\ g.c = h.c
    BY <1>1, <2>1
  <2>3. NewFrames({g})
    BY <2>2, NewFramesAre
  <2> QED BY <1>2, <1>3, <2>2, <2>3
<1>4. ASSUME Return(t)
      PROVE  \E F : NewFrames(F) /\ \A f \in F : f.c \in Contexts /\ Born(f.c) /\ f.pc # "child.add"
  <2>1. NewFrames({})
    BY <1>1, <1>2, <1>4, ReturnSpots, NewFramesAre
  <2> QED BY <2>1
<1>5. ASSUME NEW p \in Pcs, p # "child.add", NEW f \in FrameSet, Enter(t, p, f), f.pc # "child.add", Born(f.c)
      PROVE  \E F : NewFrames(F) /\ \A k \in F : k.c \in Contexts /\ Born(k.c) /\ k.pc # "child.add"
  <2>1. PICK r : r = <<t, Len(stack[t]) + 1>>
    OBVIOUS
  <2>2. \E g \in FrameSet : /\ CallsUp(s, r, f, g) /\ g.pc = p /\ g.c = Top(t).c /\ g.x = Top(t).x
                            /\ g.ref = Top(t).ref
    BY <1>1, <1>2, <1>5, <2>1, EnterSpots
  <2>3. PICK g : CallsUp(s, r, f, g) /\ g.pc = p /\ g.c = h.c
    BY <1>1, <2>2
  <2>4. NewFrames({g, f}) /\ f.c \in Contexts
    BY <2>3, NewFramesAre DEF FrameSet
  <2> QED BY <1>2, <1>5, <2>3, <2>4
<1> QED BY <1>3, <1>4, <1>5 DEF PlainMove

LEMMA PlainKnown ==
  ASSUME Known, CloseInv, FateGrows, NEW t \in AllThreads, PlainMove(t), queue' = queue, owned' = owned
  PROVE  Known'
<1>1. PICK F : NewFrames(F) /\ \A f \in F : f.c \in Contexts /\ Born(f.c) /\ f.pc # "child.add"
  BY PlainFrames
<1>2. \A n \in DOMAIN queue' : queue'[n].ctx \in Contexts /\ Born(queue'[n].ctx)
  BY QueueKnown
<1> QED BY <1>1, <1>2, KnownSteady

-----------------------------------------------------------------------------
\* The steps that neither go on, return nor call from the top frame only.

NextOf(t) == IF list[Top(t).c] = <<>> THEN None ELSE Head(list[Top(t).c])

LEMMA ReframeSpots ==
  ASSUME CloseInv, NEW t \in AllThreads, SetClosingFlag(t) \/ PopHandler(t), NEW s, s = TopSpot(t)
  PROVE  \E g \in FrameSet :
           /\ TurnsTo(s, g) /\ g.c = Top(t).c /\ g.ref = Top(t).ref
           /\ SetClosingFlag(t) => g.pc = "close.pop" /\ g.x = None
           /\ PopHandler(t) => /\ g.x = NextOf(t)
                               /\ g.pc = IF NextOf(t) = None THEN "close.parent" ELSE "close.call"
<1>1. PICK h : h = Top(t)
  OBVIOUS
<1>2. stack[t] # <<>> /\ h.pc \in {"close.flag", "close.pop"}
  BY <1>1 DEF SetClosingFlag, PopHandler, At
<1>3. h.c \in Contexts /\ h \in FrameSet /\ list \in [Contexts -> Seq(Nodes)]
  BY <1>1, <1>2, TopFacts DEF CloseInv, HandlersInv, Shapes
<1>4. \E x \in Arguments, p \in {"close.pop", "close.parent", "close.call"} :
        /\ stack' = [stack EXCEPT ![t][1].x = x, ![t][1].pc = p]
        /\ SetClosingFlag(t) => p = "close.pop" /\ x = None
        /\ PopHandler(t) => x = NextOf(t) /\ p = IF NextOf(t) = None THEN "close.parent" ELSE "close.call"
  <2>1. CASE SetClosingFlag(t)
    <3>1. None \in Arguments
      BY DEF Arguments
    <3>2. stack' = [stack EXCEPT ![t][1].pc = "close.pop", ![t][1].x = None]
      BY <2>1 DEF SetClosingFlag
    <3>3. stack' = [stack EXCEPT ![t][1].x = None, ![t][1].pc = "close.pop"]
      <4>1. /\ Len(stack[t]) >= 1 /\ stack[t] \in Seq(FrameSet)
            /\ stack[t][1] \in FrameSet /\ stack \in [AllThreads -> Seq(FrameSet)]
        BY <1>2, TopIs DEF CloseInv, HandlersInv, Shapes
      <4> QED BY <3>2, <4>1 DEF FrameSet
    <3>4. ~PopHandler(t)
      BY <2>1 DEF SetClosingFlag, PopHandler, At
    <3> QED BY <3>1, <3>3, <3>4
  <2>2. CASE PopHandler(t)
    <3>1. PICK l, next, p : /\ l = list[h.c] /\ next = (IF l = <<>> THEN None ELSE Head(l))
                            /\ p = IF next = None THEN "close.parent" ELSE "close.call"
      OBVIOUS
    <3>2. stack' = [stack EXCEPT ![t][1].x = next, ![t][1].pc = p]
      BY <1>1, <2>2, <3>1 DEF PopHandler
    <3>3. l \in Seq(Nodes)
      BY <1>3, <3>1
    <3>4. next \in Arguments
      BY <3>1, <3>3, TailIs DEF Arguments
    <3>5. ~SetClosingFlag(t)
      BY <2>2 DEF SetClosingFlag, PopHandler, At
    <3>6. next = NextOf(t)
      BY <1>1, <3>1 DEF NextOf
    <3> QED BY <3>1, <3>2, <3>4, <3>5, <3>6
  <2> QED BY <2>1, <2>2
<1>5. PICK x \in Arguments, p \in {"close.pop", "close.parent", "close.call"} :
        /\ stack' = [stack EXCEPT ![t][1].x = x, ![t][1].pc = p]
        /\ SetClosingFlag(t) => p = "close.pop" /\ x = None
        /\ PopHandler(t) => x = NextOf(t) /\ p = IF NextOf(t) = None THEN "close.parent" ELSE "close.call"
  BY <1>4
<1>6. PICK g : g = [Top(t) EXCEPT !.pc = p, !.x = x]
  OBVIOUS
<1>7. stack' = [stack EXCEPT ![t] = [@ EXCEPT ![1] = g]]
  <2>1. Top(t) = stack[t][1] /\ Len(stack[t]) >= 1 /\ stack[t] \in Seq(FrameSet)
        /\ stack[t][1] \in FrameSet /\ stack \in [AllThreads -> Seq(FrameSet)]
    BY <1>2, TopIs DEF CloseInv, HandlersInv, Shapes
  <2> QED BY <1>5, <1>6, <2>1
<1>8. PICK a : a = <<g>>
  OBVIOUS
<1>9. g \in FrameSet /\ g.pc = p /\ g.c = h.c /\ g.ref = h.ref /\ g.x = x
  <2>1. p \in Pcs
    BY <1>5 DEF Pcs, ClosingPcs
  <2> QED BY <1>1, <1>3, <1>6, <2>1 DEF FrameSet
<1>10. Moves(t, 1, a) /\ HandlersInv
  BY <1>2, <1>7, <1>8, <1>9, ReframeMoves DEF CloseInv
<1>11. TurnsTo(s, g)
  BY <1>2, <1>8, <1>10, TurnSpots
<1> QED BY <1>1, <1>5, <1>9, <1>11

LEMMA InlineSpots ==
  ASSUME CloseInv, NEW t \in AllThreads, InlineReturns(t), NEW r, r = TopSpot(t)
  PROVE  \E s, g : /\ LeavesTo(r, s, g) /\ r # s /\ Fr(s) \in FrameSet /\ g \in FrameSet
                   /\ Fr(s).pc = "exec.inline" /\ g.pc = "exec.unblock" /\ g.c = Fr(s).c
<1>1. stack[t] # <<>> /\ Top(t).pc = "inline" /\ Shapes /\ HandlersInv
  BY DEF InlineReturns, At, CloseInv, HandlersInv
<1>2. /\ 1 + 1 \in DOMAIN stack[t] /\ stack[t][1 + 1].pc = "exec.inline" /\ stack[t] \in Seq(FrameSet)
  BY <1>1, TopIs DEF NestedOK, Shapes
<1>3. PICK f : f = stack[t][2]
  OBVIOUS
<1>4. f \in FrameSet /\ f.pc = "exec.inline" /\ 2 \in DOMAIN stack[t] /\ 2 <= Len(stack[t])
  BY <1>2, <1>3
<1>5. PICK g : g = [f EXCEPT !.pc = "exec.unblock"]
  OBVIOUS
<1>6. g \in FrameSet /\ g.pc = "exec.unblock" /\ g.c = f.c
  BY <1>4, <1>5 DEF FrameSet, Pcs
<1>7. PICK a : a = <<g>>
  OBVIOUS
<1>8. a \in Seq(FrameSet)
  BY <1>6, <1>7, OneIs
<1>9. Moves(t, 2, a)
  <2>1. stack' = [stack EXCEPT ![t] = a \o Tail(Tail(stack[t]))]
    BY <1>1, <1>3, <1>5, <1>7 DEF InlineReturns, Shapes
  <2>2. Tail(Tail(stack[t])) = IF 2 = 0 THEN stack[t] ELSE IF 2 = 1 THEN Tail(stack[t])
                               ELSE Tail(Tail(stack[t]))
    OBVIOUS
  <2>3. stack' = [stack EXCEPT ![t] = a \o (IF 2 = 0 THEN stack[t] ELSE IF 2 = 1 THEN Tail(stack[t])
                                                 ELSE Tail(Tail(stack[t])))]
    BY <2>1, <2>2
  <2> QED BY <1>1, <1>4, <1>8, <2>3, StackMoves
<1>10. PICK s : s = <<t, Len(stack[t]) + 1 - 2>>
  OBVIOUS
<1>11. s \in Spots /\ Fr(s) = f
  BY <1>1, <1>3, <1>4, <1>10, FrameSpot
<1>12. s = Under(r) /\ r # s
  <2>1. PICK l \in Nat : l = Len(stack[t])
    BY <1>2
  <2>2. r = <<t, l>> /\ s = <<t, l - 1>> /\ Under(r) = <<t, l - 1>>
    BY <1>10, <2>1 DEF Under, TopSpot
  <2> QED BY <2>2
<1>13. LeavesTo(r, s, g)
  BY <1>1, <1>7, <1>9, <1>10, <1>11, <1>12, BackSpots
<1> QED BY <1>4, <1>6, <1>11, <1>12, <1>13

LEMMA TakeSpots ==
  ASSUME CloseInv, TakeClosure
  PROVE  \E r, f : /\ Pushes(r, f) /\ f \in FrameSet /\ f.pc = "run" /\ f.c = queue[1].ctx
                   /\ 1 \in DOMAIN queue
<1>1. /\ stack[Worker] = <<>> /\ Worker \in AllThreads /\ Shapes
      /\ queue # <<>> /\ queue \in Seq(Closures)
  BY DEF TakeClosure, AllThreads, CloseInv, HandlersInv, Shapes
<1>2. PICK e : e = Head(queue)
  OBVIOUS
<1>3. e.ctx \in Contexts /\ e.work \in Arguments /\ e = queue[1] /\ 1 \in DOMAIN queue
  <2>1. e \in Closures /\ e = queue[1] /\ 1 \in DOMAIN queue
    BY <1>1, <1>2, TailIs
  <2> QED BY <2>1 DEF Closures
<1>4. PICK f : f = Frame("run", e.ctx, e.work, TRUE)
  OBVIOUS
<1>5. f \in FrameSet /\ f.pc = "run" /\ f.c = e.ctx
  BY <1>3, <1>4 DEF Frame, FrameSet, Pcs
<1>6. PICK a, r : a = <<f>> /\ r = <<Worker, Len(stack[Worker]) + 1>>
  OBVIOUS
<1>7. a \in Seq(FrameSet)
  BY <1>5, <1>6, OneIs
<1>8. Moves(Worker, 0, a)
  <2>1. a \o stack[Worker] = a
    BY <1>1, <1>7
  <2>2. stack' = [stack EXCEPT ![Worker] = a \o stack[Worker]]
    BY <1>2, <1>4, <1>6, <2>1 DEF TakeClosure
  <2>3. HandlersInv
    BY DEF CloseInv
  <2> QED BY <1>1, <1>7, <2>2, <2>3, PushMoves
<1>9. Pushes(r, f)
  BY <1>1, <1>6, <1>8, PushSpots
<1> QED BY <1>3, <1>5, <1>9

LEMMA IssueSpots ==
  ASSUME LifeInv, CloseInv, NEW t \in AllThreads, NEW k \in Calls[program], Issue(t, k)
  PROVE  /\ k.op \in Ops /\ k.ctx \in Contexts
         /\ k.arg \in IF k.op \in {"add", "start", "remove"} THEN Handlers
                      ELSE IF k.op = "child" THEN Contexts
                      ELSE IF k.op = "exec" THEN Works ELSE {None}
         /\ \E f, h, s, r :
              /\ f \in FrameSet /\ h \in FrameSet /\ f.pc = k.op /\ f.c = k.ctx /\ f.x = k.arg /\ f.ref
              /\ h.pc = "close" /\ h.c = k.ctx /\ ~h.ref
              /\ k.op # "destroy" => Pushes(r, f)
              /\ k.op = "destroy" => stack[t] = <<>> /\ PushesTwo(s, r, h, f)
<1>1. /\ k.by = Site(t) /\ HandlersInv /\ Shapes /\ program \in Programs
  BY DEF Issue, CloseInv, HandlersInv, Shapes
<1>2. /\ k.op \in Ops /\ k.ctx \in Contexts /\ k.by \in Threads \cup Works \cup Handlers
      /\ k.arg \in IF k.op \in {"add", "start", "remove"} THEN Handlers
                   ELSE IF k.op = "child" THEN Contexts
                   ELSE IF k.op = "exec" THEN Works ELSE {None}
  BY <1>1, ProgramsAssumption
<1>3. k.op = "destroy" => stack[t] = <<>>
  <2>1. SUFFICES ASSUME stack[t] # <<>>, k.op = "destroy" PROVE FALSE
    OBVIOUS
  <2>2. k.by # None
    BY <1>2, TreeAssumption
  <2>3. k.by \in Works \cup Handlers
    BY <1>1, <2>1, <2>2, SiteIs
  <2>4. k.by \in Threads
    BY <2>1 DEF LifeInv, ClosesFromThreads
  <2> QED BY <2>3, <2>4, ThreadsAssumption
<1>4. PICK f : f = Frame(k.op, k.ctx, k.arg, TRUE)
  OBVIOUS
<1>5. f \in FrameSet /\ f.pc = k.op /\ f.c = k.ctx /\ f.x = k.arg /\ f.ref
  <2>1. k.op \in Pcs /\ k.arg \in Arguments
    BY <1>2 DEF Ops, Pcs, AddPcs, ChildPcs, KnowPcs, Arguments, Nodes
  <2> QED BY <1>2, <1>4, <2>1 DEF Frame, FrameSet
<1>6. stack \in [AllThreads -> Seq(FrameSet)]
  BY <1>1 DEF Shapes
<1>7. PICK h : h = [f EXCEPT !.pc = "close", !.ref = FALSE]
  OBVIOUS
<1>8. h \in FrameSet /\ h.pc = "close" /\ h.c = f.c /\ ~h.ref
  BY <1>5, <1>7 DEF FrameSet, Pcs
<1>9. k.op = "destroy" => \E s, r : PushesTwo(s, r, h, f)
  <2>1. SUFFICES ASSUME k.op = "destroy" PROVE \E s, r : PushesTwo(s, r, h, f)
    OBVIOUS
  <2>2. PICK a, s, r : a = <<h, f>> /\ s = <<t, 1>> /\ r = <<t, 2>>
    OBVIOUS
  <2>3. a \in Seq(FrameSet)
    BY <1>5, <1>8, <2>2, TwoIs
  <2>4. stack' = [stack EXCEPT ![t] = a \o stack[t]]
    BY <1>4, <1>6, <1>7, <2>1, <2>2 DEF Issue
  <2>5. Moves(t, 0, a)
    BY <1>1, <2>3, <2>4, PushMoves
  <2>6. PushesTwo(s, r, h, f)
    BY <1>1, <1>3, <1>5, <1>8, <2>1, <2>2, <2>5, PushTwoSpots
  <2> QED BY <2>6
<1>10. k.op # "destroy" => \E r : Pushes(r, f)
  <2>1. SUFFICES ASSUME k.op # "destroy" PROVE \E r : Pushes(r, f)
    OBVIOUS
  <2>2. PICK a, r : a = <<f>> /\ r = <<t, Len(stack[t]) + 1>>
    OBVIOUS
  <2>3. a \in Seq(FrameSet)
    BY <1>5, <2>2, OneIs
  <2>4. stack' = [stack EXCEPT ![t] = a \o stack[t]]
    BY <1>4, <1>6, <2>1, <2>2 DEF Issue
  <2>5. Moves(t, 0, a)
    BY <1>1, <2>3, <2>4, PushMoves
  <2>6. Pushes(r, f)
    BY <1>1, <2>2, <2>5, PushSpots
  <2> QED BY <2>6
<1> QED BY <1>2, <1>3, <1>5, <1>8, <1>9, <1>10

-----------------------------------------------------------------------------
\* Who is known, call by call.

LEMMA SameFateGrows == ASSUME fate' = fate PROVE FateGrows
BY DEF FateGrows

\* The calls that go on, return or call, while no fate, owner or closure changes.
PlainStep(t) == PlainMove(t) /\ fate' = fate /\ queue' = queue /\ owned' = owned

LEMMA PlainKeeps == ASSUME Known, CloseInv, NEW t \in AllThreads, PlainStep(t) PROVE Known'
BY SameFateGrows, PlainKnown DEF PlainStep

Onwards(t) == /\ stack[t] # <<>> /\ fate' = fate /\ queue' = queue /\ owned' = owned
              /\ \E p \in Pcs : Goto(t, p) /\ p # "child.add"
LEMMA OnwardsKnown == ASSUME Known, CloseInv, NEW t \in AllThreads, Onwards(t) PROVE Known'
BY PlainKeeps DEF Onwards, PlainStep, PlainMove

LEMMA GotosKnown ==
  ASSUME Known, CloseInv, NEW t \in AllThreads,
         \/ BlockClose(t, "exec", "exec.post") \/ BlockClose(t, "add", "add.insert")
         \/ BlockClose(t, "start", "start.insert") \/ BlockClose(t, "child", "child.new")
         \/ RunBlock(t) \/ RunUndo(t) \/ StartSucceeds(t) \/ StartClose(t)
         \/ WaitForClosing(t) \/ Anchor(t) \/ SetClosedFlag(t)
  PROVE  Known'
<1> USE DEF At, exec, history, clients
<1>0. {"exec.undo", "undo", "exec.post", "add.insert", "start.insert", "child.new", "work", "run.undo",
       "run.drop", "unblock", "close.lost", "close.wait", "close.flag", "child.done", "close.release"} \subseteq Pcs
  BY DEF Pcs, AddPcs, ChildPcs, ClosingPcs, KnowPcs
<1>1. ASSUME NEW q, NEW n \in {"exec.post", "add.insert", "start.insert", "child.new"}, BlockClose(t, q, n)
      PROVE  Onwards(t)
  <2>1. PICK p : p = IF "PreparingForClosing" \in flags[Top(t).c]
                     THEN (IF q = "exec" THEN "exec.undo" ELSE "undo") ELSE n
    OBVIOUS
  <2>2. Goto(t, p) /\ stack[t] # <<>> /\ fate' = fate /\ queue' = queue /\ owned' = owned
    BY <1>1, <2>1 DEF BlockClose
  <2>3. p \in Pcs /\ p # "child.add"
    BY <1>0, <2>1
  <2> QED BY <2>2, <2>3 DEF Onwards
<1>2. BlockClose(t, "exec", "exec.post") \/ BlockClose(t, "add", "add.insert")
      \/ BlockClose(t, "start", "start.insert") \/ BlockClose(t, "child", "child.new") => Onwards(t)
  BY <1>1
<1>3. ASSUME RunBlock(t) PROVE Onwards(t)
  <2>1. PICK p : p = IF "PreparingForClosing" \in flags[Top(t).c] THEN "run.undo" ELSE "work"
    OBVIOUS
  <2>2. Goto(t, p) /\ stack[t] # <<>> /\ fate' = fate /\ queue' = queue /\ owned' = owned
    BY <1>3, <2>1 DEF RunBlock
  <2>3. p \in Pcs /\ p # "child.add"
    BY <1>0, <2>1
  <2> QED BY <2>2, <2>3 DEF Onwards
<1>4. RunUndo(t) => Onwards(t)
  BY <1>0 DEF RunUndo, Onwards
<1>5. StartSucceeds(t) => Onwards(t)
  BY <1>0 DEF StartSucceeds, Onwards
<1>6. StartClose(t) => Onwards(t)
  BY <1>0 DEF StartClose, Onwards
<1>7. WaitForClosing(t) => Onwards(t)
  BY <1>0 DEF WaitForClosing, Onwards
<1>8. Anchor(t) => Onwards(t)
  BY <1>0 DEF Anchor, Onwards
<1>9. SetClosedFlag(t) => Onwards(t)
  BY <1>0 DEF SetClosedFlag, Onwards
<1> QED BY <1>2, <1>3, <1>4, <1>5, <1>6, <1>7, <1>8, <1>9, OnwardsKnown

Backwards(t) == stack[t] # <<>> /\ Return(t) /\ fate' = fate /\ queue' = queue /\ owned' = owned
LEMMA BackwardsKnown == ASSUME Known, CloseInv, NEW t \in AllThreads, Backwards(t) PROVE Known'
BY PlainKeeps DEF Backwards, PlainStep, PlainMove

LEMMA ReturnsKnown ==
  ASSUME Known, CloseInv, NEW t \in AllThreads,
         \/ Unblock(t, "exec.unblock") \/ Unblock(t, "unblock") \/ WorkReturns(t) \/ RunDrop(t)
         \/ UndoBlock(t, "exec.undo") \/ RemoveWait(t) \/ HandlerReturns(t) \/ WaitForClosed(t)
         \/ ReleaseAnchor(t) \/ CloseReturns(t) \/ ReleaseOwner(t)
  PROVE  Known'
<1> USE DEF At, exec, history, clients, Backwards
<1>1. Unblock(t, "exec.unblock") \/ Unblock(t, "unblock") \/ WorkReturns(t) => Backwards(t)
  BY DEF Unblock, WorkReturns
<1>2. RunDrop(t) => Backwards(t)
  BY DEF RunDrop
<1>3. UndoBlock(t, "exec.undo") => Backwards(t)
  BY DEF UndoBlock
<1>4. RemoveWait(t) => Backwards(t)
  BY DEF RemoveWait
<1>5. HandlerReturns(t) \/ WaitForClosed(t) \/ ReleaseAnchor(t) => Backwards(t)
  BY DEF HandlerReturns, WaitForClosed, ReleaseAnchor
<1>6. CloseReturns(t) \/ ReleaseOwner(t) => Backwards(t)
  BY DEF CloseReturns, ReleaseOwner
<1> QED BY <1>1, <1>2, <1>3, <1>4, <1>5, <1>6, BackwardsKnown

LEMMA RemoveKnown ==
  ASSUME Known, CloseInv, NEW t \in AllThreads, RemoveCloseHandler(t)
  PROVE  Known'
<1>1. stack[t] # <<>> /\ fate' = fate /\ queue' = queue /\ owned' = owned
      /\ (Return(t) \/ Goto(t, "remove.wait"))
  BY DEF RemoveCloseHandler, At, exec, clients
<1>2. "remove.wait" \in Pcs
  BY DEF Pcs, KnowPcs
<1> QED BY <1>1, <1>2, BackwardsKnown, OnwardsKnown DEF Backwards, Onwards

LEMMA UndoKnown ==
  ASSUME Known, LifeInv, CloseInv, NEW t \in AllThreads, UndoBlock(t, "undo")
  PROVE  Known'
<1>1. PICK h : h = Top(t)
  OBVIOUS
<1>2. /\ stack[t] # <<>> /\ h.pc = "undo" /\ Return(t) /\ queue' = queue /\ owned' = owned
      /\ fate' = [fate EXCEPT ![h.x] = "refused"]
  BY <1>1 DEF UndoBlock, At, exec, clients
<1>3. h.x \in Nodes /\ fate[h.x] = "adding"
  <2>1. FrameOK(t, h) /\ FrameLife(h)
    BY <1>1, <1>2, TopLifeIs
  <2>2. h.pc \in AddPcs
    BY <1>2 DEF AddPcs
  <2>3. h.x \in Nodes
    BY <2>1, <2>2 DEF FrameOK
  <2>4. h.x \in Handlers => fate[h.x] = "adding"
    BY <2>1, <2>2 DEF FrameOK, HandlerFrameOK
  <2>5. h.x \in Contexts => fate[h.x] = "adding"
    BY <1>2, <2>1, <2>2 DEF FrameLife
  <2> QED BY <2>3, <2>4, <2>5 DEF Nodes
<1>4. FateGrows
  <2>1. fate \in [Nodes -> Fates]
    BY DEF CloseInv, HandlersInv, Shapes
  <2> QED BY <1>2, <1>3, <2>1 DEF FateGrows
<1>5. PlainMove(t)
  BY <1>2 DEF PlainMove
<1> QED BY <1>2, <1>4, <1>5, PlainKnown

Inwards(t) == /\ stack[t] # <<>> /\ fate' = fate /\ queue' = queue /\ owned' = owned
              /\ \E p \in Pcs, h \in FrameSet :
                   Enter(t, p, h) /\ p # "child.add" /\ h.pc # "child.add" /\ Born(h.c)
LEMMA InwardsKnown == ASSUME Known, CloseInv, NEW t \in AllThreads, Inwards(t) PROVE Known'
<1>1. PICK p \in Pcs, h \in FrameSet : Enter(t, p, h) /\ p # "child.add" /\ h.pc # "child.add" /\ Born(h.c)
  BY DEF Inwards
<1>2. PlainMove(t)
  BY <1>1 DEF PlainMove, Inwards
<1> QED BY <1>2, PlainKeeps DEF PlainStep, Inwards

LEMMA EntersKnown ==
  ASSUME Known, CloseInv, NEW t \in AllThreads,
         PostInline(t) \/ StartThrows(t) \/ CloseChild(t) \/ LeaveParent(t)
  PROVE  Known'
<1> USE DEF At, exec, history, clients
<1>1. stack[t] # <<>>
  BY DEF PostInline, StartThrows, CloseChild, LeaveParent
<1>2. PICK h : h = Top(t)
  OBVIOUS
<1>3. h \in FrameSet /\ h.c \in Contexts /\ Born(h.c) /\ h.x \in Arguments
  BY <1>1, <1>2, TopKnown DEF FrameSet
<1>4. {"exec.inline", "inline", "unblock", "remove", "child.release", "close", "close.reset"} \subseteq Pcs
  BY DEF Pcs, KnowPcs, ClosingPcs
<1>5. ASSUME PostInline(t) PROVE Inwards(t)
  <2>1. PICK f : f = Frame("inline", h.c, h.x, TRUE)
    OBVIOUS
  <2>2. f \in FrameSet /\ f.pc = "inline" /\ f.c = h.c
    BY <1>3, <1>4, <2>1 DEF Frame, FrameSet
  <2>3. Enter(t, "exec.inline", f) /\ fate' = fate /\ queue' = queue /\ owned' = owned
    BY <1>2, <1>5, <2>1 DEF PostInline
  <2> QED BY <1>1, <1>3, <1>4, <2>2, <2>3 DEF Inwards
<1>6. ASSUME StartThrows(t) PROVE Inwards(t)
  <2>1. PICK f : f = Frame("remove", h.c, h.x, FALSE)
    OBVIOUS
  <2>2. f \in FrameSet /\ f.pc = "remove" /\ f.c = h.c
    BY <1>3, <1>4, <2>1 DEF Frame, FrameSet
  <2>3. Enter(t, "unblock", f) /\ fate' = fate /\ queue' = queue /\ owned' = owned
    BY <1>2, <1>6, <2>1 DEF StartThrows
  <2> QED BY <1>1, <1>3, <1>4, <2>2, <2>3 DEF Inwards
<1>7. ASSUME CloseChild(t) PROVE Inwards(t)
  <2>1. PICK f : f = Frame("close", h.c, None, FALSE)
    OBVIOUS
  <2>2. f \in FrameSet /\ f.pc = "close" /\ f.c = h.c
    BY <1>3, <1>4, <2>1 DEF Frame, FrameSet, Arguments
  <2>3. Enter(t, "child.release", f) /\ fate' = fate /\ queue' = queue /\ owned' = owned
    BY <1>2, <1>7, <2>1 DEF CloseChild
  <2> QED BY <1>1, <1>3, <1>4, <2>2, <2>3 DEF Inwards
<1>8. ASSUME LeaveParent(t), Parent[h.c] = None PROVE Onwards(t)
  BY <1>1, <1>2, <1>4, <1>8 DEF LeaveParent, Onwards
<1>9. ASSUME LeaveParent(t), Parent[h.c] # None PROVE Inwards(t)
  <2>1. PICK f : f = Frame("remove", Parent[h.c], h.c, FALSE)
    OBVIOUS
  <2>2. Parent[h.c] \in Contexts /\ Born(Parent[h.c]) /\ h.c \in Arguments
    BY <1>3, <1>9, DepthIs DEF Known, Arguments, Nodes
  <2>3. f \in FrameSet /\ f.pc = "remove" /\ f.c = Parent[h.c]
    BY <1>4, <2>1, <2>2 DEF Frame, FrameSet
  <2>4. Enter(t, "close.reset", f) /\ fate' = fate /\ queue' = queue /\ owned' = owned
    BY <1>2, <1>9, <2>1 DEF LeaveParent
  <2>5. Born(f.c)
    BY <2>2, <2>3
  <2> QED BY <1>1, <1>4, <2>3, <2>4, <2>5 DEF Inwards
<1> QED BY <1>5, <1>6, <1>7, <1>8, <1>9, InwardsKnown, OnwardsKnown

LEMMA PostKnown ==
  ASSUME Known, CloseInv, NEW t \in AllThreads, Post(t)
  PROVE  Known'
<1>1. PICK h, s, k : h = Top(t) /\ s = TopSpot(t) /\ k = [ctx |-> h.c, work |-> h.x]
  OBVIOUS
<1>2. /\ stack[t] # <<>> /\ queue' = Append(queue, k) /\ owned' = owned /\ fate' = fate
      /\ Goto(t, "exec.unblock") /\ "exec.unblock" \in Pcs
  BY <1>1 DEF Post, At, history, clients, Pcs
<1>3. h.c \in Contexts /\ Born(h.c)
  BY <1>1, <1>2, TopKnown
<1>4. PlainMove(t)
  BY <1>2 DEF PlainMove
<1>5. PICK F : NewFrames(F) /\ \A f \in F : f.c \in Contexts /\ Born(f.c) /\ f.pc # "child.add"
  BY <1>4, PlainFrames
<1>6. ASSUME NEW n \in DOMAIN queue' PROVE queue'[n].ctx \in Contexts /\ Born(queue'[n].ctx)
  <2>1. queue \in Seq(Closures)
    BY DEF CloseInv, HandlersInv, Shapes
  <2>2. (n \in DOMAIN queue /\ queue'[n] = queue[n]) \/ queue'[n] = k
    BY <1>2, <1>6, <2>1
  <2> QED BY <1>1, <1>3, <2>2, QueueKnown
<1> QED BY <1>2, <1>5, <1>6, SameFateGrows, KnownSteady

LEMMA ReframesKnown ==
  ASSUME Known, CloseInv, NEW t \in AllThreads, SetClosingFlag(t) \/ PopHandler(t)
  PROVE  Known'
<1>1. PICK h, s : h = Top(t) /\ s = TopSpot(t)
  OBVIOUS
<1>2. stack[t] # <<>> /\ queue' = queue /\ owned' = owned /\ fate' = fate
  BY DEF SetClosingFlag, PopHandler, At, exec, history, clients
<1>3. h.c \in Contexts /\ Born(h.c)
  BY <1>1, <1>2, TopKnown
<1>4. PICK g : TurnsTo(s, g) /\ g.c = h.c /\ g.pc # "child.add"
  <2>1. \E g \in FrameSet :
           /\ TurnsTo(s, g) /\ g.c = Top(t).c /\ g.ref = Top(t).ref
           /\ SetClosingFlag(t) => g.pc = "close.pop" /\ g.x = None
           /\ PopHandler(t) => /\ g.x = NextOf(t)
                               /\ g.pc = IF NextOf(t) = None THEN "close.parent" ELSE "close.call"
    BY <1>1, ReframeSpots
  <2> QED BY <1>1, <2>1
<1>5. NewFrames({g})
  BY <1>4, NewFramesAre
<1>6. \A n \in DOMAIN queue' : queue'[n].ctx \in Contexts /\ Born(queue'[n].ctx)
  BY <1>2, QueueKnown
<1> QED BY <1>2, <1>3, <1>4, <1>5, <1>6, SameFateGrows, KnownSteady

LEMMA InlineKnown ==
  ASSUME Known, CloseInv, NEW t \in AllThreads, InlineReturns(t)
  PROVE  Known'
<1>1. queue' = queue /\ owned' = owned /\ fate' = fate
  BY DEF InlineReturns, exec, history, clients
<1>2. PICK r : r = TopSpot(t)
  OBVIOUS
<1>3. PICK s, g : LeavesTo(r, s, g) /\ g.pc = "exec.unblock" /\ g.c = Fr(s).c
  BY <1>2, InlineSpots
<1>4. g.c \in Contexts /\ Born(g.c)
  BY <1>3, SpotFrame DEF Known, LeavesTo
<1>5. NewFrames({g})
  BY <1>3, NewFramesAre
<1>6. \A n \in DOMAIN queue' : queue'[n].ctx \in Contexts /\ Born(queue'[n].ctx)
  BY <1>1, QueueKnown
<1> QED BY <1>1, <1>3, <1>4, <1>5, <1>6, SameFateGrows, KnownSteady

LEMMA TakeKnown ==
  ASSUME Known, CloseInv, TakeClosure
  PROVE  Known'
<1>1. queue # <<>> /\ queue' = Tail(queue) /\ owned' = owned /\ fate' = fate /\ queue \in Seq(Closures)
  BY DEF TakeClosure, history, clients, CloseInv, HandlersInv, Shapes
<1>2. PICK r, f : Pushes(r, f) /\ f.pc = "run" /\ f.c = queue[1].ctx /\ 1 \in DOMAIN queue
  BY TakeSpots
<1>3. f.c \in Contexts /\ Born(f.c)
  BY <1>2, QueueKnown
<1>4. NewFrames({f})
  BY <1>2, NewFramesAre
<1>5. ASSUME NEW n \in DOMAIN queue' PROVE queue'[n].ctx \in Contexts /\ Born(queue'[n].ctx)
  <2>1. n + 1 \in DOMAIN queue /\ queue'[n] = queue[n + 1]
    BY <1>1, <1>5, TailIs
  <2> QED BY <2>1, QueueKnown
<1> QED BY <1>1, <1>2, <1>3, <1>4, <1>5, SameFateGrows, KnownSteady

LEMMA ResetKnown ==
  ASSUME Known, CloseInv, NEW t \in AllThreads, ResetExecutor(t)
  PROVE  Known'
<1>1. /\ stack[t] # <<>> /\ (queue' = <<>> \/ queue' = queue) /\ owned' = owned /\ fate' = fate
      /\ Goto(t, "close.closed") /\ "close.closed" \in Pcs
  BY DEF ResetExecutor, At, history, clients, Pcs, ClosingPcs
<1>2. PlainMove(t)
  BY <1>1 DEF PlainMove
<1>3. PICK F : NewFrames(F) /\ \A f \in F : f.c \in Contexts /\ Born(f.c) /\ f.pc # "child.add"
  BY <1>2, PlainFrames
<1>4. \A n \in DOMAIN queue' : queue'[n].ctx \in Contexts /\ Born(queue'[n].ctx)
  BY <1>1, QueueKnown
<1> QED BY <1>1, <1>3, <1>4, SameFateGrows, KnownSteady

LEMMA ConstructKnown ==
  ASSUME Known, LifeInv, CloseInv, NEW t \in AllThreads, ConstructChild(t)
  PROVE  Known'
<1>1. PICK h, s, r, f, x : /\ h = Top(t) /\ s = TopSpot(t) /\ r = <<t, Len(stack[t]) + 1>>
                           /\ x = h.x /\ f = Frame("add", h.c, x, FALSE)
  OBVIOUS
<1>2. /\ stack[t] # <<>> /\ queue' = queue /\ owned' = owned /\ fate' = fate /\ h.pc = "child.new"
      /\ Enter(t, "child.add", f) /\ "child.add" \in Pcs
  BY <1>1 DEF ConstructChild, At, history, clients, Pcs, ChildPcs
<1>3. h \in FrameSet /\ h = Fr(s) /\ s \in Spots /\ h.c \in Contexts /\ Born(h.c)
  BY <1>1, <1>2, TopKnown
<1>4. x \in Contexts /\ ~Born(x)
  <2>1. x \in Contexts /\ fate[x] = "adding"
    BY <1>1, <1>2, <1>3, MakersAdd
  <2> QED BY <2>1 DEF Born
<1>5. f \in FrameSet /\ f.pc = "add" /\ f.c = h.c
  <2>1. x \in Arguments /\ "add" \in Pcs
    BY <1>4 DEF Arguments, Nodes, Pcs, AddPcs
  <2> QED BY <1>1, <1>3, <2>1 DEF Frame, FrameSet
<1>6. PICK g : CallsUp(s, r, f, g) /\ g.c = h.c /\ g.x = x
  <2>1. \E g \in FrameSet : /\ CallsUp(s, r, f, g) /\ g.pc = "child.add" /\ g.c = Top(t).c /\ g.x = Top(t).x
                            /\ g.ref = Top(t).ref
    <3>1. s = TopSpot(t) /\ r = <<t, Len(stack[t]) + 1>> /\ stack[t] # <<>>
      BY <1>1, <1>2
    <3>2. "child.add" \in Pcs /\ f \in FrameSet /\ Enter(t, "child.add", f)
      BY <1>2, <1>5
    <3> QED BY <3>1, <3>2, EnterSpots
  <2> QED BY <1>1, <2>1
<1>7. PICK F : F = {g, f}
  OBVIOUS
<1>8. NewFrames(F)
  BY <1>6, <1>7, NewFramesAre
<1>9. \A k \in F : k.c \in Contexts /\ Born(k.c) /\ (k.pc = "child.add" => k.x \in Contexts /\ ~Born(k.x))
  BY <1>3, <1>4, <1>5, <1>6, <1>7
<1>10. \A n \in DOMAIN queue' : queue'[n].ctx \in Contexts /\ Born(queue'[n].ctx)
  BY <1>2, QueueKnown
<1> QED BY <1>2, <1>8, <1>9, <1>10, SameFateGrows, KnownSteady

\* Client code calls through a reference: the context was made, and added.
LEMMA IssuerKnows ==
  ASSUME RefsOK, Known, LifeInv, CloseInv, NEW t \in AllThreads, NEW k \in Calls[program], Issue(t, k),
         k.ctx \in Contexts
  PROVE  Born(k.ctx)
<1>1. refs[k.ctx] > 0 /\ \A f \in Frames : f.pc = "child.add" => f.x # k.ctx
  BY DEF Issue
<1>2. SUFFICES ASSUME ~Born(k.ctx) PROVE FALSE
  OBVIOUS
<1>3. PICK c : c = k.ctx
  OBVIOUS
<1>4. ~Some(MakingFrames(c))
  <2>1. SUFFICES ASSUME NEW q \in Spots, Fr(q) \in MakingFrames(c) PROVE FALSE
    BY DEF Some
  <2>2. PICK u, i : u = q[1] /\ i = Len(stack[q[1]]) + 1 - q[2]
    OBVIOUS
  <2>3. u \in AllThreads /\ i \in DOMAIN stack[u] /\ Fr(q) = stack[u][i]
    BY <2>2, SpotIs DEF CloseInv, HandlersInv
  <2>4. Fr(q) \in Frames
    BY <2>3 DEF Frames, FramesOf, ToSet
  <2> QED BY <1>1, <1>3, <2>1, <2>4 DEF MakingFrames
<1>5. refs[c] = 0
  BY <1>2, <1>3, <1>4, NoMaker
<1> QED BY <1>1, <1>3, <1>5

LEMMA IssueKnown ==
  ASSUME RefsOK, Known, LifeInv, CloseInv, NEW t \in AllThreads, NEW k \in Calls[program], Issue(t, k)
  PROVE  Known'
<1>1. /\ queue' = queue /\ Permitted(k) /\ \A c \in owned' : c \in owned
      /\ fate' = IF k.op \in {"add", "start", "child"} THEN [fate EXCEPT ![k.arg] = "adding"] ELSE fate
  BY DEF Issue, exec
<1>2. /\ k.op \in Ops /\ k.ctx \in Contexts
      /\ k.arg \in IF k.op \in {"add", "start", "remove"} THEN Handlers
                   ELSE IF k.op = "child" THEN Contexts
                   ELSE IF k.op = "exec" THEN Works ELSE {None}
  BY IssueSpots
<1>3. Born(k.ctx)
  BY <1>2, IssuerKnows
<1>4. FateGrows
  <2>1. fate \in [Nodes -> Fates]
    BY DEF CloseInv, HandlersInv, Shapes
  <2>2. k.op \in {"add", "start", "child"} => k.arg \in Nodes /\ fate[k.arg] = "new"
    BY <1>1, <1>2 DEF Permitted, Nodes
  <2> QED BY <1>1, <2>1, <2>2 DEF FateGrows
<1>5. PICK f, h, s, r :
              /\ f \in FrameSet /\ h \in FrameSet /\ f.pc = k.op /\ f.c = k.ctx /\ f.x = k.arg /\ f.ref
              /\ h.pc = "close" /\ h.c = k.ctx /\ ~h.ref
              /\ k.op # "destroy" => Pushes(r, f)
              /\ k.op = "destroy" => stack[t] = <<>> /\ PushesTwo(s, r, h, f)
  BY IssueSpots
<1>6. PICK F : NewFrames(F) /\ F \subseteq {f, h}
  <2>1. CASE k.op = "destroy"
    <3>1. PushesTwo(s, r, h, f)
      BY <1>5, <2>1
    <3>2. NewFrames({f, h})
      BY <3>1, NewFramesAre
    <3> QED BY <3>2
  <2>2. CASE k.op # "destroy"
    <3>1. Pushes(r, f)
      BY <1>5, <2>2
    <3>2. NewFrames({f})
      BY <3>1, NewFramesAre
    <3> QED BY <3>2
  <2> QED BY <2>1, <2>2
<1>7. f.pc # "child.add"
  BY <1>2, <1>5 DEF Ops
<1>8. \A e \in F : e.c \in Contexts /\ Born(e.c) /\ (e.pc = "child.add" => e.x \in Contexts /\ ~Born(e.x))
  BY <1>2, <1>3, <1>5, <1>6, <1>7
<1>9. \A n \in DOMAIN queue' : queue'[n].ctx \in Contexts /\ Born(queue'[n].ctx)
  BY <1>1, QueueKnown
<1> QED BY <1>1, <1>4, <1>6, <1>8, <1>9, KnownSteady

LEMMA InsertKnown ==
  ASSUME Known, LifeInv, CloseInv, NEW t \in AllThreads,
         Insert(t, "add.insert", "unblock") \/ Insert(t, "start.insert", "start.fn")
  PROVE  Known'
<1>1. PICK h, s, p : h = Top(t) /\ s = TopSpot(t) /\ p \in {"unblock", "start.fn"} /\ Goto(t, p)
  BY DEF Insert
<1>2. /\ stack[t] # <<>> /\ h.pc \in {"add.insert", "start.insert"} /\ queue' = queue /\ owned' = owned
      /\ fate' = [fate EXCEPT ![h.x] = "added"]
  BY <1>1 DEF Insert, At, exec, clients
<1>3. h \in FrameSet /\ h.c \in Contexts /\ Born(h.c) /\ p \in Pcs /\ p # "child.add"
  BY <1>1, <1>2, TopKnown DEF Pcs, KnowPcs
<1>4. h.x \in Nodes /\ (h.x \in Contexts => Parent[h.x] = h.c)
  <2>1. FrameOK(t, h) /\ FrameLife(h) /\ h.pc \in AddPcs
    BY <1>1, <1>2, TopLifeIs DEF AddPcs
  <2> QED BY <2>1 DEF FrameOK, FrameLife
<1>5. fate \in [Nodes -> Fates]
  BY DEF CloseInv, HandlersInv, Shapes
<1>6. \A y \in Nodes : fate'[y] = IF y = h.x THEN "added" ELSE fate[y]
  BY <1>2, <1>4, <1>5
<1>7. \A c \in Contexts : Born(c)' <=> (Born(c) \/ c = h.x)
  BY <1>6 DEF Born, Nodes
<1>8. BornStay
  BY <1>7 DEF BornStay
<1>9. PICK g : TurnsTo(s, g) /\ g.c = h.c /\ g.pc = p
  <2>1. \E g \in FrameSet : /\ TurnsTo(s, g) /\ g.pc = p /\ g.c = Top(t).c /\ g.x = Top(t).x
                            /\ g.ref = Top(t).ref
    BY <1>1, <1>2, <1>3, GotoSpots
  <2> QED BY <1>1, <2>1
<1>10. PICK F : F = {g}
  OBVIOUS
<1>11. NewFrames(F)
  BY <1>9, <1>10, NewFramesAre
<1>12. \A f \in F : f.c \in Contexts /\ Born(f.c)' /\ (f.pc = "child.add" => ~Born(f.x)')
  BY <1>3, <1>7, <1>9, <1>10
<1>13. ASSUME NEW n \in DOMAIN queue' PROVE Born(queue[n].ctx)'
  <2>1. PICK d : d = queue'[n].ctx
    OBVIOUS
  <2>2. d \in Contexts /\ Born(d)
    BY <1>2, <2>1, QueueKnown
  <2>3. Born(d)'
    BY <1>7, <2>2
  <2> QED BY <2>1, <2>3 DEF Born
<1>14. \A c \in owned' : c \in Contexts /\ Born(c)' /\ ~Some(MakingFrames(c))
  BY <1>2, <1>7 DEF Known
<1>15. \A c \in Contexts : Born(c)' /\ Parent[c] # None => Born(Parent[c])'
  <2>1. SUFFICES ASSUME NEW c \in Contexts, Born(c)', Parent[c] # None PROVE Born(Parent[c])'
    OBVIOUS
  <2>2. PICK d : d = Parent[c]
    OBVIOUS
  <2>3. d \in Contexts /\ Born(d)
    BY <1>3, <1>4, <1>7, <2>1, <2>2, DepthIs DEF Known
  <2>4. Born(d)'
    BY <1>7, <2>3
  <2> QED BY <2>2, <2>4
<1>16. \A x \in Nodes : fate'[x] # "called twice"
  BY <1>6 DEF Known
<1> QED BY <1>8, <1>11, <1>12, <1>13, <1>14, <1>15, <1>16, KnownGiven

LEMMA CallKnown ==
  ASSUME Known, LifeInv, CloseInv, NEW t \in AllThreads, CallHandler(t)
  PROVE  Known'
<1>1. PICK h, s, x, r : h = Top(t) /\ s = TopSpot(t) /\ x = h.x /\ r = <<t, Len(stack[t]) + 1>>
  OBVIOUS
<1>2. /\ stack[t] # <<>> /\ h.pc = "close.call" /\ queue' = queue /\ owned' = owned
      /\ fate' = [fate EXCEPT ![x] = IF fate[x] = "called" THEN "called twice" ELSE "called"]
      /\ Enter(t, "close.pop", IF x \in Contexts THEN Frame("child.anchor", x, None, FALSE)
                                                 ELSE Frame("handler", h.c, x, FALSE))
  BY <1>1 DEF CallHandler, At, exec, clients
<1>3. h \in FrameSet /\ h.c \in Contexts /\ Born(h.c) /\ "close.pop" \in Pcs /\ x \in Arguments
  BY <1>1, <1>2, TopKnown DEF Pcs, ClosingPcs, FrameSet
<1>4. x \in Nodes /\ fate[x] = "added"
  <2>1. FrameLife(h) /\ h.pc \in PoppedPcs
    BY <1>1, <1>2, TopLifeIs DEF PoppedPcs
  <2> QED BY <1>1, <1>2, <2>1 DEF FrameLife
<1>5. fate \in [Nodes -> Fates]
  BY DEF CloseInv, HandlersInv, Shapes
<1>6. \A y \in Nodes : fate'[y] = IF y = x THEN "called" ELSE fate[y]
  BY <1>2, <1>4, <1>5
<1>7. \A c \in Contexts : Born(c)' <=> Born(c)
  BY <1>4, <1>6 DEF Born, Nodes
<1>8. BornStay
  BY <1>7 DEF BornStay
<1>9. PICK f : /\ f \in FrameSet /\ f.pc \in {"child.anchor", "handler"} /\ f.c \in Contexts /\ Born(f.c)
               /\ Enter(t, "close.pop", f)
  <2>1. CASE x \in Contexts
    <3>1. PICK f : f = Frame("child.anchor", x, None, FALSE)
      OBVIOUS
    <3>2. f \in FrameSet /\ f.pc = "child.anchor" /\ f.c = x
      BY <2>1, <3>1 DEF Frame, FrameSet, Pcs, Arguments
    <3>3. Born(x)
      BY <1>4 DEF Born
    <3>4. Enter(t, "close.pop", f)
      BY <1>2, <2>1, <3>1
    <3> QED BY <2>1, <3>2, <3>3, <3>4
  <2>2. CASE x \notin Contexts
    <3>1. PICK f : f = Frame("handler", h.c, x, FALSE)
      OBVIOUS
    <3>2. f \in FrameSet /\ f.pc = "handler" /\ f.c = h.c
      BY <1>3, <3>1 DEF Frame, FrameSet, Pcs
    <3>3. Enter(t, "close.pop", f)
      BY <1>2, <2>2, <3>1
    <3> QED BY <1>3, <3>2, <3>3
  <2> QED BY <2>1, <2>2
<1>10. PICK g : CallsUp(s, r, f, g) /\ g.c = h.c /\ g.pc = "close.pop"
  <2>1. \E g \in FrameSet : /\ CallsUp(s, r, f, g) /\ g.pc = "close.pop" /\ g.c = Top(t).c /\ g.x = Top(t).x
                            /\ g.ref = Top(t).ref
    <3>1. s = TopSpot(t) /\ r = <<t, Len(stack[t]) + 1>> /\ stack[t] # <<>>
      BY <1>1, <1>2
    <3>2. "close.pop" \in Pcs /\ f \in FrameSet /\ Enter(t, "close.pop", f)
      BY <1>3, <1>9
    <3> QED BY <3>1, <3>2, EnterSpots
  <2> QED BY <1>1, <2>1
<1>11. PICK F : F = {g, f}
  OBVIOUS
<1>12. NewFrames(F)
  BY <1>10, <1>11, NewFramesAre
<1>13. \A k \in F : k.c \in Contexts /\ Born(k.c)' /\ (k.pc = "child.add" => ~Born(k.x)')
  <2>1. ASSUME NEW k \in F PROVE k.c \in Contexts /\ Born(k.c) /\ k.pc # "child.add"
    BY <1>3, <1>9, <1>10, <1>11, <2>1
  <2> QED BY <1>7, <2>1
<1>14. ASSUME NEW n \in DOMAIN queue' PROVE Born(queue[n].ctx)'
  <2>1. PICK d : d = queue'[n].ctx
    OBVIOUS
  <2>2. d \in Contexts /\ Born(d)
    BY <1>2, <2>1, QueueKnown
  <2>3. Born(d)'
    BY <1>7, <2>2
  <2> QED BY <2>1, <2>3 DEF Born
<1>15. \A c \in owned' : c \in Contexts /\ Born(c)' /\ ~Some(MakingFrames(c))
  BY <1>2, <1>7 DEF Known
<1>16. \A c \in Contexts : Born(c)' /\ Parent[c] # None => Born(Parent[c])'
  BY <1>7, DepthIs DEF Known
<1>17. \A y \in Nodes : fate'[y] # "called twice"
  BY <1>6 DEF Known
<1> QED BY <1>8, <1>12, <1>13, <1>14, <1>15, <1>16, <1>17, KnownGiven

LEMMA MadeKnown ==
  ASSUME Known, LifeInv, CloseInv, NEW t \in AllThreads, ChildMade(t)
  PROVE  Known'
<1>1. PICK h, s, x, made : h = Top(t) /\ s = TopSpot(t) /\ x = h.x /\ made = (fate[x] # "refused")
  OBVIOUS
<1>2. /\ stack[t] # <<>> /\ queue' = queue /\ h.pc = "child.add" /\ Return(t) /\ fate' = fate
      /\ owned' = IF made THEN owned \cup {x} ELSE owned
  BY <1>1 DEF ChildMade, At, exec, history
<1>3. h \in FrameSet /\ h = Fr(s) /\ s \in Spots /\ h.c \in Contexts /\ TopLife(h)
  BY <1>1, <1>2, TopLifeIs
<1>4. x \in Contexts
  BY <1>1, <1>2, <1>3, MakersAdd
<1>5. Leaves(s)
  BY <1>1, <1>2, ReturnSpots
<1>6. \A c : Born(c)' = Born(c)
  BY <1>2 DEF Born
<1>7. ASSUME NEW q \in Spots' PROVE q \in Spots /\ q # s /\ Fr(q)' = Fr(q)
  BY <1>5 DEF Leaves, Given
<1>8. \A q \in Spots' : Born(Fr(q).c)'
  <2>1. SUFFICES ASSUME NEW q \in Spots' PROVE Born(Fr(q).c)'
    OBVIOUS
  <2>2. PICK d : d = Fr(q).c
    OBVIOUS
  <2>3. Fr(q)' = Fr(q) /\ Born(d)
    BY <1>7, <2>2 DEF Known
  <2>4. Born(d)'
    BY <1>6, <2>3
  <2> QED BY <2>2, <2>3, <2>4 DEF Born
<1>9. ASSUME NEW c, Some(MakingFrames(c))' PROVE Some(MakingFrames(c)) /\ c # x
  <2>1. PICK M : M = MakingFrames(c)
    OBVIOUS
  <2>2. MakingFrames(c)' = M
    BY <2>1 DEF MakingFrames
  <2>3. PICK q \in Spots' : Fr(q)' \in M
    BY <1>9, <2>2 DEF Some
  <2>4. q \in Spots /\ q # s /\ Fr(q) \in M
    BY <1>7, <2>3
  <2>5. Fr(q).x = c /\ Fr(q).pc = "child.add"
    BY <2>1, <2>4 DEF MakingFrames
  <2>6. c # x
    <3>1. SUFFICES ASSUME c = x PROVE FALSE
      OBVIOUS
    <3>2. Fr(q).x = x /\ Fr(s).x = x /\ Fr(s).pc = "child.add"
      BY <1>1, <1>2, <1>3, <2>5, <3>1
    <3> QED BY <1>3, <2>4, <2>5, <3>2, OneMaker
  <2> QED BY <2>1, <2>4, <2>6 DEF Some
<1>10. made => Born(x)
  BY <1>1, <1>2, <1>3 DEF TopLife
<1>11. \A c \in owned' : c \in Contexts /\ Born(c)' /\ ~Some(MakingFrames(c))'
  <2>1. ASSUME NEW c \in owned' PROVE c \in Contexts /\ Born(c) /\ ~Some(MakingFrames(c))'
    <3>1. CASE c \in owned
      BY <1>9, <3>1 DEF Known
    <3>2. CASE c = x /\ made
      BY <1>4, <1>9, <1>10, <3>2
    <3> QED BY <1>2, <2>1, <3>1, <3>2
  <2> QED BY <1>6, <2>1
<1>12. \A n \in DOMAIN queue' : Born(queue[n].ctx)'
  <2>1. SUFFICES ASSUME NEW n \in DOMAIN queue' PROVE Born(queue[n].ctx)'
    OBVIOUS
  <2> QED BY <1>2 DEF Known, Born
<1>13. \A c \in Contexts : Born(c)' /\ Parent[c] # None => Born(Parent[c])'
  BY <1>6 DEF Known
<1>14. \A y \in Nodes : fate'[y] # "called twice"
  BY <1>2 DEF Known
<1> QED BY <1>8, <1>11, <1>12, <1>13, <1>14 DEF Known

LEMMA KnownStutter == ASSUME Known, UNCHANGED vars PROVE Known'
<1>1. stack' = stack /\ queue' = queue /\ owned' = owned /\ fate' = fate
  BY DEF vars, history, exec, clients
<1>2. Spots' = Spots
  BY <1>1 DEF Spots
<1>3. \A q : Fr(q)' = Fr(q)
  BY <1>1 DEF Fr, FrameAt
<1>4. \A c : Born(c)' = Born(c)
  BY <1>1 DEF Born
<1>5. \A F : Some(F)' = Some(F)
  BY <1>2, <1>3 DEF Some
<1>6. \A c : Some(MakingFrames(c))' = Some(MakingFrames(c))
  <2>1. ASSUME NEW c PROVE Some(MakingFrames(c))' = Some(MakingFrames(c))
    <3>1. PICK F : F = MakingFrames(c)
      OBVIOUS
    <3>2. MakingFrames(c)' = F
      BY <3>1 DEF MakingFrames
    <3> QED BY <1>2, <1>3, <3>1, <3>2 DEF Some
  <2> QED BY <2>1
<1>7. \A q \in Spots' : Born(Fr(q).c)'
  BY <1>1, <1>2, <1>3 DEF Known, Born
<1>8. \A n \in DOMAIN queue' : Born(queue[n].ctx)'
  BY <1>1 DEF Known, Born
<1> QED BY <1>1, <1>4, <1>6, <1>7, <1>8 DEF Known

LEMMA KnownInit == ASSUME Init PROVE Known
<1>1. Spots = {}
  <2>1. \A t \in AllThreads : Len(stack[t]) = 0
    BY DEF Init
  <2> QED BY <2>1 DEF Spots
<1>2. program \in Programs /\ queue = <<>> /\ owned = Initial[program]
      /\ fate = [h \in Nodes |-> IF h \in Initial[program] THEN "added" ELSE "new"]
  BY DEF Init
<1>3. Initial[program] \subseteq Contexts
      /\ \A c \in Initial[program] : Parent[c] # None => Parent[c] \in Initial[program]
  BY <1>2, ProgramsAssumption, ChildrenAssumption
<1>4. \A c \in Contexts : Born(c) <=> c \in Initial[program]
  BY <1>2 DEF Born, Nodes
<1>5. \A F : ~Some(F)
  BY <1>1 DEF Some
<1> QED BY <1>1, <1>2, <1>3, <1>4, <1>5, DepthIs DEF Known

LEMMA KnownKeeps == ASSUME RefsOK, Known, LifeInv, CloseInv, [Next]_vars PROVE Known'
<1>1. CASE \E t \in AllThreads, k \in Calls[program] : Issue(t, k)
  BY <1>1, IssueKnown
<1>2. ASSUME NEW t \in AllThreads, Step(t) PROVE Known'
  <2>1. CASE ExecStep(t)
    BY <2>1, GotosKnown, ReturnsKnown, PostKnown, EntersKnown, InlineKnown DEF ExecStep
  <2>2. CASE HandlerStep(t)
    BY <2>2, GotosKnown, ReturnsKnown, UndoKnown, InsertKnown, ConstructKnown, MadeKnown, EntersKnown, RemoveKnown
       DEF HandlerStep
  <2>3. CASE CloseStep(t)
    BY <2>3, GotosKnown, ReturnsKnown, ReframesKnown, CallKnown, EntersKnown, ResetKnown DEF CloseStep
  <2> QED BY <1>2, <2>1, <2>2, <2>3 DEF Step
<1>3. CASE TakeClosure
  BY <1>3, TakeKnown
<1>4. CASE UNCHANGED vars
  BY <1>4, KnownStutter
<1> QED BY <1>1, <1>2, <1>3, <1>4 DEF Next, Quiescent

-----------------------------------------------------------------------------
\* The types of the state.
HoldersTyped == holder \in [Contexts -> BOOLEAN] /\ issued \subseteq Calls[program]

LEMMA HoldersKeep == ASSUME HoldersTyped, [Next]_vars PROVE HoldersTyped'
<1> USE DEF HoldersTyped
<1>1. holder' = holder /\ issued' = issued /\ program' = program => HoldersTyped'
  OBVIOUS
<1>2. ASSUME NEW t \in AllThreads, NEW k \in Calls[program], Issue(t, k) PROVE HoldersTyped'
  BY <1>2 DEF Issue, exec
<1>3. ASSUME NEW t \in AllThreads, ExecStep(t) PROVE holder' = holder /\ issued' = issued /\ program' = program
  BY <1>3 DEF ExecStep, BlockClose, UndoBlock, Post, PostInline, InlineReturns, Unblock, RunBlock, RunUndo,
              RunDrop, WorkReturns, exec, clients
<1>4. ASSUME NEW t \in AllThreads, HandlerStep(t) PROVE HoldersTyped'
  <2>1. ASSUME ConstructChild(t) PROVE HoldersTyped'
    <3>1. holder' = [holder EXCEPT ![Top(t).x] = TRUE] /\ issued' = issued /\ program' = program
      BY <2>1 DEF ConstructChild, clients
    <3> QED BY <3>1
  <2>2. ASSUME ~ConstructChild(t) PROVE holder' = holder /\ issued' = issued /\ program' = program
    BY <1>4, <2>2 DEF HandlerStep, BlockClose, UndoBlock, Insert, ChildMade, StartSucceeds, StartThrows, Unblock,
                      RemoveCloseHandler, RemoveWait, exec, clients
  <2> QED BY <1>1, <2>1, <2>2
<1>5. ASSUME NEW t \in AllThreads, CloseStep(t) PROVE HoldersTyped'
  <2>1. ASSUME ResetExecutor(t) PROVE HoldersTyped'
    <3>1. holder' = [holder EXCEPT ![Top(t).c] = FALSE] /\ issued' = issued /\ program' = program
      BY <2>1 DEF ResetExecutor, clients
    <3> QED BY <3>1
  <2>2. ASSUME ~ResetExecutor(t) PROVE holder' = holder /\ issued' = issued /\ program' = program
    BY <1>5, <2>2 DEF CloseStep, StartClose, WaitForClosing, SetClosingFlag, PopHandler, CallHandler, HandlerReturns,
                      Anchor, CloseChild, ReleaseAnchor, LeaveParent, SetClosedFlag, CloseReturns, WaitForClosed,
                      ReleaseOwner, exec, clients
  <2> QED BY <1>1, <2>1, <2>2
<1>6. ASSUME TakeClosure \/ UNCHANGED vars PROVE holder' = holder /\ issued' = issued /\ program' = program
  BY <1>6 DEF TakeClosure, vars, exec, clients
<1> QED BY <1>1, <1>2, <1>3, <1>4, <1>5, <1>6 DEF Next, Step, Quiescent

LEMMA HoldersInit == ASSUME Init PROVE HoldersTyped
BY DEF Init, HoldersTyped

LEMMA ListsInjective ==
  ASSUME CloseInv, LifeInv, NEW c \in Contexts
  PROVE  list[c] \in Seq(Nodes) /\ IsInjective(list[c])
<1>1. PICK l : l = list[c]
  OBVIOUS
<1>2. l \in Seq(Nodes) /\ Once(l)
  BY <1>1 DEF CloseInv, HandlersInv, Shapes, HandlersOK
<1>3. ASSUME NEW i \in DOMAIN l, NEW j \in DOMAIN l, l[i] = l[j] PROVE i = j
  <2>1. l[i] \in Nodes
    BY <1>2, <1>3
  <2>2. CASE l[i] \in Handlers
    BY <1>2, <1>3, <2>2 DEF Once
  <2>3. CASE l[i] \in Contexts
    BY <1>1, <1>3, <2>3 DEF LifeInv, ListLives
  <2> QED BY <2>1, <2>2, <2>3 DEF Nodes
<1> QED BY <1>1, <1>2, <1>3 DEF IsInjective

LEMMA TypesHold ==
  ASSUME CloseInv, LifeInv, RefsOK, Known, HoldersTyped
  PROVE  TypeOK
<1>1. /\ flags \in [Contexts -> SUBSET Flags] /\ {hasPtr, destroyed, done} \subseteq [Nodes -> BOOLEAN]
      /\ closer \in [Contexts -> AllThreads \cup {None}] /\ gone \in [Handlers -> {"no", "asked", "yes"}]
      /\ program \in Programs /\ fate \in [Nodes -> Fates]
  BY DEF CloseInv, HandlersInv, Shapes
<1>2. refs \in [Contexts -> Nat] /\ blocks \in [Contexts -> Nat]
  BY DEF RefsOK, CloseInv, BlocksOK
<1>3. \A c \in Contexts : list[c] \in Seq(Nodes) /\ IsInjective(list[c])
  BY ListsInjective
<1>4. \A i \in DOMAIN queue : queue[i].ctx \in Contexts /\ queue[i].work \in Works
  BY QueueKnown DEF CloseInv, WorksKnown
<1>5. fate \in [Nodes -> {"new", "adding", "added", "refused", "called"}]
  BY <1>1 DEF Known, Fates
<1>6. owned \subseteq Contexts
  BY DEF Known
<1> QED BY <1>1, <1>2, <1>3, <1>4, <1>5, <1>6 DEF TypeOK, HoldersTyped

\* The counter of a context is the number of those who hold a reference to it: the
\* calls in it, the anchors of the calls that use or close it, the makeChild that has
\* not handed it out, the closures that wait in the executor, and its owner.
THEOREM ReferencesAreCounted ==
  ASSUME \A g \in Programs : ClosesFromThreads(g)
  PROVE  Spec => [](RefsOK /\ Known)
<1>1. Init => RefsOK /\ Known
  BY RefsInit, KnownInit
<1>2. RefsOK /\ Known /\ (CloseInv /\ LifeInv) /\ [Next]_vars => RefsOK' /\ Known'
  BY RefsKeep, KnownKeeps
<1> QED BY <1>1, <1>2, ContextsLive, PTL DEF Spec

THEOREM StateIsTyped ==
  ASSUME \A g \in Programs : ClosesFromThreads(g)
  PROVE  Spec => []TypeOK
<1>1. Init => HoldersTyped
  BY HoldersInit
<1>2. HoldersTyped /\ [Next]_vars => HoldersTyped'
  BY HoldersKeep
<1>3. (CloseInv /\ LifeInv) /\ (RefsOK /\ Known) /\ HoldersTyped => TypeOK
  BY TypesHold
<1> QED BY <1>1, <1>2, <1>3, ContextsLive, ReferencesAreCounted, PTL DEF Spec

\* What close promises to those who wait for it: nobody else is inside, every handler
\* was called, and the children went first.
THEOREM ClosesAreComplete ==
  ASSUME \A g \in Programs : ClosesFromThreads(g)
  PROVE  Spec => []CloseIsComplete
<1>1. \A g \in Programs : ClosesAlone(g)
  BY ThreadsAssumption DEF ClosesFromThreads, ClosesAlone
<1>2. /\ Spec => []ClosingExcludesOthers
      /\ Spec => []NoHandlerForgotten
  BY <1>1, ClosingExcludes, HandlersAreNotForgotten
<1>3. Spec => []ClosedParentHasClosedChildren
  BY ChildrenCloseFirst
<1>4. Spec => []TypeOK
  BY StateIsTyped
<1>5. TypeOK /\ ClosingExcludesOthers /\ NoHandlerForgotten /\ ClosedParentHasClosedChildren => CloseIsComplete
  BY DEF CloseIsComplete
<1> QED BY <1>2, <1>3, <1>4, <1>5, PTL

-----------------------------------------------------------------------------
\* What is there of a context, as long as somebody may use it.

\* The frames about the context c.
Closed(c)  == "Closed" \in flags[c]
Making(c)  == Some(MakingFrames(c))
Dying(c)   == Some(OnC(c, {"destroy"}))
Late(c)    == Some(OnC(c, LatePcs))
Ending(c)  == Some(OnC(c, {"close.closed", "close.release"}))
Taken(c)   == Some(AboutX(c, RemovePcs))
Popping(c) == Some(AboutX(c, {"close.pop"}))
Calling(c) == Some(AboutX(c, {"close.call"}))
Touched(c) == Some(OnC(c, {"child.anchor", "child.done"}))
InLists(c) == \E d \in Contexts : c \in ToSet(list[d])

\* The close of the parent has still to touch the child c.
Pending(c) == InLists(c) \/ Calling(c) \/ Touched(c)

\* A context has an owner, or a makeChild that will hand it out, until it is closed; its
\* executor until its close ends; and it does not leave a parent that has still to touch it.
UseOK(c) ==
  /\ Closed(c) => Born(c)
  /\ Born(c) => c \in owned \/ Making(c) \/ Dying(c) \/ Closed(c)
  /\ (Born(c) \/ Making(c)) /\ ~holder[c] => Closed(c) \/ Ending(c)
  /\ Popping(c) => destroyed[c] \/ Touched(c)
  /\ done[c] => fate[c] = "called" /\ ~Touched(c)
  /\ Pending(c) => ~Closed(c) /\ (Late(c) => Taken(c))
UseInv == \A c \in Contexts : UseOK(c)

\* The frames G come for the frames H.
Shift(H, G) ==
  \A F : /\ Some(F)' => Some(F) \/ \E g \in G : g \in F
         /\ Some(F) => Some(F)' \/ \E h \in H : h \in F
         /\ (\E g \in G : g \in F) => Some(F)'
         /\ (\E h \in H : h \in F) => Some(F)

LEMMA ShiftGiven ==
  ASSUME NEW K, NEW N, Given(K, N), NEW H, NEW G,
         \A q \in Spots \ K : Fr(q) \in H, \A q \in N : Fr(q)' \in G,
         \A h \in H : \E q \in Spots : Fr(q) = h, \A g \in G : \E q \in N : Fr(q)' = g
  PROVE  Shift(H, G)
<1>1. K \subseteq Spots /\ Spots' = K \cup N /\ \A q \in K : Fr(q)' = Fr(q)
  BY DEF Given
<1>2. SUFFICES ASSUME NEW F PROVE /\ Some(F)' => Some(F) \/ \E g \in G : g \in F
                                  /\ Some(F) => Some(F)' \/ \E h \in H : h \in F
                                  /\ (\E g \in G : g \in F) => Some(F)'
                                  /\ (\E h \in H : h \in F) => Some(F)
  BY DEF Shift
<1>3. ASSUME NEW q \in Spots', Fr(q)' \in F PROVE Some(F) \/ \E g \in G : g \in F
  BY <1>1, <1>3 DEF Some
<1>4. ASSUME NEW q \in Spots, Fr(q) \in F PROVE Some(F)' \/ \E h \in H : h \in F
  <2>1. CASE q \in K
    <3>1. q \in Spots' /\ Fr(q)' \in F
      BY <1>1, <1>4, <2>1
    <3> QED BY <3>1 DEF Some
  <2> QED BY <1>4, <2>1
<1>5. ASSUME NEW g \in G, g \in F PROVE Some(F)'
  <2>1. PICK q \in N : Fr(q)' = g
    OBVIOUS
  <2>2. q \in Spots' /\ Fr(q)' \in F
    BY <1>1, <1>5, <2>1
  <2> QED BY <2>2 DEF Some
<1>6. ASSUME NEW h \in H, h \in F PROVE Some(F)
  BY <1>6 DEF Some
<1> QED BY <1>3, <1>4, <1>5, <1>6 DEF Some

LEMMA ShiftsAre ==
  ASSUME NEW s, NEW r, NEW g, NEW h
  PROVE  /\ TurnsTo(s, g) => Shift({Fr(s)}, {g})
         /\ Leaves(s) => Shift({Fr(s)}, {})
         /\ CallsUp(s, r, h, g) => Shift({Fr(s)}, {g, h})
         /\ Pushes(r, h) => Shift({}, {h})
         /\ PushesTwo(s, r, h, g) => Shift({}, {g, h})
         /\ LeavesTo(r, s, g) => Shift({Fr(r), Fr(s)}, {g})
<1>1. ASSUME TurnsTo(s, g) PROVE Shift({Fr(s)}, {g})
  <2>1. PICK K, N, H, G : K = Spots \ {s} /\ N = {s} /\ H = {Fr(s)} /\ G = {g}
    OBVIOUS
  <2>2. s \in Spots /\ Given(K, N) /\ Fr(s)' = g
    BY <1>1, <2>1 DEF TurnsTo
  <2>3. Shift(H, G)
    BY <2>1, <2>2, ShiftGiven
  <2> QED BY <2>1, <2>3
<1>2. ASSUME Leaves(s) PROVE Shift({Fr(s)}, {})
  <2>1. PICK K, N, H, G : K = Spots \ {s} /\ N = {} /\ H = {Fr(s)} /\ G = {}
    OBVIOUS
  <2>2. s \in Spots /\ Given(K, N)
    BY <1>2, <2>1 DEF Leaves
  <2>3. Shift(H, G)
    BY <2>1, <2>2, ShiftGiven
  <2> QED BY <2>1, <2>3
<1>3. ASSUME CallsUp(s, r, h, g) PROVE Shift({Fr(s)}, {g, h})
  <2>1. PICK K, N, H, G : K = Spots \ {s} /\ N = {s, r} /\ H = {Fr(s)} /\ G = {g, h}
    OBVIOUS
  <2>2. s \in Spots /\ Given(K, N) /\ Fr(s)' = g /\ Fr(r)' = h
    BY <1>3, <2>1 DEF CallsUp
  <2>3. Shift(H, G)
    BY <2>1, <2>2, ShiftGiven
  <2> QED BY <2>1, <2>3
<1>4. ASSUME Pushes(r, h) PROVE Shift({}, {h})
  <2>1. PICK K, N, H, G : K = Spots /\ N = {r} /\ H = {} /\ G = {h}
    OBVIOUS
  <2>2. Given(K, N) /\ Fr(r)' = h
    BY <1>4, <2>1 DEF Pushes
  <2>3. Shift(H, G)
    BY <2>1, <2>2, ShiftGiven
  <2> QED BY <2>1, <2>3
<1>5. ASSUME PushesTwo(s, r, h, g) PROVE Shift({}, {g, h})
  <2>1. PICK K, N, H, G : K = Spots /\ N = {s, r} /\ H = {} /\ G = {g, h}
    OBVIOUS
  <2>2. Given(K, N) /\ Fr(s)' = g /\ Fr(r)' = h
    BY <1>5, <2>1 DEF PushesTwo
  <2>3. Shift(H, G)
    BY <2>1, <2>2, ShiftGiven
  <2> QED BY <2>1, <2>3
<1>6. ASSUME LeavesTo(r, s, g) PROVE Shift({Fr(r), Fr(s)}, {g})
  <2>1. PICK K, N, H, G : K = Spots \ {s, r} /\ N = {s} /\ H = {Fr(r), Fr(s)} /\ G = {g}
    OBVIOUS
  <2>2. s \in Spots /\ r \in Spots /\ Given(K, N) /\ Fr(s)' = g
    BY <1>6, <2>1 DEF LeavesTo
  <2>3. Shift(H, G)
    BY <2>1, <2>2, ShiftGiven
  <2> QED BY <2>1, <2>3
<1> QED BY <1>1, <1>2, <1>3, <1>4, <1>5, <1>6

\* The frames of one kind, before and after: some have gone, some are new.
Follows(now, next, past, new) == /\ next => now \/ new
                                 /\ now => next \/ past
                                 /\ new => next
                                 /\ past => now
OneOnC(F, c, P)    == \E f \in F : f.c = c /\ f.pc \in P
OneAboutX(F, x, P) == \E f \in F : f.x = x /\ f.pc \in P

LEMMA OnCFollows ==
  ASSUME NEW H, H \subseteq FrameSet, NEW G, G \subseteq FrameSet, Shift(H, G), NEW c, NEW P, NEW F, F = OnC(c, P)
  PROVE  Follows(Some(F), Some(F)', OneOnC(H, c, P), OneOnC(G, c, P))
<1>1. /\ Some(F)' => Some(F) \/ \E g \in G : g \in F
      /\ Some(F) => Some(F)' \/ \E h \in H : h \in F
      /\ (\E g \in G : g \in F) => Some(F)'
      /\ (\E h \in H : h \in F) => Some(F)
  BY DEF Shift
<1>2. /\ (\E g \in G : g \in F) <=> OneOnC(G, c, P)
      /\ (\E h \in H : h \in F) <=> OneOnC(H, c, P)
  BY DEF OnC, OneOnC
<1> QED BY <1>1, <1>2 DEF Follows

LEMMA AboutXFollows ==
  ASSUME NEW H, H \subseteq FrameSet, NEW G, G \subseteq FrameSet, Shift(H, G), NEW x, NEW P, NEW F, F = AboutX(x, P)
  PROVE  Follows(Some(F), Some(F)', OneAboutX(H, x, P), OneAboutX(G, x, P))
<1>1. /\ Some(F)' => Some(F) \/ \E g \in G : g \in F
      /\ Some(F) => Some(F)' \/ \E h \in H : h \in F
      /\ (\E g \in G : g \in F) => Some(F)'
      /\ (\E h \in H : h \in F) => Some(F)
  BY DEF Shift
<1>2. /\ (\E g \in G : g \in F) <=> OneAboutX(G, x, P)
      /\ (\E h \in H : h \in F) <=> OneAboutX(H, x, P)
  BY DEF AboutX, OneAboutX
<1> QED BY <1>1, <1>2 DEF Follows

LEMMA KindsFollow ==
  ASSUME NEW H, H \subseteq FrameSet, NEW G, G \subseteq FrameSet, Shift(H, G), NEW c
  PROVE  /\ Follows(Making(c), Making(c)', OneAboutX(H, c, {"child.add"}), OneAboutX(G, c, {"child.add"}))
         /\ Follows(Dying(c), Dying(c)', OneOnC(H, c, {"destroy"}), OneOnC(G, c, {"destroy"}))
         /\ Follows(Late(c), Late(c)', OneOnC(H, c, LatePcs), OneOnC(G, c, LatePcs))
         /\ Follows(Ending(c), Ending(c)', OneOnC(H, c, {"close.closed", "close.release"}),
                                           OneOnC(G, c, {"close.closed", "close.release"}))
         /\ Follows(Taken(c), Taken(c)', OneAboutX(H, c, RemovePcs), OneAboutX(G, c, RemovePcs))
         /\ Follows(Popping(c), Popping(c)', OneAboutX(H, c, {"close.pop"}), OneAboutX(G, c, {"close.pop"}))
         /\ Follows(Calling(c), Calling(c)', OneAboutX(H, c, {"close.call"}), OneAboutX(G, c, {"close.call"}))
         /\ Follows(Touched(c), Touched(c)', OneOnC(H, c, {"child.anchor", "child.done"}),
                                             OneOnC(G, c, {"child.anchor", "child.done"}))
<1>1. Follows(Making(c), Making(c)', OneAboutX(H, c, {"child.add"}), OneAboutX(G, c, {"child.add"}))
  <2>1. PICK P, F : P = {"child.add"} /\ F = AboutX(c, P)
    OBVIOUS
  <2>2. F = MakingFrames(c) /\ F = (MakingFrames(c))'
    BY <2>1 DEF MakingFrames, AboutX
  <2>3. Follows(Some(F), Some(F)', OneAboutX(H, c, P), OneAboutX(G, c, P))
    BY <2>1, AboutXFollows
  <2>4. Making(c) = Some(F)
    BY <2>2 DEF Making
  <2>5. Making(c)' = Some(F)'
    BY <2>2 DEF Making, Some
  <2> QED BY <2>1, <2>3, <2>4, <2>5
<1>2. Follows(Dying(c), Dying(c)', OneOnC(H, c, {"destroy"}), OneOnC(G, c, {"destroy"}))
  <2>1. PICK P, F : P = {"destroy"} /\ F = OnC(c, P)
    OBVIOUS
  <2>2. F = OnC(c, {"destroy"}) /\ F = (OnC(c, {"destroy"}))'
    BY <2>1 DEF OnC
  <2>3. Follows(Some(F), Some(F)', OneOnC(H, c, P), OneOnC(G, c, P))
    BY <2>1, OnCFollows
  <2>4. Dying(c) = Some(F)
    BY <2>2 DEF Dying
  <2>5. Dying(c)' = Some(F)'
    BY <2>2 DEF Dying, Some
  <2> QED BY <2>1, <2>3, <2>4, <2>5
<1>3. Follows(Late(c), Late(c)', OneOnC(H, c, LatePcs), OneOnC(G, c, LatePcs))
  <2>1. PICK P, F : P = LatePcs /\ F = OnC(c, P)
    OBVIOUS
  <2>2. F = OnC(c, LatePcs) /\ F = (OnC(c, LatePcs))'
    BY <2>1 DEF OnC, LatePcs
  <2>3. Follows(Some(F), Some(F)', OneOnC(H, c, P), OneOnC(G, c, P))
    BY <2>1, OnCFollows
  <2>4. Late(c) = Some(F)
    BY <2>2 DEF Late
  <2>5. Late(c)' = Some(F)'
    BY <2>2 DEF Late, Some
  <2> QED BY <2>1, <2>3, <2>4, <2>5
<1>4. Follows(Ending(c), Ending(c)', OneOnC(H, c, {"close.closed", "close.release"}), OneOnC(G, c, {"close.closed", "close.release"}))
  <2>1. PICK P, F : P = {"close.closed", "close.release"} /\ F = OnC(c, P)
    OBVIOUS
  <2>2. F = OnC(c, {"close.closed", "close.release"}) /\ F = (OnC(c, {"close.closed", "close.release"}))'
    BY <2>1 DEF OnC
  <2>3. Follows(Some(F), Some(F)', OneOnC(H, c, P), OneOnC(G, c, P))
    BY <2>1, OnCFollows
  <2>4. Ending(c) = Some(F)
    BY <2>2 DEF Ending
  <2>5. Ending(c)' = Some(F)'
    BY <2>2 DEF Ending, Some
  <2> QED BY <2>1, <2>3, <2>4, <2>5
<1>5. Follows(Taken(c), Taken(c)', OneAboutX(H, c, RemovePcs), OneAboutX(G, c, RemovePcs))
  <2>1. PICK P, F : P = RemovePcs /\ F = AboutX(c, P)
    OBVIOUS
  <2>2. F = AboutX(c, RemovePcs) /\ F = (AboutX(c, RemovePcs))'
    BY <2>1 DEF AboutX, RemovePcs
  <2>3. Follows(Some(F), Some(F)', OneAboutX(H, c, P), OneAboutX(G, c, P))
    BY <2>1, AboutXFollows
  <2>4. Taken(c) = Some(F)
    BY <2>2 DEF Taken
  <2>5. Taken(c)' = Some(F)'
    BY <2>2 DEF Taken, Some
  <2> QED BY <2>1, <2>3, <2>4, <2>5
<1>6. Follows(Popping(c), Popping(c)', OneAboutX(H, c, {"close.pop"}), OneAboutX(G, c, {"close.pop"}))
  <2>1. PICK P, F : P = {"close.pop"} /\ F = AboutX(c, P)
    OBVIOUS
  <2>2. F = AboutX(c, {"close.pop"}) /\ F = (AboutX(c, {"close.pop"}))'
    BY <2>1 DEF AboutX
  <2>3. Follows(Some(F), Some(F)', OneAboutX(H, c, P), OneAboutX(G, c, P))
    BY <2>1, AboutXFollows
  <2>4. Popping(c) = Some(F)
    BY <2>2 DEF Popping
  <2>5. Popping(c)' = Some(F)'
    BY <2>2 DEF Popping, Some
  <2> QED BY <2>1, <2>3, <2>4, <2>5
<1>7. Follows(Calling(c), Calling(c)', OneAboutX(H, c, {"close.call"}), OneAboutX(G, c, {"close.call"}))
  <2>1. PICK P, F : P = {"close.call"} /\ F = AboutX(c, P)
    OBVIOUS
  <2>2. F = AboutX(c, {"close.call"}) /\ F = (AboutX(c, {"close.call"}))'
    BY <2>1 DEF AboutX
  <2>3. Follows(Some(F), Some(F)', OneAboutX(H, c, P), OneAboutX(G, c, P))
    BY <2>1, AboutXFollows
  <2>4. Calling(c) = Some(F)
    BY <2>2 DEF Calling
  <2>5. Calling(c)' = Some(F)'
    BY <2>2 DEF Calling, Some
  <2> QED BY <2>1, <2>3, <2>4, <2>5
<1>8. Follows(Touched(c), Touched(c)', OneOnC(H, c, {"child.anchor", "child.done"}), OneOnC(G, c, {"child.anchor", "child.done"}))
  <2>1. PICK P, F : P = {"child.anchor", "child.done"} /\ F = OnC(c, P)
    OBVIOUS
  <2>2. F = OnC(c, {"child.anchor", "child.done"}) /\ F = (OnC(c, {"child.anchor", "child.done"}))'
    BY <2>1 DEF OnC
  <2>3. Follows(Some(F), Some(F)', OneOnC(H, c, P), OneOnC(G, c, P))
    BY <2>1, OnCFollows
  <2>4. Touched(c) = Some(F)
    BY <2>2 DEF Touched
  <2>5. Touched(c)' = Some(F)'
    BY <2>2 DEF Touched, Some
  <2> QED BY <2>1, <2>3, <2>4, <2>5
<1> QED BY <1>1, <1>2, <1>3, <1>4, <1>5, <1>6, <1>7, <1>8

\* What a step leaves alone of the context c.
SameState(c) ==
  /\ Closed(c)' <=> Closed(c)
  /\ Born(c)' <=> Born(c)
  /\ fate'[c] = "called" <=> fate[c] = "called"
  /\ c \in owned' <=> c \in owned
  /\ holder'[c] = holder[c] /\ destroyed'[c] = destroyed[c] /\ done'[c] = done[c]
  /\ InLists(c)' <=> InLists(c)
SameKinds(c) ==
  /\ Making(c)' <=> Making(c)
  /\ Dying(c)' <=> Dying(c)
  /\ Late(c)' <=> Late(c)
  /\ Ending(c)' <=> Ending(c)
  /\ Taken(c)' <=> Taken(c)
  /\ Popping(c)' <=> Popping(c)
  /\ Calling(c)' <=> Calling(c)
  /\ Touched(c)' <=> Touched(c)
\* A frame that says nothing of what UseOK is about.
Clear(f, c) ==
  /\ f.c = c => f.pc \notin {"destroy", "close.reset", "close.closed", "close.release", "child.anchor", "child.done"}
  /\ f.x = c => f.pc \notin {"remove", "remove.wait", "child.add", "close.pop", "close.call"}

LEMMA ClearKinds ==
  ASSUME NEW H, H \subseteq FrameSet, NEW G, G \subseteq FrameSet, Shift(H, G), NEW c,
         \A f \in H : Clear(f, c), \A f \in G : Clear(f, c)
  PROVE  SameKinds(c)
<1>1. ASSUME NEW F, \A f \in F : Clear(f, c)
      PROVE  /\ ~OneAboutX(F, c, {"child.add"}) /\ ~OneOnC(F, c, {"destroy"}) /\ ~OneOnC(F, c, LatePcs)
             /\ ~OneOnC(F, c, {"close.closed", "close.release"}) /\ ~OneAboutX(F, c, RemovePcs)
             /\ ~OneAboutX(F, c, {"close.pop"}) /\ ~OneAboutX(F, c, {"close.call"})
             /\ ~OneOnC(F, c, {"child.anchor", "child.done"})
  BY <1>1 DEF Clear, OneAboutX, OneOnC, LatePcs, RemovePcs
<1>2. \A now, next : Follows(now, next, FALSE, FALSE) => (next <=> now)
  BY DEF Follows
<1> QED BY <1>1, KindsFollow DEF Follows, SameKinds

LEMMA UseSame ==
  ASSUME NEW c, UseOK(c), SameState(c), SameKinds(c)
  PROVE  UseOK(c)'
<1>1. Pending(c)' <=> Pending(c)
  BY DEF Pending, SameState, SameKinds
<1> QED BY <1>1 DEF UseOK, SameState, SameKinds

\* The step changes no list, flag or fate that UseOK is about.
SameUse == /\ flags' = flags /\ list' = list /\ fate' = fate /\ owned' = owned
           /\ holder' = holder /\ destroyed' = destroyed /\ done' = done
LEMMA SameUseIs == ASSUME SameUse, NEW c PROVE SameState(c)
BY DEF SameUse, SameState, Closed, Born, InLists

\* Nor do the frames that come and go say anything of it.
Bland(f) == \A c \in Contexts : Clear(f, c)
BlandPcs == Pcs \ {"destroy", "close.reset", "close.closed", "close.release", "child.anchor", "child.done",
                   "remove", "remove.wait", "child.add", "close.pop", "close.call"}
LEMMA BlandIs ==
  ASSUME NEW f \in FrameSet, \/ f.pc \in BlandPcs
                             \/ f.pc \in {"remove", "remove.wait", "close.pop", "close.call"} /\ f.x \notin Contexts
  PROVE  Bland(f)
BY DEF Bland, BlandPcs, Clear

LEMMA BlandUse ==
  ASSUME UseInv, \A c \in Contexts : SameState(c), NEW H, H \subseteq FrameSet, NEW G, G \subseteq FrameSet,
         Shift(H, G), \A f \in H \cup G : Bland(f)
  PROVE  UseInv'
<1>1. ASSUME NEW c \in Contexts PROVE UseOK(c)'
  <2>1. SameKinds(c)
    BY ClearKinds DEF Bland
  <2> QED BY <2>1, UseSame DEF UseInv
<1> QED BY <1>1 DEF UseInv

\* The calls that go on, return and call.
BlandOn(t) == /\ stack[t] # <<>> /\ Top(t).pc \in BlandPcs
              /\ \E p \in BlandPcs : Goto(t, p)
BlandBack(t) == stack[t] # <<>> /\ Return(t) /\ Bland(Top(t))

LEMMA BlandMoves ==
  ASSUME UseInv, Known, CloseInv, \A c \in Contexts : SameState(c), NEW t \in AllThreads, BlandOn(t) \/ BlandBack(t)
  PROVE  UseInv'
<1>1. PICK h, s, H : h = Top(t) /\ s = TopSpot(t) /\ H = {h}
  OBVIOUS
<1>2. stack[t] # <<>>
  BY DEF BlandOn, BlandBack
<1>3. h \in FrameSet /\ h = Fr(s) /\ H \subseteq FrameSet
  BY <1>1, <1>2, TopKnown
<1>4. CASE BlandOn(t)
  <2>1. PICK p : p \in BlandPcs /\ Goto(t, p)
    BY <1>4 DEF BlandOn
  <2>2. PICK g \in FrameSet : TurnsTo(s, g) /\ g.pc = p
    <3>1. p \in Pcs
      BY <2>1 DEF BlandPcs
    <3>2. \E g \in FrameSet : /\ TurnsTo(s, g) /\ g.pc = p /\ g.c = Top(t).c /\ g.x = Top(t).x
                              /\ g.ref = Top(t).ref
      BY <1>1, <1>2, <2>1, <3>1, GotoSpots
    <3> QED BY <3>2
  <2>3. PICK G : G = {g}
    OBVIOUS
  <2>4. Shift(H, G) /\ G \subseteq FrameSet
    BY <1>1, <1>3, <2>2, <2>3, ShiftsAre
  <2>5. \A f \in H \cup G : Bland(f)
    BY <1>1, <1>3, <1>4, <2>1, <2>2, <2>3, BlandIs DEF BlandOn
  <2> QED BY <1>3, <2>4, <2>5, BlandUse
<1>5. CASE BlandBack(t)
  <2>1. Return(t) /\ Bland(h)
    BY <1>1, <1>5 DEF BlandBack
  <2>2. Leaves(s)
    BY <1>1, <1>2, <2>1, ReturnSpots
  <2>3. PICK G : G = {}
    OBVIOUS
  <2>4. Shift(H, G) /\ G \subseteq FrameSet
    BY <1>1, <1>3, <2>2, <2>3, ShiftsAre
  <2>5. \A f \in H \cup G : Bland(f)
    BY <1>1, <2>1, <2>3
  <2> QED BY <1>3, <2>4, <2>5, BlandUse
<1> QED BY <1>4, <1>5

LEMMA BlandCalls ==
  ASSUME UseInv, Known, CloseInv, \A c \in Contexts : SameState(c), NEW t \in AllThreads, stack[t] # <<>>,
         NEW p \in Pcs, NEW f \in FrameSet, Enter(t, p, f), Top(t).pc \in BlandPcs, p \in BlandPcs, Bland(f)
  PROVE  UseInv'
<1>1. PICK h, s, H, r : h = Top(t) /\ s = TopSpot(t) /\ H = {h} /\ r = <<t, Len(stack[t]) + 1>>
  OBVIOUS
<1>2. h \in FrameSet /\ h = Fr(s) /\ H \subseteq FrameSet
  BY <1>1, TopKnown
<1>3. PICK g \in FrameSet : CallsUp(s, r, f, g) /\ g.pc = p
  <2>1. s = TopSpot(t) /\ r = <<t, Len(stack[t]) + 1>> /\ stack[t] # <<>>
    BY <1>1
  <2>2. \E g \in FrameSet : /\ CallsUp(s, r, f, g) /\ g.pc = p /\ g.c = Top(t).c /\ g.x = Top(t).x
                            /\ g.ref = Top(t).ref
    BY <2>1, EnterSpots
  <2> QED BY <2>2
<1>4. PICK G : G = {g, f}
  OBVIOUS
<1>5. Shift(H, G) /\ G \subseteq FrameSet
  BY <1>1, <1>2, <1>3, <1>4, ShiftsAre
<1>6. Bland(h) /\ Bland(g)
  BY <1>1, <1>2, <1>3, BlandIs
<1>7. \A e \in H \cup G : Bland(e)
  BY <1>1, <1>4, <1>6
<1> QED BY <1>2, <1>5, <1>7, BlandUse

LEMMA GotosUse ==
  ASSUME UseInv, Known, CloseInv, NEW t \in AllThreads,
         \/ BlockClose(t, "exec", "exec.post") \/ BlockClose(t, "add", "add.insert")
         \/ BlockClose(t, "start", "start.insert") \/ BlockClose(t, "child", "child.new")
         \/ Post(t) \/ RunBlock(t) \/ RunUndo(t) \/ StartSucceeds(t) \/ WaitForClosing(t)
  PROVE  UseInv'
<1>1. SameUse
  BY DEF BlockClose, Post, RunBlock, RunUndo, StartSucceeds, WaitForClosing, SameUse, words, nodes, exec, history, clients
<1>2. BlandOn(t)
  <2>1. \A p \in {"exec.post", "exec.undo", "add.insert", "start.insert", "child.new", "undo", "exec.unblock",
                  "work", "run.undo", "run.drop", "unblock", "close.flag", "exec", "add", "start", "child", "run",
                  "start.fn", "close.wait"} : p \in BlandPcs
    BY DEF BlandPcs, Pcs, AddPcs, KnowPcs, ChildPcs, ClosingPcs
  <2> QED BY <2>1 DEF BlockClose, Post, RunBlock, RunUndo, StartSucceeds, WaitForClosing, At, BlandOn
<1> QED BY <1>1, <1>2, SameUseIs, BlandMoves

LEMMA StartCloseUse ==
  ASSUME UseInv, Known, CloseInv, NEW t \in AllThreads, StartClose(t)
  PROVE  UseInv'
<1>1. PICK h : h = Top(t)
  OBVIOUS
<1>2. /\ stack[t] # <<>> /\ h.pc = "close" /\ list' = list /\ fate' = fate /\ owned' = owned /\ holder' = holder
      /\ destroyed' = destroyed /\ done' = done /\ flags' = [flags EXCEPT ![h.c] = @ \cup {"PreparingForClosing"}]
  BY <1>1 DEF StartClose, At, nodes, exec, history, clients
<1>3. BlandOn(t)
  <2>1. \A p \in {"close", "close.lost", "close.wait"} : p \in BlandPcs
    BY DEF BlandPcs, Pcs, ClosingPcs
  <2>2. Goto(t, "close.lost") \/ Goto(t, "close.wait")
    BY DEF StartClose
  <2> QED BY <1>1, <1>2, <2>1, <2>2 DEF BlandOn
<1>4. ASSUME NEW c \in Contexts PROVE SameState(c)
  <2>1. flags \in [Contexts -> SUBSET Flags]
    BY DEF CloseInv, HandlersInv, Shapes
  <2>2. Closed(c)' <=> Closed(c)
    BY <1>2, <2>1 DEF Closed
  <2> QED BY <1>2, <2>2 DEF SameState, Born, InLists
<1> QED BY <1>3, <1>4, BlandMoves

LEMMA ReturnsUse ==
  ASSUME UseInv, Known, CloseInv, NEW t \in AllThreads,
         \/ Unblock(t, "exec.unblock") \/ Unblock(t, "unblock") \/ WorkReturns(t) \/ RunDrop(t)
         \/ UndoBlock(t, "exec.undo") \/ HandlerReturns(t) \/ WaitForClosed(t) \/ ReleaseAnchor(t)
  PROVE  UseInv'
<1>1. SameUse
  BY DEF Unblock, WorkReturns, RunDrop, UndoBlock, HandlerReturns, WaitForClosed, ReleaseAnchor, SameUse,
         words, nodes, exec, history, clients
<1>2. stack[t] # <<>> /\ Return(t) /\ Top(t).pc \in {"exec.unblock", "unblock", "work", "run.drop", "exec.undo",
                                                      "handler", "close.lost", "child.release"}
  BY DEF Unblock, WorkReturns, RunDrop, UndoBlock, HandlerReturns, WaitForClosed, ReleaseAnchor, At
<1>3. Top(t).pc \in BlandPcs
  BY <1>2 DEF BlandPcs, Pcs
<1>4. BlandBack(t)
  BY <1>2, <1>3, TopKnown, BlandIs DEF BlandBack
<1> QED BY <1>1, <1>4, SameUseIs, BlandMoves

LEMMA UndoUse ==
  ASSUME UseInv, Known, LifeInv, CloseInv, NEW t \in AllThreads, UndoBlock(t, "undo")
  PROVE  UseInv'
<1>1. PICK h : h = Top(t)
  OBVIOUS
<1>2. /\ stack[t] # <<>> /\ h.pc = "undo" /\ Return(t) /\ fate' = [fate EXCEPT ![h.x] = "refused"]
      /\ flags' = flags /\ list' = list /\ owned' = owned
      /\ holder' = holder /\ destroyed' = destroyed /\ done' = done
  BY <1>1 DEF UndoBlock, At, nodes, exec, clients
<1>3. h.x \in Nodes /\ (h.x \in Contexts => fate[h.x] = "adding")
  <2>1. FrameOK(t, h) /\ FrameLife(h) /\ h.pc \in AddPcs /\ h.pc # "child.add"
    BY <1>1, <1>2, TopLifeIs DEF AddPcs
  <2> QED BY <2>1 DEF FrameOK, FrameLife
<1>4. ASSUME NEW c \in Contexts PROVE SameState(c)
  <2>1. fate \in [Nodes -> Fates] /\ c \in Nodes
    BY DEF CloseInv, HandlersInv, Shapes, Nodes
  <2>2. fate'[c] = IF c = h.x THEN "refused" ELSE fate[c]
    BY <1>2, <2>1
  <2> QED BY <1>2, <1>3, <2>2 DEF SameState, Closed, Born, InLists
<1>5. BlandBack(t)
  <2>1. h.pc \in BlandPcs
    BY <1>2 DEF BlandPcs, Pcs, AddPcs
  <2> QED BY <1>1, <1>2, <2>1, TopKnown, BlandIs DEF BlandBack
<1> QED BY <1>4, <1>5, BlandMoves

LEMMA EntersUse ==
  ASSUME UseInv, Known, LifeInv, CloseInv, NEW t \in AllThreads, PostInline(t) \/ StartThrows(t)
  PROVE  UseInv'
<1>1. PICK h : h = Top(t)
  OBVIOUS
<1>2. SameUse /\ stack[t] # <<>>
  BY DEF PostInline, StartThrows, At, SameUse, words, nodes, exec, clients, history
<1>3. h \in FrameSet /\ h.c \in Contexts /\ h.x \in Arguments /\ h.ref \in BOOLEAN
  BY <1>1, <1>2, TopKnown DEF FrameSet
<1>4. CASE PostInline(t)
  <2>1. PICK f : f = Frame("inline", h.c, h.x, TRUE)
    OBVIOUS
  <2>2. f \in FrameSet /\ f.pc = "inline"
    BY <1>3, <2>1 DEF Frame, FrameSet, Pcs
  <2>3. h.pc = "exec.post" /\ Enter(t, "exec.inline", f)
    BY <1>1, <1>4, <2>1 DEF PostInline, At
  <2>4. "exec.inline" \in Pcs /\ "exec.inline" \in BlandPcs /\ h.pc \in BlandPcs /\ f.pc \in BlandPcs
    BY <2>2, <2>3 DEF BlandPcs, Pcs
  <2>5. Bland(f)
    BY <2>2, <2>4, BlandIs
  <2> QED BY <1>1, <1>2, <2>2, <2>3, <2>4, <2>5, SameUseIs, BlandCalls
<1>5. CASE StartThrows(t)
  <2>1. PICK f : f = Frame("remove", h.c, h.x, FALSE)
    OBVIOUS
  <2>2. f \in FrameSet /\ f.pc = "remove" /\ f.x = h.x
    BY <1>3, <2>1 DEF Frame, FrameSet, Pcs, KnowPcs
  <2>3. h.pc = "start.fn" /\ Enter(t, "unblock", f)
    BY <1>1, <1>5, <2>1 DEF StartThrows, At
  <2>4. "unblock" \in Pcs /\ "unblock" \in BlandPcs /\ h.pc \in BlandPcs
    BY <2>3 DEF BlandPcs, Pcs, KnowPcs
  <2>5. f.x \notin Contexts
    <3>1. FrameOK(t, h) /\ h.pc \in StartPcs
      BY <1>1, <1>2, <2>3, TopLifeIs DEF StartPcs
    <3> QED BY <2>2, <3>1, TreeAssumption DEF FrameOK
  <2>6. Bland(f)
    BY <2>2, <2>5, BlandIs
  <2> QED BY <1>1, <1>2, <2>2, <2>3, <2>4, <2>6, SameUseIs, BlandCalls
<1> QED BY <1>4, <1>5

LEMMA InlineUse ==
  ASSUME UseInv, Known, LifeInv, CloseInv, NEW t \in AllThreads, InlineReturns(t)
  PROVE  UseInv'
<1>1. SameUse /\ stack[t] # <<>> /\ Top(t).pc = "inline"
  BY DEF InlineReturns, At, SameUse, nodes, exec, history, clients
<1>2. PICK r : r = TopSpot(t)
  OBVIOUS
<1>3. PICK s, g : /\ LeavesTo(r, s, g) /\ Fr(s) \in FrameSet /\ g \in FrameSet
                  /\ Fr(s).pc = "exec.inline" /\ g.pc = "exec.unblock"
  BY <1>2, InlineSpots
<1>4. PICK H, G : H = {Fr(r), Fr(s)} /\ G = {g}
  OBVIOUS
<1>5. Fr(r) \in FrameSet /\ Fr(r).pc = "inline"
  BY <1>1, <1>2, TopKnown
<1>6. Shift(H, G) /\ H \subseteq FrameSet /\ G \subseteq FrameSet
  BY <1>3, <1>4, <1>5, ShiftsAre
<1>7. \A p \in {"inline", "exec.inline", "exec.unblock"} : p \in BlandPcs
  BY DEF BlandPcs, Pcs
<1>8. Bland(Fr(r)) /\ Bland(Fr(s)) /\ Bland(g)
  BY <1>3, <1>5, <1>7, BlandIs
<1>9. \A f \in H \cup G : Bland(f)
  BY <1>4, <1>8
<1> QED BY <1>1, <1>6, <1>9, SameUseIs, BlandUse

LEMMA TakeUse ==
  ASSUME UseInv, CloseInv, TakeClosure
  PROVE  UseInv'
<1>1. SameUse
  BY DEF TakeClosure, SameUse, words, nodes, history, clients
<1>2. PICK r, f : Pushes(r, f) /\ f \in FrameSet /\ f.pc = "run"
  BY TakeSpots
<1>3. PICK H, G : H = {} /\ G = {f}
  OBVIOUS
<1>4. Shift(H, G) /\ H \subseteq FrameSet /\ G \subseteq FrameSet
  BY <1>2, <1>3, ShiftsAre
<1>5. f.pc \in BlandPcs
  BY <1>2 DEF BlandPcs, Pcs
<1>6. \A e \in H \cup G : Bland(e)
  BY <1>2, <1>3, <1>5, BlandIs
<1> QED BY <1>1, <1>4, <1>6, SameUseIs, BlandUse

LEMMA SetClosingUse ==
  ASSUME UseInv, Known, CloseInv, NEW t \in AllThreads, SetClosingFlag(t)
  PROVE  UseInv'
<1>1. PICK h, s : h = Top(t) /\ s = TopSpot(t)
  OBVIOUS
<1>2. /\ stack[t] # <<>> /\ h.pc = "close.flag" /\ list' = list /\ fate' = fate /\ owned' = owned
      /\ holder' = holder /\ destroyed' = destroyed /\ done' = done
      /\ flags' = [flags EXCEPT ![h.c] = @ \cup {"Closing"}]
  BY <1>1 DEF SetClosingFlag, At, nodes, exec, history, clients
<1>3. PICK g \in FrameSet : TurnsTo(s, g) /\ g.pc = "close.pop" /\ g.x = None
  <2>1. \E g \in FrameSet :
           /\ TurnsTo(s, g) /\ g.c = Top(t).c /\ g.ref = Top(t).ref
           /\ SetClosingFlag(t) => g.pc = "close.pop" /\ g.x = None
           /\ PopHandler(t) => /\ g.x = NextOf(t)
                               /\ g.pc = IF NextOf(t) = None THEN "close.parent" ELSE "close.call"
    BY <1>1, ReframeSpots
  <2> QED BY <2>1
<1>4. ASSUME NEW c \in Contexts PROVE SameState(c)
  <2>1. flags \in [Contexts -> SUBSET Flags]
    BY DEF CloseInv, HandlersInv, Shapes
  <2>2. Closed(c)' <=> Closed(c)
    BY <1>2, <2>1 DEF Closed
  <2> QED BY <1>2, <2>2 DEF SameState, Born, InLists
<1>5. h \in FrameSet /\ h = Fr(s)
  BY <1>1, <1>2, TopKnown
<1>6. PICK H, G : H = {h} /\ G = {g}
  OBVIOUS
<1>7. Shift(H, G) /\ H \subseteq FrameSet /\ G \subseteq FrameSet
  BY <1>3, <1>5, <1>6, ShiftsAre
<1>8. h.pc \in BlandPcs /\ None \notin Contexts
  BY <1>2, TreeAssumption DEF BlandPcs, Pcs, ClosingPcs
<1>9. Bland(h) /\ Bland(g)
  BY <1>3, <1>5, <1>8, BlandIs
<1>10. \A f \in H \cup G : Bland(f)
  BY <1>6, <1>9
<1> QED BY <1>4, <1>7, <1>10, BlandUse

\* A step that says something of the context x only.
LEMMA UseBut ==
  ASSUME UseInv, NEW x, \A c \in Contexts : c # x => SameState(c),
         NEW H, H \subseteq FrameSet, NEW G, G \subseteq FrameSet, Shift(H, G),
         \A f \in H \cup G : \A c \in Contexts : c # x => Clear(f, c),
         x \in Contexts => UseOK(x)'
  PROVE  UseInv'
<1>1. ASSUME NEW c \in Contexts, c # x PROVE UseOK(c)'
  <2>1. SameKinds(c)
    BY <1>1, ClearKinds
  <2> QED BY <1>1, <2>1, UseSame DEF UseInv
<1> QED BY <1>1 DEF UseInv

\* What the frames that touch a child, are about to call it, or list it, say of it.
LEMMA TouchedIs ==
  ASSUME LifeInv, CloseInv, NEW c \in Contexts, NEW q \in Spots, Fr(q).c = c, Fr(q).pc \in ChildCallPcs
  PROVE  /\ Under(q) \in Spots /\ Fr(Under(q)) \in AboutX(c, PoppedPcs) /\ Fr(Under(q)).pc = "close.pop"
         /\ fate[c] = "called" /\ Parent[c] = Fr(Under(q)).c /\ \A d \in Contexts : c \notin ToSet(list[d])
<1>1. PICK h : h = Fr(q)
  OBVIOUS
<1>2. Lies(q)
  BY DEF LifeInv, Grammar
<1>3. h.pc \notin ClientPcs \cup CloserPcs \cup {"destroy", "run", "run.undo", "run.drop", "work"}
  BY <1>1 DEF ChildCallPcs, ClientPcs, CloserPcs, AddCallPcs, RemovePcs, StartPcs, ChildPcs, ClosingPcs
<1>4. Under(q) \in Spots /\ Above(h, Fr(Under(q)))
  BY <1>1, <1>2, <1>3 DEF Lies, Lowest
<1>5. PICK r, g : r = Under(q) /\ g = Fr(r)
  OBVIOUS
<1>6. g.pc = "close.pop" /\ g.x = c
  <2>1. h.pc \notin {"inline", "handler"} \cup AddCallPcs \cup RemovePcs \cup ClientPcs \cup CloserPcs
    BY <1>1, <1>3 DEF ChildCallPcs, AddCallPcs, RemovePcs
  <2>2. Above(h, g)
    BY <1>4, <1>5
  <2> QED BY <1>1, <2>1, <2>2 DEF Above
<1>7. r \in Spots /\ g \in FrameSet /\ FrameLife(g)
  BY <1>4, <1>5, SpotFrame DEF LifeInv, FramesLive
<1>8. g.pc \in PoppedPcs /\ c \in Nodes
  BY <1>6 DEF PoppedPcs, Nodes
<1>9. fate[c] = "called" /\ Parent[c] = g.c /\ \A d \in Contexts : c \notin ToSet(list[d])
  BY <1>6, <1>7, <1>8 DEF FrameLife
<1>10. g \in AboutX(c, PoppedPcs)
  BY <1>6, <1>7, <1>8 DEF AboutX
<1> QED BY <1>5, <1>6, <1>7, <1>9, <1>10

LEMMA OneTouch ==
  ASSUME LifeInv, CloseInv, NEW c \in Contexts, NEW q \in Spots, Fr(q).c = c, Fr(q).pc \in ChildCallPcs,
         NEW r \in Spots, Fr(r).c = c, Fr(r).pc \in ChildCallPcs
  PROVE  q = r
<1>1. /\ Under(q) \in Spots /\ Fr(Under(q)) \in AboutX(c, PoppedPcs)
      /\ Under(r) \in Spots /\ Fr(Under(r)) \in AboutX(c, PoppedPcs)
  BY TouchedIs
<1>2. c \in Nodes
  BY DEF Nodes
<1>3. Under(q) = Under(r)
  BY <1>1, <1>2 DEF LifeInv, OnePopper, AtMostOne
<1>4. q[1] = r[1] /\ q[2] - 1 = r[2] - 1
  BY <1>3 DEF Under
<1>5. q[2] \in Nat /\ r[2] \in Nat /\ q = <<q[1], q[2]>> /\ r = <<r[1], r[2]>>
  BY SpotIs DEF CloseInv, HandlersInv
<1>6. q[2] = r[2]
  BY <1>4, <1>5
<1> QED BY <1>4, <1>5, <1>6

LEMMA PoppedIs ==
  ASSUME LifeInv, CloseInv, NEW c \in Contexts, NEW q \in Spots, Fr(q).x = c, Fr(q).pc \in PoppedPcs
  PROVE  /\ fate[c] = IF Fr(q).pc = "close.call" THEN "added" ELSE "called"
         /\ Parent[c] = Fr(q).c /\ Fr(q).c \in Contexts /\ \A d \in Contexts : c \notin ToSet(list[d])
<1>1. FrameLife(Fr(q)) /\ c \in Nodes /\ Fr(q).c \in Contexts
  BY SpotFrame DEF LifeInv, FramesLive, Nodes
<1> QED BY <1>1 DEF FrameLife

LEMMA ListedIs ==
  ASSUME LifeInv, CloseInv, NEW c \in Contexts, NEW d \in Contexts, c \in ToSet(list[d])
  PROVE  fate[c] = "added" /\ Parent[c] = d
<1>1. PICK n \in DOMAIN list[d] : list[d][n] = c
  BY DEF ToSet
<1> QED BY <1>1 DEF LifeInv, ListLives

LEMMA PendingIs ==
  ASSUME LifeInv, CloseInv, NEW c \in Contexts, Pending(c)
  PROVE  /\ Born(c) /\ Parent[c] # None
         /\ ~Touched(c) => fate[c] = "added"
<1>1. CASE InLists(c)
  BY <1>1, ListedIs, TreeAssumption DEF InLists, Born
<1>2. CASE Calling(c)
  <2>1. PICK q \in Spots : Fr(q) \in AboutX(c, {"close.call"})
    BY <1>2 DEF Calling, Some
  <2>2. Fr(q).x = c /\ Fr(q).pc = "close.call" /\ Fr(q).pc \in PoppedPcs
    BY <2>1 DEF AboutX, PoppedPcs
  <2>3. fate[c] = "added" /\ Parent[c] \in Contexts
    BY <2>2, PoppedIs
  <2> QED BY <2>3, TreeAssumption DEF Born
<1>3. CASE Touched(c)
  <2>1. PICK q \in Spots : Fr(q) \in OnC(c, {"child.anchor", "child.done"})
    BY <1>3 DEF Touched, Some
  <2>2. Fr(q).c = c /\ Fr(q).pc \in ChildCallPcs
    BY <2>1 DEF OnC, ChildCallPcs
  <2>3. PICK r : r = Under(q)
    OBVIOUS
  <2>4. r \in Spots /\ fate[c] = "called" /\ Parent[c] = Fr(r).c
    BY <2>2, <2>3, TouchedIs
  <2>5. Fr(r).c \in Contexts
    BY <2>4, SpotFrame
  <2> QED BY <1>3, <2>4, <2>5, TreeAssumption DEF Born
<1> QED BY <1>1, <1>2, <1>3 DEF Pending

LEMMA NotBorn ==
  ASSUME Known, NEW c, ~Born(c)
  PROVE  ~Late(c) /\ ~Ending(c) /\ ~Dying(c) /\ ~Touched(c)
<1>1. \A q \in Spots : Fr(q).c # c
  BY DEF Known
<1> QED BY <1>1 DEF Late, Ending, Dying, Touched, Some, OnC

\* The frames that are there after the step.
LEMMA NotSome ==
  ASSUME NEW s, NEW r, NEW g, NEW h, NEW F, \A q \in Spots : Fr(q) \in F => q = s
  PROVE  /\ TurnsTo(s, g) /\ g \notin F => ~Some(F)'
         /\ Leaves(s) => ~Some(F)'
         /\ CallsUp(s, r, h, g) /\ g \notin F /\ h \notin F => ~Some(F)'
<1>1. ASSUME TurnsTo(s, g), g \notin F PROVE ~Some(F)'
  <2>1. Given(Spots \ {s}, {s}) /\ Fr(s)' = g
    BY <1>1 DEF TurnsTo
  <2> QED BY <1>1, <2>1 DEF Given, Some
<1>2. ASSUME Leaves(s) PROVE ~Some(F)'
  <2>1. Given(Spots \ {s}, {})
    BY <1>2 DEF Leaves
  <2> QED BY <2>1 DEF Given, Some
<1>3. ASSUME CallsUp(s, r, h, g), g \notin F, h \notin F PROVE ~Some(F)'
  <2>1. Given(Spots \ {s}, {s, r}) /\ Fr(s)' = g /\ Fr(r)' = h
    BY <1>3 DEF CallsUp
  <2> QED BY <1>3, <2>1 DEF Given, Some
<1> QED BY <1>1, <1>2, <1>3

\* The steps that do something to one context, one by one.
LEMMA InsertUse ==
  ASSUME UseInv, Known, LifeInv, CloseInv, NEW t \in AllThreads,
         Insert(t, "add.insert", "unblock") \/ Insert(t, "start.insert", "start.fn")
  PROVE  UseInv'
<1>1. PICK h, s, p, x : h = Top(t) /\ s = TopSpot(t) /\ p \in {"unblock", "start.fn"} /\ Goto(t, p) /\ x = h.x
  BY DEF Insert
<1>2. /\ stack[t] # <<>> /\ h.pc \in {"add.insert", "start.insert"} /\ owned' = owned /\ flags' = flags
      /\ holder' = holder /\ destroyed' = destroyed /\ done' = done
      /\ fate' = [fate EXCEPT ![x] = "added"] /\ list' = [list EXCEPT ![h.c] = <<x>> \o @]
  BY <1>1 DEF Insert, At, exec, clients, words
<1>3. h \in FrameSet /\ h = Fr(s) /\ h.c \in Contexts /\ p \in Pcs
  BY <1>1, <1>2, TopKnown DEF Pcs, KnowPcs
<1>4. x \in Nodes /\ (x \in Contexts => fate[x] = "adding")
  <2>1. FrameOK(t, h) /\ FrameLife(h) /\ h.pc \in AddPcs /\ h.pc # "child.add"
    BY <1>1, <1>2, TopLifeIs DEF AddPcs
  <2> QED BY <1>1, <2>1 DEF FrameOK, FrameLife
<1>5. PICK g \in FrameSet : TurnsTo(s, g) /\ g.pc = p
  <2>1. \E g \in FrameSet : /\ TurnsTo(s, g) /\ g.pc = p /\ g.c = Top(t).c /\ g.x = Top(t).x
                            /\ g.ref = Top(t).ref
    <3>1. s = TopSpot(t) /\ stack[t] # <<>> /\ p \in Pcs /\ Goto(t, p)
      BY <1>1, <1>2, <1>3
    <3> QED BY <3>1, GotoSpots
  <2> QED BY <2>1
<1>6. PICK H, G : H = {h} /\ G = {g}
  OBVIOUS
<1>7. Shift(H, G) /\ H \subseteq FrameSet /\ G \subseteq FrameSet
  BY <1>3, <1>5, <1>6, ShiftsAre
<1>8. \A f \in H \cup G : \A c \in Contexts : Clear(f, c)
  BY <1>1, <1>2, <1>5, <1>6 DEF Clear
<1>9. fate \in [Nodes -> Fates] /\ list \in [Contexts -> Seq(Nodes)]
  BY DEF CloseInv, HandlersInv, Shapes
<1>10. \A y \in Nodes : fate'[y] = IF y = x THEN "added" ELSE fate[y]
  BY <1>2, <1>4, <1>9
<1>11. ASSUME NEW c \in Contexts, c # x PROVE SameState(c)
  <2>1. InLists(c)' <=> InLists(c)
    <3>1. ASSUME NEW d \in Contexts PROVE c \in ToSet(list'[d]) <=> c \in ToSet(list[d])
      <4>1. CASE d # h.c
        BY <1>2, <1>9, <4>1
      <4>2. CASE d = h.c
        <5>1. PICK l : l = list[d]
          OBVIOUS
        <5>2. l \in Seq(Nodes) /\ list'[d] = <<x>> \o l
          BY <1>2, <1>9, <4>2, <5>1
        <5>3. <<x>> \in Seq(Nodes) /\ Len(<<x>>) = 1 /\ <<x>>[1] = x
          BY <1>4
        <5>4. PICK m : m = <<x>> \o l
          OBVIOUS
        <5>5. /\ m \in Seq(Nodes) /\ Len(m) = 1 + Len(l) /\ Len(l) \in Nat
              /\ \A i \in 1..(1 + Len(l)) : m[i] = IF i <= 1 THEN <<x>>[i] ELSE l[i - 1]
          BY <5>2, <5>3, <5>4, ConcatIs
        <5>6. c \in ToSet(l) => c \in ToSet(m)
          <6>1. SUFFICES ASSUME NEW n \in DOMAIN l, l[n] = c PROVE c \in ToSet(m)
            BY DEF ToSet
          <6>2. n + 1 \in 1..(1 + Len(l)) /\ n + 1 > 1 /\ (n + 1) - 1 = n /\ n + 1 \in DOMAIN m
            BY <5>2, <5>5
          <6>3. m[n + 1] = c
            BY <5>5, <6>1, <6>2
          <6> QED BY <6>2, <6>3 DEF ToSet
        <5>7. c \in ToSet(m) => c \in ToSet(l)
          <6>1. SUFFICES ASSUME NEW n \in DOMAIN m, m[n] = c PROVE c \in ToSet(l)
            BY DEF ToSet
          <6>2. n \in 1..(1 + Len(l)) /\ n # 1
            BY <1>11, <5>3, <5>5, <6>1
          <6>3. n - 1 \in DOMAIN l /\ l[n - 1] = c
            BY <5>2, <5>5, <6>1, <6>2
          <6> QED BY <6>3 DEF ToSet
        <5> QED BY <5>1, <5>2, <5>4, <5>6, <5>7
      <4> QED BY <4>1, <4>2
    <3> QED BY <3>1 DEF InLists
  <2>2. fate'[c] = fate[c]
    BY <1>10, <1>11 DEF Nodes
  <2> QED BY <1>2, <2>1, <2>2 DEF SameState, Closed, Born
<1>12. ASSUME x \in Contexts PROVE UseOK(x)'
  <2>1. SameKinds(x)
    BY <1>7, <1>8, <1>12, ClearKinds
  <2>2. ~Born(x) /\ fate[x] = "adding" /\ fate'[x] = "added"
    BY <1>4, <1>10, <1>12 DEF Born
  <2>3. Making(x)
    <3>1. s \in Spots /\ FrameLife(h)
      BY <1>1, <1>2, TopLifeIs
    <3>2. h.pc = "add.insert" /\ ~h.ref
      <4>1. h.pc # "start.insert"
        <5>1. FrameOK(t, h)
          BY <1>1, <1>2, TopLifeIs
        <5> QED BY <1>1, <1>12, <5>1, TreeAssumption DEF FrameOK, StartPcs
      <4>2. h.pc = "add.insert" /\ h.pc \in AddCallPcs /\ h.pc # "undo"
        BY <1>2, <4>1 DEF AddCallPcs
      <4> QED BY <1>1, <1>12, <3>1, <4>2 DEF FrameLife
    <3>3. h.pc \in AddPcs \cup ChildPcs
      BY <3>2 DEF AddPcs
    <3>4. Under(s) \in Spots /\ Fr(Under(s)) \in Adders(x) /\ Fr(Under(s)).pc = "child.add"
      BY <1>1, <1>3, <1>12, <3>1, <3>2, <3>3, AdderIs
    <3> QED BY <3>4 DEF Making, Some, MakingFrames, Adders
  <2>4. UseOK(x)
    BY <1>12 DEF UseInv
  <2>5. ~Closed(x) /\ ~Closed(x)'
    BY <1>2, <2>2, <2>4 DEF UseOK, Closed
  <2>6. ~Late(x) /\ ~done[x] /\ ~done'[x] /\ Making(x)' /\ ~Late(x)'
    BY <1>2, <2>1, <2>2, <2>3, <2>4, NotBorn DEF UseOK, SameKinds
  <2>7. ~Ending(x) /\ ~Ending(x)' /\ holder[x] /\ holder'[x]
    BY <1>2, <2>1, <2>2, <2>3, <2>4, <2>5, NotBorn DEF UseOK, SameKinds
  <2>8. Popping(x)' => destroyed'[x] \/ Touched(x)'
    BY <1>2, <2>1, <2>4 DEF UseOK, SameKinds
  <2> QED BY <2>5, <2>6, <2>7, <2>8 DEF UseOK
<1> QED BY <1>7, <1>8, <1>11, <1>12, UseBut

LEMMA ConstructUse ==
  ASSUME UseInv, HoldersTyped, Known, LifeInv, CloseInv, NEW t \in AllThreads, ConstructChild(t)
  PROVE  UseInv'
<1>1. PICK h, s, r, f, x : /\ h = Top(t) /\ s = TopSpot(t) /\ r = <<t, Len(stack[t]) + 1>>
                           /\ x = h.x /\ f = Frame("add", h.c, x, FALSE)
  OBVIOUS
<1>2. /\ stack[t] # <<>> /\ owned' = owned /\ fate' = fate /\ h.pc = "child.new" /\ flags' = flags
      /\ list' = list /\ destroyed' = destroyed /\ done' = done /\ holder' = [holder EXCEPT ![x] = TRUE]
      /\ Enter(t, "child.add", f) /\ "child.add" \in Pcs
  BY <1>1 DEF ConstructChild, At, history, clients, nodes, Pcs, ChildPcs
<1>3. h \in FrameSet /\ h = Fr(s) /\ s \in Spots /\ h.c \in Contexts
  BY <1>1, <1>2, TopKnown
<1>4. x \in Contexts /\ ~Born(x)
  <2>1. x \in Contexts /\ fate[x] = "adding"
    BY <1>1, <1>2, <1>3, MakersAdd
  <2> QED BY <2>1 DEF Born
<1>5. f \in FrameSet /\ f.pc = "add" /\ f.c = h.c
  <2>1. x \in Arguments /\ "add" \in Pcs
    BY <1>4 DEF Arguments, Nodes, Pcs, AddPcs
  <2> QED BY <1>1, <1>3, <2>1 DEF Frame, FrameSet
<1>6. PICK g \in FrameSet : CallsUp(s, r, f, g) /\ g.pc = "child.add" /\ g.x = x
  <2>1. \E g \in FrameSet : /\ CallsUp(s, r, f, g) /\ g.pc = "child.add" /\ g.c = Top(t).c /\ g.x = Top(t).x
                            /\ g.ref = Top(t).ref
    <3>1. s = TopSpot(t) /\ r = <<t, Len(stack[t]) + 1>> /\ stack[t] # <<>>
      BY <1>1, <1>2
    <3>2. "child.add" \in Pcs /\ f \in FrameSet /\ Enter(t, "child.add", f)
      BY <1>2, <1>5
    <3> QED BY <3>1, <3>2, EnterSpots
  <2> QED BY <1>1, <2>1
<1>7. PICK H, G : H = {h} /\ G = {g, f}
  OBVIOUS
<1>8. Shift(H, G) /\ H \subseteq FrameSet /\ G \subseteq FrameSet
  BY <1>3, <1>5, <1>6, <1>7, ShiftsAre
<1>9. \A e \in H \cup G : \A c \in Contexts : c # x => Clear(e, c)
  BY <1>2, <1>5, <1>6, <1>7 DEF Clear
<1>10. ASSUME NEW c \in Contexts, c # x PROVE SameState(c)
  BY <1>2, <1>10 DEF SameState, Closed, Born, InLists
<1>11. UseOK(x)'
  <2>1. UseOK(x) /\ x \in Nodes
    BY <1>4 DEF UseInv, Nodes
  <2>2. /\ ~OneAboutX(H, x, RemovePcs) /\ ~OneAboutX(G, x, RemovePcs)
        /\ ~OneAboutX(G, x, {"close.pop"}) /\ ~OneAboutX(G, x, {"close.call"})
        /\ ~OneOnC(H, x, {"child.anchor", "child.done"}) /\ ~OneOnC(G, x, {"child.anchor", "child.done"})
        /\ ~OneOnC(G, x, LatePcs)
    BY <1>2, <1>5, <1>6, <1>7 DEF OneAboutX, OneOnC, RemovePcs, LatePcs
  <2>3. /\ Late(x)' => Late(x)
        /\ Taken(x)' <=> Taken(x)
        /\ Popping(x)' => Popping(x)
        /\ Calling(x)' => Calling(x)
        /\ Touched(x)' <=> Touched(x)
    BY <1>8, <2>2, KindsFollow DEF Follows
  <2>4. ~Born(x)' /\ ~Closed(x)' /\ (InLists(x)' <=> InLists(x))
    BY <1>2, <1>4, <2>1 DEF UseOK, Closed, Born, InLists
  <2>6. holder'[x]
    BY <1>2, <1>4 DEF HoldersTyped
  <2>7. Pending(x)' => Pending(x)
    BY <2>3, <2>4 DEF Pending
  <2> QED BY <1>2, <2>1, <2>3, <2>4, <2>6, <2>7 DEF UseOK
<1> QED BY <1>4, <1>8, <1>9, <1>10, <1>11, UseBut

LEMMA MadeUse ==
  ASSUME UseInv, Known, LifeInv, CloseInv, NEW t \in AllThreads, ChildMade(t)
  PROVE  UseInv'
<1>1. PICK h, s, x : h = Top(t) /\ s = TopSpot(t) /\ x = h.x
  OBVIOUS
<1>2. /\ stack[t] # <<>> /\ h.pc = "child.add" /\ Return(t) /\ fate' = fate /\ flags' = flags /\ holder' = holder
      /\ list' = list /\ destroyed' = destroyed /\ done' = done
      /\ owned' = IF fate[x] # "refused" THEN owned \cup {x} ELSE owned
  BY <1>1 DEF ChildMade, At, nodes, exec, history
<1>3. h \in FrameSet /\ h = Fr(s) /\ TopLife(h)
  BY <1>1, <1>2, TopLifeIs
<1>4. Born(x) \/ fate[x] = "refused"
  BY <1>1, <1>2, <1>3 DEF TopLife
<1>5. Leaves(s)
  BY <1>1, <1>2, ReturnSpots
<1>6. PICK H, G : H = {h} /\ G = {}
  OBVIOUS
<1>7. Shift(H, G) /\ H \subseteq FrameSet /\ G \subseteq FrameSet
  BY <1>3, <1>5, <1>6, ShiftsAre
<1>8. \A e \in H \cup G : \A c \in Contexts : c # x => Clear(e, c)
  BY <1>1, <1>2, <1>6 DEF Clear
<1>9. ASSUME NEW c \in Contexts, c # x PROVE SameState(c)
  BY <1>2, <1>9 DEF SameState, Closed, Born, InLists
<1>10. ASSUME x \in Contexts PROVE UseOK(x)'
  <2>1. UseOK(x)
    BY <1>10 DEF UseInv
  <2>2. /\ ~OneAboutX(H, x, RemovePcs) /\ ~OneAboutX(H, x, {"close.pop"}) /\ ~OneAboutX(H, x, {"close.call"})
        /\ ~OneOnC(H, x, {"child.anchor", "child.done"}) /\ ~OneOnC(H, x, LatePcs)
        /\ ~OneOnC(H, x, {"close.closed", "close.release"})
        /\ \A P : ~OneAboutX(G, x, P) /\ ~OneOnC(G, x, P)
    BY <1>2, <1>6 DEF OneAboutX, OneOnC, RemovePcs, LatePcs
  <2>3. /\ Making(x)' => Making(x)
        /\ Late(x)' <=> Late(x)
        /\ Ending(x)' <=> Ending(x)
        /\ Taken(x)' <=> Taken(x)
        /\ Popping(x)' <=> Popping(x)
        /\ Calling(x)' <=> Calling(x)
        /\ Touched(x)' <=> Touched(x)
    BY <1>7, <2>2, KindsFollow DEF Follows
  <2>4. (Closed(x)' <=> Closed(x)) /\ (Born(x)' <=> Born(x)) /\ (InLists(x)' <=> InLists(x))
    BY <1>2 DEF Closed, Born, InLists
  <2>5. Pending(x)' <=> Pending(x)
    BY <2>3, <2>4 DEF Pending
  <2>6. Born(x) => x \in owned'
    BY <1>2 DEF Born
  <2> QED BY <1>2, <2>1, <2>3, <2>4, <2>5, <2>6 DEF UseOK
<1> QED BY <1>7, <1>8, <1>9, <1>10, UseBut

LEMMA ReleaseUse ==
  ASSUME UseInv, Known, LifeInv, CloseInv, NEW t \in AllThreads, ReleaseOwner(t) \/ CloseReturns(t)
  PROVE  UseInv'
<1>1. PICK h, s, x : h = Top(t) /\ s = TopSpot(t) /\ x = h.c
  OBVIOUS
<1>2. SameUse /\ stack[t] # <<>> /\ h.pc \in {"destroy", "close.release"} /\ Return(t)
  BY <1>1 DEF ReleaseOwner, CloseReturns, At, SameUse, nodes, exec, history, clients
<1>3. h \in FrameSet /\ h = Fr(s) /\ TopLife(h) /\ FrameLife(h) /\ x \in Contexts
  BY <1>1, <1>2, TopLifeIs
<1>4. Closed(x)
  BY <1>1, <1>2, <1>3 DEF TopLife, FrameLife, ClosingPcs, Closed
<1>5. Leaves(s)
  BY <1>1, <1>2, ReturnSpots
<1>6. PICK H, G : H = {h} /\ G = {}
  OBVIOUS
<1>7. Shift(H, G) /\ H \subseteq FrameSet /\ G \subseteq FrameSet
  BY <1>3, <1>5, <1>6, ShiftsAre
<1>8. \A e \in H \cup G : \A c \in Contexts : c # x => Clear(e, c)
  BY <1>1, <1>2, <1>6 DEF Clear
<1>9. ASSUME NEW c \in Contexts PROVE SameState(c)
  BY <1>2, SameUseIs
<1>10. UseOK(x)'
  <2>1. UseOK(x) /\ SameState(x)
    BY <1>3, <1>9 DEF UseInv
  <2>2. /\ \A P : h.pc \notin P => ~OneAboutX(H, x, P) /\ ~OneOnC(H, x, P)
        /\ \A P : ~OneAboutX(G, x, P) /\ ~OneOnC(G, x, P)
    BY <1>6 DEF OneAboutX, OneOnC
  <2>3. h.pc \notin RemovePcs \cup {"close.pop", "close.call", "child.anchor", "child.done"}
    BY <1>2 DEF RemovePcs
  <2>4. /\ Late(x)' => Late(x)
        /\ Taken(x)' <=> Taken(x)
        /\ Popping(x)' <=> Popping(x)
        /\ Calling(x)' <=> Calling(x)
        /\ Touched(x)' <=> Touched(x)
    BY <1>7, <2>2, <2>3, KindsFollow DEF Follows
  <2>5. Pending(x)' <=> Pending(x)
    BY <2>1, <2>4 DEF Pending, SameState
  <2> QED BY <1>4, <2>1, <2>4, <2>5 DEF UseOK, SameState
<1> QED BY <1>7, <1>8, <1>9, <1>10, UseBut

\* Nothing is called from the loop that has popped a handler and has still to call it,
\* nor from aoContextClose before the close.
LEMMA OnTop ==
  ASSUME LifeInv, CloseInv, NEW q \in Spots, Fr(q).pc \in {"close.call", "child.anchor", "child.done"}
  PROVE  q = TopSpot(q[1])
<1>1. PICK t, n : t = q[1] /\ n = q[2]
  OBVIOUS
<1>2. t \in AllThreads /\ n \in Nat /\ n >= 1 /\ q = <<t, n>> /\ n <= Len(stack[t]) /\ Len(stack[t]) \in Nat
  BY <1>1, SpotIs DEF CloseInv, HandlersInv
<1>3. SUFFICES ASSUME n # Len(stack[t]) PROVE FALSE
  BY <1>1, <1>2 DEF TopSpot
<1>4. PICK r : r = <<t, n + 1>>
  OBVIOUS
<1>5. r \in Spots /\ Under(r) = q
  <2>1. n + 1 \in Nat /\ n + 1 \in 1..Len(stack[t]) /\ (n + 1) - 1 = n
    BY <1>2, <1>3
  <2> QED BY <1>2, <1>4, <2>1 DEF Spots, Under
<1>6. PICK h, g : h = Fr(r) /\ g = Fr(q)
  OBVIOUS
<1>7. Above(h, g)
  BY <1>5, <1>6 DEF LifeInv, Grammar, Lies
<1> QED BY <1>6, <1>7 DEF Above, SitePcs

\* What is left of a list when a child is taken out.
LEMMA UnlinkTakes ==
  ASSUME NEW l \in Seq(Nodes), NEW x, \A i, j \in DOMAIN l : l[i] = x /\ l[j] = x => i = j
  PROVE  x \notin ToSet(Unlink(l, x)) /\ (x \notin ToSet(l) => Unlink(l, x) = l)
<1>1. CASE x \notin ToSet(l)
  BY <1>1 DEF Unlink
<1>2. CASE x \in ToSet(l)
  <2>1. PICK k : k = CHOOSE i \in DOMAIN l : l[i] = x
    OBVIOUS
  <2>2. k \in DOMAIN l /\ l[k] = x
    BY <1>2, <2>1 DEF ToSet
  <2>3. PICK r : r = RemoveAt(l, k)
    OBVIOUS
  <2>4. k \in 1..Len(l) /\ Len(l) \in Nat
    BY <2>2
  <2>5. /\ r \in Seq(Nodes) /\ Len(r) = Len(l) - 1
        /\ \A n \in 1..(Len(l) - 1) : r[n] = IF n < k THEN l[n] ELSE l[n + 1]
    BY <2>3, <2>4, RemoveAtIs
  <2>6. ASSUME NEW n \in DOMAIN r, r[n] = x PROVE FALSE
    <3>1. n \in 1..(Len(l) - 1)
      BY <2>5
    <3>2. CASE n < k
      <4>1. n \in DOMAIN l /\ l[n] = x
        BY <2>4, <2>5, <2>6, <3>1, <3>2
      <4> QED BY <2>2, <3>2, <4>1
    <3>3. CASE ~(n < k)
      <4>1. n + 1 \in DOMAIN l /\ l[n + 1] = x
        BY <2>4, <2>5, <2>6, <3>1, <3>3
      <4>2. n + 1 = k
        BY <2>2, <4>1
      <4> QED BY <2>4, <3>1, <3>3, <4>2
    <3> QED BY <3>2, <3>3
  <2>7. x \notin ToSet(r)
    BY <2>6 DEF ToSet
  <2>8. Unlink(l, x) = r
    BY <1>2, <2>1, <2>3 DEF Unlink
  <2> QED BY <1>2, <2>7, <2>8
<1> QED BY <1>1, <1>2

\* When a child that is closing has left its parent, no loop has still to touch it: a loop
\* that has popped it is below in the same thread, or waited for.
LEMMA LoopIsHere ==
  ASSUME LifeInv, CloseInv, NEW t \in AllThreads, stack[t] # <<>>, Top(t).pc = "remove",
         NEW x \in Contexts, Parent[x] = Top(t).c, ClosingInThisThread(t, Top(t).c)
  PROVE  ~Calling(x) /\ ~Touched(x)
<1>1. PICK h, s, c : h = Top(t) /\ s = TopSpot(t) /\ c = Top(t).c
  OBVIOUS
<1>2. s \in Spots /\ Fr(s) = h /\ s[1] = t
  BY <1>1, TopLifeIs
<1>3. PICK r : r \in Spots /\ r[1] = t /\ Fr(r).c = c /\ Fr(r).pc \in ClosingPcs
  <2>1. PICK i \in DOMAIN stack[t] : stack[t][i].c = c /\ stack[t][i].pc \in ClosingPcs
    BY <1>1 DEF ClosingInThisThread, FramesOf, ToSet
  <2>2. PICK q : q = <<t, Len(stack[t]) + 1 - i>>
    OBVIOUS
  <2>3. q \in Spots /\ Fr(q) = stack[t][i] /\ q[1] = t
    BY <2>2, FrameSpot DEF CloseInv, HandlersInv
  <2> QED BY <2>1, <2>3
<1>4. ASSUME NEW q \in Spots, Fr(q).x = x, Fr(q).pc \in PoppedPcs PROVE q = r
  <2>1. Fr(q).c = c
    BY <1>1, <1>4, PoppedIs
  <2>2. Fr(q).pc \in ClosingPcs
    BY <1>4 DEF PoppedPcs, ClosingPcs
  <2> QED BY <1>3, <2>1, <2>2, OneCloser DEF LifeInv
<1>5. ASSUME Calling(x) PROVE FALSE
  <2>1. PICK q \in Spots : Fr(q) \in AboutX(x, {"close.call"})
    BY <1>5 DEF Calling, Some
  <2>2. Fr(q).x = x /\ Fr(q).pc = "close.call" /\ Fr(q).pc \in PoppedPcs
    BY <2>1 DEF AboutX, PoppedPcs
  <2>3. q[1] = t
    BY <1>3, <1>4, <2>2
  <2>4. q = s
    BY <1>1, <2>2, <2>3, OnTop
  <2> QED BY <1>1, <1>2, <2>2, <2>4
<1>6. ASSUME Touched(x) PROVE FALSE
  <2>1. PICK p \in Spots : Fr(p) \in OnC(x, {"child.anchor", "child.done"})
    BY <1>6 DEF Touched, Some
  <2>2. Fr(p).c = x /\ Fr(p).pc \in ChildCallPcs /\ Fr(p).pc \in {"child.anchor", "child.done"}
    BY <2>1 DEF OnC, ChildCallPcs
  <2>3. PICK q : q = Under(p)
    OBVIOUS
  <2>4. q \in Spots /\ Fr(q) \in AboutX(x, PoppedPcs) /\ q[1] = p[1]
    BY <2>2, <2>3, TouchedIs DEF Under
  <2>5. Fr(q).x = x /\ Fr(q).pc \in PoppedPcs
    BY <2>4 DEF AboutX
  <2>6. p[1] = t
    BY <1>3, <1>4, <2>4, <2>5
  <2>7. p = s
    BY <1>1, <2>2, <2>6, OnTop
  <2> QED BY <1>1, <1>2, <2>2, <2>7
<1> QED BY <1>5, <1>6

LEMMA RemoveUse ==
  ASSUME UseInv, Known, LifeInv, CloseInv, NEW t \in AllThreads, RemoveCloseHandler(t)
  PROVE  UseInv'
<1>1. PICK h, s, x, l : h = Top(t) /\ s = TopSpot(t) /\ x = h.x /\ l = list[h.c]
  OBVIOUS
<1>2. PICK inList, mine : /\ inList = (x \in ToSet(l))
                          /\ mine = (~inList /\ ClosingInThisThread(t, h.c))
  OBVIOUS
<1>3. /\ stack[t] # <<>> /\ h.pc = "remove" /\ fate' = fate /\ owned' = owned /\ flags' = flags /\ holder' = holder
      /\ done' = done /\ list' = [list EXCEPT ![h.c] = Unlink(l, x)]
      /\ destroyed' = IF mine /\ hasPtr[x] THEN [destroyed EXCEPT ![x] = TRUE] ELSE destroyed
      /\ IF inList \/ mine THEN Return(t) ELSE Goto(t, "remove.wait")
  BY <1>1, <1>2 DEF RemoveCloseHandler, At, exec, clients
<1>4. h \in FrameSet /\ h = Fr(s) /\ h.c \in Contexts /\ s \in Spots /\ Lies(s) /\ FrameLife(h)
  BY <1>1, <1>3, TopLifeIs
<1>5. /\ list \in [Contexts -> Seq(Nodes)] /\ destroyed \in [Nodes -> BOOLEAN] /\ l \in Seq(Nodes)
  BY <1>1, <1>4 DEF CloseInv, HandlersInv, Shapes
<1>6. list'[h.c] = Unlink(l, x) /\ \A d \in Contexts : d # h.c => list'[d] = list[d]
  BY <1>3, <1>4, <1>5
<1>7. \E H, G : /\ Shift(H, G) /\ H \subseteq FrameSet /\ G \subseteq FrameSet /\ H = {h}
                /\ inList \/ mine => G = {}
                /\ ~(inList \/ mine) => \E g \in FrameSet : g.pc = "remove.wait" /\ g.x = x /\ G = {g}
  <2>1. PICK H : H = {h}
    OBVIOUS
  <2>2. CASE inList \/ mine
    <3>1. Leaves(s)
      BY <1>1, <1>3, <2>2, ReturnSpots
    <3>2. Shift(H, {})
      BY <1>4, <2>1, <3>1, ShiftsAre
    <3> QED BY <1>4, <2>1, <2>2, <3>2
  <2>3. CASE ~(inList \/ mine)
    <3>1. s = TopSpot(t) /\ stack[t] # <<>> /\ "remove.wait" \in Pcs /\ Goto(t, "remove.wait")
      BY <1>1, <1>3, <2>3 DEF Pcs, KnowPcs
    <3>2. PICK p : p = "remove.wait"
      OBVIOUS
    <3>3. \E g \in FrameSet : /\ TurnsTo(s, g) /\ g.pc = p /\ g.c = Top(t).c /\ g.x = Top(t).x
                              /\ g.ref = Top(t).ref
      BY <3>1, <3>2, GotoSpots
    <3>4. PICK g \in FrameSet : TurnsTo(s, g) /\ g.pc = p /\ g.x = x
      BY <1>1, <3>3
    <3>5. PICK G : G = {g}
      OBVIOUS
    <3>6. Shift(H, G)
      BY <1>4, <2>1, <3>4, <3>5, ShiftsAre
    <3> QED BY <1>4, <2>1, <2>3, <3>2, <3>4, <3>5, <3>6
  <2> QED BY <2>2, <2>3
<1>8. PICK H, G : /\ Shift(H, G) /\ H \subseteq FrameSet /\ G \subseteq FrameSet /\ H = {h}
                  /\ inList \/ mine => G = {}
                  /\ ~(inList \/ mine) => \E g \in FrameSet : g.pc = "remove.wait" /\ g.x = x /\ G = {g}
  BY <1>7
<1>9. \A f \in H \cup G : f.x = x /\ f.pc \in {"remove", "remove.wait"}
  BY <1>1, <1>3, <1>8
<1>10. \A e \in H \cup G : \A c \in Contexts : c # x => Clear(e, c)
  BY <1>9 DEF Clear
<1>11. ASSUME NEW c \in Contexts, c # x PROVE SameState(c)
  <2>1. destroyed'[c] = destroyed[c]
    BY <1>3, <1>11
  <2>2. ASSUME NEW d \in Contexts PROVE c \in ToSet(list'[d]) <=> c \in ToSet(list[d])
    <3>1. CASE d # h.c
      BY <1>6, <3>1
    <3>2. CASE d = h.c
      <4>1. PICK r : r = Unlink(l, x)
        OBVIOUS
      <4>2. /\ \A n \in DOMAIN r : r[n] \in ToSet(l)
            /\ \A y \in ToSet(l) : y # x => y \in ToSet(r)
        BY <1>5, <4>1, UnlinkLeaves
      <4>3. \A y \in ToSet(r) : y \in ToSet(l)
        BY <4>2 DEF ToSet
      <4> QED BY <1>1, <1>6, <1>11, <3>2, <4>1, <4>2, <4>3
    <3> QED BY <3>1, <3>2
  <2>3. InLists(c)' <=> InLists(c)
    BY <2>2 DEF InLists
  <2> QED BY <1>3, <2>1, <2>3 DEF SameState, Closed, Born
<1>12. ASSUME x \in Contexts PROVE UseOK(x)'
  <2>1. UseOK(x) /\ x \in Nodes
    BY <1>12 DEF UseInv, Nodes
  <2>2. \A i, j \in DOMAIN l : l[i] = x /\ l[j] = x => i = j
    BY <1>1, <1>4, <1>12 DEF LifeInv, ListLives
  <2>3. x \notin ToSet(list'[h.c]) /\ (~inList => list'[h.c] = l)
    BY <1>2, <1>5, <1>6, <2>2, UnlinkTakes
  <2>4. /\ \A P : h.pc \notin P => ~OneAboutX(H, x, P) /\ ~OneOnC(H, x, P)
        /\ \A P : "remove.wait" \notin P /\ "remove" \notin P => ~OneAboutX(G, x, P) /\ ~OneOnC(G, x, P)
    BY <1>3, <1>8, <1>9 DEF OneAboutX, OneOnC
  <2>5. /\ Making(x)' <=> Making(x)
        /\ Dying(x)' <=> Dying(x)
        /\ Late(x)' <=> Late(x)
        /\ Ending(x)' <=> Ending(x)
        /\ Popping(x)' <=> Popping(x)
        /\ Calling(x)' <=> Calling(x)
        /\ Touched(x)' <=> Touched(x)
    BY <1>3, <1>8, <2>4, KindsFollow DEF Follows, LatePcs
  <2>6. (Closed(x)' <=> Closed(x)) /\ (Born(x)' <=> Born(x))
    BY <1>3 DEF Closed, Born
  <2>7. CASE inList \/ mine
    <3>1. Parent[x] = h.c
      <4>1. PICK u, b : u = Under(s) /\ b = Fr(u)
        OBVIOUS
      <4>2. h \in AboutX(x, RemovePcs)
        BY <1>1, <1>3, <1>4 DEF AboutX, RemovePcs
      <4>3. u \in Spots /\ b.pc = "close.reset" /\ b.c = x
        BY <1>4, <1>12, <4>1, <4>2, RemoverIs
      <4>4. Above(h, b)
        BY <1>4, <4>1, <4>3 DEF Lies
      <4> QED BY <4>3, <4>4 DEF Above, SitePcs
    <3>2. ~InLists(x)'
      <4>1. ASSUME NEW d \in Contexts, x \in ToSet(list'[d]) PROVE FALSE
        <5>1. d # h.c /\ x \in ToSet(list[d])
          BY <1>6, <2>3, <4>1
        <5> QED BY <1>12, <3>1, <5>1, ListedIs
      <4> QED BY <4>1 DEF InLists
    <3>3. ~Calling(x) /\ ~Touched(x)
      <4>1. CASE inList
        <5>1. x \in ToSet(list[h.c])
          BY <1>1, <1>2, <4>1
        <5>2. ASSUME Calling(x) PROVE FALSE
          <6>1. PICK q \in Spots : Fr(q) \in AboutX(x, {"close.call"})
            BY <5>2 DEF Calling, Some
          <6>2. Fr(q).x = x /\ Fr(q).pc \in PoppedPcs
            BY <6>1 DEF AboutX, PoppedPcs
          <6> QED BY <1>4, <1>12, <5>1, <6>2, PoppedIs
        <5>3. ASSUME Touched(x) PROVE FALSE
          <6>1. PICK q \in Spots : Fr(q) \in OnC(x, {"child.anchor", "child.done"})
            BY <5>3 DEF Touched, Some
          <6>2. Fr(q).c = x /\ Fr(q).pc \in ChildCallPcs
            BY <6>1 DEF OnC, ChildCallPcs
          <6> QED BY <1>4, <1>12, <5>1, <6>2, TouchedIs
        <5> QED BY <5>2, <5>3
      <4>2. CASE mine
        <5>1. ClosingInThisThread(t, Top(t).c) /\ stack[t] # <<>> /\ Top(t).pc = "remove" /\ Parent[x] = Top(t).c
          BY <1>1, <1>2, <1>3, <3>1, <4>2
        <5> QED BY <1>12, <5>1, LoopIsHere
      <4> QED BY <2>7, <4>1, <4>2
    <3>4. ~Pending(x)'
      BY <2>5, <3>2, <3>3 DEF Pending
    <3>5. destroyed[x] => destroyed'[x]
      BY <1>3, <1>5, <2>1
    <3> QED BY <1>3, <2>1, <2>5, <2>6, <3>4, <3>5 DEF UseOK
  <2>8. CASE ~(inList \/ mine)
    <3>1. \A d \in Contexts : list'[d] = list[d]
      BY <1>1, <1>6, <2>3, <2>8
    <3>2. SameState(x)
      BY <1>3, <2>6, <2>8, <3>1 DEF SameState, InLists
    <3>3. Taken(x)' <=> Taken(x)
      <4>1. PICK g \in FrameSet : g.pc = "remove.wait" /\ g.x = x /\ G = {g}
        BY <1>8, <2>8
      <4>2. OneAboutX(G, x, RemovePcs) /\ OneAboutX(H, x, RemovePcs)
        BY <1>1, <1>3, <1>8, <4>1 DEF OneAboutX, RemovePcs
      <4> QED BY <1>8, <4>2, KindsFollow DEF Follows
    <3>4. SameKinds(x)
      BY <2>5, <3>3 DEF SameKinds
    <3> QED BY <2>1, <3>2, <3>4, UseSame
  <2> QED BY <2>7, <2>8
<1> QED BY <1>8, <1>10, <1>11, <1>12, UseBut

LEMMA RemoveWaitUse ==
  ASSUME UseInv, Known, LifeInv, CloseInv, NEW t \in AllThreads, RemoveWait(t)
  PROVE  UseInv'
<1>1. PICK h, s, x : h = Top(t) /\ s = TopSpot(t) /\ x = h.x
  OBVIOUS
<1>2. SameUse /\ stack[t] # <<>> /\ h.pc = "remove.wait" /\ done[x] /\ Return(t)
  BY <1>1 DEF RemoveWait, At, SameUse, nodes, exec, clients
<1>3. h \in FrameSet /\ h = Fr(s)
  BY <1>1, <1>2, TopLifeIs
<1>4. Leaves(s)
  BY <1>1, <1>2, ReturnSpots
<1>5. PICK H, G : H = {h} /\ G = {}
  OBVIOUS
<1>6. Shift(H, G) /\ H \subseteq FrameSet /\ G \subseteq FrameSet
  BY <1>3, <1>4, <1>5, ShiftsAre
<1>7. \A e \in H \cup G : \A c \in Contexts : c # x => Clear(e, c)
  BY <1>1, <1>2, <1>5 DEF Clear
<1>8. ASSUME NEW c \in Contexts PROVE SameState(c)
  BY <1>2, SameUseIs
<1>9. ASSUME x \in Contexts PROVE UseOK(x)'
  <2>1. UseOK(x) /\ SameState(x)
    BY <1>8, <1>9 DEF UseInv
  <2>2. /\ \A P : h.pc \notin P => ~OneAboutX(H, x, P) /\ ~OneOnC(H, x, P)
        /\ \A P : ~OneAboutX(G, x, P) /\ ~OneOnC(G, x, P)
    BY <1>5 DEF OneAboutX, OneOnC
  <2>3. h.pc \notin LatePcs \cup {"child.add", "destroy", "close.pop", "close.call", "child.anchor", "child.done"}
    BY <1>2 DEF LatePcs
  <2>4. /\ Making(x)' <=> Making(x)
        /\ Dying(x)' <=> Dying(x)
        /\ Late(x)' <=> Late(x)
        /\ Popping(x)' <=> Popping(x)
        /\ Calling(x)' <=> Calling(x)
        /\ Touched(x)' <=> Touched(x)
    BY <1>6, <2>2, <2>3, KindsFollow DEF Follows
  <2>5. Ending(x)' <=> Ending(x)
    BY <1>2, <1>6, <2>2, KindsFollow DEF Follows
  <2>6. ~Pending(x)
    BY <1>2, <1>9, <2>1, PendingIs DEF UseOK
  <2>7. ~Pending(x)'
    BY <2>1, <2>4, <2>6 DEF Pending, SameState
  <2> QED BY <2>1, <2>4, <2>5, <2>7 DEF UseOK, SameState
<1> QED BY <1>6, <1>7, <1>8, <1>9, UseBut

LEMMA AnchorUse ==
  ASSUME UseInv, Known, LifeInv, CloseInv, NEW t \in AllThreads, Anchor(t)
  PROVE  UseInv'
<1>1. PICK h, s, x : h = Top(t) /\ s = TopSpot(t) /\ x = h.c
  OBVIOUS
<1>2. /\ SameUse /\ stack[t] # <<>> /\ h.pc = "child.anchor" /\ Goto(t, "child.done")
      /\ "child.done" \in Pcs
  BY <1>1 DEF Anchor, At, SameUse, nodes, exec, history, clients, Pcs
<1>3. h \in FrameSet /\ h = Fr(s) /\ x \in Contexts
  BY <1>1, <1>2, TopLifeIs
<1>4. PICK g \in FrameSet : TurnsTo(s, g) /\ g.pc = "child.done" /\ g.c = x
  <2>1. PICK p : p = "child.done"
    OBVIOUS
  <2>2. s = TopSpot(t) /\ stack[t] # <<>> /\ p \in Pcs /\ Goto(t, p)
    BY <1>1, <1>2, <2>1
  <2>3. \E g \in FrameSet : /\ TurnsTo(s, g) /\ g.pc = p /\ g.c = Top(t).c /\ g.x = Top(t).x
                            /\ g.ref = Top(t).ref
    BY <2>2, GotoSpots
  <2> QED BY <1>1, <2>1, <2>3
<1>5. PICK H, G : H = {h} /\ G = {g}
  OBVIOUS
<1>6. Shift(H, G) /\ H \subseteq FrameSet /\ G \subseteq FrameSet
  BY <1>3, <1>4, <1>5, ShiftsAre
<1>7. \A e \in H \cup G : \A c \in Contexts : c # x => Clear(e, c)
  BY <1>1, <1>2, <1>4, <1>5 DEF Clear
<1>8. ASSUME NEW c \in Contexts PROVE SameState(c)
  BY <1>2, SameUseIs
<1>9. UseOK(x)'
  <2>1. UseOK(x) /\ SameState(x)
    BY <1>3, <1>8 DEF UseInv
  <2>2. \A P : {"child.anchor", "child.done"} \cap P = {} =>
                 ~OneAboutX(H, x, P) /\ ~OneOnC(H, x, P) /\ ~OneAboutX(G, x, P) /\ ~OneOnC(G, x, P)
    BY <1>2, <1>4, <1>5 DEF OneAboutX, OneOnC
  <2>3. /\ OneOnC(H, x, {"child.anchor", "child.done"}) /\ OneOnC(G, x, {"child.anchor", "child.done"})
    BY <1>1, <1>2, <1>4, <1>5 DEF OneOnC
  <2>4. /\ {"child.anchor", "child.done"} \cap LatePcs = {}
        /\ {"child.anchor", "child.done"} \cap RemovePcs = {}
        /\ {"child.anchor", "child.done"} \cap {"child.add"} = {}
        /\ {"child.anchor", "child.done"} \cap {"destroy"} = {}
        /\ {"child.anchor", "child.done"} \cap {"close.closed", "close.release"} = {}
        /\ {"child.anchor", "child.done"} \cap {"close.pop"} = {}
        /\ {"child.anchor", "child.done"} \cap {"close.call"} = {}
    BY DEF LatePcs, RemovePcs
  <2>5. /\ Making(x)' <=> Making(x)
        /\ Dying(x)' <=> Dying(x)
        /\ Late(x)' <=> Late(x)
        /\ Ending(x)' <=> Ending(x)
        /\ Taken(x)' <=> Taken(x)
        /\ Popping(x)' <=> Popping(x)
        /\ Calling(x)' <=> Calling(x)
    BY <1>6, <2>2, <2>4, KindsFollow DEF Follows
  <2>6. Touched(x)' <=> Touched(x)
    BY <1>6, <2>3, KindsFollow DEF Follows
  <2>7. SameKinds(x)
    BY <2>5, <2>6 DEF SameKinds
  <2> QED BY <2>1, <2>7, UseSame
<1> QED BY <1>6, <1>7, <1>8, <1>9, UseBut

\* The child is called by its parent's loop, once: it is done with it, and closes.
LEMMA CloseChildUse ==
  ASSUME UseInv, Known, LifeInv, CloseInv, NEW t \in AllThreads, CloseChild(t)
  PROVE  UseInv'
<1>1. PICK h, s, r, x, f : /\ h = Top(t) /\ s = TopSpot(t) /\ r = <<t, Len(stack[t]) + 1>> /\ x = h.c
                           /\ f = Frame("close", x, None, FALSE)
  OBVIOUS
<1>2. /\ stack[t] # <<>> /\ h.pc = "child.done" /\ Enter(t, "child.release", f) /\ "child.release" \in Pcs
      /\ flags' = flags /\ list' = list /\ fate' = fate /\ owned' = owned /\ holder' = holder
      /\ destroyed' = [destroyed EXCEPT ![x] = TRUE] /\ done' = [done EXCEPT ![x] = TRUE]
  BY <1>1 DEF CloseChild, At, words, exec, history, clients, Pcs
<1>3. h \in FrameSet /\ h = Fr(s) /\ x \in Contexts /\ s \in Spots
  BY <1>1, <1>2, TopLifeIs
<1>4. f \in FrameSet /\ f.pc = "close" /\ f.c = x
  <2>1. None \in Arguments /\ "close" \in Pcs
    BY DEF Arguments, Pcs, Ops
  <2> QED BY <1>1, <1>3, <2>1 DEF Frame, FrameSet
<1>5. PICK g \in FrameSet : CallsUp(s, r, f, g) /\ g.pc = "child.release" /\ g.c = x
  <2>1. \E g \in FrameSet : /\ CallsUp(s, r, f, g) /\ g.pc = "child.release" /\ g.c = Top(t).c /\ g.x = Top(t).x
                            /\ g.ref = Top(t).ref
    <3>1. s = TopSpot(t) /\ r = <<t, Len(stack[t]) + 1>> /\ stack[t] # <<>>
      BY <1>1, <1>2
    <3>2. "child.release" \in Pcs /\ f \in FrameSet /\ Enter(t, "child.release", f)
      BY <1>2, <1>4
    <3> QED BY <3>1, <3>2, EnterSpots
  <2> QED BY <1>1, <2>1
<1>6. PICK H, G : H = {h} /\ G = {g, f}
  OBVIOUS
<1>7. Shift(H, G) /\ H \subseteq FrameSet /\ G \subseteq FrameSet
  BY <1>3, <1>4, <1>5, <1>6, ShiftsAre
<1>8. \A e \in H \cup G : \A c \in Contexts : c # x => Clear(e, c)
  BY <1>1, <1>2, <1>4, <1>5, <1>6 DEF Clear
<1>9. destroyed \in [Nodes -> BOOLEAN] /\ done \in [Nodes -> BOOLEAN] /\ x \in Nodes
  BY <1>3 DEF CloseInv, HandlersInv, Shapes, Nodes
<1>10. ASSUME NEW c \in Contexts, c # x PROVE SameState(c)
  BY <1>2, <1>10 DEF SameState, Closed, Born, InLists
<1>11. UseOK(x)'
  <2>1. UseOK(x)
    BY <1>3 DEF UseInv
  <2>2. \A P : {"child.done", "child.release", "close"} \cap P = {} =>
                 ~OneAboutX(H, x, P) /\ ~OneOnC(H, x, P) /\ ~OneAboutX(G, x, P) /\ ~OneOnC(G, x, P)
    BY <1>2, <1>4, <1>5, <1>6 DEF OneAboutX, OneOnC
  <2>3. /\ {"child.done", "child.release", "close"} \cap LatePcs = {}
        /\ {"child.done", "child.release", "close"} \cap RemovePcs = {}
        /\ {"child.done", "child.release", "close"} \cap {"child.add"} = {}
        /\ {"child.done", "child.release", "close"} \cap {"destroy"} = {}
        /\ {"child.done", "child.release", "close"} \cap {"close.closed", "close.release"} = {}
        /\ {"child.done", "child.release", "close"} \cap {"close.pop"} = {}
        /\ {"child.done", "child.release", "close"} \cap {"close.call"} = {}
    BY DEF LatePcs, RemovePcs
  <2>4. /\ Making(x)' <=> Making(x)
        /\ Dying(x)' <=> Dying(x)
        /\ Late(x)' <=> Late(x)
        /\ Ending(x)' <=> Ending(x)
        /\ Taken(x)' <=> Taken(x)
        /\ Popping(x)' <=> Popping(x)
        /\ Calling(x)' <=> Calling(x)
    BY <1>7, <2>2, <2>3, KindsFollow DEF Follows
  <2>5. (Closed(x)' <=> Closed(x)) /\ (Born(x)' <=> Born(x)) /\ (InLists(x)' <=> InLists(x))
    BY <1>2 DEF Closed, Born, InLists
  <2>6. fate[x] = "called" /\ ~InLists(x) /\ ~Calling(x)
    <3>1. Fr(s).c = x /\ Fr(s).pc \in ChildCallPcs
      BY <1>1, <1>2, <1>3 DEF ChildCallPcs
    <3>2. fate[x] = "called" /\ ~InLists(x)
      BY <1>3, <3>1, TouchedIs DEF InLists
    <3>3. ASSUME Calling(x) PROVE FALSE
      <4>1. PICK q \in Spots : Fr(q) \in AboutX(x, {"close.call"})
        BY <3>3 DEF Calling, Some
      <4>2. Fr(q).x = x /\ Fr(q).pc = "close.call" /\ Fr(q).pc \in PoppedPcs
        BY <4>1 DEF AboutX, PoppedPcs
      <4>3. fate[x] = "added"
        BY <1>3, <4>2, PoppedIs
      <4> QED BY <3>2, <4>3
    <3> QED BY <3>2, <3>3
  <2>7. ~Touched(x)'
    <3>1. PICK F : F = OnC(x, {"child.anchor", "child.done"})
      OBVIOUS
    <3>2. F = (OnC(x, {"child.anchor", "child.done"}))'
      BY <3>1 DEF OnC
    <3>3. ASSUME NEW q \in Spots, Fr(q) \in F PROVE q = s
      <4>1. Fr(q).c = x /\ Fr(q).pc \in ChildCallPcs
        BY <3>1, <3>3 DEF OnC, ChildCallPcs
      <4>2. Fr(s).c = x /\ Fr(s).pc \in ChildCallPcs
        BY <1>1, <1>2, <1>3 DEF ChildCallPcs
      <4> QED BY <1>3, <4>1, <4>2, OneTouch
    <3>4. g \notin F /\ f \notin F
      BY <1>4, <1>5, <3>1 DEF OnC
    <3>5. ~Some(F)'
      BY <1>5, <3>3, <3>4, NotSome
    <3> QED BY <3>2, <3>5 DEF Touched, Some
  <2>8. ~Pending(x)'
    BY <2>4, <2>5, <2>6, <2>7 DEF Pending
  <2>9. destroyed'[x] /\ fate'[x] = "called"
    BY <1>2, <1>9, <2>6
  <2> QED BY <1>2, <2>1, <2>4, <2>5, <2>7, <2>8, <2>9 DEF UseOK
<1> QED BY <1>7, <1>8, <1>10, <1>11, UseBut

LEMMA CallUse ==
  ASSUME UseInv, Known, LifeInv, CloseInv, NEW t \in AllThreads, CallHandler(t)
  PROVE  UseInv'
<1>1. PICK h, s, x, r : h = Top(t) /\ s = TopSpot(t) /\ x = h.x /\ r = <<t, Len(stack[t]) + 1>>
  OBVIOUS
<1>2. /\ stack[t] # <<>> /\ h.pc = "close.call" /\ owned' = owned /\ flags' = flags /\ list' = list
      /\ holder' = holder /\ destroyed' = destroyed /\ done' = done
      /\ fate' = [fate EXCEPT ![x] = IF fate[x] = "called" THEN "called twice" ELSE "called"]
      /\ Enter(t, "close.pop", IF x \in Contexts THEN Frame("child.anchor", x, None, FALSE)
                                                 ELSE Frame("handler", h.c, x, FALSE))
  BY <1>1 DEF CallHandler, At, exec, clients, words, nodes
<1>3. h \in FrameSet /\ h.c \in Contexts /\ h = Fr(s) /\ "close.pop" \in Pcs /\ x \in Arguments
  BY <1>1, <1>2, TopKnown DEF Pcs, ClosingPcs, FrameSet
<1>4. x \in Nodes /\ fate[x] = "added"
  <2>1. FrameLife(h) /\ h.pc \in PoppedPcs
    BY <1>1, <1>2, TopLifeIs DEF PoppedPcs
  <2> QED BY <1>1, <1>2, <2>1 DEF FrameLife
<1>5. fate \in [Nodes -> Fates]
  BY DEF CloseInv, HandlersInv, Shapes
<1>6. \A y \in Nodes : fate'[y] = IF y = x THEN "called" ELSE fate[y]
  BY <1>2, <1>4, <1>5
<1>7. PICK f : /\ f \in FrameSet /\ Enter(t, "close.pop", f)
               /\ x \in Contexts => f.pc = "child.anchor" /\ f.c = x /\ f.x = None
               /\ x \notin Contexts => f.pc = "handler"
  <2>1. CASE x \in Contexts
    <3>1. PICK f : f = Frame("child.anchor", x, None, FALSE)
      OBVIOUS
    <3>2. f \in FrameSet /\ f.pc = "child.anchor" /\ f.c = x /\ f.x = None
      BY <2>1, <3>1 DEF Frame, FrameSet, Pcs, Arguments
    <3>4. Enter(t, "close.pop", f)
      BY <1>2, <2>1, <3>1
    <3> QED BY <2>1, <3>2, <3>4
  <2>2. CASE x \notin Contexts
    <3>1. PICK f : f = Frame("handler", h.c, x, FALSE)
      OBVIOUS
    <3>2. f \in FrameSet /\ f.pc = "handler"
      BY <1>3, <3>1 DEF Frame, FrameSet, Pcs
    <3>3. Enter(t, "close.pop", f)
      BY <1>2, <2>2, <3>1
    <3> QED BY <2>2, <3>2, <3>3
  <2> QED BY <2>1, <2>2
<1>8. PICK g \in FrameSet : CallsUp(s, r, f, g) /\ g.x = x /\ g.pc = "close.pop"
  <2>1. PICK p : p = "close.pop" /\ p \in Pcs
    BY <1>3
  <2>2. stack[t] # <<>> /\ f \in FrameSet /\ Enter(t, p, f) /\ s = TopSpot(t) /\ r = <<t, Len(stack[t]) + 1>>
    BY <1>1, <1>2, <1>7, <2>1
  <2>3. \E g \in FrameSet : /\ CallsUp(s, r, f, g) /\ g.pc = p /\ g.c = Top(t).c /\ g.x = Top(t).x
                            /\ g.ref = Top(t).ref
    BY <2>1, <2>2, EnterSpots
  <2> QED BY <1>1, <2>1, <2>3
<1>9. PICK H, G : H = {h} /\ G = {g, f}
  OBVIOUS
<1>10. Shift(H, G) /\ H \subseteq FrameSet /\ G \subseteq FrameSet
  BY <1>3, <1>7, <1>8, <1>9, ShiftsAre
<1>11. ASSUME NEW e \in H \cup G, NEW c \in Contexts, c # x PROVE Clear(e, c)
  BY <1>1, <1>2, <1>7, <1>8, <1>9, <1>11 DEF Clear
<1>12. ASSUME NEW c \in Contexts, c # x PROVE SameState(c)
  <2>1. fate'[c] = fate[c]
    BY <1>6, <1>12 DEF Nodes
  <2> QED BY <1>2, <2>1 DEF SameState, Closed, Born, InLists
<1>13. ASSUME x \in Contexts PROVE UseOK(x)'
  <2>1. UseOK(x)
    BY <1>13 DEF UseInv
  <2>2. f.pc = "child.anchor" /\ f.c = x /\ f.x = None /\ x # None
    BY <1>7, <1>13, TreeAssumption
  <2>3. \A P : {"child.anchor", "close.pop", "close.call"} \cap P = {} =>
                 ~OneAboutX(H, x, P) /\ ~OneOnC(H, x, P) /\ ~OneAboutX(G, x, P) /\ ~OneOnC(G, x, P)
    BY <1>2, <1>8, <1>9, <2>2 DEF OneAboutX, OneOnC
  <2>4. /\ {"child.anchor", "close.pop", "close.call"} \cap LatePcs = {}
        /\ {"child.anchor", "close.pop", "close.call"} \cap RemovePcs = {}
        /\ {"child.anchor", "close.pop", "close.call"} \cap {"child.add"} = {}
        /\ {"child.anchor", "close.pop", "close.call"} \cap {"destroy"} = {}
        /\ {"child.anchor", "close.pop", "close.call"} \cap {"close.closed", "close.release"} = {}
    BY DEF LatePcs, RemovePcs
  <2>5. /\ Making(x)' <=> Making(x)
        /\ Dying(x)' <=> Dying(x)
        /\ Late(x)' <=> Late(x)
        /\ Ending(x)' <=> Ending(x)
        /\ Taken(x)' <=> Taken(x)
    BY <1>10, <2>3, <2>4, KindsFollow DEF Follows
  <2>6. Touched(x)'
    <3>1. OneOnC(G, x, {"child.anchor", "child.done"})
      BY <1>9, <2>2 DEF OneOnC
    <3> QED BY <1>10, <3>1, KindsFollow DEF Follows
  <2>7. (Closed(x)' <=> Closed(x)) /\ (Born(x)' <=> Born(x)) /\ ~done'[x]
    BY <1>2, <1>4, <1>6, <2>1 DEF Closed, Born, UseOK
  <2>8. Calling(x)
    <3>1. OneAboutX(H, x, {"close.call"})
      BY <1>1, <1>2, <1>9 DEF OneAboutX
    <3> QED BY <1>10, <3>1, KindsFollow DEF Follows
  <2>9. ~Closed(x) /\ (Late(x) => Taken(x))
    BY <2>1, <2>8 DEF UseOK, Pending
  <2> QED BY <1>2, <2>1, <2>5, <2>6, <2>7, <2>9 DEF UseOK
<1> QED BY <1>10, <1>11, <1>12, <1>13, UseBut

LEMMA TailHolds ==
  ASSUME NEW l \in Seq(Nodes), l # <<>>, NEW c, c # Head(l)
  PROVE  c \in ToSet(Tail(l)) <=> c \in ToSet(l)
<1>1. PICK r : r = Tail(l)
  OBVIOUS
<1>2. /\ r \in Seq(Nodes) /\ Len(r) = Len(l) - 1 /\ Len(l) \in Nat /\ Len(l) >= 1
      /\ \A n \in 1..Len(r) : r[n] = l[n + 1]
  BY <1>1
<1>3. Head(l) = l[1]
  OBVIOUS
<1>4. ASSUME NEW n \in DOMAIN r, r[n] = c PROVE c \in ToSet(l)
  <2>1. n + 1 \in DOMAIN l /\ l[n + 1] = c
    BY <1>2, <1>4
  <2> QED BY <2>1 DEF ToSet
<1>5. ASSUME NEW n \in DOMAIN l, l[n] = c PROVE c \in ToSet(r)
  <2>1. n # 1 /\ n \in 1..Len(l)
    BY <1>3, <1>5
  <2>2. n - 1 \in DOMAIN r /\ (n - 1) + 1 = n
    BY <1>2, <2>1
  <2>3. r[n - 1] = c
    BY <1>2, <1>5, <2>2
  <2> QED BY <2>2, <2>3 DEF ToSet
<1>6. c \in ToSet(r) => c \in ToSet(l)
  BY <1>4 DEF ToSet
<1>7. c \in ToSet(l) => c \in ToSet(r)
  BY <1>5 DEF ToSet
<1> QED BY <1>1, <1>6, <1>7

\* A loop takes the next handler: the child that it has called last has gone out of its hands.
LEMMA PopUse ==
  ASSUME UseInv, Known, LifeInv, CloseInv, NEW t \in AllThreads, PopHandler(t)
  PROVE  UseInv'
<1>1. PICK h, s, last, next, l : /\ h = Top(t) /\ s = TopSpot(t) /\ last = h.x /\ next = NextOf(t) /\ l = list[h.c]
  OBVIOUS
<1>2. /\ stack[t] # <<>> /\ h.pc = "close.pop" /\ flags' = flags /\ fate' = fate /\ owned' = owned /\ holder' = holder
      /\ done' = IF last # None /\ ~destroyed[last] THEN [done EXCEPT ![last] = TRUE] ELSE done
      /\ next = None => destroyed' = destroyed /\ list' = list
      /\ next # None => /\ destroyed' = [destroyed EXCEPT ![next] = FALSE]
                        /\ list' = [list EXCEPT ![h.c] = Tail(l)]
  BY <1>1 DEF PopHandler, NextOf, At, exec, history, clients, words
<1>3. h \in FrameSet /\ h = Fr(s) /\ h.c \in Contexts /\ s \in Spots /\ \A q \in Spots : Under(q) # s
  BY <1>1, <1>2, TopLifeIs
<1>4. /\ list \in [Contexts -> Seq(Nodes)] /\ destroyed \in [Nodes -> BOOLEAN] /\ done \in [Nodes -> BOOLEAN]
      /\ l \in Seq(Nodes)
  BY <1>1, <1>3 DEF CloseInv, HandlersInv, Shapes
<1>5. PICK g \in FrameSet : /\ TurnsTo(s, g) /\ g.c = h.c /\ g.x = next
                            /\ g.pc = IF next = None THEN "close.parent" ELSE "close.call"
  <2>1. \E g \in FrameSet :
           /\ TurnsTo(s, g) /\ g.c = Top(t).c /\ g.ref = Top(t).ref
           /\ SetClosingFlag(t) => g.pc = "close.pop" /\ g.x = None
           /\ PopHandler(t) => /\ g.x = NextOf(t)
                               /\ g.pc = IF NextOf(t) = None THEN "close.parent" ELSE "close.call"
    BY <1>1, ReframeSpots
  <2> QED BY <1>1, <2>1
<1>6. PICK H, G : H = {h} /\ G = {g}
  OBVIOUS
<1>7. Shift(H, G) /\ H \subseteq FrameSet /\ G \subseteq FrameSet
  BY <1>3, <1>5, <1>6, ShiftsAre
<1>8. ASSUME last \in Contexts PROVE destroyed[last] /\ fate[last] = "called"
  <2>1. UseOK(last) /\ last \in Nodes
    BY <1>8 DEF UseInv, Nodes
  <2>2. h \in AboutX(last, PoppedPcs) /\ Fr(s).pc \in PoppedPcs /\ h \in AboutX(last, {"close.pop"})
    BY <1>1, <1>2, <1>3 DEF AboutX, PoppedPcs
  <2>3. Popping(last)
    BY <1>3, <2>2 DEF Popping, Some
  <2>4. ASSUME Touched(last) PROVE FALSE
    <3>1. PICK q \in Spots : Fr(q) \in OnC(last, {"child.anchor", "child.done"})
      BY <2>4 DEF Touched, Some
    <3>2. Fr(q).c = last /\ Fr(q).pc \in ChildCallPcs
      BY <3>1 DEF OnC, ChildCallPcs
    <3>3. Under(q) \in Spots /\ Fr(Under(q)) \in AboutX(last, PoppedPcs)
      BY <1>8, <3>2, TouchedIs
    <3>4. Under(q) = s
      BY <1>3, <2>1, <2>2, <3>3 DEF LifeInv, OnePopper, AtMostOne
    <3> QED BY <1>3, <3>4
  <2>5. fate[last] = "called"
    <3>1. Fr(s).x = last /\ Fr(s).pc = "close.pop" /\ Fr(s).pc \in PoppedPcs
      BY <1>1, <1>2, <1>3, <2>2
    <3> QED BY <1>3, <1>8, <3>1, PoppedIs
  <2> QED BY <2>1, <2>3, <2>4, <2>5 DEF UseOK
<1>9. ASSUME NEW c \in Contexts PROVE done'[c] = done[c]
  <2>1. CASE last \in Contexts
    BY <1>2, <1>8, <2>1
  <2>2. CASE last \notin Contexts
    BY <1>2, <1>4, <2>2 DEF Nodes
  <2> QED BY <2>1, <2>2
<1>10. ASSUME next # None PROVE l # <<>> /\ next = Head(l) /\ next \in ToSet(l)
  <2>1. l # <<>> /\ next = Head(l)
    BY <1>1, <1>10 DEF NextOf
  <2>2. 1 \in DOMAIN l /\ next = l[1]
    BY <1>4, <2>1
  <2> QED BY <2>1, <2>2 DEF ToSet
<1>11. \A c \in Contexts : c # None
  BY TreeAssumption
<1>12. ASSUME NEW c \in Contexts, c # next PROVE UseOK(c)'
  <2>1. UseOK(c)
    BY DEF UseInv
  <2>2. destroyed'[c] = destroyed[c]
    BY <1>2, <1>4, <1>12 DEF Nodes
  <2>3. InLists(c)' <=> InLists(c)
    <3>1. CASE next = None
      BY <1>2, <3>1 DEF InLists
    <3>2. CASE next # None
      <4>1. c \in ToSet(Tail(l)) <=> c \in ToSet(l)
        BY <1>4, <1>10, <1>12, <3>2, TailHolds
      <4>2. list'[h.c] = Tail(l) /\ \A d \in Contexts : d # h.c => list'[d] = list[d]
        BY <1>2, <1>3, <1>4, <3>2
      <4>3. ASSUME NEW d \in Contexts PROVE c \in ToSet(list'[d]) <=> c \in ToSet(list[d])
        BY <1>1, <4>1, <4>2
      <4> QED BY <4>3 DEF InLists
    <3> QED BY <3>1, <3>2
  <2>4. SameState(c)
    BY <1>2, <1>9, <2>2, <2>3 DEF SameState, Closed, Born
  <2>5. /\ \A P : "close.pop" \notin P => ~OneAboutX(H, c, P) /\ ~OneOnC(H, c, P)
        /\ \A P : ~OneAboutX(G, c, P)
        /\ \A P : {"close.parent", "close.call"} \cap P = {} => ~OneOnC(G, c, P)
    BY <1>1, <1>2, <1>5, <1>6, <1>12 DEF OneAboutX, OneOnC
  <2>6. /\ "close.pop" \notin LatePcs \cup RemovePcs \cup {"child.add", "destroy", "close.call", "child.anchor", "child.done"}
        /\ "close.pop" \notin {"close.closed", "close.release"}
        /\ {"close.parent", "close.call"} \cap LatePcs = {}
        /\ {"close.parent", "close.call"} \cap {"destroy"} = {}
        /\ {"close.parent", "close.call"} \cap {"close.closed", "close.release"} = {}
        /\ {"close.parent", "close.call"} \cap {"child.anchor", "child.done"} = {}
    BY DEF LatePcs, RemovePcs
  <2>7. /\ Making(c)' <=> Making(c)
        /\ Dying(c)' <=> Dying(c)
        /\ Late(c)' <=> Late(c)
        /\ Ending(c)' <=> Ending(c)
        /\ Taken(c)' <=> Taken(c)
        /\ Popping(c)' => Popping(c)
        /\ Calling(c)' <=> Calling(c)
        /\ Touched(c)' <=> Touched(c)
    BY <1>7, <2>5, <2>6, KindsFollow DEF Follows
  <2>8. Pending(c)' <=> Pending(c)
    BY <2>4, <2>7 DEF Pending, SameState
  <2> QED BY <2>1, <2>4, <2>7, <2>8 DEF UseOK, SameState
<1>13. ASSUME NEW c \in Contexts, c = next PROVE UseOK(c)'
  <2>1. UseOK(c) /\ c \in ToSet(l) /\ next # None
    BY <1>10, <1>11, <1>13 DEF UseInv
  <2>2. fate[c] = "added" /\ InLists(c) /\ ~Popping(c)
    <3>1. fate[c] = "added" /\ InLists(c)
      BY <1>1, <1>3, <2>1, ListedIs DEF InLists
    <3>2. ASSUME Popping(c) PROVE FALSE
      <4>1. PICK q \in Spots : Fr(q) \in AboutX(c, {"close.pop"})
        BY <3>2 DEF Popping, Some
      <4>2. Fr(q).x = c /\ Fr(q).pc = "close.pop" /\ Fr(q).pc \in PoppedPcs
        BY <4>1 DEF AboutX, PoppedPcs
      <4>3. fate[c] = "called"
        BY <4>2, PoppedIs
      <4> QED BY <3>1, <4>3
    <3> QED BY <3>1, <3>2
  <2>3. ~done'[c] /\ ~Closed(c) /\ (Late(c) => Taken(c))
    BY <1>9, <2>1, <2>2 DEF UseOK, Pending
  <2>4. g.pc = "close.call"
    BY <1>5, <2>1
  <2>5. \A P : {"close.pop", "close.call"} \cap P = {} =>
                 ~OneAboutX(H, c, P) /\ ~OneOnC(H, c, P) /\ ~OneAboutX(G, c, P) /\ ~OneOnC(G, c, P)
    BY <1>2, <1>6, <2>4 DEF OneAboutX, OneOnC
  <2>6. /\ {"close.pop", "close.call"} \cap LatePcs = {}
        /\ {"close.pop", "close.call"} \cap RemovePcs = {}
        /\ {"close.pop", "close.call"} \cap {"child.add"} = {}
        /\ {"close.pop", "close.call"} \cap {"destroy"} = {}
        /\ {"close.pop", "close.call"} \cap {"close.closed", "close.release"} = {}
    BY DEF LatePcs, RemovePcs
  <2>7. /\ Making(c)' <=> Making(c)
        /\ Dying(c)' <=> Dying(c)
        /\ Late(c)' <=> Late(c)
        /\ Ending(c)' <=> Ending(c)
        /\ Taken(c)' <=> Taken(c)
    BY <1>7, <2>5, <2>6, KindsFollow DEF Follows
  <2>8. ~Popping(c)'
    <3>1. ~OneAboutX(G, c, {"close.pop"})
      BY <1>6, <2>4 DEF OneAboutX
    <3> QED BY <1>7, <2>2, <3>1, KindsFollow DEF Follows
  <2>9. (Closed(c)' <=> Closed(c)) /\ (Born(c)' <=> Born(c))
    BY <1>2 DEF Closed, Born
  <2> QED BY <1>2, <2>1, <2>3, <2>7, <2>8, <2>9 DEF UseOK
<1> QED BY <1>12, <1>13 DEF UseInv

\* A child that leaves its parent announces itself in its parent's list.
LEMMA LeaveUse ==
  ASSUME UseInv, Known, LifeInv, CloseInv, NEW t \in AllThreads, LeaveParent(t)
  PROVE  UseInv'
<1>1. PICK h, s, x, r : h = Top(t) /\ s = TopSpot(t) /\ x = h.c /\ r = <<t, Len(stack[t]) + 1>>
  OBVIOUS
<1>2. /\ SameUse /\ stack[t] # <<>> /\ h.pc = "close.parent" /\ "close.reset" \in Pcs
      /\ IF Parent[x] = None THEN Goto(t, "close.reset")
                             ELSE Enter(t, "close.reset", Frame("remove", Parent[x], x, FALSE))
  BY <1>1 DEF LeaveParent, At, SameUse, words, nodes, exec, history, clients, Pcs, ClosingPcs
<1>3. h \in FrameSet /\ h = Fr(s) /\ x \in Contexts
  BY <1>1, <1>2, TopLifeIs
<1>4. \E H, G : /\ Shift(H, G) /\ H \subseteq FrameSet /\ G \subseteq FrameSet /\ H = {h}
                /\ \A f \in G : \/ f.pc = "close.reset" /\ f.c = x
                                \/ f.pc = "remove" /\ f.x = x
                /\ \E f \in G : f.pc = "close.reset" /\ f.c = x
                /\ Parent[x] # None => \E f \in G : f.pc = "remove" /\ f.x = x
  <2>1. PICK H : H = {h}
    OBVIOUS
  <2>2. PICK p : p = "close.reset" /\ p \in Pcs
    BY <1>2
  <2>3. CASE Parent[x] = None
    <3>1. s = TopSpot(t) /\ stack[t] # <<>> /\ Goto(t, p)
      BY <1>1, <1>2, <2>2, <2>3
    <3>2. \E g \in FrameSet : /\ TurnsTo(s, g) /\ g.pc = p /\ g.c = Top(t).c /\ g.x = Top(t).x
                              /\ g.ref = Top(t).ref
      BY <2>2, <3>1, GotoSpots
    <3>3. PICK g \in FrameSet : TurnsTo(s, g) /\ g.pc = "close.reset" /\ g.c = x
      BY <1>1, <2>2, <3>2
    <3>4. PICK G : G = {g}
      OBVIOUS
    <3>5. Shift(H, G)
      BY <1>3, <2>1, <3>3, <3>4, ShiftsAre
    <3> QED BY <1>3, <2>1, <2>3, <3>3, <3>4, <3>5
  <2>4. CASE Parent[x] # None
    <3>1. PICK f : f = Frame("remove", Parent[x], x, FALSE)
      OBVIOUS
    <3>2. Parent[x] \in Contexts
      BY <1>3, <2>4, TreeAssumption
    <3>3. f \in FrameSet /\ f.pc = "remove" /\ f.x = x
      <4>1. x \in Arguments /\ "remove" \in Pcs
        BY <1>3 DEF Arguments, Nodes, Pcs, KnowPcs
      <4> QED BY <3>1, <3>2, <4>1 DEF Frame, FrameSet
    <3>4. stack[t] # <<>> /\ Enter(t, p, f) /\ s = TopSpot(t) /\ r = <<t, Len(stack[t]) + 1>>
      BY <1>1, <1>2, <2>2, <2>4, <3>1
    <3>5. \E g \in FrameSet : /\ CallsUp(s, r, f, g) /\ g.pc = p /\ g.c = Top(t).c /\ g.x = Top(t).x
                              /\ g.ref = Top(t).ref
      BY <2>2, <3>3, <3>4, EnterSpots
    <3>6. PICK g \in FrameSet : CallsUp(s, r, f, g) /\ g.pc = "close.reset" /\ g.c = x
      BY <1>1, <2>2, <3>5
    <3>7. PICK G : G = {g, f}
      OBVIOUS
    <3>8. Shift(H, G)
      BY <1>3, <2>1, <3>6, <3>7, ShiftsAre
    <3>9. \E e \in G : e.pc = "remove" /\ e.x = x
      BY <3>3, <3>7
    <3>10. \E e \in G : e.pc = "close.reset" /\ e.c = x
      BY <3>6, <3>7
    <3> QED BY <1>3, <2>1, <3>3, <3>6, <3>7, <3>8, <3>9, <3>10
  <2> QED BY <2>3, <2>4
<1>5. PICK H, G : /\ Shift(H, G) /\ H \subseteq FrameSet /\ G \subseteq FrameSet /\ H = {h}
                  /\ \A f \in G : \/ f.pc = "close.reset" /\ f.c = x
                                  \/ f.pc = "remove" /\ f.x = x
                  /\ \E f \in G : f.pc = "close.reset" /\ f.c = x
                  /\ Parent[x] # None => \E f \in G : f.pc = "remove" /\ f.x = x
  BY <1>4
<1>6. ASSUME NEW e \in H \cup G, NEW c \in Contexts, c # x PROVE Clear(e, c)
  BY <1>1, <1>2, <1>5, <1>6 DEF Clear
<1>7. ASSUME NEW c \in Contexts PROVE SameState(c)
  BY <1>2, SameUseIs
<1>8. UseOK(x)'
  <2>1. UseOK(x) /\ SameState(x)
    BY <1>3, <1>7 DEF UseInv
  <2>2. \A P : {"close.parent", "close.reset", "remove"} \cap P = {} =>
                 ~OneAboutX(H, x, P) /\ ~OneOnC(H, x, P) /\ ~OneAboutX(G, x, P) /\ ~OneOnC(G, x, P)
    BY <1>2, <1>5 DEF OneAboutX, OneOnC
  <2>3. /\ {"close.parent", "close.reset", "remove"} \cap {"child.add"} = {}
        /\ {"close.parent", "close.reset", "remove"} \cap {"destroy"} = {}
        /\ {"close.parent", "close.reset", "remove"} \cap {"close.closed", "close.release"} = {}
        /\ {"close.parent", "close.reset", "remove"} \cap {"close.pop"} = {}
        /\ {"close.parent", "close.reset", "remove"} \cap {"close.call"} = {}
        /\ {"close.parent", "close.reset", "remove"} \cap {"child.anchor", "child.done"} = {}
    OBVIOUS
  <2>4. /\ Making(x)' <=> Making(x)
        /\ Dying(x)' <=> Dying(x)
        /\ Ending(x)' <=> Ending(x)
        /\ Popping(x)' <=> Popping(x)
        /\ Calling(x)' <=> Calling(x)
        /\ Touched(x)' <=> Touched(x)
    BY <1>5, <2>2, <2>3, KindsFollow DEF Follows
  <2>5. Pending(x)' <=> Pending(x)
    BY <2>1, <2>4 DEF Pending, SameState
  <2>6. Parent[x] # None => Taken(x)'
    <3>1. ASSUME Parent[x] # None PROVE OneAboutX(G, x, RemovePcs)
      BY <1>5, <3>1 DEF OneAboutX, RemovePcs
    <3> QED BY <1>5, <3>1, KindsFollow DEF Follows
  <2>7. Pending(x) => Taken(x)'
    BY <1>3, <2>6, PendingIs
  <2> QED BY <2>1, <2>4, <2>5, <2>7 DEF UseOK, SameState
<1> QED BY <1>5, <1>6, <1>7, <1>8, UseBut

LEMMA ResetUse ==
  ASSUME UseInv, HoldersTyped, Known, LifeInv, CloseInv, NEW t \in AllThreads, ResetExecutor(t)
  PROVE  UseInv'
<1>1. PICK h, s, x : h = Top(t) /\ s = TopSpot(t) /\ x = h.c
  OBVIOUS
<1>2. /\ stack[t] # <<>> /\ h.pc = "close.reset" /\ Goto(t, "close.closed") /\ "close.closed" \in Pcs
      /\ flags' = flags /\ list' = list /\ fate' = fate /\ owned' = owned
      /\ destroyed' = destroyed /\ done' = done /\ holder' = [holder EXCEPT ![x] = FALSE]
  BY <1>1 DEF ResetExecutor, At, nodes, history, clients, Pcs, ClosingPcs
<1>3. h \in FrameSet /\ h = Fr(s) /\ x \in Contexts
  BY <1>1, <1>2, TopLifeIs
<1>4. PICK g \in FrameSet : TurnsTo(s, g) /\ g.pc = "close.closed" /\ g.c = x
  <2>1. PICK p : p = "close.closed"
    OBVIOUS
  <2>2. s = TopSpot(t) /\ stack[t] # <<>> /\ p \in Pcs /\ Goto(t, p)
    BY <1>1, <1>2, <2>1
  <2>3. \E g \in FrameSet : /\ TurnsTo(s, g) /\ g.pc = p /\ g.c = Top(t).c /\ g.x = Top(t).x
                            /\ g.ref = Top(t).ref
    BY <2>2, GotoSpots
  <2> QED BY <1>1, <2>1, <2>3
<1>5. PICK H, G : H = {h} /\ G = {g}
  OBVIOUS
<1>6. Shift(H, G) /\ H \subseteq FrameSet /\ G \subseteq FrameSet
  BY <1>3, <1>4, <1>5, ShiftsAre
<1>7. \A e \in H \cup G : \A c \in Contexts : c # x => Clear(e, c)
  BY <1>1, <1>2, <1>4, <1>5 DEF Clear
<1>8. ASSUME NEW c \in Contexts, c # x PROVE SameState(c)
  <2>1. holder'[c] = holder[c]
    BY <1>2, <1>8 DEF HoldersTyped
  <2> QED BY <1>2, <2>1 DEF SameState, Closed, Born, InLists
<1>9. UseOK(x)'
  <2>1. UseOK(x)
    BY <1>3 DEF UseInv
  <2>2. \A P : {"close.reset", "close.closed"} \cap P = {} =>
                 ~OneAboutX(H, x, P) /\ ~OneOnC(H, x, P) /\ ~OneAboutX(G, x, P) /\ ~OneOnC(G, x, P)
    BY <1>2, <1>4, <1>5 DEF OneAboutX, OneOnC
  <2>3. /\ {"close.reset", "close.closed"} \cap {"child.add"} = {}
        /\ {"close.reset", "close.closed"} \cap {"destroy"} = {}
        /\ {"close.reset", "close.closed"} \cap RemovePcs = {}
        /\ {"close.reset", "close.closed"} \cap {"close.pop"} = {}
        /\ {"close.reset", "close.closed"} \cap {"close.call"} = {}
        /\ {"close.reset", "close.closed"} \cap {"child.anchor", "child.done"} = {}
    BY DEF RemovePcs
  <2>4. /\ Making(x)' <=> Making(x)
        /\ Dying(x)' <=> Dying(x)
        /\ Taken(x)' <=> Taken(x)
        /\ Popping(x)' <=> Popping(x)
        /\ Calling(x)' <=> Calling(x)
        /\ Touched(x)' <=> Touched(x)
    BY <1>6, <2>2, <2>3, KindsFollow DEF Follows
  <2>5. Ending(x)' /\ Late(x)
    <3>1. OneOnC(G, x, {"close.closed", "close.release"}) /\ OneOnC(H, x, LatePcs)
      BY <1>1, <1>2, <1>4, <1>5 DEF OneOnC, LatePcs
    <3> QED BY <1>6, <3>1, KindsFollow DEF Follows
  <2>6. (Closed(x)' <=> Closed(x)) /\ (Born(x)' <=> Born(x)) /\ (InLists(x)' <=> InLists(x))
    BY <1>2 DEF Closed, Born, InLists
  <2>7. Pending(x)' <=> Pending(x)
    BY <2>4, <2>6 DEF Pending
  <2> QED BY <1>2, <2>1, <2>4, <2>5, <2>6, <2>7 DEF UseOK
<1> QED BY <1>6, <1>7, <1>8, <1>9, UseBut

\* A context is Closed when it has left its parent, which has nothing to do with it any more.
LEMMA SetClosedUse ==
  ASSUME UseInv, Known, LifeInv, CloseInv, NEW t \in AllThreads, SetClosedFlag(t)
  PROVE  UseInv'
<1>1. PICK h, s, x : h = Top(t) /\ s = TopSpot(t) /\ x = h.c
  OBVIOUS
<1>2. /\ stack[t] # <<>> /\ h.pc = "close.closed" /\ Goto(t, "close.release") /\ "close.release" \in Pcs
      /\ list' = list /\ fate' = fate /\ owned' = owned /\ holder' = holder
      /\ destroyed' = destroyed /\ done' = done /\ flags' = [flags EXCEPT ![x] = @ \cup {"Closed"}]
  BY <1>1 DEF SetClosedFlag, At, nodes, exec, history, clients, Pcs, ClosingPcs
<1>3. h \in FrameSet /\ h = Fr(s) /\ x \in Contexts /\ s \in Spots /\ Born(x)
  BY <1>1, <1>2, TopLifeIs, TopKnown
<1>4. PICK g \in FrameSet : TurnsTo(s, g) /\ g.pc = "close.release" /\ g.c = x
  <2>1. PICK p : p = "close.release"
    OBVIOUS
  <2>2. s = TopSpot(t) /\ stack[t] # <<>> /\ p \in Pcs /\ Goto(t, p)
    BY <1>1, <1>2, <2>1
  <2>3. \E g \in FrameSet : /\ TurnsTo(s, g) /\ g.pc = p /\ g.c = Top(t).c /\ g.x = Top(t).x
                            /\ g.ref = Top(t).ref
    BY <2>2, GotoSpots
  <2> QED BY <1>1, <2>1, <2>3
<1>5. PICK H, G : H = {h} /\ G = {g}
  OBVIOUS
<1>6. Shift(H, G) /\ H \subseteq FrameSet /\ G \subseteq FrameSet
  BY <1>3, <1>4, <1>5, ShiftsAre
<1>7. \A e \in H \cup G : \A c \in Contexts : c # x => Clear(e, c)
  BY <1>1, <1>2, <1>4, <1>5 DEF Clear
<1>8. flags \in [Contexts -> SUBSET Flags]
  BY DEF CloseInv, HandlersInv, Shapes
<1>9. ASSUME NEW c \in Contexts, c # x PROVE SameState(c)
  BY <1>2, <1>8, <1>9 DEF SameState, Closed, Born, InLists
<1>10. UseOK(x)'
  <2>1. UseOK(x)
    BY <1>3 DEF UseInv
  <2>2. \A P : {"close.closed", "close.release"} \cap P = {} =>
                 ~OneAboutX(H, x, P) /\ ~OneOnC(H, x, P) /\ ~OneAboutX(G, x, P) /\ ~OneOnC(G, x, P)
    BY <1>2, <1>4, <1>5 DEF OneAboutX, OneOnC
  <2>3. /\ {"close.closed", "close.release"} \cap {"child.add"} = {}
        /\ {"close.closed", "close.release"} \cap {"destroy"} = {}
        /\ {"close.closed", "close.release"} \cap {"close.pop"} = {}
        /\ {"close.closed", "close.release"} \cap {"close.call"} = {}
        /\ {"close.closed", "close.release"} \cap {"child.anchor", "child.done"} = {}
    OBVIOUS
  <2>4. /\ Making(x)' <=> Making(x)
        /\ Dying(x)' <=> Dying(x)
        /\ Popping(x)' <=> Popping(x)
        /\ Calling(x)' <=> Calling(x)
        /\ Touched(x)' <=> Touched(x)
    BY <1>6, <2>2, <2>3, KindsFollow DEF Follows
  <2>5. Late(x)
    <3>1. OneOnC(H, x, LatePcs)
      BY <1>1, <1>2, <1>5 DEF OneOnC, LatePcs
    <3> QED BY <1>6, <3>1, KindsFollow DEF Follows
  <2>6. ~Taken(x)
    <3>1. SUFFICES ASSUME NEW q \in Spots, Fr(q) \in AboutX(x, RemovePcs) PROVE FALSE
      BY DEF Taken, Some
    <3>2. Under(q) \in Spots /\ Fr(Under(q)).pc = "close.reset" /\ Fr(Under(q)).c = x
      BY <1>3, <3>1, RemoverIs
    <3>3. PICK r : r = Under(q)
      OBVIOUS
    <3>4. r \in Spots /\ Fr(r).pc \in ClosingPcs /\ Fr(s).pc \in ClosingPcs /\ Fr(r).c = Fr(s).c
      BY <1>1, <1>2, <1>3, <3>2, <3>3 DEF ClosingPcs
    <3>5. r = s
      BY <1>3, <3>4, OneCloser DEF LifeInv
    <3> QED BY <1>2, <1>3, <3>2, <3>3, <3>5
  <2>7. ~Pending(x)
    BY <2>1, <2>5, <2>6 DEF UseOK
  <2>8. Closed(x)' /\ (Born(x)' <=> Born(x)) /\ (InLists(x)' <=> InLists(x))
    BY <1>2, <1>3, <1>8 DEF Closed, Born, InLists
  <2>9. ~Pending(x)'
    BY <2>4, <2>7, <2>8 DEF Pending
  <2> QED BY <1>2, <1>3, <2>1, <2>4, <2>8, <2>9 DEF UseOK
<1> QED BY <1>6, <1>7, <1>9, <1>10, UseBut

LEMMA IssueUse ==
  ASSUME UseInv, RefsOK, Known, LifeInv, CloseInv, NEW t \in AllThreads, NEW k \in Calls[program], Issue(t, k)
  PROVE  UseInv'
<1>1. PICK x : x = k.ctx
  OBVIOUS
<1>2. /\ flags' = flags /\ list' = list /\ holder' = holder /\ destroyed' = destroyed /\ done' = done /\ Permitted(k)
      /\ fate' = IF k.op \in {"add", "start", "child"} THEN [fate EXCEPT ![k.arg] = "adding"] ELSE fate
      /\ owned' = IF k.op = "destroy" THEN owned \ {x} ELSE owned
  BY <1>1 DEF Issue, nodes, exec
<1>3. /\ k.op \in Ops /\ x \in Contexts
      /\ k.arg \in IF k.op \in {"add", "start", "remove"} THEN Handlers
                   ELSE IF k.op = "child" THEN Contexts
                   ELSE IF k.op = "exec" THEN Works ELSE {None}
  BY <1>1, IssueSpots
<1>4. FateGrows
  <2>1. fate \in [Nodes -> Fates]
    BY DEF CloseInv, HandlersInv, Shapes
  <2>2. k.op \in {"add", "start", "child"} => k.arg \in Nodes /\ fate[k.arg] = "new"
    BY <1>2, <1>3 DEF Permitted, Nodes
  <2> QED BY <1>2, <2>1, <2>2 DEF FateGrows
<1>5. PICK f, h, s, r :
              /\ f \in FrameSet /\ h \in FrameSet /\ f.pc = k.op /\ f.c = x /\ f.x = k.arg /\ f.ref
              /\ h.pc = "close" /\ h.c = x /\ ~h.ref
              /\ k.op # "destroy" => Pushes(r, f)
              /\ k.op = "destroy" => stack[t] = <<>> /\ PushesTwo(s, r, h, f)
  BY <1>1, IssueSpots
<1>6. ASSUME NEW c \in Contexts, c \in owned' <=> c \in owned PROVE SameState(c)
  <2>1. Born(c)' <=> Born(c)
    BY <1>4, FateKeeps
  <2>2. fate'[c] = "called" <=> fate[c] = "called"
    BY <1>4 DEF FateGrows, Nodes
  <2> QED BY <1>2, <1>6, <2>1, <2>2 DEF SameState, Closed, InLists
<1>7. CASE k.op # "destroy"
  <2>1. PICK H, G : H = {} /\ G = {f}
    OBVIOUS
  <2>2. Shift(H, G) /\ H \subseteq FrameSet /\ G \subseteq FrameSet
    BY <1>5, <1>7, <2>1, ShiftsAre
  <2>3. \A e \in H \cup G : Bland(e)
    <3>1. f.pc \in BlandPcs \/ (f.pc = "remove" /\ f.x \notin Contexts)
      BY <1>3, <1>5, <1>7, TreeAssumption DEF BlandPcs, Ops, Pcs, AddPcs, StartPcs, ChildPcs
    <3> QED BY <1>5, <2>1, <3>1, BlandIs
  <2>4. \A c \in Contexts : SameState(c)
    BY <1>2, <1>6, <1>7
  <2> QED BY <2>2, <2>3, <2>4, BlandUse
<1>8. CASE k.op = "destroy"
  <2>1. PICK H, G : H = {} /\ G = {f, h}
    OBVIOUS
  <2>2. Shift(H, G) /\ H \subseteq FrameSet /\ G \subseteq FrameSet
    BY <1>5, <1>8, <2>1, ShiftsAre
  <2>3. \A c \in Contexts : c # x => SameState(c)
    BY <1>2, <1>6, <1>8
  <2>4. ASSUME NEW e \in H \cup G, NEW c \in Contexts, c # x PROVE Clear(e, c)
    BY <1>5, <1>8, <2>1, <2>4 DEF Clear
  <2>5. UseOK(x)'
    <3>1. UseOK(x)
      BY <1>3 DEF UseInv
    <3>2. \A P : {"destroy", "close"} \cap P = {} =>
                   ~OneAboutX(H, x, P) /\ ~OneOnC(H, x, P) /\ ~OneAboutX(G, x, P) /\ ~OneOnC(G, x, P)
      BY <1>5, <1>8, <2>1 DEF OneAboutX, OneOnC
    <3>3. /\ {"destroy", "close"} \cap LatePcs = {}
          /\ {"destroy", "close"} \cap RemovePcs = {}
          /\ {"destroy", "close"} \cap {"child.add"} = {}
          /\ {"destroy", "close"} \cap {"close.closed", "close.release"} = {}
          /\ {"destroy", "close"} \cap {"close.pop"} = {}
          /\ {"destroy", "close"} \cap {"close.call"} = {}
          /\ {"destroy", "close"} \cap {"child.anchor", "child.done"} = {}
      BY DEF LatePcs, RemovePcs
    <3>4. /\ Making(x)' <=> Making(x)
          /\ Late(x)' <=> Late(x)
          /\ Ending(x)' <=> Ending(x)
          /\ Taken(x)' <=> Taken(x)
          /\ Popping(x)' <=> Popping(x)
          /\ Calling(x)' <=> Calling(x)
          /\ Touched(x)' <=> Touched(x)
      BY <2>2, <3>2, <3>3, KindsFollow DEF Follows
    <3>5. Dying(x)'
      <4>1. OneOnC(G, x, {"destroy"})
        BY <1>5, <1>8, <2>1 DEF OneOnC
      <4> QED BY <2>2, <4>1, KindsFollow DEF Follows
    <3>6. (Closed(x)' <=> Closed(x)) /\ (Born(x)' <=> Born(x)) /\ (InLists(x)' <=> InLists(x))
      BY <1>2, <1>8 DEF Closed, Born, InLists
    <3>7. Pending(x)' <=> Pending(x)
      BY <3>4, <3>6 DEF Pending
    <3>8. fate' = fate
      BY <1>2, <1>8
    <3> QED BY <1>2, <3>1, <3>4, <3>5, <3>6, <3>7, <3>8 DEF UseOK
  <2> QED BY <2>2, <2>3, <2>4, <2>5, UseBut
<1> QED BY <1>7, <1>8

LEMMA UseStutter == ASSUME UseInv, CloseInv, UNCHANGED vars PROVE UseInv'
<1>1. /\ flags' = flags /\ list' = list /\ fate' = fate /\ owned' = owned /\ stack' = stack
      /\ holder' = holder /\ destroyed' = destroyed /\ done' = done
  BY DEF vars, words, nodes, exec, history, clients
<1>2. \A F : Some(F)' <=> Some(F)
  BY <1>1 DEF Some, Spots, Fr, FrameAt
<1>3. ASSUME NEW c \in Contexts PROVE UseOK(c)'
  <2>1. SameState(c)
    BY <1>1 DEF SameState, Closed, Born, InLists
  <2>2. SameKinds(c)
    BY <1>2 DEF SameKinds, Making, MakingFrames, Dying, Late, Ending, Taken, Popping, Calling, Touched, OnC, AboutX
  <2> QED BY <2>1, <2>2, UseSame DEF UseInv
<1> QED BY <1>3 DEF UseInv

LEMMA UseInit == ASSUME Init PROVE UseInv
<1>1. Spots = {}
  <2>1. \A t \in AllThreads : Len(stack[t]) = 0
    BY DEF Init
  <2> QED BY <2>1 DEF Spots
<1>2. /\ owned = Initial[program] /\ flags = [c \in Contexts |-> {}] /\ done = [x \in Nodes |-> FALSE]
      /\ fate = [h \in Nodes |-> IF h \in Initial[program] THEN "added" ELSE "new"]
      /\ holder = [c \in Contexts |-> c \in Initial[program]]
  BY DEF Init
<1>3. \A F : ~Some(F)
  BY <1>1 DEF Some
<1>4. ASSUME NEW c \in Contexts PROVE UseOK(c)
  <2>1. /\ ~Making(c) /\ ~Dying(c) /\ ~Late(c) /\ ~Popping(c)
    BY <1>3 DEF Making, Dying, Late, Popping
  <2>2. Born(c) <=> c \in Initial[program]
    BY <1>2, <1>4 DEF Born, Nodes
  <2>3. ~Closed(c) /\ ~done[c] /\ holder[c] = (c \in Initial[program])
    BY <1>2, <1>4 DEF Closed, Nodes
  <2> QED BY <1>2, <2>1, <2>2, <2>3 DEF UseOK
<1> QED BY <1>4 DEF UseInv

LEMMA UseKeeps == ASSUME UseInv, HoldersTyped, RefsOK, Known, LifeInv, CloseInv, [Next]_vars PROVE UseInv'
<1>1. CASE \E t \in AllThreads, k \in Calls[program] : Issue(t, k)
  BY <1>1, IssueUse
<1>2. ASSUME NEW t \in AllThreads, Step(t) PROVE UseInv'
  <2>1. CASE ExecStep(t)
    BY <2>1, GotosUse, ReturnsUse, EntersUse, InlineUse DEF ExecStep
  <2>2. CASE HandlerStep(t)
    BY <2>2, GotosUse, ReturnsUse, UndoUse, InsertUse, ConstructUse, MadeUse, EntersUse, RemoveUse, RemoveWaitUse
       DEF HandlerStep
  <2>3. CASE CloseStep(t)
    <3>1. CASE StartClose(t) \/ WaitForClosing(t) \/ SetClosingFlag(t) \/ PopHandler(t) \/ CallHandler(t)
      BY <3>1, StartCloseUse, GotosUse, SetClosingUse, PopUse, CallUse
    <3>2. CASE HandlerReturns(t) \/ Anchor(t) \/ CloseChild(t) \/ ReleaseAnchor(t)
      BY <3>2, ReturnsUse, AnchorUse, CloseChildUse
    <3>3. CASE LeaveParent(t) \/ ResetExecutor(t) \/ SetClosedFlag(t)
      BY <3>3, LeaveUse, ResetUse, SetClosedUse
    <3>4. CASE CloseReturns(t) \/ WaitForClosed(t) \/ ReleaseOwner(t)
      BY <3>4, ReturnsUse, ReleaseUse
    <3> QED BY <2>3, <3>1, <3>2, <3>3, <3>4 DEF CloseStep
  <2> QED BY <1>2, <2>1, <2>2, <2>3 DEF Step
<1>3. CASE TakeClosure
  BY <1>3, TakeUse
<1>4. CASE UNCHANGED vars
  BY <1>4, UseStutter
<1> QED BY <1>1, <1>2, <1>3, <1>4 DEF Next, Quiescent

-----------------------------------------------------------------------------
\* A context is referred to as long as a call holds a reference to it, a makeChild is
\* making it, or it has an owner; and so until it is closed.
LEMMA RefsAbove ==
  ASSUME RefsOK, CloseInv, NEW c \in Contexts,
         Some(RefFrames(c)) \/ Some(AnchorFrames(c)) \/ Making(c) \/ c \in owned
  PROVE  refs[c] > 0
<1>1. PICK a, b, m, n, o : /\ a = Cardinality(Those(RefFrames(c))) /\ b = Cardinality(Those(AnchorFrames(c)))
                           /\ m = Cardinality(Those(MakingFrames(c))) /\ n = QueueRefs(c) /\ o = One(c \in owned)
  OBVIOUS
<1>2. FiniteRefs(c) /\ refs[c] = FrameRefs(c) + OtherRefs(c)
  BY DEF RefsOK
<1>3. refs[c] = (a + b + m) + (n + o)
  BY <1>1, <1>2 DEF FrameRefs, OtherRefs
<1>4. a \in Nat /\ b \in Nat /\ m \in Nat
  BY <1>1, <1>2, FS_CardinalityType DEF FiniteRefs
<1>5. n \in Nat /\ o \in Nat
  BY <1>1, OtherIs DEF CloseInv, HandlersInv, Shapes
<1>6. ASSUME NEW F, IsFiniteSet(Those(F)), Some(F) PROVE Cardinality(Those(F)) # 0
  <2>1. Those(F) # {}
    BY <1>6 DEF Some, Those
  <2> QED BY <1>6, <2>1, FS_EmptySet
<1>7. /\ Some(RefFrames(c)) => a # 0
      /\ Some(AnchorFrames(c)) => b # 0
      /\ Making(c) => m # 0
  BY <1>1, <1>2, <1>6 DEF FiniteRefs, Making
<1>8. c \in owned => o # 0
  BY <1>1 DEF One
<1>9. a # 0 \/ b # 0 \/ m # 0 \/ o # 0
  BY <1>7, <1>8
<1> QED BY <1>3, <1>4, <1>5, <1>9

LEMMA FrameRefers ==
  ASSUME RefsOK, CloseInv, NEW q \in Spots, Fr(q).ref \/ Fr(q).pc \in AnchorPcs
  PROVE  refs[Fr(q).c] > 0
<1>1. PICK f, c : f = Fr(q) /\ c = f.c
  OBVIOUS
<1>2. f \in FrameSet /\ c \in Contexts
  BY <1>1, SpotFrame
<1>3. f \in RefFrames(c) \/ f \in AnchorFrames(c)
  BY <1>1, <1>2 DEF RefFrames, AnchorFrames
<1>4. Some(RefFrames(c)) \/ Some(AnchorFrames(c))
  BY <1>1, <1>3 DEF Some
<1> QED BY <1>1, <1>2, <1>4, RefsAbove

LEMMA OpenRefers ==
  ASSUME UseInv, RefsOK, CloseInv, NEW c \in Contexts, Born(c), ~Closed(c)
  PROVE  refs[c] > 0
<1>1. c \in owned \/ Making(c) \/ Dying(c)
  BY DEF UseInv, UseOK
<1>2. ASSUME Dying(c) PROVE refs[c] > 0
  <2>1. PICK q \in Spots : Fr(q) \in OnC(c, {"destroy"})
    BY <1>2 DEF Dying, Some
  <2>2. Fr(q).c = c /\ Fr(q).pc \in AnchorPcs
    BY <2>1 DEF OnC, AnchorPcs
  <2> QED BY <2>2, FrameRefers
<1> QED BY <1>1, <1>2, RefsAbove

LEMMA PendingRefers ==
  ASSUME UseInv, RefsOK, LifeInv, CloseInv, NEW c \in Contexts, Pending(c)
  PROVE  refs[c] > 0
BY PendingIs, OpenRefers DEF UseInv, UseOK

\* The parent of a child that leaves it is there: the child is still in its list, or in
\* the hands of its close.
LEMMA ParentRefers ==
  ASSUME UseInv, RefsOK, Known, LifeInv, CloseInv, NEW q \in Spots, NEW h, h = Fr(q), NEW g, g = Fr(Under(q)),
         Under(q) \in Spots, g.pc = "close.reset", h.pc \in RemovePcs, h.x = g.c, h.c = Parent[g.c]
  PROVE  refs[h.c] > 0
<1>1. PICK k, d, r : k = g.c /\ d = h.c /\ r = Under(q)
  OBVIOUS
<1>2. k \in Contexts /\ d \in Contexts /\ h \in FrameSet /\ FrameLife(g) /\ r \in Spots /\ g = Fr(r)
  BY <1>1, SpotFrame DEF LifeInv, FramesLive
<1>3. Parent[k] = d /\ Parent[k] # None
  BY <1>1, <1>2, TreeAssumption
<1>4. Born(k) /\ Born(d) /\ Held(k)
  <2>1. Born(k)
    BY <1>1, <1>2 DEF Known
  <2> QED BY <1>2, <1>3, <2>1 DEF Known, LifeInv, ChildrenHeld
<1>5. ~Left(k)
  <2>1. "Closed" \notin flags[k]
    BY <1>1, <1>2 DEF FrameLife, ClosingPcs
  <2>2. h \in AboutX(k, RemovePcs)
    BY <1>1, <1>2 DEF AboutX
  <2>3. Some(AboutX(k, RemovePcs))
    BY <2>2 DEF Some
  <2> QED BY <2>1, <2>3 DEF Left
<1>6. CASE k \in ToSet(list[Parent[k]])
  <2>1. list[d] # <<>>
    BY <1>3, <1>6 DEF ToSet
  <2>2. ~Closed(d)
    BY <1>2, <2>1 DEF Closed, CloseInv, FlagsOK
  <2> QED BY <1>1, <1>2, <1>4, <2>2, OpenRefers
<1>7. CASE Some(AboutX(k, PoppedPcs))
  <2>1. PICK p \in Spots : Fr(p) \in AboutX(k, PoppedPcs)
    BY <1>7 DEF Some
  <2>2. Fr(p).x = k /\ Fr(p).pc \in PoppedPcs
    BY <2>1 DEF AboutX
  <2>3. Fr(p).c = d
    BY <1>2, <1>3, <2>2, PoppedIs
  <2>4. Fr(p).pc \in AnchorPcs
    BY <2>2 DEF PoppedPcs, AnchorPcs, ClosingPcs
  <2> QED BY <1>1, <2>3, <2>4, FrameRefers
<1> QED BY <1>4, <1>5, <1>6, <1>7 DEF Held

\* Every call is in a context that is there.
LEMMA CallRefers ==
  ASSUME UseInv, RefsOK, Known, LifeInv, CloseInv, NEW q \in Spots
  PROVE  refs[Fr(q).c] > 0
<1>1. PICK h, r, g : h = Fr(q) /\ r = Under(q) /\ g = Fr(r)
  OBVIOUS
<1>2. CASE h.ref \/ h.pc \in AnchorPcs
  BY <1>1, <1>2, FrameRefers
<1>3. CASE ~h.ref /\ h.pc \notin AnchorPcs
  <2>1. Lies(q) /\ h.c \in Contexts
    BY <1>1, SpotFrame DEF LifeInv, Grammar
  <2>2. r \in Spots /\ Above(h, g)
    BY <1>1, <1>3, <2>1 DEF Lies, Lowest
  <2>3. CASE h.c = g.c /\ g.pc \in {"destroy", "child.release", "close.pop"}
    <3>1. g.pc \in AnchorPcs
      BY <2>3 DEF AnchorPcs, ClosingPcs
    <3> QED BY <1>1, <2>2, <2>3, <3>1, FrameRefers
  <2>4. CASE h.c = g.c /\ g.pc \in {"child.add", "unblock"} /\ (g.pc = "unblock" => g.ref)
    <3>1. g.ref
      BY <1>1, <2>2, <2>4, RefIs
    <3> QED BY <1>1, <2>2, <2>4, <3>1, FrameRefers
  <2>5. CASE g.pc = "close.reset" /\ h.pc \in RemovePcs /\ h.x = g.c /\ h.c = Parent[g.c]
    BY <1>1, <2>2, <2>5, ParentRefers
  <2>6. CASE g.pc = "close.pop" /\ h.pc \in ChildCallPcs
    <3>1. h.pc = "child.anchor"
      BY <1>3, <2>6 DEF ChildCallPcs, AnchorPcs
    <3>2. h \in OnC(h.c, {"child.anchor", "child.done"})
      BY <1>1, <3>1, SpotFrame DEF OnC
    <3>3. Touched(h.c)
      BY <1>1, <3>2 DEF Touched, Some
    <3> QED BY <1>1, <2>1, <3>3, PendingRefers DEF Pending
  <2> QED BY <1>3, <2>2, <2>3, <2>4, <2>5, <2>6 DEF Above
<1> QED BY <1>2, <1>3

\* The loop of a close writes to a child that is there, or has been told that it is not.
LEMMA ChildRefers ==
  ASSUME UseInv, RefsOK, LifeInv, CloseInv, NEW q \in Spots,
         Fr(q).pc \in {"close.call", "close.pop"}, NEW x \in Contexts, Fr(q).x = x
  PROVE  refs[x] > 0 \/ destroyed[x]
<1>1. PICK f : f = Fr(q) /\ f \in FrameSet
  BY SpotFrame
<1>2. CASE f.pc = "close.call"
  <2>1. f \in AboutX(x, {"close.call"})
    BY <1>1, <1>2 DEF AboutX
  <2>2. Calling(x)
    BY <1>1, <2>1 DEF Calling, Some
  <2> QED BY <2>2, PendingRefers DEF Pending
<1>3. CASE f.pc = "close.pop"
  <2>1. f \in AboutX(x, {"close.pop"})
    BY <1>1, <1>3 DEF AboutX
  <2>2. Popping(x)
    BY <1>1, <2>1 DEF Popping, Some
  <2>3. destroyed[x] \/ Touched(x)
    BY <2>2 DEF UseInv, UseOK
  <2> QED BY <2>3, PendingRefers DEF Pending
<1> QED BY <1>1, <1>2, <1>3

-----------------------------------------------------------------------------
\* The contexts that have their executor: they are not at the end of their close.
Running(c) == Born(c) /\ ~Closed(c) /\ ~Late(c)

LEMMA RunningHolds ==
  ASSUME UseInv, NEW c \in Contexts, Running(c)
  PROVE  holder[c]
<1>1. ASSUME Ending(c) PROVE Late(c)
  <2>1. PICK q \in Spots : Fr(q) \in OnC(c, {"close.closed", "close.release"})
    BY <1>1 DEF Ending, Some
  <2>2. Fr(q) \in OnC(c, LatePcs)
    BY <2>1 DEF OnC, LatePcs
  <2> QED BY <2>2 DEF Late, Some
<1> QED BY <1>1 DEF Running, UseInv, UseOK

\* A call that uses the executor keeps the close of its context from its end.
LEMMA CallerRuns ==
  ASSUME Known, CloseInv, NEW q \in Spots, Fr(q).pc \in {"exec.post", "child.new"}
  PROVE  Fr(q).c \in Contexts /\ Running(Fr(q).c)
<1>1. PICK f, c : f = Fr(q) /\ c = f.c
  OBVIOUS
<1>2. c \in Contexts /\ Born(c)
  BY <1>1, SpotFrame DEF Known
<1>3. ~Past(c)
  <2>1. PICK t, i : t = q[1] /\ i = Len(stack[t]) + 1 - q[2]
    OBVIOUS
  <2>2. t \in AllThreads /\ i \in DOMAIN stack[t] /\ f = stack[t][i]
    BY <1>1, <2>1, SpotIs DEF CloseInv, HandlersInv
  <2>3. f.pc \in InsidePcs /\ f.pc \notin CalmPcs
    BY <1>1 DEF InsidePcs, CalmPcs
  <2> QED BY <1>1, <1>2, <2>2, <2>3 DEF CloseInv, Excluded
<1>4. ~Closed(c)
  BY <1>2, <1>3 DEF Past, Closed, CloseInv, FlagsOK
<1>5. ASSUME Late(c) PROVE FALSE
  <2>1. PICK r \in Spots : Fr(r) \in OnC(c, LatePcs)
    BY <1>5 DEF Late, Some
  <2>2. PICK t, i : t = r[1] /\ i = Len(stack[t]) + 1 - r[2]
    OBVIOUS
  <2>3. t \in AllThreads /\ i \in DOMAIN stack[t] /\ Fr(r) = stack[t][i]
    BY <2>2, SpotIs DEF CloseInv, HandlersInv
  <2>4. stack[t][i].c = c /\ stack[t][i].pc \in PastPcs
    BY <2>1, <2>3 DEF OnC, LatePcs, PastPcs, ClosingPcs
  <2> QED BY <1>3, <2>3, <2>4 DEF Past
<1> QED BY <1>1, <1>2, <1>4, <1>5 DEF Running

\* A close does not come to its end before the children of the context have left it.
LEMMA ParentRuns ==
  ASSUME Known, LifeInv, CloseInv, NEW c \in Contexts, Running(c), Parent[c] # None
  PROVE  Parent[c] \in Contexts /\ Running(Parent[c])
<1>1. PICK d : d = Parent[c]
  OBVIOUS
<1>2. d \in Contexts /\ Born(d) /\ Held(c)
  BY <1>1, TreeAssumption DEF Running, Known, LifeInv, ChildrenHeld
<1>3. c \in ToSet(list[d]) \/ Some(AboutX(c, PoppedPcs))
  BY <1>1, <1>2 DEF Held, Left, Running, Closed, Late
<1>4. ASSUME NEW r \in Spots, Fr(r).c = d, Fr(r).pc \in LatePcs, c \in ToSet(list[d]) PROVE FALSE
  <2>1. list[d] # <<>>
    BY <1>4 DEF ToSet
  <2>2. PICK t, i : t = r[1] /\ i = Len(stack[t]) + 1 - r[2]
    OBVIOUS
  <2>3. t \in AllThreads /\ i \in DOMAIN stack[t] /\ Fr(r) = stack[t][i]
    BY <2>2, SpotIs DEF CloseInv, HandlersInv
  <2>4. StageOK(Fr(r)) /\ Fr(r).pc \in EndPcs
    BY <1>4, <2>3 DEF CloseInv, Stages, LatePcs, EndPcs
  <2> QED BY <1>4, <2>1, <2>4 DEF StageOK
<1>5. ASSUME Closed(d), c \in ToSet(list[d]) PROVE FALSE
  BY <1>2, <1>5 DEF Closed, CloseInv, FlagsOK, ToSet
<1>6. ASSUME Some(AboutX(c, PoppedPcs)) PROVE ~Closed(d) /\ ~Late(d)
  <2>1. PICK p \in Spots : Fr(p) \in AboutX(c, PoppedPcs)
    BY <1>6 DEF Some
  <2>2. Fr(p).x = c /\ Fr(p).pc \in PoppedPcs
    BY <2>1 DEF AboutX
  <2>3. Fr(p).c = d /\ FrameLife(Fr(p))
    BY <1>1, <2>2, PoppedIs DEF LifeInv, FramesLive
  <2>4. Fr(p).pc \in ClosingPcs /\ Fr(p).pc \notin LatePcs /\ Fr(p).pc # "close.release"
    BY <2>2 DEF PoppedPcs, ClosingPcs, LatePcs
  <2>5. ~Closed(d)
    BY <2>3, <2>4 DEF FrameLife, Closed
  <2>6. ASSUME Late(d) PROVE FALSE
    <3>1. PICK r \in Spots : Fr(r) \in OnC(d, LatePcs)
      BY <2>6 DEF Late, Some
    <3>2. Fr(r).c = d /\ Fr(r).pc \in LatePcs /\ Fr(r).pc \in ClosingPcs
      BY <3>1 DEF OnC, LatePcs, ClosingPcs
    <3>3. p = r
      BY <2>3, <2>4, <3>2, OneCloser DEF LifeInv
    <3> QED BY <2>4, <3>2, <3>3
  <2> QED BY <2>5, <2>6
<1>7. ASSUME Late(d) PROVE c \notin ToSet(list[d])
  <2>1. PICK r \in Spots : Fr(r) \in OnC(d, LatePcs)
    BY <1>7 DEF Late, Some
  <2>2. Fr(r).c = d /\ Fr(r).pc \in LatePcs
    BY <2>1 DEF OnC
  <2> QED BY <1>4, <2>2
<1> QED BY <1>1, <1>2, <1>3, <1>5, <1>6, <1>7 DEF Running

\* So the root, whose executor they share, is not at the end of its close either: of
\* the contexts that run, one is nearest to the root.
LEMMA RootRuns ==
  ASSUME Known, LifeInv, CloseInv, NEW c \in Contexts, Running(c)
  PROVE  Running(Root)
<1>1. PICK S : S = {e \in Contexts : Running(e)}
  OBVIOUS
<1>2. PICK U : U = [e \in Contexts |-> {d \in Contexts : Depth[d] < Depth[e]}]
  OBVIOUS
<1>3. PICK T : T = {U[e] : e \in S}
  OBVIOUS
<1>4. T # {} /\ T \subseteq FiniteSubsetsOf(Contexts)
  <2>1. IsFiniteSet(Contexts)
    BY TreeAssumption
  <2>2. FiniteSubsetsOf(Contexts) = SUBSET Contexts
    BY <2>1, FS_FiniteSubsetsOfFinite
  <2>3. c \in S /\ U[c] \in T
    BY <1>1, <1>3
  <2>4. \A e \in S : U[e] \in SUBSET Contexts
    BY <1>1, <1>2
  <2>5. T \subseteq SUBSET Contexts
    BY <1>3, <2>4
  <2> QED BY <2>2, <2>3, <2>5
<1>5. PICK m \in T : \A y \in T : ~(<<y, m>> \in StrictSubsetOrdering(Contexts))
  <2>1. PICK R, B : R = StrictSubsetOrdering(Contexts) /\ B = FiniteSubsetsOf(Contexts)
    OBVIOUS
  <2>2. IsWellFoundedOn(R, B)
    BY <2>1, FS_StrictSubsetOrderingWellFounded
  <2>3. \E m \in T : \A y \in T : ~(<<y, m>> \in R)
    BY <1>4, <2>1, <2>2, WFMin
  <2> QED BY <2>1, <2>3
<1>6. PICK e \in S : m = U[e]
  BY <1>3
<1>7. CASE Parent[e] # None
  <2>1. PICK d : d = Parent[e]
    OBVIOUS
  <2>2. d \in S /\ d \in Contexts /\ e \in Contexts
    BY <1>1, <1>7, <2>1, ParentRuns
  <2>3. Depth[d] < Depth[e] /\ Depth \in [Contexts -> Nat]
    BY <1>7, <2>1, <2>2, DepthIs
  <2>4. \A x \in Contexts : Depth[x] < Depth[d] => Depth[x] < Depth[e]
    BY <2>2, <2>3
  <2>5. U[d] \subseteq U[e] /\ d \in U[e] /\ d \notin U[d]
    BY <1>2, <2>2, <2>3, <2>4
  <2>6. PICK y : y = U[d]
    OBVIOUS
  <2>7. y \in T /\ y \subseteq m /\ y # m
    BY <1>3, <1>6, <2>2, <2>5, <2>6
  <2>8. y \in SUBSET Contexts /\ m \in SUBSET Contexts
    BY <1>2, <1>6, <2>2, <2>6
  <2>9. <<y, m>> \in StrictSubsetOrdering(Contexts)
    BY <2>7, <2>8 DEF StrictSubsetOrdering
  <2> QED BY <1>5, <2>7, <2>9
<1>8. CASE Parent[e] = None
  <2>1. e = Root
    BY <1>1, <1>8, RootAssumption, RootIs
  <2> QED BY <1>1, <2>1
<1> QED BY <1>7, <1>8

LEMMA UseIsSafe ==
  ASSUME UseInv, RefsOK, Known, LifeInv, CloseInv
  PROVE  NoUseAfterFree
<1>1. SUFFICES ASSUME NEW f \in Frames
               PROVE  /\ refs[f.c] > 0
                      /\ f.pc \in {"close.call", "close.pop"} /\ f.x \in Contexts => refs[f.x] > 0 \/ destroyed[f.x]
                      /\ f.pc \in {"exec.post", "child.new"} => holder[f.c] /\ holder[Root]
  BY DEF NoUseAfterFree
<1>2. PICK q \in Spots : Fr(q) = f
  <2>1. PICK t \in AllThreads : f \in FramesOf(t)
    BY DEF Frames
  <2>2. PICK i \in DOMAIN stack[t] : stack[t][i] = f
    BY <2>1 DEF FramesOf, ToSet
  <2>3. PICK p : p = <<t, Len(stack[t]) + 1 - i>>
    OBVIOUS
  <2>4. p \in Spots /\ Fr(p) = stack[t][i]
    BY <2>3, FrameSpot DEF CloseInv, HandlersInv
  <2> QED BY <2>2, <2>4
<1>3. refs[f.c] > 0
  BY <1>2, CallRefers
<1>4. f.pc \in {"close.call", "close.pop"} /\ f.x \in Contexts => refs[f.x] > 0 \/ destroyed[f.x]
  BY <1>2, ChildRefers
<1>5. ASSUME f.pc \in {"exec.post", "child.new"} PROVE holder[f.c] /\ holder[Root]
  <2>1. f.c \in Contexts /\ Running(f.c)
    BY <1>2, <1>5, CallerRuns
  <2>2. Root \in Contexts /\ Running(Root)
    BY <2>1, RootRuns, RootIs
  <2> QED BY <2>1, <2>2, RunningHolds
<1> QED BY <1>3, <1>4, <1>5

\* No call goes on in a context whose last reference is gone, no close writes to a child
\* that was deleted, and no call finds the executor of its tree released.
THEOREM ContextsOutliveTheirCalls ==
  ASSUME \A g \in Programs : ClosesFromThreads(g)
  PROVE  Spec => []NoUseAfterFree
<1>1. Init => HoldersTyped /\ UseInv
  BY HoldersInit, UseInit
<1>2. HoldersTyped /\ [Next]_vars => HoldersTyped'
  BY HoldersKeep
<1>3. UseInv /\ HoldersTyped /\ (RefsOK /\ Known) /\ (CloseInv /\ LifeInv) /\ [Next]_vars => UseInv'
  BY UseKeeps
<1>4. UseInv /\ (RefsOK /\ Known) /\ (CloseInv /\ LifeInv) => NoUseAfterFree
  BY UseIsSafe
<1> QED BY <1>1, <1>2, <1>3, <1>4, ContextsLive, ReferencesAreCounted, PTL DEF Spec
=============================================================================
