--------------------------- MODULE AOContext_proofs ---------------------------
(***************************************************************************)
(* The contexts of a tree, for any tree, any programs and any number of    *)
(* threads.  Each handler is in one list, or in the hands of the one frame *)
(* that adds it or has popped it: the client may free it when              *)
(* removeCloseHandler has returned.  The block counter of a context is the *)
(* number of the frames that hold a block on it: when the wait of close is *)
(* over the other threads are out, unless a work closes another context    *)
(* than its own (ClosesAlone), and the root implements CloseGate.          *)
(* The last sections say what the calls of a tree are to each other where  *)
(* threads of their own close its contexts (LifeInv), and which kinds of   *)
(* steps keep it so: ContextLives_proofs goes on from there.               *)
(***************************************************************************)
EXTENDS AOContext, FiniteSetTheorems, TLAPS

\* The frames that will put a handler into the list, and those that have popped
\* it, own it; the other calls about a handler only know it.
AddPcs    == {"add", "add.insert", "start", "start.insert", "undo"}
PoppedPcs == {"close.call", "close.pop"}
KnowPcs   == {"start.fn", "remove", "remove.wait"}
ChildPcs  == {"child", "child.new", "child.add"}
StartPcs  == {"start", "start.insert", "start.fn"}
Owns(f, x) == f.x = x /\ f.pc \in AddPcs \cup PoppedPcs

\* The program adds, starts or removes x at the context c.
BelongsTo(x, c) == \E k \in Calls[program] : k.arg = x /\ k.ctx = c

Arguments == Nodes \cup Works \cup {None}
Pcs == AddPcs \cup KnowPcs \cup ChildPcs \cup ClosingPcs \cup
       {"exec", "exec.post", "exec.undo", "exec.inline", "exec.unblock", "inline", "run", "run.undo",
        "run.drop", "work", "unblock", "close", "close.lost", "destroy", "handler", "child.anchor",
        "child.done", "child.release"}
FrameSet  == [pc : Pcs, c : Contexts, x : Arguments, ref : BOOLEAN]
Closures  == [ctx : Contexts, work : Arguments]

Fates     == {"new", "adding", "added", "refused", "called", "called twice"}

Shapes ==
  /\ program \in Programs
  /\ flags \in [Contexts -> SUBSET Flags]
  /\ list \in [Contexts -> Seq(Nodes)]
  /\ hasPtr \in [Nodes -> BOOLEAN] /\ destroyed \in [Nodes -> BOOLEAN]
  /\ done \in [Nodes -> BOOLEAN]
  /\ fate \in [Nodes -> Fates] /\ gone \in [Handlers -> {"no", "asked", "yes"}]
  /\ queue \in Seq(Closures)
  /\ stack \in [AllThreads -> Seq(FrameSet)]
  /\ closer \in [Contexts -> AllThreads \cup {None}]

\* Only the thread that was first to close a context is in its close.
ClosersKnown == \A c \in Contexts : closer[c] # None => "PreparingForClosing" \in flags[c]

\* The handler x before it is added, and in a list.
Fresh(x) == ~done[x] /\ gone[x] = "no" /\ \A c \in Contexts : x \notin ToSet(list[c])
Listed(x, c) ==
  BelongsTo(x, c) /\ fate[x] \notin {"new", "adding"} /\ gone[x] # "yes" /\ ~done[x]

HandlerOK(x) ==
  /\ fate[x] = "new" => Fresh(x)
  /\ \A c \in Contexts : x \in ToSet(list[c]) => Listed(x, c)

\* No handler is twice in the list s.
Once(s) == \A i, j \in DOMAIN s : s[i] = s[j] /\ s[i] \in Handlers => i = j

HandlersOK == (\A x \in Handlers : HandlerOK(x)) /\ \A c \in Contexts : Once(list[c])

\* What a frame about the handler f.x says of that: one that has still to add it
\* finds it fresh, the loop that has popped it may write to it unless it is told.
HandlerFrameOK(f) ==
  /\ f.pc \in AddPcs => Fresh(f.x) /\ fate[f.x] = "adding"
  /\ f.pc \in PoppedPcs =>
       /\ \A c \in Contexts : f.x \notin ToSet(list[c])
       /\ fate[f.x] \notin {"new", "adding"} /\ hasPtr[f.x] /\ ~done[f.x]
       /\ gone[f.x] = "yes" => destroyed[f.x]
  /\ f.pc = "start.fn" => fate[f.x] \notin {"new", "adding"}
  /\ f.pc \in {"remove", "remove.wait"} => gone[f.x] # "no"
  /\ f.pc \in AddPcs \cup PoppedPcs \cup KnowPcs => BelongsTo(f.x, f.c)

FrameOK(t, f) ==
  /\ f.pc \in ClosingPcs => closer[f.c] = t
  /\ f.pc \in ChildPcs => f.x \in Contexts
  /\ f.pc \in StartPcs => f.x \in Handlers
  /\ f.pc \in AddPcs => f.x \in Nodes
  /\ f.x \in Handlers => HandlerFrameOK(f)

FramesOK == \A t \in AllThreads : \A i \in DOMAIN stack[t] : FrameOK(t, stack[t][i])

OneOwner ==
  \A x \in Handlers, t, u \in AllThreads :
    \A i \in DOMAIN stack[t], j \in DOMAIN stack[u] :
      Owns(stack[t][i], x) /\ Owns(stack[u][j], x) => t = u /\ i = j

\* The loop that called a handler is right below it, and so is the exec that
\* runs a work at once.
NestedOK(s, i) ==
  /\ s[i].pc = "handler" /\ s[i].x \in Handlers =>
       i + 1 \in DOMAIN s /\ s[i + 1].pc = "close.pop" /\ s[i + 1].x = s[i].x
  /\ s[i].pc = "inline" => i + 1 \in DOMAIN s /\ s[i + 1].pc = "exec.inline"

Nested == \A t \in AllThreads : \A i \in DOMAIN stack[t] : NestedOK(stack[t], i)

HandlersInv == Shapes /\ ClosersKnown /\ HandlersOK /\ FramesOK /\ OneOwner /\ Nested

-----------------------------------------------------------------------------
\* Sequences, frames and what the steps do to the stack of a thread.

\* The k innermost frames of t give way to the frames a.
Moves(t, k, a) ==
  /\ k \in 0..Len(stack[t]) /\ a \in Seq(FrameSet)
  /\ stack' \in [AllThreads -> Seq(FrameSet)]
  /\ \A u \in AllThreads \ {t} : stack'[u] = stack[u]
  /\ Len(stack'[t]) = Len(a) + Len(stack[t]) - k
  /\ \A i \in 1..Len(stack'[t]) :
       stack'[t][i] = IF i <= Len(a) THEN a[i] ELSE stack[t][i - Len(a) + k]

LEMMA FrameIs ==
  ASSUME NEW f \in FrameSet, NEW p \in Pcs
  PROVE  /\ [f EXCEPT !.pc = p] \in FrameSet
         /\ [f EXCEPT !.pc = p].pc = p
         /\ [f EXCEPT !.pc = p].c = f.c /\ [f EXCEPT !.pc = p].x = f.x
         /\ f.c \in Contexts /\ f.x \in Arguments /\ f.pc \in Pcs /\ f.ref \in BOOLEAN
BY DEF FrameSet

LEMMA NewFrameIs ==
  ASSUME NEW p \in Pcs, NEW c \in Contexts, NEW x \in Arguments, NEW r \in BOOLEAN
  PROVE  /\ Frame(p, c, x, r) \in FrameSet
         /\ Frame(p, c, x, r).pc = p /\ Frame(p, c, x, r).c = c
         /\ Frame(p, c, x, r).x = x /\ Frame(p, c, x, r).ref = r
BY DEF Frame, FrameSet

LEMMA TailIs ==
  ASSUME NEW S, NEW s \in Seq(S), s # <<>>
  PROVE  /\ Tail(s) \in Seq(S) /\ Len(Tail(s)) = Len(s) - 1
         /\ \A i \in 1..(Len(s) - 1) : Tail(s)[i] = s[i + 1]
         /\ Head(s) = s[1] /\ s[1] \in S /\ Len(s) \in Nat /\ Len(s) >= 1 /\ DOMAIN s = 1..Len(s)
OBVIOUS

LEMMA TailDiffers ==
  ASSUME NEW S, NEW s \in Seq(S), s # <<>>
  PROVE  Tail(s) # s
<1>1. PICK r : r = Tail(s)
  OBVIOUS
<1>2. PICK n \in Nat : n = Len(s)
  BY TailIs
<1>3. Len(r) = n - 1
  BY <1>1, <1>2, TailIs
<1>4. r # s
  BY <1>2, <1>3
<1>5. QED
  BY <1>1, <1>4, Zenon

LEMMA NotEmpty ==
  ASSUME NEW S, NEW s \in Seq(S), Len(s) >= 1
  PROVE  s # <<>>
OBVIOUS

LEMMA ConcatIs ==
  ASSUME NEW S, NEW a \in Seq(S), NEW s \in Seq(S)
  PROVE  /\ a \o s \in Seq(S) /\ Len(a \o s) = Len(a) + Len(s)
         /\ Len(a) \in Nat /\ Len(s) \in Nat
         /\ \A i \in 1..(Len(a) + Len(s)) : (a \o s)[i] = IF i <= Len(a) THEN a[i] ELSE s[i - Len(a)]
OBVIOUS

LEMMA OneIs ==
  ASSUME NEW S, NEW f \in S
  PROVE  /\ <<f>> \in Seq(S) /\ Len(<<f>>) = 1 /\ <<f>>[1] = f
OBVIOUS

LEMMA TwoIs ==
  ASSUME NEW S, NEW f \in S, NEW g \in S
  PROVE  /\ <<f, g>> \in Seq(S) /\ Len(<<f, g>>) = 2 /\ <<f, g>>[1] = f /\ <<f, g>>[2] = g
OBVIOUS

LEMMA HeadSet ==
  ASSUME NEW S, NEW s \in Seq(S), Len(s) >= 1, NEW g \in S
  PROVE  [s EXCEPT ![1] = g] = <<g>> \o Tail(s)
<1>1. Len(s) \in Nat /\ DOMAIN s = 1..Len(s) /\ <<g>> \in Seq(S) /\ Tail(s) \in Seq(S)
      /\ Len(Tail(s)) = Len(s) - 1 /\ \A i \in 1..(Len(s) - 1) : Tail(s)[i] = s[i + 1]
  BY TailIs, NotEmpty
<1>2. PICK r : r = [s EXCEPT ![1] = g]
  OBVIOUS
<1>3. PICK q : q = <<g>> \o Tail(s)
  OBVIOUS
<1>4. r \in Seq(S) /\ Len(r) = Len(s) /\ \A i \in 1..Len(s) : r[i] = IF i = 1 THEN g ELSE s[i]
  BY <1>1, <1>2
<1>5. q \in Seq(S) /\ Len(q) = Len(s) /\ \A i \in 1..Len(s) : q[i] = IF i = 1 THEN g ELSE s[i]
  BY <1>1, <1>3
<1>6. r = q
  BY <1>1, <1>4, <1>5
<1>7. QED
  BY <1>2, <1>3, <1>6

LEMMA GotoMoves ==
  ASSUME Shapes, NEW t \in AllThreads, stack[t] # <<>>, NEW p \in Pcs, Goto(t, p)
  PROVE  Moves(t, 1, <<[Top(t) EXCEPT !.pc = p]>>)
<1> DEFINE g == [Top(t) EXCEPT !.pc = p]
<1>1. stack[t] \in Seq(FrameSet) /\ stack \in [AllThreads -> Seq(FrameSet)]
  BY DEF Shapes
<1>2. Head(stack[t]) = stack[t][1] /\ stack[t][1] \in FrameSet /\ Len(stack[t]) >= 1 /\ Len(stack[t]) \in Nat
  BY <1>1, TailIs
<1>3. g \in FrameSet
  BY <1>2, FrameIs DEF Top
<1>4. g = [stack[t][1] EXCEPT !.pc = p]
  BY <1>2 DEF Top
<1>5. stack' = [stack EXCEPT ![t] = [stack[t] EXCEPT ![1] = g]]
  BY <1>1, <1>4 DEF Goto
<1>6. [stack[t] EXCEPT ![1] = g] \in Seq(FrameSet) /\ Len([stack[t] EXCEPT ![1] = g]) = Len(stack[t])
  BY <1>1, <1>2, <1>3
<1>7. stack'[t] = [stack[t] EXCEPT ![1] = g] /\ stack' \in [AllThreads -> Seq(FrameSet)]
      /\ \A u \in AllThreads \ {t} : stack'[u] = stack[u]
  BY <1>1, <1>5, <1>6
<1>8. <<g>> \in Seq(FrameSet) /\ Len(<<g>>) = 1 /\ <<g>>[1] = g
  BY <1>3, OneIs
<1>9. \A i \in 1..Len(stack'[t]) : stack'[t][i] = IF i <= 1 THEN g ELSE stack[t][i]
  BY <1>1, <1>2, <1>6, <1>7
<1>10. \A i \in 1..Len(stack'[t]) :
         stack'[t][i] = IF i <= Len(<<g>>) THEN <<g>>[i] ELSE stack[t][i - Len(<<g>>) + 1]
  <2> SUFFICES ASSUME NEW i \in 1..Len(stack'[t])
               PROVE  stack'[t][i] = IF i <= Len(<<g>>) THEN <<g>>[i] ELSE stack[t][i - Len(<<g>>) + 1]
    OBVIOUS
  <2>1. i - 1 + 1 = i /\ i \in Nat /\ i >= 1 /\ (i <= 1 => i = 1)
    BY <1>2, <1>6, <1>7
  <2>2. QED
    BY <1>8, <1>9, <2>1
<1>11. 1 \in 0..Len(stack[t]) /\ Len(stack'[t]) = Len(<<g>>) + Len(stack[t]) - 1
  BY <1>2, <1>6, <1>7, <1>8
<1>12. QED
  BY <1>7, <1>8, <1>10, <1>11 DEF Moves

\* What the other changes of a stack come to.
LEMMA StackMoves ==
  ASSUME Shapes, NEW t \in AllThreads, NEW k \in {0, 1, 2}, k <= Len(stack[t]),
         NEW a \in Seq(FrameSet),
         stack' = [stack EXCEPT ![t] = a \o (IF k = 0 THEN stack[t] ELSE IF k = 1 THEN Tail(stack[t])
                                              ELSE Tail(Tail(stack[t])))]
  PROVE  Moves(t, k, a)
<1> DEFINE r == IF k = 0 THEN stack[t] ELSE IF k = 1 THEN Tail(stack[t]) ELSE Tail(Tail(stack[t]))
<1>1. stack[t] \in Seq(FrameSet) /\ stack \in [AllThreads -> Seq(FrameSet)] /\ Len(stack[t]) \in Nat
  BY DEF Shapes
<1>2. r \in Seq(FrameSet) /\ Len(r) = Len(stack[t]) - k
      /\ \A i \in 1..Len(r) : r[i] = stack[t][i + k]
  <2>1. CASE k = 0
    BY <1>1, <2>1
  <2>2. CASE k = 1
    BY <1>1, <2>2, TailIs
  <2>3. CASE k = 2
    <3>1. stack[t] # <<>>
      BY <2>3
    <3>2. Tail(stack[t]) \in Seq(FrameSet) /\ Len(Tail(stack[t])) = Len(stack[t]) - 1
          /\ \A i \in 1..(Len(stack[t]) - 1) : Tail(stack[t])[i] = stack[t][i + 1]
      BY <1>1, <3>1, TailIs
    <3>3. Tail(stack[t]) # <<>>
      <4>1. Len(Tail(stack[t])) >= 1
        BY <1>1, <2>3, <3>2
      <4>2. QED
        BY <3>2, <4>1, NotEmpty
    <3>4. Tail(Tail(stack[t])) \in Seq(FrameSet) /\ Len(Tail(Tail(stack[t]))) = Len(stack[t]) - 2
          /\ \A i \in 1..(Len(stack[t]) - 2) : Tail(Tail(stack[t]))[i] = Tail(stack[t])[i + 1]
      BY <1>1, <3>2, <3>3, TailIs
    <3>5. QED
      BY <1>1, <2>3, <3>2, <3>4
  <2>4. QED
    BY <2>1, <2>2, <2>3
<1>0. PICK q : q = r
  OBVIOUS
<1> HIDE DEF r
<1>3. /\ a \o r \in Seq(FrameSet) /\ Len(a \o r) = Len(a) + Len(r) /\ Len(a) \in Nat
      /\ \A i \in 1..(Len(a) + Len(r)) : (a \o r)[i] = IF i <= Len(a) THEN a[i] ELSE r[i - Len(a)]
  <2>1. q \in Seq(FrameSet)
    BY <1>0, <1>2
  <2>2. /\ a \o q \in Seq(FrameSet) /\ Len(a \o q) = Len(a) + Len(q) /\ Len(a) \in Nat
        /\ \A i \in 1..(Len(a) + Len(q)) : (a \o q)[i] = IF i <= Len(a) THEN a[i] ELSE q[i - Len(a)]
    BY <2>1, ConcatIs
  <2>3. QED
    BY <1>0, <2>2
<1>4. stack' = [stack EXCEPT ![t] = a \o r]
  BY DEF r
<1>5. /\ stack'[t] = a \o r /\ stack' \in [AllThreads -> Seq(FrameSet)]
      /\ \A u \in AllThreads \ {t} : stack'[u] = stack[u]
  BY <1>1, <1>3, <1>4
<1>6. Len(stack'[t]) = Len(a) + Len(stack[t]) - k
  BY <1>1, <1>2, <1>3, <1>5
<1>7. \A i \in 1..Len(stack'[t]) :
        stack'[t][i] = IF i <= Len(a) THEN a[i] ELSE stack[t][i - Len(a) + k]
  <2> SUFFICES ASSUME NEW i \in 1..Len(stack'[t])
               PROVE  stack'[t][i] = IF i <= Len(a) THEN a[i] ELSE stack[t][i - Len(a) + k]
    OBVIOUS
  <2>1. i \in 1..(Len(a) + Len(r)) /\ (a \o r)[i] = IF i <= Len(a) THEN a[i] ELSE r[i - Len(a)]
    BY <1>1, <1>2, <1>3, <1>5
  <2>2. CASE i <= Len(a)
    BY <1>5, <2>1, <2>2
  <2>3. CASE ~(i <= Len(a))
    <3>1. i - Len(a) \in 1..Len(r)
      BY <1>1, <1>2, <1>3, <2>1, <2>3
    <3>2. r[i - Len(a)] = stack[t][i - Len(a) + k]
      BY <1>2, <3>1
    <3>3. QED
      BY <1>5, <2>1, <2>3, <3>2
  <2>4. QED
    BY <2>2, <2>3
<1>8. k \in 0..Len(stack[t])
  BY <1>1
<1>9. QED
  BY <1>5, <1>6, <1>7, <1>8 DEF Moves

-----------------------------------------------------------------------------
\* A step of t changes the k innermost frames: what that means for the owners of
\* handlers, and for the frames that lie above one another.

\* A frame that owns a handler after the step takes it over from nobody, or from
\* the frames that are gone.
LEMMA OwnerMoves ==
  ASSUME Shapes, OneOwner, NEW t \in AllThreads, NEW k, NEW a, Moves(t, k, a),
         \A x \in Handlers : \A i, j \in 1..Len(a) : Owns(a[i], x) /\ Owns(a[j], x) => i = j,
         \A x \in Handlers : \A i \in 1..Len(a) : Owns(a[i], x) =>
           \A u \in AllThreads : \A j \in DOMAIN stack[u] : Owns(stack[u][j], x) => u = t /\ j <= k
  PROVE  OneOwner'
<1>1. stack[t] \in Seq(FrameSet) /\ stack \in [AllThreads -> Seq(FrameSet)] /\ Len(stack[t]) \in Nat
  BY DEF Shapes
<1>2. k \in 0..Len(stack[t]) /\ Len(a) \in Nat /\ k \in Nat
  BY <1>1 DEF Moves
\* The frame at i of v came from: was at p(v, i) before, or is new.
<1> DEFINE new(v, i) == v = t /\ i <= Len(a)
           old(v, i) == IF v = t THEN i - Len(a) + k ELSE i
<1>3. ASSUME NEW v \in AllThreads, NEW i \in DOMAIN stack'[v]
      PROVE  IF new(v, i) THEN i \in 1..Len(a) /\ stack'[v][i] = a[i]
             ELSE old(v, i) \in DOMAIN stack[v] /\ stack'[v][i] = stack[v][old(v, i)]
  <2>1. CASE v # t
    BY <1>3, <2>1 DEF Moves
  <2>2. CASE v = t
    <3>1. i \in 1..Len(stack'[t]) /\ Len(stack'[t]) = Len(a) + Len(stack[t]) - k
      BY <1>3, <2>2 DEF Moves
    <3>2. stack'[t][i] = IF i <= Len(a) THEN a[i] ELSE stack[t][i - Len(a) + k]
      BY <3>1 DEF Moves
    <3>3. CASE i <= Len(a)
      BY <2>2, <3>1, <3>2, <3>3
    <3>4. CASE ~(i <= Len(a))
      <4>1. i - Len(a) + k \in 1..Len(stack[t])
        BY <1>1, <1>2, <3>1, <3>4
      <4>2. QED
        BY <1>1, <2>2, <3>2, <3>4, <4>1
    <3>5. QED
      BY <3>3, <3>4
  <2>3. QED
    BY <2>1, <2>2
<1>4. SUFFICES ASSUME NEW x \in Handlers, NEW v \in AllThreads, NEW u \in AllThreads,
                      NEW i \in DOMAIN stack'[v], NEW j \in DOMAIN stack'[u],
                      Owns(stack'[v][i], x), Owns(stack'[u][j], x)
               PROVE  v = u /\ i = j
  BY DEF OneOwner, Owns
<1>5. i \in Nat /\ j \in Nat /\ (v = t => i \in 1..Len(stack'[t])) /\ (u = t => j \in 1..Len(stack'[t]))
  <2>1. stack'[v] \in Seq(FrameSet) /\ stack'[u] \in Seq(FrameSet)
    BY DEF Moves
  <2>2. i \in 1..Len(stack'[v]) /\ j \in 1..Len(stack'[u])
    BY <1>4, <2>1
  <2>3. QED
    BY <2>1, <2>2
<1>6. CASE new(v, i) /\ new(u, j)
  BY <1>3, <1>4, <1>6
<1>7. CASE new(v, i) /\ ~new(u, j)
  <2>1. i \in 1..Len(a) /\ Owns(a[i], x)
    BY <1>3, <1>4, <1>7
  <2>2. old(u, j) \in DOMAIN stack[u] /\ Owns(stack[u][old(u, j)], x)
    BY <1>3, <1>4, <1>7
  <2>3. u = t /\ old(u, j) <= k
    BY <2>1, <2>2
  <2>4. QED
    BY <1>2, <1>5, <1>7, <2>3
<1>8. CASE ~new(v, i) /\ new(u, j)
  <2>1. j \in 1..Len(a) /\ Owns(a[j], x)
    BY <1>3, <1>4, <1>8
  <2>2. old(v, i) \in DOMAIN stack[v] /\ Owns(stack[v][old(v, i)], x)
    BY <1>3, <1>4, <1>8
  <2>3. v = t /\ old(v, i) <= k
    BY <2>1, <2>2
  <2>4. QED
    BY <1>2, <1>5, <1>8, <2>3
<1>9. CASE ~new(v, i) /\ ~new(u, j)
  <2>1. old(v, i) \in DOMAIN stack[v] /\ Owns(stack[v][old(v, i)], x)
    BY <1>3, <1>4, <1>9
  <2>2. old(u, j) \in DOMAIN stack[u] /\ Owns(stack[u][old(u, j)], x)
    BY <1>3, <1>4, <1>9
  <2>3. u = v /\ old(v, i) = old(u, j)
    BY <2>1, <2>2 DEF OneOwner
  <2>4. QED
    BY <1>2, <1>5, <2>3
<1>10. QED
  BY <1>6, <1>7, <1>8, <1>9

LEMMA NestedMoves ==
  ASSUME Shapes, Nested, NEW t \in AllThreads, NEW k, NEW a, Moves(t, k, a),
         Len(a) > 0 => a[Len(a)].pc \notin {"handler", "inline"},
         \A i \in 1..(Len(a) - 1) : NestedOK(a, i)
  PROVE  Nested'
<1>1. stack[t] \in Seq(FrameSet) /\ stack \in [AllThreads -> Seq(FrameSet)] /\ Len(stack[t]) \in Nat
  BY DEF Shapes
<1>2. k \in 0..Len(stack[t]) /\ Len(a) \in Nat /\ k \in Nat /\ a \in Seq(FrameSet)
      /\ Len(stack'[t]) = Len(a) + Len(stack[t]) - k /\ DOMAIN stack'[t] = 1..Len(stack'[t])
  BY <1>1 DEF Moves
<1>3. SUFFICES ASSUME NEW u \in AllThreads, NEW i \in DOMAIN stack'[u]
               PROVE  NestedOK(stack'[u], i)
  BY DEF Nested, NestedOK
<1>4. CASE u # t
  BY <1>3, <1>4 DEF Moves, Nested
<1>5. CASE u = t
  <2>1. i \in 1..Len(stack'[t]) /\ i \in Nat /\ i >= 1
    BY <1>2, <1>3, <1>5
  <2>2. \A n \in 1..Len(stack'[t]) :
          stack'[t][n] = IF n <= Len(a) THEN a[n] ELSE stack[t][n - Len(a) + k]
    BY DEF Moves
  <2>3. CASE i < Len(a)
    <3>1. NestedOK(a, i)
      BY <1>2, <2>1, <2>3
    <3>2. i + 1 \in 1..Len(stack'[t]) /\ stack'[t][i] = a[i] /\ stack'[t][i + 1] = a[i + 1]
      BY <1>1, <1>2, <2>1, <2>2, <2>3
    <3>3. QED
      BY <1>2, <1>5, <3>1, <3>2 DEF NestedOK
  <2>4. CASE i = Len(a)
    <3>1. stack'[t][i] = a[Len(a)] /\ a[Len(a)].pc \notin {"handler", "inline"}
      BY <1>2, <2>1, <2>2, <2>4
    <3>2. QED
      BY <1>5, <3>1 DEF NestedOK
  <2>5. CASE i > Len(a)
    <3> DEFINE m == i - Len(a) + k
    <3>1. m \in 1..Len(stack[t]) /\ stack'[t][i] = stack[t][m]
      <4>1. Len(stack[t]) \in Nat /\ Len(stack'[t]) \in Nat /\ i <= Len(stack'[t])
        BY <1>1, <1>2, <2>1
      <4>2. i - Len(a) >= 1 /\ i - Len(a) <= Len(stack[t]) - k
        BY <1>2, <2>1, <2>5, <4>1
      <4>3. m \in 1..Len(stack[t])
        BY <1>2, <2>1, <4>1, <4>2
      <4>4. ~(i <= Len(a))
        BY <1>2, <2>1, <2>5
      <4>5. QED
        BY <2>1, <2>2, <4>3, <4>4
    <3>2. NestedOK(stack[t], m)
      BY <1>1, <3>1 DEF Nested
    <3>3. m + 1 \in 1..Len(stack[t]) =>
            i + 1 \in 1..Len(stack'[t]) /\ stack'[t][i + 1] = stack[t][m + 1]
      <4> SUFFICES ASSUME m + 1 \in 1..Len(stack[t])
                   PROVE  i + 1 \in 1..Len(stack'[t]) /\ stack'[t][i + 1] = stack[t][m + 1]
        OBVIOUS
      <4>1. i + 1 \in 1..Len(stack'[t])
        BY <1>1, <1>2, <2>1, <2>5
      <4>2. stack'[t][i + 1] = stack[t][i + 1 - Len(a) + k] /\ i + 1 - Len(a) + k = m + 1
        BY <1>1, <1>2, <2>1, <2>2, <2>5, <4>1
      <4>3. QED
        BY <4>1, <4>2
    <3> HIDE DEF m
    <3>4. QED
      BY <1>1, <1>2, <1>5, <3>1, <3>2, <3>3 DEF NestedOK
  <2>6. QED
    BY <1>2, <2>1, <2>3, <2>4, <2>5
<1>6. QED
  BY <1>4, <1>5

LEMMA FramesMove ==
  ASSUME Shapes, NEW t \in AllThreads, NEW k, NEW a, Moves(t, k, a),
         \A i \in 1..Len(a) : FrameOK(t, a[i])',
         \A u \in AllThreads : \A j \in DOMAIN stack[u] : (u = t => j > k) =>
           \A f \in FrameSet : f = stack[u][j] => FrameOK(u, f)'
  PROVE  FramesOK'
<1>1. stack[t] \in Seq(FrameSet) /\ stack \in [AllThreads -> Seq(FrameSet)] /\ Len(stack[t]) \in Nat
  BY DEF Shapes
<1>2. k \in 0..Len(stack[t]) /\ Len(a) \in Nat /\ k \in Nat
      /\ Len(stack'[t]) = Len(a) + Len(stack[t]) - k /\ DOMAIN stack'[t] = 1..Len(stack'[t])
  BY <1>1 DEF Moves
<1>3. SUFFICES ASSUME NEW u \in AllThreads, NEW i \in DOMAIN stack'[u]
               PROVE  FrameOK(u, stack[u][i])'
  BY DEF FramesOK
<1>4. \E f \in FrameSet : f = stack'[u][i] /\ FrameOK(u, f)'
  <2>1. CASE u # t
    <3>1. stack'[u] = stack[u] /\ i \in DOMAIN stack[u] /\ stack[u] \in Seq(FrameSet)
      BY <1>1, <1>3, <2>1 DEF Moves
    <3>2. stack[u][i] \in FrameSet
      BY <3>1
    <3>3. QED
      BY <2>1, <3>1, <3>2
  <2>2. CASE u = t
    <3>0. i \in 1..Len(stack'[t])
      BY <1>2, <1>3, <2>2
    <3>1. i \in 1..Len(stack'[t]) /\ i \in Nat /\ a \in Seq(FrameSet)
          /\ stack'[t][i] = IF i <= Len(a) THEN a[i] ELSE stack[t][i - Len(a) + k]
      BY <3>0 DEF Moves
    <3>2. CASE i <= Len(a)
      <4>1. i \in 1..Len(a) /\ a[i] \in FrameSet
        BY <1>2, <3>1, <3>2
      <4>2. QED
        BY <2>2, <3>1, <3>2, <4>1
    <3>3. CASE ~(i <= Len(a))
      <4>1. i - Len(a) + k \in 1..Len(stack[t]) /\ i - Len(a) + k > k
        BY <1>1, <1>2, <3>1, <3>3
      <4>2. i - Len(a) + k \in DOMAIN stack[t] /\ stack[t][i - Len(a) + k] \in FrameSet
        BY <1>1, <4>1
      <4>3. QED
        BY <2>2, <3>1, <3>3, <4>1, <4>2
    <3>4. QED
      BY <3>2, <3>3
  <2>3. QED
    BY <2>1, <2>2
<1>5. PICK f \in FrameSet : f = stack'[u][i] /\ FrameOK(u, f)'
  BY <1>4
<1>6. QED
  BY <1>5

-----------------------------------------------------------------------------
\* What it takes for a step to keep the invariant.

\* A step that does nothing to the handler x, or takes it out of a list.
Same(x) ==
  /\ fate'[x] = fate[x] /\ gone'[x] = gone[x] /\ done'[x] = done[x]
  /\ hasPtr'[x] = hasPtr[x] /\ destroyed'[x] = destroyed[x]
  /\ \A c \in Contexts : x \in ToSet(list'[c]) => x \in ToSet(list[c])

Typed ==
  /\ program' = program
  /\ flags' \in [Contexts -> SUBSET Flags] /\ \A c \in Contexts : flags[c] \subseteq flags'[c]
  /\ list' \in [Contexts -> Seq(Nodes)]
  /\ hasPtr' \in [Nodes -> BOOLEAN] /\ destroyed' \in [Nodes -> BOOLEAN]
  /\ done' \in [Nodes -> BOOLEAN]
  /\ fate' \in [Nodes -> Fates] /\ gone' \in [Handlers -> {"no", "asked", "yes"}]
  /\ queue' \in Seq(Closures)
  /\ closer' \in [Contexts -> AllThreads \cup {None}]
  /\ \A c \in Contexts : IF closer[c] # None THEN closer'[c] = closer[c]
                         ELSE closer'[c] # None => "PreparingForClosing" \in flags'[c]

LEMMA SameClosing ==
  ASSUME NEW f \in FrameSet, NEW u \in AllThreads, f.pc \in ClosingPcs => closer[f.c] = u, Typed
  PROVE  f.pc \in ClosingPcs => closer'[f.c] = u
<1>1. f.c \in Contexts /\ u # None
  BY TreeAssumption DEF FrameSet, AllThreads
<1>2. QED
  BY <1>1 DEF Typed

LEMMA SameFrame ==
  ASSUME NEW f \in FrameSet, NEW u \in AllThreads, FrameOK(u, f), Same(f.x), Typed
  PROVE  FrameOK(u, f)'
<1>1. HandlerFrameOK(f) => HandlerFrameOK(f)'
  BY DEF Same, HandlerFrameOK, Fresh, BelongsTo, Typed
<1>2. QED
  BY <1>1, SameClosing DEF FrameOK

LEMMA SameHandler ==
  ASSUME NEW x, HandlerOK(x), Same(x), program' = program
  PROVE  HandlerOK(x)'
BY DEF Same, HandlerOK, Fresh, Listed, BelongsTo

\* The step of t gives the frames a for the k innermost ones and does something
\* to the handlers X only.
\* A step touches the handlers X and no other: they are as they should be after it, and
\* the frames about them that stay are true of them.
Touches(t, k, X) ==
  /\ \A x \in Handlers \ X : Same(x)
  /\ \A x \in Handlers \cap X : HandlerOK(x)'
  /\ \A c \in Contexts : Once(list[c])'
  /\ \A u \in AllThreads : \A j \in DOMAIN stack[u] : (u = t => j > k) =>
       \A f \in FrameSet : f = stack[u][j] /\ f.x \in X \cap Handlers => HandlerFrameOK(f)'

LEMMA Keeps ==
  ASSUME HandlersInv, NEW t \in AllThreads, NEW k, NEW a, Moves(t, k, a), Typed, NEW X,
         Touches(t, k, X),
         \A i \in 1..Len(a) : FrameOK(t, a[i])',
         \A x \in Handlers : \A i, j \in 1..Len(a) : Owns(a[i], x) /\ Owns(a[j], x) => i = j,
         \A x \in Handlers : \A i \in 1..Len(a) : Owns(a[i], x) =>
           \A u \in AllThreads : \A j \in DOMAIN stack[u] : Owns(stack[u][j], x) => u = t /\ j <= k,
         Len(a) > 0 => a[Len(a)].pc \notin {"handler", "inline"},
         \A i \in 1..(Len(a) - 1) : NestedOK(a, i)
  PROVE  HandlersInv'
<1> USE DEF Touches
<1>1. Shapes /\ OneOwner /\ Nested /\ FramesOK /\ HandlersOK /\ ClosersKnown
  BY DEF HandlersInv
<1>2. OneOwner'
  BY <1>1, OwnerMoves
<1>3. Nested'
  BY <1>1, NestedMoves
<1>4. ASSUME NEW u \in AllThreads, NEW j \in DOMAIN stack[u], u = t => j > k,
             NEW f \in FrameSet, f = stack[u][j]
      PROVE  FrameOK(u, f)'
  <2>1. FrameOK(u, f)
    BY <1>1, <1>4 DEF FramesOK
  <2>2. CASE f.x \in Handlers \ X
    BY <2>1, <2>2, SameFrame
  <2>3. CASE f.x \in Handlers \cap X
    <3>1. HandlerFrameOK(f)'
      BY <1>4, <2>3
    <3>2. QED
      BY <2>1, <3>1, SameClosing DEF FrameOK
  <2>4. CASE f.x \notin Handlers
    BY <2>1, <2>4, SameClosing DEF FrameOK
  <2>5. QED
    BY <2>2, <2>3, <2>4
<1>5. FramesOK'
  BY <1>1, <1>4, FramesMove
<1>6. \A x \in Handlers : HandlerOK(x)'
  <2> SUFFICES ASSUME NEW x \in Handlers PROVE HandlerOK(x)'
    OBVIOUS
  <2>1. CASE x \in X
    BY <2>1
  <2>2. CASE x \notin X
    BY <1>1, <2>2, SameHandler DEF HandlersOK, Typed
  <2>3. QED
    BY <2>1, <2>2
<1>7. HandlersOK'
  BY <1>6 DEF HandlersOK
<1>8. Shapes'
  BY <1>1 DEF Shapes, Typed, Moves
<1>9. ClosersKnown'
  BY <1>1 DEF ClosersKnown, Typed
<1>10. QED
  BY <1>2, <1>3, <1>5, <1>7, <1>8, <1>9 DEF HandlersInv

\* A step that does nothing to any handler.
Quiet == Typed /\ list' = list /\ \A x \in Handlers : Same(x)

LEMMA QuietKeeps ==
  ASSUME HandlersInv, NEW t \in AllThreads, NEW k, NEW a, Moves(t, k, a), Quiet,
         \A i \in 1..Len(a) : FrameOK(t, a[i])',
         \A x \in Handlers : \A i \in 1..Len(a) :
           Owns(a[i], x) => i = Len(a) /\ k = 1 /\ Owns(stack[t][1], x),
         Len(a) > 0 => a[Len(a)].pc \notin {"handler", "inline"},
         \A i \in 1..(Len(a) - 1) : NestedOK(a, i)
  PROVE  HandlersInv'
<1>1. Shapes /\ OneOwner /\ HandlersOK
  BY DEF HandlersInv
<1>2. \A c \in Contexts : Once(list[c])'
  BY <1>1 DEF Quiet, HandlersOK, Once
<1>3. ASSUME NEW x \in Handlers, NEW i \in 1..Len(a), Owns(a[i], x),
             NEW u \in AllThreads, NEW j \in DOMAIN stack[u], Owns(stack[u][j], x)
      PROVE  u = t /\ j <= k
  <2>1. k = 1 /\ Owns(stack[t][1], x) /\ 1 \in DOMAIN stack[t]
    BY <1>1, <1>3 DEF Moves, Shapes
  <2>2. QED
    BY <1>1, <1>3, <2>1 DEF OneOwner
<1>4. PICK X : X = {}
  OBVIOUS
<1>5. Typed /\ \A x \in Handlers : Same(x)
  BY DEF Quiet
<1>6. \A x \in Handlers : \A i, j \in 1..Len(a) : Owns(a[i], x) /\ Owns(a[j], x) => i = j
  OBVIOUS
<1>7. \A x \in Handlers \cap X : HandlerOK(x)'
  BY <1>4
<1>8. \A u \in AllThreads : \A j \in DOMAIN stack[u] : (u = t => j > k) =>
           \A f \in FrameSet : f = stack[u][j] /\ f.x \in X \cap Handlers => HandlerFrameOK(f)'
  BY <1>4
<1>9. Touches(t, k, X)
  BY <1>2, <1>5, <1>7, <1>8 DEF Touches
<1>10. QED
  BY <1>3, <1>5, <1>6, <1>9, Keeps

-----------------------------------------------------------------------------
\* A frame that returns, goes on, or calls.

Still == /\ program' = program /\ flags' = flags /\ list' = list /\ hasPtr' = hasPtr
         /\ destroyed' = destroyed /\ done' = done /\ fate' = fate /\ gone' = gone
         /\ closer' = closer /\ queue' = queue

LEMMA StillIsQuiet ==
  ASSUME HandlersInv, Still
  PROVE  Quiet
<1>1. Shapes /\ ClosersKnown
  BY DEF HandlersInv
<1>2. \A x \in Handlers : Same(x)
  BY DEF Still, Same
<1>3. Typed
  BY <1>1 DEF Still, Typed, Shapes, ClosersKnown
<1>4. QED
  BY <1>2, <1>3 DEF Quiet, Still

LEMMA TopIs ==
  ASSUME HandlersInv, NEW t \in AllThreads, stack[t] # <<>>
  PROVE  /\ Top(t) = stack[t][1] /\ 1 \in DOMAIN stack[t] /\ Top(t) \in FrameSet
         /\ FrameOK(t, Top(t)) /\ NestedOK(stack[t], 1)
         /\ Len(stack[t]) \in Nat /\ Len(stack[t]) >= 1
         /\ Top(t).c \in Contexts /\ Top(t).x \in Arguments
<1>1. stack[t] \in Seq(FrameSet)
  BY DEF HandlersInv, Shapes
<1>2. /\ Head(stack[t]) = stack[t][1] /\ stack[t][1] \in FrameSet /\ 1 \in DOMAIN stack[t]
      /\ Len(stack[t]) \in Nat /\ Len(stack[t]) >= 1
  BY <1>1, TailIs
<1>3. FrameOK(t, stack[t][1]) /\ NestedOK(stack[t], 1)
  BY <1>2 DEF HandlersInv, FramesOK, Nested
<1>4. Top(t) = stack[t][1]
  BY <1>2 DEF Top
<1>5. stack[t][1].c \in Contexts /\ stack[t][1].x \in Arguments
  BY <1>2 DEF FrameSet
<1>6. QED
  BY <1>2, <1>3, <1>4, <1>5

LEMMA ReturnMoves ==
  ASSUME HandlersInv, NEW t \in AllThreads, stack[t] # <<>>, Return(t)
  PROVE  Moves(t, 1, <<>>)
<1>1. stack[t] \in Seq(FrameSet) /\ Shapes
  BY DEF HandlersInv, Shapes
<1>2. PICK a : a = <<>>
  OBVIOUS
<1>3. a \in Seq(FrameSet) /\ Len(a) = 0
  BY <1>2
<1>4. Tail(stack[t]) \in Seq(FrameSet)
  BY <1>1, TailIs
<1>5. a \o Tail(stack[t]) = Tail(stack[t])
  BY <1>2, <1>4
<1>6. 1 <= Len(stack[t])
  BY <1>1, TailIs
<1>7. stack' = [stack EXCEPT ![t] = a \o (IF 1 = 0 THEN stack[t] ELSE IF 1 = 1 THEN Tail(stack[t])
                                              ELSE Tail(Tail(stack[t])))]
  <2>1. Tail(stack[t]) = IF 1 = 0 THEN stack[t] ELSE IF 1 = 1 THEN Tail(stack[t])
                          ELSE Tail(Tail(stack[t]))
    OBVIOUS
  <2>2. stack' = [stack EXCEPT ![t] = a \o Tail(stack[t])]
    BY <1>1, <1>5 DEF Return, Shapes
  <2>3. QED
    BY <2>1, <2>2
<1>8. Moves(t, 1, a)
  BY <1>1, <1>3, <1>6, <1>7, StackMoves
<1>9. QED
  BY <1>2, <1>8

LEMMA QuietReturn ==
  ASSUME HandlersInv, NEW t \in AllThreads, stack[t] # <<>>, Return(t), Quiet
  PROVE  HandlersInv'
<1>1. PICK a : a = <<>>
  OBVIOUS
<1>2. Moves(t, 1, a)
  BY <1>1, ReturnMoves
<1>3. Len(a) = 0
  BY <1>1
<1>4. \A i \in 1..Len(a) : FALSE
  BY <1>3
<1>5. \A i \in 1..(Len(a) - 1) : FALSE
  BY <1>3
<1>6. QED
  BY <1>2, <1>3, <1>4, <1>5, QuietKeeps

\* The top frame of t goes on at p, having nothing new to do with its handler.
Onward(q, p) ==
  /\ p \in Pcs
  /\ p \notin PoppedPcs \cup {"handler", "inline", "start.fn", "remove"} \cup {"child", "add", "start"}
  /\ p \in AddPcs => q \in AddPcs \cup ChildPcs
  /\ p = "remove.wait" => q = "remove"
  /\ p \in ClosingPcs => q \in ClosingPcs
  /\ p \in ChildPcs => q \in ChildPcs
  /\ p \in StartPcs => q \in StartPcs

LEMMA OnwardFrame ==
  ASSUME HandlersInv, NEW t \in AllThreads, NEW f \in FrameSet, NEW g \in FrameSet, FrameOK(t, f),
         Onward(f.pc, g.pc), g.c = f.c, g.x = f.x
  PROVE  FrameOK(t, g) /\ \A x \in Handlers : Owns(g, x) => Owns(f, x)
<1>1. f.pc \in ChildPcs => f.x \notin Handlers
  BY TreeAssumption DEF FrameOK
<1>2. g.pc \in AddPcs /\ f.x \in Handlers => f.pc \in AddPcs
  BY <1>1 DEF Onward
<1>3. \A x \in Handlers : Owns(g, x) => Owns(f, x)
  BY <1>2 DEF Owns, Onward
<1>4. g.x \in Handlers => HandlerFrameOK(g)
  BY <1>2 DEF FrameOK, HandlerFrameOK, Onward, KnowPcs
<1>5. QED
  BY <1>3, <1>4 DEF FrameOK, Onward, Nodes

LEMMA QuietFrame ==
  ASSUME NEW f \in FrameSet, NEW t \in AllThreads, FrameOK(t, f), Quiet
  PROVE  FrameOK(t, f)'
<1>1. HandlerFrameOK(f) /\ f.x \in Handlers => HandlerFrameOK(f)'
  BY DEF Same, HandlerFrameOK, Fresh, BelongsTo, Quiet, Typed
<1>2. QED
  BY <1>1, SameClosing DEF FrameOK, Quiet

LEMMA QuietGoto ==
  ASSUME HandlersInv, NEW t \in AllThreads, stack[t] # <<>>, NEW p, Goto(t, p),
         Onward(Top(t).pc, p), Quiet
  PROVE  HandlersInv'
<1>1. /\ Top(t) = stack[t][1] /\ 1 \in DOMAIN stack[t] /\ Top(t) \in FrameSet
      /\ FrameOK(t, Top(t))
  BY TopIs
<1>2. PICK g : g = [Top(t) EXCEPT !.pc = p]
  OBVIOUS
<1>3. p \in Pcs
  BY DEF Onward
<1>4. g \in FrameSet /\ g.pc = p /\ g.c = Top(t).c /\ g.x = Top(t).x
  BY <1>1, <1>2, <1>3, FrameIs
<1>5. PICK a : a = <<g>>
  OBVIOUS
<1>6. Moves(t, 1, a) /\ Len(a) = 1 /\ a[1] = g
  BY <1>2, <1>3, <1>4, <1>5, GotoMoves, OneIs DEF HandlersInv
<1>7. FrameOK(t, g) /\ \A x \in Handlers : Owns(g, x) => Owns(stack[t][1], x)
  BY <1>1, <1>4, OnwardFrame
<1>8. FrameOK(t, g)'
  BY <1>4, <1>7, QuietFrame
<1>9. \A i \in 1..Len(a) : i = 1 /\ a[i] = g /\ i = Len(a)
  BY <1>6
<1>10. \A i \in 1..(Len(a) - 1) : FALSE
  BY <1>6
<1>11. a[Len(a)].pc \notin {"handler", "inline"}
  BY <1>4, <1>6 DEF Onward
<1>12. \A x \in Handlers : \A i \in 1..Len(a) :
         Owns(a[i], x) => i = Len(a) /\ 1 = 1 /\ Owns(stack[t][1], x)
  BY <1>7, <1>9
<1>13. \A i \in 1..Len(a) : FrameOK(t, a[i])'
  BY <1>8, <1>9
<1>14. QED
  BY <1>6, <1>10, <1>11, <1>12, <1>13, QuietKeeps

\* The frame f does nothing about a handler of the clients.
Harmless(t, f) == /\ f \in FrameSet /\ f.pc \notin ClosingPcs \cup {"inline", "handler"}
                  /\ f.x \notin Handlers \/ f.pc \notin AddPcs \cup PoppedPcs \cup KnowPcs
                  /\ f.pc \in ChildPcs => f.x \in Contexts
                  /\ f.pc \notin StartPcs
                  /\ f.pc \in AddPcs => f.x \in Nodes

LEMMA HarmlessFrame ==
  ASSUME NEW t \in AllThreads, NEW f, Harmless(t, f)
  PROVE  FrameOK(t, f) /\ FrameOK(t, f)' /\ \A x \in Handlers : ~Owns(f, x)
BY DEF Harmless, FrameOK, HandlerFrameOK, Owns, KnowPcs

LEMMA EnterMoves ==
  ASSUME HandlersInv, NEW t \in AllThreads, stack[t] # <<>>, NEW p \in Pcs, NEW f \in FrameSet,
         Enter(t, p, f)
  PROVE  Moves(t, 1, <<f, [Top(t) EXCEPT !.pc = p]>>)
<1>1. stack[t] \in Seq(FrameSet) /\ Shapes /\ Top(t) \in FrameSet /\ 1 <= Len(stack[t])
  BY TopIs DEF HandlersInv, Shapes
<1>2. PICK a : a = <<f, [Top(t) EXCEPT !.pc = p]>>
  OBVIOUS
<1>3. [Top(t) EXCEPT !.pc = p] \in FrameSet
  BY <1>1, FrameIs
<1>4. a \in Seq(FrameSet)
  BY <1>2, <1>3, TwoIs
<1>5. stack' = [stack EXCEPT ![t] = a \o (IF 1 = 0 THEN stack[t] ELSE IF 1 = 1 THEN Tail(stack[t])
                                              ELSE Tail(Tail(stack[t])))]
  BY <1>1, <1>2 DEF Enter, Top, Shapes
<1>6. Moves(t, 1, a)
  BY <1>1, <1>4, <1>5, StackMoves
<1>7. QED
  BY <1>2, <1>6

LEMMA QuietEnter ==
  ASSUME HandlersInv, NEW t \in AllThreads, stack[t] # <<>>, NEW p, NEW f, Enter(t, p, f),
         Onward(Top(t).pc, p), Quiet,
         Harmless(t, f) \/ (f \in FrameSet /\ f.pc = "inline" /\ p = "exec.inline")
  PROVE  HandlersInv'
<1>1. /\ Top(t) = stack[t][1] /\ 1 \in DOMAIN stack[t] /\ Top(t) \in FrameSet
      /\ FrameOK(t, Top(t))
  BY TopIs
<1>2. PICK g : g = [Top(t) EXCEPT !.pc = p]
  OBVIOUS
<1>3. p \in Pcs /\ f \in FrameSet
  BY DEF Onward, Harmless
<1>4. g \in FrameSet /\ g.pc = p /\ g.c = Top(t).c /\ g.x = Top(t).x
  BY <1>1, <1>2, <1>3, FrameIs
<1>5. PICK a : a = <<f, g>>
  OBVIOUS
<1>6. Moves(t, 1, a) /\ Len(a) = 2 /\ a[1] = f /\ a[2] = g
  BY <1>2, <1>3, <1>4, <1>5, EnterMoves, TwoIs
<1>7. FrameOK(t, g) /\ \A x \in Handlers : Owns(g, x) => Owns(stack[t][1], x)
  BY <1>1, <1>4, OnwardFrame
<1>8. FrameOK(t, g)'
  BY <1>4, <1>7, QuietFrame
<1>9. FrameOK(t, f)' /\ \A x \in Handlers : ~Owns(f, x)
  <2>1. CASE Harmless(t, f)
    BY <2>1, HarmlessFrame
  <2>2. CASE f.pc = "inline"
    BY <2>2 DEF FrameOK, HandlerFrameOK, Owns, ClosingPcs, ChildPcs, AddPcs,
                     PoppedPcs, KnowPcs, StartPcs
  <2>3. QED
    BY <2>1, <2>2
<1>10. \A i \in 1..Len(a) : (i = 1 /\ a[i] = f) \/ (i = 2 /\ a[i] = g /\ i = Len(a))
  BY <1>6
<1>11. \A i \in 1..(Len(a) - 1) : NestedOK(a, i)
  <2>1. \A i \in 1..(Len(a) - 1) : i = 1
    BY <1>6
  <2>2. f.pc # "handler" /\ (f.pc = "inline" => p = "exec.inline") /\ 2 \in DOMAIN a /\ 1 + 1 = 2
    BY <1>3, <1>5 DEF Harmless
  <2>3. NestedOK(a, 1)
    BY <1>4, <1>6, <2>2 DEF NestedOK
  <2>4. QED
    BY <2>1, <2>3
<1>12. a[Len(a)].pc \notin {"handler", "inline"}
  BY <1>4, <1>6 DEF Onward
<1>13. \A x \in Handlers : \A i \in 1..Len(a) :
         Owns(a[i], x) => i = Len(a) /\ 1 = 1 /\ Owns(stack[t][1], x)
  BY <1>7, <1>9, <1>10
<1>14. \A i \in 1..Len(a) : FrameOK(t, a[i])'
  BY <1>8, <1>9, <1>10
<1>15. QED
  BY <1>6, <1>11, <1>12, <1>13, <1>14, QuietKeeps

-----------------------------------------------------------------------------
\* The steps that do nothing to a handler: the top frame of t goes on, or is
\* left, or calls something else.
LEMMA BlockKeeps ==
  ASSUME HandlersInv, NEW t \in AllThreads,
         \/ BlockClose(t, "exec", "exec.post") \/ BlockClose(t, "add", "add.insert")
         \/ BlockClose(t, "start", "start.insert") \/ BlockClose(t, "child", "child.new")
  PROVE  HandlersInv'
<1>1. Still /\ stack[t] # <<>>
  BY DEF BlockClose, At, Still, nodes, exec, history, clients
<1>2. PICK p : Goto(t, p) /\ Onward(Top(t).pc, p)
  BY DEF BlockClose, At, Onward, PoppedPcs, AddPcs, ChildPcs, ClosingPcs, Pcs, KnowPcs, StartPcs
<1>3. QED
  BY <1>1, <1>2, QuietGoto, StillIsQuiet

LEMMA GotoStepKeeps ==
  ASSUME HandlersInv, NEW t \in AllThreads,
         \/ RunBlock(t) \/ RunUndo(t) \/ StartSucceeds(t) \/ WaitForClosing(t) \/ Anchor(t)
  PROVE  HandlersInv'
<1>1. Still /\ stack[t] # <<>>
  BY DEF RunBlock, RunUndo, StartSucceeds, WaitForClosing, Anchor, At, Still, words, nodes, exec,
         history, clients
<1>2. PICK p : Goto(t, p) /\ Onward(Top(t).pc, p)
  BY DEF RunBlock, RunUndo, StartSucceeds, WaitForClosing, Anchor, At, Onward, PoppedPcs, AddPcs,
         ChildPcs, ClosingPcs, Pcs, KnowPcs, StartPcs
<1>3. QED
  BY <1>1, <1>2, QuietGoto, StillIsQuiet

LEMMA ReturnStepKeeps ==
  ASSUME HandlersInv, NEW t \in AllThreads,
         \/ Unblock(t, "exec.unblock") \/ Unblock(t, "unblock") \/ WorkReturns(t) \/ RunDrop(t)
         \/ UndoBlock(t, "exec.undo") \/ ChildMade(t) \/ ReleaseOwner(t) \/ HandlerReturns(t)
         \/ ReleaseAnchor(t) \/ CloseReturns(t) \/ WaitForClosed(t)
  PROVE  HandlersInv'
<1>1. Still /\ stack[t] # <<>> /\ Return(t)
  BY DEF Unblock, WorkReturns, RunDrop, UndoBlock, ChildMade, ReleaseOwner, HandlerReturns,
         ReleaseAnchor, CloseReturns, WaitForClosed, At, Still, words, nodes, exec, history, clients
<1>2. QED
  BY <1>1, QuietReturn, StillIsQuiet

LEMMA PostKeeps ==
  ASSUME HandlersInv, NEW t \in AllThreads, Post(t)
  PROVE  HandlersInv'
<1>1. Shapes /\ ClosersKnown /\ stack[t] # <<>> /\ Top(t).pc = "exec.post" /\ Goto(t, "exec.unblock")
  BY DEF HandlersInv, Post, At
<1>2. Top(t).c \in Contexts /\ Top(t).x \in Arguments
  BY <1>1, TopIs
<1>3. [ctx |-> Top(t).c, work |-> Top(t).x] \in Closures
  BY <1>2 DEF Closures
<1>4. queue' \in Seq(Closures)
  BY <1>1, <1>3 DEF Post, Shapes
<1>5. Typed /\ list' = list /\ \A x \in Handlers : Same(x)
  BY <1>1, <1>4 DEF Post, Typed, Same, Shapes, ClosersKnown, words, nodes, history, clients
<1>6. Onward(Top(t).pc, "exec.unblock")
  BY <1>1 DEF Onward, PoppedPcs, AddPcs,
         ChildPcs, ClosingPcs, Pcs, KnowPcs, StartPcs
<1>7. QED
  BY <1>1, <1>5, <1>6, QuietGoto DEF Quiet

LEMMA ResetKeeps ==
  ASSUME HandlersInv, NEW t \in AllThreads, ResetExecutor(t)
  PROVE  HandlersInv'
<1>1. Shapes /\ ClosersKnown /\ stack[t] # <<>> /\ Top(t).pc = "close.reset" /\ Goto(t, "close.closed")
  BY DEF HandlersInv, ResetExecutor, At
<1>2. queue' \in Seq(Closures)
  BY <1>1 DEF ResetExecutor, Shapes
<1>3. Typed /\ list' = list /\ \A x \in Handlers : Same(x)
  BY <1>1, <1>2 DEF ResetExecutor, Typed, Same, Shapes, ClosersKnown, nodes, history, clients
<1>4. Onward(Top(t).pc, "close.closed")
  BY <1>1 DEF Onward, PoppedPcs, AddPcs,
         ChildPcs, ClosingPcs, Pcs, KnowPcs, StartPcs
<1>5. QED
  BY <1>1, <1>3, <1>4, QuietGoto DEF Quiet

LEMMA ClosedKeeps ==
  ASSUME HandlersInv, NEW t \in AllThreads, SetClosedFlag(t)
  PROVE  HandlersInv'
<1>1. Shapes /\ ClosersKnown /\ stack[t] # <<>> /\ Top(t).pc = "close.closed" /\ Goto(t, "close.release")
  BY DEF HandlersInv, SetClosedFlag, At
<1>2. flags' \in [Contexts -> SUBSET Flags] /\ \A c \in Contexts : flags[c] \subseteq flags'[c]
  BY <1>1, TopIs DEF SetClosedFlag, Shapes, Flags
<1>3. Typed /\ list' = list /\ \A x \in Handlers : Same(x)
  BY <1>1, <1>2 DEF SetClosedFlag, Typed, Same, Shapes, ClosersKnown, nodes, exec, history, clients
<1>4. Onward(Top(t).pc, "close.release")
  BY <1>1 DEF Onward, PoppedPcs, AddPcs,
         ChildPcs, ClosingPcs, Pcs, KnowPcs, StartPcs
<1>5. QED
  BY <1>1, <1>3, <1>4, QuietGoto DEF Quiet

LEMMA EnterStepKeeps ==
  ASSUME HandlersInv, NEW t \in AllThreads, PostInline(t) \/ ConstructChild(t)
  PROVE  HandlersInv'
<1>1. Still /\ stack[t] # <<>>
  BY DEF PostInline, ConstructChild, At, Still, words, nodes, exec, history, clients
<1>2. Top(t).c \in Contexts /\ Top(t).x \in Arguments /\ FrameOK(t, Top(t))
  BY <1>1, TopIs
<1>3. CASE PostInline(t)
  <2>1. PICK f : f = Frame("inline", Top(t).c, Top(t).x, TRUE)
    OBVIOUS
  <2>2. f \in FrameSet /\ f.pc = "inline"
    BY <1>2, <2>1, NewFrameIs DEF Pcs, KnowPcs, StartPcs
  <2>3. Enter(t, "exec.inline", f) /\ Onward(Top(t).pc, "exec.inline")
    BY <1>3, <2>1 DEF PostInline, At, Onward, PoppedPcs, AddPcs,
         ChildPcs, ClosingPcs, Pcs, KnowPcs, StartPcs
  <2>4. QED
    BY <1>1, <2>2, <2>3, QuietEnter, StillIsQuiet
<1>4. CASE ConstructChild(t)
  <2>1. PICK f : f = Frame("add", Top(t).c, Top(t).x, FALSE)
    OBVIOUS
  <2>2. f \in FrameSet /\ f.pc = "add" /\ f.x = Top(t).x
    BY <1>2, <2>1 DEF Frame, FrameSet, Pcs, AddPcs
  <2>3. Enter(t, "child.add", f) /\ Onward(Top(t).pc, "child.add") /\ Top(t).pc = "child.new"
    BY <1>4, <2>1 DEF ConstructChild, At, Onward, PoppedPcs, AddPcs,
         ChildPcs, ClosingPcs, Pcs, KnowPcs, StartPcs
  <2>4. f.x \in Contexts /\ f.x \notin Handlers
    BY <1>2, <2>2, <2>3, TreeAssumption DEF FrameOK, ChildPcs
  <2>5. Harmless(t, f)
    BY <2>2, <2>4 DEF Harmless, ClosingPcs, ChildPcs, StartPcs, AddPcs, Nodes
  <2>6. QED
    BY <1>1, <2>3, <2>5, QuietEnter, StillIsQuiet
<1>5. QED
  BY <1>3, <1>4

LEMMA LeaveParentKeeps ==
  ASSUME HandlersInv, NEW t \in AllThreads, LeaveParent(t)
  PROVE  HandlersInv'
<1>1. Still /\ stack[t] # <<>> /\ Top(t).pc = "close.parent"
  BY DEF LeaveParent, At, Still, words, nodes, exec, history, clients
<1>2. Top(t).c \in Contexts /\ Onward(Top(t).pc, "close.reset")
  BY <1>1, TopIs DEF Onward, PoppedPcs, AddPcs,
         ChildPcs, ClosingPcs, Pcs, KnowPcs, StartPcs
<1>3. CASE Parent[Top(t).c] = None
  BY <1>1, <1>2, <1>3, QuietGoto, StillIsQuiet DEF LeaveParent
<1>4. CASE Parent[Top(t).c] # None
  <2>1. PICK f : f = Frame("remove", Parent[Top(t).c], Top(t).c, FALSE)
    OBVIOUS
  <2>2. Parent[Top(t).c] \in Contexts
    BY <1>2, <1>4, TreeAssumption
  <2>3. f \in FrameSet /\ f.pc = "remove" /\ f.x = Top(t).c
    <3>1. Top(t).c \in Arguments /\ "remove" \in Pcs /\ FALSE \in BOOLEAN
      BY <1>2 DEF Arguments, Nodes, Pcs, KnowPcs, StartPcs
    <3>2. QED
      BY <1>2, <2>1, <2>2, <3>1 DEF Frame, FrameSet
  <2>4. Enter(t, "close.reset", f)
    BY <1>4, <2>1 DEF LeaveParent
  <2>5. Harmless(t, f)
    BY <1>2, <2>3, TreeAssumption DEF Harmless, ClosingPcs, ChildPcs, StartPcs, AddPcs, Nodes
  <2>6. QED
    BY <1>1, <1>2, <2>4, <2>5, QuietEnter, StillIsQuiet
<1>5. QED
  BY <1>3, <1>4

-----------------------------------------------------------------------------
\* Steps that do nothing to a handler but are none of these.

LEMMA QuietOne ==
  ASSUME HandlersInv, NEW t \in AllThreads, NEW k, NEW g \in FrameSet, Moves(t, k, <<g>>), Quiet,
         FrameOK(t, g)', g.pc \notin {"handler", "inline"},
         \A x \in Handlers : ~Owns(g, x)
  PROVE  HandlersInv'
<1>1. PICK a : a = <<g>>
  OBVIOUS
<1>2. Moves(t, k, a) /\ Len(a) = 1 /\ a[1] = g
  BY <1>1, OneIs
<1>3. \A i \in 1..Len(a) : i = 1 /\ a[i] = g
  BY <1>2
<1>4. \A i \in 1..(Len(a) - 1) : FALSE
  BY <1>2
<1>5. /\ \A x \in Handlers : \A i \in 1..Len(a) :
           Owns(a[i], x) => i = Len(a) /\ k = 1 /\ Owns(stack[t][1], x)
      /\ \A i \in 1..Len(a) : FrameOK(t, a[i])'
      /\ a[Len(a)].pc \notin {"handler", "inline"}
  BY <1>2, <1>3
<1>6. QED
  BY <1>2, <1>4, <1>5, QuietKeeps

LEMMA InlineReturnsKeeps ==
  ASSUME HandlersInv, NEW t \in AllThreads, InlineReturns(t)
  PROVE  HandlersInv'
<1>1. Still /\ stack[t] # <<>> /\ Top(t).pc = "inline" /\ Shapes
  BY DEF InlineReturns, At, Still, words, nodes, exec, history, clients, HandlersInv
<1>2. 1 + 1 \in DOMAIN stack[t] /\ stack[t] \in Seq(FrameSet)
  BY <1>1, TopIs DEF NestedOK, Shapes
<1>3. stack[t][2] \in FrameSet /\ 2 <= Len(stack[t])
  BY <1>2
<1>4. PICK g : g = [stack[t][2] EXCEPT !.pc = "exec.unblock"]
  OBVIOUS
<1>5. g \in FrameSet /\ g.pc = "exec.unblock"
  BY <1>3, <1>4, FrameIs DEF Pcs
<1>6. <<g>> \in Seq(FrameSet)
  BY <1>5, OneIs
<1>7. Moves(t, 2, <<g>>)
  <2>1. stack' = [stack EXCEPT ![t] = <<g>> \o Tail(Tail(stack[t]))]
    BY <1>1, <1>4 DEF InlineReturns, Shapes
  <2>2. Tail(Tail(stack[t])) = IF 2 = 0 THEN stack[t] ELSE IF 2 = 1 THEN Tail(stack[t])
                               ELSE Tail(Tail(stack[t]))
    OBVIOUS
  <2>3. stack' = [stack EXCEPT ![t] = <<g>> \o (IF 2 = 0 THEN stack[t] ELSE IF 2 = 1 THEN Tail(stack[t])
                                                 ELSE Tail(Tail(stack[t])))]
    BY <2>1, <2>2
  <2>4. QED
    BY <1>1, <1>3, <1>6, <2>3, StackMoves
<1>8. Harmless(t, g)
  BY <1>5 DEF Harmless, ClosingPcs, AddPcs, PoppedPcs, KnowPcs, ChildPcs, StartPcs
<1>9. QED
  BY <1>1, <1>5, <1>7, <1>8, HarmlessFrame, QuietOne, StillIsQuiet

\* A call pushes the frames a on the stack of t.
LEMMA PushMoves ==
  ASSUME HandlersInv, NEW t \in AllThreads, NEW a \in Seq(FrameSet),
         stack' = [stack EXCEPT ![t] = a \o stack[t]]
  PROVE  Moves(t, 0, a)
<1>1. Shapes /\ 0 <= Len(stack[t])
  BY DEF HandlersInv, Shapes
<1>2. stack[t] = IF 0 = 0 THEN stack[t] ELSE IF 0 = 1 THEN Tail(stack[t]) ELSE Tail(Tail(stack[t]))
  OBVIOUS
<1>3. stack' = [stack EXCEPT ![t] = a \o (IF 0 = 0 THEN stack[t] ELSE IF 0 = 1 THEN Tail(stack[t])
                                           ELSE Tail(Tail(stack[t])))]
  BY <1>2
<1>4. QED
  BY <1>1, <1>3, StackMoves

LEMMA TakeKeeps ==
  ASSUME HandlersInv, TakeClosure
  PROVE  HandlersInv'
<1>1. Shapes /\ ClosersKnown /\ Worker \in AllThreads /\ stack[Worker] = <<>>
  BY DEF HandlersInv, TakeClosure, AllThreads
<1>2. queue \in Seq(Closures) /\ queue # <<>>
  BY <1>1 DEF Shapes, TakeClosure
<1>3. Head(queue) \in Closures /\ Tail(queue) \in Seq(Closures)
  BY <1>2, TailIs
<1>4. PICK g : g = Frame("run", Head(queue).ctx, Head(queue).work, TRUE)
  OBVIOUS
<1>5. g \in FrameSet /\ g.pc = "run"
  BY <1>3, <1>4 DEF Frame, FrameSet, Closures, Pcs
<1>6. <<g>> \in Seq(FrameSet) /\ <<g>> \o stack[Worker] = <<g>>
  BY <1>1, <1>5, OneIs
<1>7. stack' = [stack EXCEPT ![Worker] = <<g>> \o stack[Worker]]
  BY <1>4, <1>6 DEF TakeClosure
<1>8. Moves(Worker, 0, <<g>>)
  BY <1>1, <1>6, <1>7, PushMoves
<1>9. Typed /\ list' = list /\ \A x \in Handlers : Same(x)
  BY <1>1, <1>3 DEF TakeClosure, Typed, Same, Shapes, ClosersKnown, words, nodes, history, clients
<1>10. Harmless(Worker, g)
  BY <1>5 DEF Harmless, ClosingPcs, AddPcs, PoppedPcs, KnowPcs, ChildPcs, StartPcs
<1>11. QED
  BY <1>1, <1>5, <1>8, <1>9, <1>10, HarmlessFrame, QuietOne DEF Quiet

LEMMA StartCloseKeeps ==
  ASSUME HandlersInv, NEW t \in AllThreads, StartClose(t)
  PROVE  HandlersInv'
<1>1. Shapes /\ ClosersKnown /\ stack[t] # <<>>
  BY DEF HandlersInv, StartClose, At
<1>2. Top(t) \in FrameSet /\ Top(t).c \in Contexts
  BY <1>1, TopIs
<1>3. PICK c : c = Top(t).c
  OBVIOUS
<1>4. /\ flags' = [flags EXCEPT ![c] = @ \cup {"PreparingForClosing"}]
      /\ program' = program /\ list' = list /\ hasPtr' = hasPtr /\ destroyed' = destroyed
      /\ done' = done /\ fate' = fate /\ gone' = gone /\ queue' = queue
      /\ IF "PreparingForClosing" \in flags[c]
         THEN Goto(t, "close.lost") /\ closer' = closer
         ELSE Goto(t, "close.wait") /\ closer' = [closer EXCEPT ![c] = t]
  BY <1>3 DEF StartClose, nodes, exec, history, clients
<1>5. /\ flags' \in [Contexts -> SUBSET Flags]
      /\ \A d \in Contexts : flags[d] \subseteq flags'[d]
      /\ "PreparingForClosing" \in flags'[c]
  BY <1>1, <1>2, <1>3, <1>4 DEF Shapes, Flags
<1>6. /\ closer' \in [Contexts -> AllThreads \cup {None}]
      /\ \A d \in Contexts : IF closer[d] # None THEN closer'[d] = closer[d]
                             ELSE closer'[d] # None => "PreparingForClosing" \in flags'[d]
  <2>1. CASE "PreparingForClosing" \in flags[c]
    BY <1>1, <1>4, <2>1 DEF Shapes
  <2>2. CASE "PreparingForClosing" \notin flags[c]
    <3>1. closer[c] = None
      BY <1>1, <1>2, <1>3, <2>2 DEF ClosersKnown
    <3>2. /\ closer' \in [Contexts -> AllThreads \cup {None}]
          /\ \A d \in Contexts : d # c => closer'[d] = closer[d]
      BY <1>1, <1>2, <1>3, <1>4, <2>2 DEF Shapes
    <3>3. SUFFICES ASSUME NEW d \in Contexts
                   PROVE  IF closer[d] # None THEN closer'[d] = closer[d]
                          ELSE closer'[d] # None => "PreparingForClosing" \in flags'[d]
      BY <3>2
    <3>4. CASE d = c
      BY <1>5, <3>1, <3>4
    <3>5. CASE d # c
      BY <1>1, <1>5, <3>2, <3>3, <3>5 DEF ClosersKnown
    <3>6. QED
      BY <3>4, <3>5
  <2>3. QED
    BY <2>1, <2>2
<1>7. Quiet
  <2>1. \A x \in Handlers : Same(x)
    BY <1>4 DEF Same
  <2>2. Typed
    BY <1>1, <1>4, <1>5, <1>6 DEF Typed, Shapes
  <2>3. QED
    BY <1>4, <2>1, <2>2 DEF Quiet
<1>8. CASE "PreparingForClosing" \in flags[c]
  <2>1. Goto(t, "close.lost") /\ Onward(Top(t).pc, "close.lost")
    BY <1>4, <1>8 DEF Onward, PoppedPcs, AddPcs, ChildPcs, ClosingPcs, Pcs, KnowPcs, StartPcs
  <2>2. QED
    BY <1>1, <1>7, <2>1, QuietGoto
<1>9. CASE "PreparingForClosing" \notin flags[c]
  <2>1. PICK g : g = [Top(t) EXCEPT !.pc = "close.wait"]
    OBVIOUS
  <2>2. "close.wait" \in Pcs
    BY DEF Pcs, ClosingPcs
  <2>3. g \in FrameSet /\ g.pc = "close.wait" /\ g.c = c
    BY <1>2, <1>3, <2>1, <2>2, FrameIs
  <2>4. Moves(t, 1, <<g>>)
    BY <1>1, <1>4, <1>9, <2>1, <2>2, GotoMoves
  <2>5. closer'[c] = t
    BY <1>1, <1>2, <1>3, <1>4, <1>9 DEF Shapes
  <2>6. FrameOK(t, g)' /\ \A x \in Handlers : ~Owns(g, x)
    BY <2>3, <2>5 DEF FrameOK, HandlerFrameOK, Owns, AddPcs, PoppedPcs, KnowPcs, ChildPcs, StartPcs
  <2>7. QED
    BY <1>7, <2>3, <2>4, <2>6, QuietOne
<1>10. QED
  BY <1>8, <1>9

LEMMA SetClosingKeeps ==
  ASSUME HandlersInv, NEW t \in AllThreads, SetClosingFlag(t)
  PROVE  HandlersInv'
<1>1. Shapes /\ ClosersKnown /\ stack[t] # <<>> /\ Top(t).pc = "close.flag"
  BY DEF HandlersInv, SetClosingFlag, At
<1>2. /\ Top(t) \in FrameSet /\ Top(t).c \in Contexts /\ FrameOK(t, Top(t))
      /\ Top(t) = stack[t][1] /\ 1 \in DOMAIN stack[t] /\ Len(stack[t]) >= 1 /\ Len(stack[t]) \in Nat
  BY <1>1, TopIs
<1>3. flags' \in [Contexts -> SUBSET Flags] /\ \A d \in Contexts : flags[d] \subseteq flags'[d]
  BY <1>1, <1>2 DEF SetClosingFlag, Shapes, Flags
<1>4. Typed /\ list' = list /\ \A x \in Handlers : Same(x)
  BY <1>1, <1>3 DEF SetClosingFlag, Typed, Same, Shapes, ClosersKnown, nodes, exec, history, clients
<1>5. PICK f : f = Top(t)
  OBVIOUS
<1>6. PICK g : g = [f EXCEPT !.pc = "close.pop", !.x = None]
  OBVIOUS
<1>7. g \in FrameSet /\ g.pc = "close.pop" /\ g.x = None /\ g.c = f.c
  BY <1>2, <1>5, <1>6 DEF FrameSet, Pcs, ClosingPcs, Arguments
<1>8. Moves(t, 1, <<g>>)
  <2>1. stack[t] \in Seq(FrameSet) /\ stack \in [AllThreads -> Seq(FrameSet)]
    BY <1>1 DEF Shapes
  <2>2. stack' = [stack EXCEPT ![t] = <<g>> \o Tail(stack[t])]
    <3>1. stack' = [stack EXCEPT ![t] = [stack[t] EXCEPT ![1] = g]]
      BY <1>2, <1>5, <1>6, <2>1 DEF SetClosingFlag
    <3>2. [stack[t] EXCEPT ![1] = g] = <<g>> \o Tail(stack[t])
      BY <1>2, <1>7, <2>1, HeadSet
    <3>3. QED
      BY <3>1, <3>2
  <2>3. Tail(stack[t]) = IF 1 = 0 THEN stack[t] ELSE IF 1 = 1 THEN Tail(stack[t])
                         ELSE Tail(Tail(stack[t]))
    OBVIOUS
  <2>4. stack' = [stack EXCEPT ![t] = <<g>> \o (IF 1 = 0 THEN stack[t] ELSE IF 1 = 1 THEN Tail(stack[t])
                                                 ELSE Tail(Tail(stack[t])))]
    BY <2>2, <2>3
  <2>5. <<g>> \in Seq(FrameSet)
    BY <1>7, OneIs
  <2>6. QED
    BY <1>1, <1>2, <2>4, <2>5, StackMoves
<1>9. closer'[g.c] = t
  BY <1>1, <1>2, <1>5, <1>7 DEF FrameOK, ClosingPcs, SetClosingFlag
<1>10. FrameOK(t, g)' /\ \A x \in Handlers : ~Owns(g, x)
  BY <1>7, <1>9, TreeAssumption DEF FrameOK, Owns, ChildPcs, AddPcs, StartPcs
<1>11. QED
  BY <1>4, <1>7, <1>8, <1>10, QuietOne DEF Quiet

-----------------------------------------------------------------------------
\* The steps that do something to one handler x.
LEMMA OneKeeps ==
  ASSUME HandlersInv, NEW t \in AllThreads, NEW k, NEW a, Moves(t, k, a), Typed, NEW x \in Handlers,
         \A y \in Handlers \ {x} : Same(y),
         HandlerOK(x)',
         \A c \in Contexts : Once(list[c])',
         \A u \in AllThreads : \A j \in DOMAIN stack[u] : (u = t => j > k) =>
           \A f \in FrameSet : f = stack[u][j] /\ f.x = x => HandlerFrameOK(f)',
         \A i \in 1..Len(a) : FrameOK(t, a[i])',
         \A y \in Handlers : \A i, j \in 1..Len(a) : Owns(a[i], y) /\ Owns(a[j], y) => i = j,
         \A y \in Handlers : \A i \in 1..Len(a) : Owns(a[i], y) =>
           \A u \in AllThreads : \A j \in DOMAIN stack[u] : Owns(stack[u][j], y) => u = t /\ j <= k,
         Len(a) > 0 => a[Len(a)].pc \notin {"handler", "inline"},
         \A i \in 1..(Len(a) - 1) : NestedOK(a, i)
  PROVE  HandlersInv'
<1>1. PICK X : X = {x}
  OBVIOUS
<1>2. \A y \in Handlers \ X : Same(y)
  BY <1>1
<1>3. \A y \in Handlers \cap X : HandlerOK(y)'
  BY <1>1
<1>4. \A u \in AllThreads : \A j \in DOMAIN stack[u] : (u = t => j > k) =>
           \A f \in FrameSet : f = stack[u][j] /\ f.x \in X \cap Handlers => HandlerFrameOK(f)'
  BY <1>1
<1>5. Touches(t, k, X)
  BY <1>2, <1>3, <1>4 DEF Touches
<1>6. QED
  BY <1>5, Keeps

\* ... when the top frame of t returns.
LEMMA ReturnKeeps ==
  ASSUME HandlersInv, NEW t \in AllThreads, stack[t] # <<>>, Return(t), Typed, NEW x \in Handlers,
         \A y \in Handlers \ {x} : Same(y),
         HandlerOK(x)',
         \A c \in Contexts : Once(list[c])',
         \A u \in AllThreads : \A j \in DOMAIN stack[u] : (u = t => j > 1) =>
           \A f \in FrameSet : f = stack[u][j] /\ f.x = x => HandlerFrameOK(f)'
  PROVE  HandlersInv'
<1>1. PICK a : a = <<>>
  OBVIOUS
<1>2. Moves(t, 1, a) /\ Len(a) = 0
  BY <1>1, ReturnMoves
<1>3. \A i \in 1..Len(a) : FALSE
  BY <1>2
<1>4. \A i \in 1..(Len(a) - 1) : FALSE
  BY <1>2
<1>5. QED
  BY <1>2, <1>3, <1>4, OneKeeps

LEMMA ReturnFromOthers ==
  ASSUME HandlersInv, NEW t \in AllThreads, stack[t] # <<>>, Return(t), Typed,
         \A y \in Handlers : Same(y),
         \A c \in Contexts : Once(list[c])'
  PROVE  HandlersInv'
<1>1. PICK a : a = <<>>
  OBVIOUS
<1>2. PICK X : X = {}
  OBVIOUS
<1>3. Moves(t, 1, a) /\ Len(a) = 0
  BY <1>1, ReturnMoves
<1>4. \A i \in 1..Len(a) : FALSE
  BY <1>3
<1>5. \A i \in 1..(Len(a) - 1) : FALSE
  BY <1>3
<1>6. \A y \in Handlers \cap X : HandlerOK(y)'
  BY <1>2
<1>7. \A u \in AllThreads : \A j \in DOMAIN stack[u] : (u = t => j > 1) =>
        \A f \in FrameSet : f = stack[u][j] /\ f.x \in X \cap Handlers => HandlerFrameOK(f)'
  BY <1>2
<1>8. Touches(t, 1, X)
  BY <1>6, <1>7 DEF Touches
<1>9. QED
  BY <1>3, <1>4, <1>5, <1>8, Keeps

\* What is known of a frame anywhere.
LEMMA FrameHolds ==
  ASSUME HandlersInv, NEW u \in AllThreads, NEW j \in DOMAIN stack[u]
  PROVE  FrameOK(u, stack[u][j]) /\ NestedOK(stack[u], j) /\ stack[u][j] \in FrameSet
BY DEF HandlersInv, FramesOK, Nested, Shapes

\* A frame that only knows its handler goes on knowing it.
LEMMA KnowsKeeps ==
  ASSUME NEW f, HandlerFrameOK(f), f.pc \notin AddPcs \cup PoppedPcs, program' = program,
         f.pc = "start.fn" => fate'[f.x] \notin {"new", "adding"},
         gone[f.x] # "no" => gone'[f.x] # "no"
  PROVE  HandlerFrameOK(f)'
BY DEF HandlerFrameOK, BelongsTo

\* Whoever else knows the handler that the top frame of t owns does not own it.
LEMMA OthersKnow ==
  ASSUME HandlersInv, NEW t \in AllThreads, stack[t] # <<>>, NEW x \in Handlers, Owns(Top(t), x),
         NEW u \in AllThreads, NEW j \in DOMAIN stack[u], u = t => j > 1, stack[u][j].x = x
  PROVE  stack[u][j].pc \notin AddPcs \cup PoppedPcs /\ HandlerFrameOK(stack[u][j])
<1>1. OneOwner /\ Top(t) = stack[t][1] /\ 1 \in DOMAIN stack[t]
  BY TopIs DEF HandlersInv
<1>2. ~(u = t /\ 1 = j)
  OBVIOUS
<1>3. ~Owns(stack[u][j], x)
  BY <1>1, <1>2 DEF OneOwner
<1>4. QED
  BY <1>3, FrameHolds DEF Owns, FrameOK

LEMMA UndoKeeps ==
  ASSUME HandlersInv, NEW t \in AllThreads, UndoBlock(t, "undo")
  PROVE  HandlersInv'
<1>1. /\ stack[t] # <<>> /\ Top(t).pc = "undo" /\ Return(t)
      /\ program' = program /\ flags' = flags /\ list' = list /\ hasPtr' = hasPtr
      /\ destroyed' = destroyed /\ done' = done /\ gone' = gone
      /\ closer' = closer /\ queue' = queue
      /\ fate' = [fate EXCEPT ![Top(t).x] = "refused"]
  BY DEF UndoBlock, At, nodes, exec, history, clients
<1>2. Shapes /\ ClosersKnown /\ HandlersOK
  BY DEF HandlersInv
<1>3. Top(t) \in FrameSet /\ FrameOK(t, Top(t))
  BY <1>1, TopIs
<1>4. PICK x : x = Top(t).x
  OBVIOUS
<1>5. fate' \in [Nodes -> Fates] /\ \A y \in Handlers : y # x => fate'[y] = fate[y]
  BY <1>1, <1>2, <1>4 DEF Shapes, Fates, Nodes
<1>6. Typed
  BY <1>1, <1>2, <1>5 DEF Typed, Shapes, ClosersKnown
<1>7. \A y \in Handlers : y # x => Same(y)
  BY <1>1, <1>5 DEF Same
<1>8. CASE x \notin Handlers
  BY <1>1, <1>6, <1>7, <1>8, QuietReturn DEF Quiet
<1>9. CASE x \in Handlers
  <2>1. Fresh(x) /\ fate[x] = "adding" /\ Owns(Top(t), x)
    BY <1>1, <1>3, <1>4, <1>9 DEF FrameOK, HandlerFrameOK, AddPcs, Owns
  <2>2. fate'[x] = "refused"
    BY <1>1, <1>2, <1>4, <1>9 DEF Shapes, Nodes
  <2>3. HandlerOK(x)'
    BY <1>1, <2>1, <2>2 DEF HandlerOK, Fresh
  <2>4. \A c \in Contexts : Once(list[c])'
    BY <1>1, <1>2 DEF HandlersOK, Once
  <2>5. ASSUME NEW u \in AllThreads, NEW j \in DOMAIN stack[u], u = t => j > 1,
               NEW f \in FrameSet, f = stack[u][j], f.x = x
        PROVE  HandlerFrameOK(f)'
    <3>1. f.pc \notin AddPcs \cup PoppedPcs /\ HandlerFrameOK(f)
      BY <1>1, <1>9, <2>1, <2>5, OthersKnow
    <3>2. f.pc # "start.fn"
      BY <2>1, <2>5, <3>1 DEF HandlerFrameOK
    <3>3. QED
      BY <1>1, <3>1, <3>2, KnowsKeeps
  <2>6. QED
    BY <1>1, <1>6, <1>7, <1>9, <2>3, <2>4, <2>5, ReturnKeeps
<1>10. QED
  BY <1>8, <1>9

LEMMA RemoveWaitKeeps ==
  ASSUME HandlersInv, NEW t \in AllThreads, RemoveWait(t)
  PROVE  HandlersInv'
<1>1. /\ stack[t] # <<>> /\ Top(t).pc = "remove.wait" /\ Return(t) /\ done[Top(t).x]
      /\ program' = program /\ flags' = flags /\ list' = list /\ hasPtr' = hasPtr
      /\ destroyed' = destroyed /\ done' = done /\ fate' = fate
      /\ closer' = closer /\ queue' = queue
      /\ gone' = GoneAfter(Top(t).x)
  BY DEF RemoveWait, At, nodes, exec, clients
<1>2. Shapes /\ ClosersKnown /\ HandlersOK
  BY DEF HandlersInv
<1>3. PICK x : x = Top(t).x
  OBVIOUS
<1>4. gone' \in [Handlers -> {"no", "asked", "yes"}] /\ (\A y \in Handlers : y # x => gone'[y] = gone[y])
      /\ (x \in Handlers => gone'[x] = "yes")
  BY <1>1, <1>2, <1>3 DEF Shapes, GoneAfter
<1>5. Typed
  BY <1>1, <1>2, <1>4 DEF Typed, Shapes, ClosersKnown
<1>6. \A y \in Handlers : y # x => Same(y)
  BY <1>1, <1>4 DEF Same
<1>7. CASE x \notin Handlers
  BY <1>1, <1>5, <1>6, <1>7, QuietReturn DEF Quiet
<1>8. CASE x \in Handlers
  <2>1. HandlerOK(x)'
    BY <1>1, <1>2, <1>3, <1>8 DEF HandlersOK, HandlerOK, Fresh, Listed
  <2>2. \A c \in Contexts : Once(list[c])'
    BY <1>1, <1>2 DEF HandlersOK, Once
  <2>3. ASSUME NEW u \in AllThreads, NEW j \in DOMAIN stack[u], u = t => j > 1,
               NEW f \in FrameSet, f = stack[u][j], f.x = x
        PROVE  HandlerFrameOK(f)'
    <3>1. HandlerFrameOK(f)
      BY <1>8, <2>3, FrameHolds DEF FrameOK
    <3>2. f.pc \notin AddPcs \cup PoppedPcs
      BY <1>1, <1>3, <2>3, <3>1 DEF HandlerFrameOK, Fresh
    <3>3. QED
      BY <1>1, <1>4, <1>8, <2>3, <3>1, <3>2, KnowsKeeps DEF HandlerFrameOK
  <2>4. QED
    BY <1>1, <1>5, <1>6, <1>8, <2>1, <2>2, <2>3, ReturnKeeps
<1>9. QED
  BY <1>7, <1>8

-----------------------------------------------------------------------------
\* Removal from a list.

\* A node that is taken out of a list leaves the others as they were.
LEMMA RemoveAtIs ==
  ASSUME NEW S, NEW s \in Seq(S), NEW i \in 1..Len(s)
  PROVE  /\ RemoveAt(s, i) \in Seq(S) /\ Len(RemoveAt(s, i)) = Len(s) - 1
         /\ \A n \in 1..(Len(s) - 1) : RemoveAt(s, i)[n] = IF n < i THEN s[n] ELSE s[n + 1]
<1>1. Len(s) \in Nat
  OBVIOUS
<1>2. PICK front : front = SubSeq(s, 1, i - 1)
  OBVIOUS
<1>3. PICK back : back = SubSeq(s, i + 1, Len(s))
  OBVIOUS
<1>4. front \in Seq(S) /\ Len(front) = i - 1 /\ \A n \in 1..(i - 1) : front[n] = s[n]
  BY <1>1, <1>2
<1>5. back \in Seq(S) /\ Len(back) = Len(s) - i /\ \A n \in 1..(Len(s) - i) : back[n] = s[n + i]
  BY <1>1, <1>3
<1>6. /\ front \o back \in Seq(S) /\ Len(front \o back) = Len(s) - 1
      /\ \A n \in 1..(Len(s) - 1) : (front \o back)[n] = IF n <= i - 1 THEN front[n] ELSE back[n - (i - 1)]
  BY <1>1, <1>4, <1>5, ConcatIs
<1>7. RemoveAt(s, i) = front \o back
  BY <1>2, <1>3 DEF RemoveAt
<1>8. \A n \in 1..(Len(s) - 1) : (front \o back)[n] = IF n < i THEN s[n] ELSE s[n + 1]
  <2> SUFFICES ASSUME NEW n \in 1..(Len(s) - 1)
               PROVE  (front \o back)[n] = IF n < i THEN s[n] ELSE s[n + 1]
    OBVIOUS
  <2>1. CASE n < i
    <3>1. n <= i - 1 /\ n \in 1..(i - 1)
      BY <2>1
    <3>2. QED
      BY <1>4, <1>6, <2>1, <3>1
  <2>2. CASE ~(n < i)
    <3>1. ~(n <= i - 1) /\ n - (i - 1) \in 1..(Len(s) - i) /\ n - (i - 1) + i = n + 1
      BY <1>1, <2>2
    <3>2. back[n - (i - 1)] = s[n + 1]
      BY <1>5, <3>1
    <3>3. QED
      BY <1>6, <2>2, <3>1, <3>2
  <2>3. QED
    BY <2>1, <2>2
<1>9. QED
  BY <1>6, <1>7, <1>8

LEMMA UnlinkIs ==
  ASSUME NEW s \in Seq(Nodes), NEW x, Once(s)
  PROVE  /\ Unlink(s, x) \in Seq(Nodes) /\ Once(Unlink(s, x))
         /\ \A y \in ToSet(Unlink(s, x)) : y \in ToSet(s)
         /\ x \in Handlers => x \notin ToSet(Unlink(s, x))
<1>1. CASE x \notin ToSet(s)
  BY <1>1 DEF Unlink
<1>2. CASE x \in ToSet(s)
  <2>1. PICK i : i = CHOOSE j \in DOMAIN s : s[j] = x
    OBVIOUS
  <2>2. i \in 1..Len(s) /\ s[i] = x
    <3>1. \E j \in DOMAIN s : s[j] = x
      BY <1>2 DEF ToSet
    <3>2. i \in DOMAIN s /\ s[i] = x
      BY <2>1, <3>1
    <3>3. QED
      BY <3>2
  <2>3. PICK r : r = Unlink(s, x)
    OBVIOUS
  <2>4. r = RemoveAt(s, i)
    BY <1>2, <2>1, <2>3 DEF Unlink
  <2>5. /\ r \in Seq(Nodes) /\ Len(r) = Len(s) - 1 /\ Len(s) \in Nat
        /\ \A n \in 1..(Len(s) - 1) : r[n] = IF n < i THEN s[n] ELSE s[n + 1]
    <3>1. /\ RemoveAt(s, i) \in Seq(Nodes) /\ Len(RemoveAt(s, i)) = Len(s) - 1
          /\ \A n \in 1..(Len(s) - 1) : RemoveAt(s, i)[n] = IF n < i THEN s[n] ELSE s[n + 1]
      BY <2>2, RemoveAtIs
    <3>2. Len(s) \in Nat
      OBVIOUS
    <3>3. QED
      BY <2>4, <3>1, <3>2
  <2> DEFINE from(n) == IF n < i THEN n ELSE n + 1
  <2>6. ASSUME NEW n \in DOMAIN r
        PROVE  n \in Nat /\ from(n) \in DOMAIN s /\ from(n) # i /\ r[n] = s[from(n)]
    <3>1. n \in 1..(Len(s) - 1)
      BY <2>5
    <3>2. QED
      BY <2>2, <2>5, <3>1
  <2>7. ASSUME NEW n \in DOMAIN r, NEW m \in DOMAIN r, r[n] = r[m], r[n] \in Handlers
        PROVE  n = m
    <3>1. from(n) = from(m)
      BY <2>6, <2>7 DEF Once
    <3>2. QED
      BY <2>2, <2>6, <3>1
  <2>8. Once(r)
    BY <2>7 DEF Once
  <2>9. \A y \in ToSet(r) : y \in ToSet(s)
    BY <2>6 DEF ToSet
  <2>10. ASSUME x \in Handlers, NEW n \in DOMAIN r, r[n] = x
         PROVE  FALSE
    BY <2>2, <2>6, <2>10 DEF Once
  <2>11. x \in Handlers => x \notin ToSet(r)
    BY <2>10 DEF ToSet
  <2>12. QED
    BY <2>3, <2>5, <2>8, <2>9, <2>11
<1>3. QED
  BY <1>1, <1>2

\* A handler belongs to one context.
LEMMA OneHome ==
  ASSUME Shapes, NEW x \in Handlers, NEW c, NEW d, BelongsTo(x, c), BelongsTo(x, d)
  PROVE  c = d
BY ProgramsAssumption DEF BelongsTo, Shapes

LEMMA RemoveKeeps ==
  ASSUME HandlersInv, NEW t \in AllThreads, RemoveCloseHandler(t)
  PROVE  HandlersInv'
<1>1. stack[t] # <<>> /\ Top(t).pc = "remove" /\ Shapes /\ ClosersKnown /\ HandlersOK
  BY DEF RemoveCloseHandler, At, HandlersInv
<1>2. Top(t) \in FrameSet /\ FrameOK(t, Top(t)) /\ Top(t).c \in Contexts
  BY <1>1, TopIs
<1>3. PICK x : x = Top(t).x
  OBVIOUS
<1>4. PICK c : c = Top(t).c
  OBVIOUS
<1> DEFINE inList == x \in ToSet(list[c])
           mine == ~inList /\ ClosingInThisThread(t, c)
<1>5. /\ program' = program /\ flags' = flags /\ hasPtr' = hasPtr /\ done' = done /\ fate' = fate
      /\ closer' = closer /\ queue' = queue
      /\ list' = [list EXCEPT ![c] = Unlink(@, x)]
      /\ destroyed' = IF mine /\ hasPtr[x] THEN [destroyed EXCEPT ![x] = TRUE] ELSE destroyed
      /\ IF inList \/ mine THEN gone' = GoneAfter(x) /\ Return(t)
                           ELSE gone' = gone /\ Goto(t, "remove.wait")
  BY <1>3, <1>4 DEF RemoveCloseHandler, exec, clients
<1> HIDE DEF mine
<1>6. c \in Contexts /\ list[c] \in Seq(Nodes) /\ Once(list[c])
  BY <1>1, <1>2, <1>4 DEF Shapes, HandlersOK
<1>7. /\ Unlink(list[c], x) \in Seq(Nodes) /\ Once(Unlink(list[c], x))
      /\ \A y \in ToSet(Unlink(list[c], x)) : y \in ToSet(list[c])
      /\ x \in Handlers => x \notin ToSet(Unlink(list[c], x))
  BY <1>6, UnlinkIs
<1>8. /\ list' \in [Contexts -> Seq(Nodes)] /\ list'[c] = Unlink(list[c], x)
      /\ \A d \in Contexts : d # c => list'[d] = list[d]
  BY <1>1, <1>5, <1>6, <1>7 DEF Shapes
<1>9. \A d \in Contexts : Once(list'[d]) /\ \A y \in ToSet(list'[d]) : y \in ToSet(list[d])
  BY <1>1, <1>7, <1>8 DEF HandlersOK
<1>10. \A d \in Contexts : Once(list[d])'
  BY <1>9 DEF Once
<1>11. destroyed' \in [Nodes -> BOOLEAN] /\ \A y \in Handlers : y # x => destroyed'[y] = destroyed[y]
  BY <1>1, <1>5 DEF Shapes, Nodes
<1>12. gone' \in [Handlers -> {"no", "asked", "yes"}] /\ \A y \in Handlers : y # x => gone'[y] = gone[y]
  BY <1>1, <1>5 DEF Shapes, GoneAfter
<1>13. Typed
  BY <1>1, <1>5, <1>8, <1>11, <1>12 DEF Typed, Shapes, ClosersKnown
<1>14. \A y \in Handlers : y # x => Same(y)
  BY <1>5, <1>9, <1>11, <1>12 DEF Same
<1>15. CASE ~(inList \/ mine)
  <2>1. list' = list
    BY <1>1, <1>5, <1>15 DEF Unlink, Shapes
  <2>2. Still /\ Goto(t, "remove.wait")
    BY <1>5, <1>15, <2>1 DEF Still
  <2>3. Onward(Top(t).pc, "remove.wait")
    BY <1>1 DEF Onward, PoppedPcs, AddPcs, ChildPcs, ClosingPcs, Pcs, KnowPcs, StartPcs
  <2>4. QED
    BY <1>1, <2>2, <2>3, QuietGoto, StillIsQuiet
<1>16. CASE (inList \/ mine) /\ x \in Handlers
  <2>1. gone'[x] = "yes" /\ Return(t)
    BY <1>1, <1>5, <1>16 DEF GoneAfter, Shapes
  <2>2. gone[x] # "no" /\ BelongsTo(x, c)
    BY <1>1, <1>2, <1>3, <1>4, <1>16 DEF FrameOK, HandlerFrameOK, KnowPcs
  <2>3. HandlerOK(x) /\ fate[x] # "new"
    BY <1>1, <1>16, <2>2 DEF HandlersOK, HandlerOK, Fresh
  <2>4. \A d \in Contexts : x \in ToSet(list[d]) => d = c
    BY <1>1, <1>16, <2>2, <2>3, OneHome DEF HandlerOK, Listed
  <2>5. \A d \in Contexts : x \notin ToSet(list'[d])
    BY <1>7, <1>8, <1>16, <2>4
  <2>6. HandlerOK(x)'
    BY <1>5, <2>3, <2>5 DEF HandlerOK
  <2>7. ASSUME NEW u \in AllThreads, NEW j \in DOMAIN stack[u], u = t => j > 1,
               NEW f \in FrameSet, f = stack[u][j], f.x = x
        PROVE  HandlerFrameOK(f)'
    <3>1. HandlerFrameOK(f)
      BY <1>16, <2>7, FrameHolds DEF FrameOK
    <3>2. f.pc \notin AddPcs
      BY <2>2, <2>7, <3>1 DEF HandlerFrameOK, Fresh
    <3>3. CASE f.pc \in PoppedPcs
      <4>1. ~inList /\ hasPtr[x]
        BY <1>6, <2>7, <3>1, <3>3 DEF HandlerFrameOK
      <4>2. destroyed'[x]
        BY <1>1, <1>5, <1>16, <4>1 DEF Shapes, Nodes
      <4>3. QED
        BY <1>5, <2>5, <2>7, <3>1, <3>3, <4>2
           DEF HandlerFrameOK, PoppedPcs, AddPcs, KnowPcs, BelongsTo
    <3>4. CASE f.pc \notin PoppedPcs
      BY <1>5, <2>1, <2>7, <3>1, <3>2, <3>4, KnowsKeeps DEF HandlerFrameOK
    <3>5. QED
      BY <3>3, <3>4
  <2>8. QED
    BY <1>1, <1>10, <1>13, <1>14, <1>16, <2>1, <2>6, <2>7, ReturnKeeps
<1>17. CASE (inList \/ mine) /\ x \notin Handlers
  <2>1. Return(t) /\ \A y \in Handlers : Same(y)
    BY <1>5, <1>14, <1>17
  <2>2. QED
    BY <1>1, <1>10, <1>13, <2>1, ReturnFromOthers
<1>18. QED
  BY <1>15, <1>16, <1>17

-----------------------------------------------------------------------------
\* Insertion into a list.

\* One or two new frames, for a step that does something to the handlers X.
NoOtherOwner(t, k, g) ==
  \A y \in Handlers : Owns(g, y) =>
    \A u \in AllThreads : \A j \in DOMAIN stack[u] : Owns(stack[u][j], y) => u = t /\ j <= k

LEMMA OneFrame ==
  ASSUME HandlersInv, NEW t \in AllThreads, NEW k, NEW g \in FrameSet, Moves(t, k, <<g>>), Typed, NEW X,
         Touches(t, k, X),
         FrameOK(t, g)', NoOtherOwner(t, k, g), g.pc \notin {"handler", "inline"}
  PROVE  HandlersInv'
<1>1. PICK a : a = <<g>>
  OBVIOUS
<1>2. Moves(t, k, a) /\ Len(a) = 1 /\ a[1] = g
  BY <1>1, OneIs
<1>3. \A i \in 1..Len(a) : i = 1 /\ a[i] = g
  BY <1>2
<1>4. \A i \in 1..(Len(a) - 1) : FALSE
  BY <1>2
<1>5. \A i \in 1..Len(a) : FrameOK(t, a[i])'
  BY <1>3
<1>6. \A x \in Handlers : \A i, j \in 1..Len(a) : Owns(a[i], x) /\ Owns(a[j], x) => i = j
  BY <1>3
<1>7. \A x \in Handlers : \A i \in 1..Len(a) : Owns(a[i], x) =>
        \A u \in AllThreads : \A j \in DOMAIN stack[u] : Owns(stack[u][j], x) => u = t /\ j <= k
  BY <1>3 DEF NoOtherOwner
<1>8. Len(a) > 0 => a[Len(a)].pc \notin {"handler", "inline"}
  BY <1>2
<1>9. QED
  BY <1>2, <1>4, <1>5, <1>6, <1>7, <1>8, Keeps

LEMMA TwoFrames ==
  ASSUME HandlersInv, NEW t \in AllThreads, NEW k, NEW f \in FrameSet, NEW g \in FrameSet,
         Moves(t, k, <<f, g>>), Typed, NEW X,
         Touches(t, k, X),
         FrameOK(t, f)', FrameOK(t, g)', NoOtherOwner(t, k, g), \A x \in Handlers : ~Owns(f, x),
         g.pc \notin {"handler", "inline"}, f.pc # "inline",
         f.pc = "handler" => g.pc = "close.pop" /\ g.x = f.x
  PROVE  HandlersInv'
<1>1. PICK a : a = <<f, g>>
  OBVIOUS
<1>2. Moves(t, k, a) /\ Len(a) = 2 /\ a[1] = f /\ a[2] = g /\ DOMAIN a = 1..2
  BY <1>1, TwoIs
<1>3. \A i \in 1..Len(a) : (i = 1 /\ a[i] = f) \/ (i = 2 /\ a[i] = g)
  BY <1>2
<1>4. \A i \in 1..(Len(a) - 1) : NestedOK(a, i)
  <2>1. \A i \in 1..(Len(a) - 1) : i = 1 /\ i + 1 = 2
    BY <1>2
  <2>2. 1 + 1 \in DOMAIN a /\ 1 + 1 = 2
    BY <1>2
  <2>3. NestedOK(a, 1)
    BY <1>2, <2>2 DEF NestedOK
  <2>4. QED
    BY <2>1, <2>3
<1>5. \A i \in 1..Len(a) : FrameOK(t, a[i])'
  BY <1>3
<1>6. \A x \in Handlers : \A i, j \in 1..Len(a) : Owns(a[i], x) /\ Owns(a[j], x) => i = j
  BY <1>3
<1>7. \A x \in Handlers : \A i \in 1..Len(a) : Owns(a[i], x) =>
        \A u \in AllThreads : \A j \in DOMAIN stack[u] : Owns(stack[u][j], x) => u = t /\ j <= k
  BY <1>3 DEF NoOtherOwner
<1>8. Len(a) > 0 => a[Len(a)].pc \notin {"handler", "inline"}
  BY <1>2
<1>9. QED
  BY <1>2, <1>4, <1>5, <1>6, <1>7, <1>8, Keeps

\* The top frame of t keeps what it owned.
LEMMA OwnerStays ==
  ASSUME HandlersInv, NEW t \in AllThreads, stack[t] # <<>>, NEW g,
         \A y \in Handlers : Owns(g, y) => Owns(Top(t), y)
  PROVE  NoOtherOwner(t, 1, g)
<1>1. OneOwner /\ Top(t) = stack[t][1] /\ 1 \in DOMAIN stack[t]
  BY TopIs DEF HandlersInv
<1>2. ASSUME NEW y \in Handlers, Owns(g, y), NEW u \in AllThreads, NEW j \in DOMAIN stack[u],
             Owns(stack[u][j], y)
      PROVE  u = t /\ j <= 1
  BY <1>1, <1>2 DEF OneOwner
<1>3. QED
  BY <1>2 DEF NoOtherOwner

LEMMA InsertKeeps ==
  ASSUME HandlersInv, NEW t \in AllThreads,
         Insert(t, "add.insert", "unblock") \/ Insert(t, "start.insert", "start.fn")
  PROVE  HandlersInv'
<1>1. PICK p \in {"unblock", "start.fn"} :
        /\ stack[t] # <<>> /\ Top(t).pc = IF p = "unblock" THEN "add.insert" ELSE "start.insert"
        /\ Goto(t, p)
        /\ program' = program /\ flags' = flags /\ hasPtr' = hasPtr /\ destroyed' = destroyed
        /\ done' = done /\ gone' = gone /\ closer' = closer /\ queue' = queue
        /\ list' = [list EXCEPT ![Top(t).c] = <<Top(t).x>> \o @]
        /\ fate' = [fate EXCEPT ![Top(t).x] = "added"]
  BY DEF Insert, At, words, exec, clients
<1>2. Shapes /\ ClosersKnown /\ HandlersOK
  BY DEF HandlersInv
<1>3. PICK f : f = Top(t)
  OBVIOUS
<1>4. f \in FrameSet /\ FrameOK(t, f) /\ f.c \in Contexts /\ f.pc \in AddPcs
  BY <1>1, <1>3, TopIs DEF AddPcs
<1>5. f.x \in Nodes /\ (p = "start.fn" => f.x \in Handlers)
  BY <1>1, <1>3, <1>4 DEF FrameOK, StartPcs
<1>6. PICK g : g = [f EXCEPT !.pc = p]
  OBVIOUS
<1>7. p \in Pcs /\ g \in FrameSet /\ g.pc = p /\ g.c = f.c /\ g.x = f.x
  BY <1>4, <1>6, FrameIs DEF Pcs, KnowPcs
<1>8. Moves(t, 1, <<g>>)
  BY <1>1, <1>2, <1>3, <1>6, <1>7, GotoMoves
<1>9. PICK x : x = f.x
  OBVIOUS
<1>10. PICK c : c = f.c
  OBVIOUS
<1>11. PICK s : s = list[c]
  OBVIOUS
<1>12. s \in Seq(Nodes) /\ Once(s) /\ c \in Contexts
  BY <1>2, <1>4, <1>10, <1>11 DEF Shapes, HandlersOK
<1>13. PICK r : r = <<x>> \o s
  OBVIOUS
<1>14. /\ r \in Seq(Nodes) /\ Len(r) = Len(s) + 1 /\ Len(s) \in Nat
       /\ \A i \in 1..(Len(s) + 1) : r[i] = IF i <= 1 THEN x ELSE s[i - 1]
  <2>1. PICK b : b = <<x>>
    OBVIOUS
  <2>2. b \in Seq(Nodes) /\ Len(b) = 1 /\ b[1] = x
    BY <1>5, <1>9, <2>1, OneIs
  <2>3. /\ r = b \o s /\ b \o s \in Seq(Nodes) /\ Len(b \o s) = 1 + Len(s) /\ Len(s) \in Nat
        /\ \A i \in 1..(1 + Len(s)) : (b \o s)[i] = IF i <= 1 THEN b[i] ELSE s[i - 1]
    BY <1>12, <1>13, <2>1, <2>2, ConcatIs
  <2>4. QED
    BY <2>2, <2>3
<1>15. list' \in [Contexts -> Seq(Nodes)] /\ list'[c] = r /\ \A d \in Contexts : d # c => list'[d] = list[d]
  BY <1>1, <1>2, <1>3, <1>4, <1>9, <1>10, <1>11, <1>13, <1>14 DEF Shapes
<1>16. \A y : y \in ToSet(r) => y = x \/ y \in ToSet(s)
  <2> SUFFICES ASSUME NEW i \in DOMAIN r PROVE r[i] = x \/ r[i] \in ToSet(s)
    BY DEF ToSet
  <2>1. i \in 1..(Len(s) + 1) /\ (i <= 1 \/ i - 1 \in DOMAIN s)
    BY <1>12, <1>14
  <2>2. QED
    BY <1>14, <2>1 DEF ToSet
<1>17. fate' \in [Nodes -> Fates] /\ fate'[x] = "added" /\ \A y \in Nodes : y # x => fate'[y] = fate[y]
  BY <1>1, <1>2, <1>3, <1>5, <1>9 DEF Shapes, Fates
<1>18. Typed
  BY <1>1, <1>2, <1>15, <1>17 DEF Typed, Shapes, ClosersKnown
<1>19. \A y \in Handlers : y # x => Same(y)
  <2> SUFFICES ASSUME NEW y \in Handlers, y # x PROVE Same(y)
    OBVIOUS
  <2>1. \A d \in Contexts : y \in ToSet(list'[d]) => y \in ToSet(list[d])
    BY <1>11, <1>15, <1>16
  <2>2. QED
    BY <1>1, <1>17, <2>1 DEF Same, Nodes
<1>20. x \in Handlers =>
         /\ Fresh(x) /\ fate[x] = "adding" /\ BelongsTo(x, c) /\ Owns(Top(t), x)
  BY <1>3, <1>4, <1>9, <1>10 DEF FrameOK, HandlerFrameOK, Owns
<1>21. Once(r)
  <2> SUFFICES ASSUME NEW i \in DOMAIN r, NEW j \in DOMAIN r, r[i] = r[j], r[i] \in Handlers
               PROVE  i = j
    BY DEF Once
  <2>1. i \in 1..(Len(s) + 1) /\ j \in 1..(Len(s) + 1)
    BY <1>14
  <2>2. r[i] \in Handlers /\ x \in Handlers => x \notin ToSet(s)
    BY <1>11, <1>12, <1>20 DEF Fresh
  <2>3. CASE i = 1 \/ j = 1
    <3>1. r[1] = x
      BY <1>14
    <3>2. \A n \in 1..(Len(s) + 1) : n # 1 => r[n] \in ToSet(s)
      <4> SUFFICES ASSUME NEW n \in 1..(Len(s) + 1), n # 1 PROVE r[n] \in ToSet(s)
        OBVIOUS
      <4>1. n - 1 \in DOMAIN s /\ r[n] = s[n - 1]
        BY <1>12, <1>14
      <4>2. QED
        BY <4>1 DEF ToSet
    <3>3. QED
      BY <2>1, <2>2, <2>3, <3>1, <3>2
  <2>4. CASE i # 1 /\ j # 1
    <3>1. i - 1 \in DOMAIN s /\ j - 1 \in DOMAIN s /\ r[i] = s[i - 1] /\ r[j] = s[j - 1]
      BY <1>12, <1>14, <2>1, <2>4
    <3>2. i - 1 = j - 1
      BY <1>12, <3>1 DEF Once
    <3>3. QED
      BY <2>1, <3>2
  <2>5. QED
    BY <2>3, <2>4
<1>22. \A d \in Contexts : Once(list[d])'
  BY <1>2, <1>15, <1>21 DEF HandlersOK, Once
<1>23. PICK X : X = {x}
  OBVIOUS
<1>24. \A y \in Handlers \cap X : HandlerOK(y)'
  <2> SUFFICES ASSUME x \in Handlers PROVE HandlerOK(x)'
    BY <1>23
  <2>1. \A d \in Contexts : x \in ToSet(list'[d]) => d = c
    BY <1>15, <1>20 DEF Fresh
  <2>2. QED
    BY <1>1, <1>17, <1>20, <2>1 DEF HandlerOK, Listed, Fresh, BelongsTo
<1>25. ASSUME NEW u \in AllThreads, NEW j \in DOMAIN stack[u], u = t => j > 1,
              NEW h \in FrameSet, h = stack[u][j], h.x \in X \cap Handlers
       PROVE  HandlerFrameOK(h)'
  <2>1. h.x = x /\ x \in Handlers
    BY <1>23, <1>25
  <2>2. h.pc \notin AddPcs \cup PoppedPcs /\ HandlerFrameOK(h)
    BY <1>1, <1>20, <1>25, <2>1, OthersKnow
  <2>3. QED
    BY <1>1, <1>17, <2>1, <2>2, KnowsKeeps
<1>26. FrameOK(t, g)'
  <2>1. g.x \in Handlers => HandlerFrameOK(g)'
    BY <1>1, <1>7, <1>9, <1>10, <1>17, <1>20
       DEF HandlerFrameOK, AddPcs, PoppedPcs, KnowPcs, BelongsTo
  <2>2. QED
    BY <1>5, <1>7, <2>1 DEF FrameOK, ClosingPcs, ChildPcs, AddPcs, StartPcs
<1>27. NoOtherOwner(t, 1, g)
  BY <1>7 DEF NoOtherOwner, Owns, AddPcs, PoppedPcs
<1>28. \A y \in Handlers \ X : Same(y)
  BY <1>19, <1>23
<1>29. g.pc \notin {"handler", "inline"}
  BY <1>7
<1>30. Touches(t, 1, X)
  BY <1>22, <1>24, <1>25, <1>28 DEF Touches
<1>31. QED
  BY <1>7, <1>8, <1>18, <1>26, <1>27, <1>29, <1>30, OneFrame

-----------------------------------------------------------------------------
\* Steps that do something to a handler and call.

LEMMA StartThrowsKeeps ==
  ASSUME HandlersInv, NEW t \in AllThreads, StartThrows(t)
  PROVE  HandlersInv'
<1>1. /\ stack[t] # <<>> /\ Top(t).pc = "start.fn" /\ gone[Top(t).x] = "no"
      /\ program' = program /\ flags' = flags /\ list' = list /\ hasPtr' = hasPtr
      /\ destroyed' = destroyed /\ done' = done /\ fate' = fate /\ closer' = closer /\ queue' = queue
      /\ gone' = [gone EXCEPT ![Top(t).x] = "asked"]
      /\ Enter(t, "unblock", Frame("remove", Top(t).c, Top(t).x, FALSE))
  BY DEF StartThrows, At, words, nodes, exec, clients
<1>2. Shapes /\ ClosersKnown /\ HandlersOK
  BY DEF HandlersInv
<1>3. PICK f : f = Top(t)
  OBVIOUS
<1>4. f \in FrameSet /\ FrameOK(t, f) /\ f.c \in Contexts /\ f.x \in Arguments /\ f.pc = "start.fn"
  BY <1>1, <1>3, TopIs
<1>5. PICK x : x = f.x
  OBVIOUS
<1>6. x \in Handlers /\ fate[x] \notin {"new", "adding"} /\ BelongsTo(x, f.c)
  BY <1>4, <1>5 DEF FrameOK, HandlerFrameOK, StartPcs, KnowPcs
<1>7. /\ gone' \in [Handlers -> {"no", "asked", "yes"}] /\ gone'[x] = "asked"
      /\ \A y \in Handlers : y # x => gone'[y] = gone[y]
  BY <1>1, <1>2, <1>3, <1>5, <1>6 DEF Shapes
<1>8. Typed
  BY <1>1, <1>2, <1>7 DEF Typed, Shapes, ClosersKnown
<1>9. PICK h : h = Frame("remove", f.c, f.x, FALSE)
  OBVIOUS
<1>10. h \in FrameSet /\ h.pc = "remove" /\ h.c = f.c /\ h.x = x
  BY <1>4, <1>5, <1>9 DEF Frame, FrameSet, Pcs, KnowPcs
<1>11. PICK g : g = [f EXCEPT !.pc = "unblock"]
  OBVIOUS
<1>12. g \in FrameSet /\ g.pc = "unblock" /\ g.x = x /\ "unblock" \in Pcs
  BY <1>4, <1>5, <1>11, FrameIs DEF Pcs
<1>13. Moves(t, 1, <<h, g>>)
  BY <1>1, <1>3, <1>9, <1>10, <1>11, <1>12, EnterMoves
<1>14. PICK X : X = {x}
  OBVIOUS
<1>15. \A y \in Handlers \ X : Same(y)
  BY <1>1, <1>7, <1>14 DEF Same
<1>16. \A y \in Handlers \cap X : HandlerOK(y)'
  <2>1. HandlerOK(x)
    BY <1>2, <1>6 DEF HandlersOK
  <2>2. HandlerOK(x)'
    BY <1>1, <1>6, <1>7, <2>1 DEF HandlerOK, Listed, BelongsTo
  <2>3. QED
    BY <1>14, <2>2
<1>17. \A c \in Contexts : Once(list[c])'
  BY <1>1, <1>2 DEF HandlersOK, Once
<1>18. ASSUME NEW u \in AllThreads, NEW j \in DOMAIN stack[u], u = t => j > 1,
              NEW e \in FrameSet, e = stack[u][j], e.x \in X \cap Handlers
       PROVE  HandlerFrameOK(e)'
  <2>1. e.x = x /\ HandlerFrameOK(e)
    BY <1>14, <1>18, FrameHolds DEF FrameOK
  <2>2. e.pc \notin AddPcs
    BY <1>6, <2>1 DEF HandlerFrameOK
  <2>3. QED
    BY <1>1, <1>6, <1>7, <2>1, <2>2 DEF HandlerFrameOK, BelongsTo
<1>19. FrameOK(t, h)'
  <2>1. HandlerFrameOK(h)'
    BY <1>1, <1>6, <1>7, <1>10 DEF HandlerFrameOK, AddPcs, PoppedPcs, KnowPcs, BelongsTo
  <2>2. QED
    BY <1>10, <2>1 DEF FrameOK, ClosingPcs, ChildPcs, AddPcs, StartPcs
<1>20. FrameOK(t, g)' /\ \A y \in Handlers : ~Owns(g, y) /\ ~Owns(h, y)
  BY <1>10, <1>12 DEF FrameOK, HandlerFrameOK, Owns, ClosingPcs, ChildPcs, AddPcs, StartPcs, PoppedPcs,
                      KnowPcs
<1>21. NoOtherOwner(t, 1, g)
  BY <1>20 DEF NoOtherOwner
<1>22. g.pc \notin {"handler", "inline"} /\ h.pc # "inline"
       /\ (h.pc = "handler" => g.pc = "close.pop" /\ g.x = h.x)
  BY <1>10, <1>12
<1>23. FrameOK(t, g)' /\ \A y \in Handlers : ~Owns(h, y)
  BY <1>20
<1>24. h \in FrameSet /\ g \in FrameSet
  BY <1>10, <1>12
<1>25. Touches(t, 1, X)
  BY <1>15, <1>16, <1>17, <1>18 DEF Touches
<1>26. QED
  BY <1>8, <1>13, <1>19, <1>21, <1>22, <1>23, <1>24, <1>25, TwoFrames

LEMMA CallHandlerKeeps ==
  ASSUME HandlersInv, NEW t \in AllThreads, CallHandler(t)
  PROVE  HandlersInv'
<1>1. PICK h : /\ stack[t] # <<>> /\ Top(t).pc = "close.call"
               /\ program' = program /\ flags' = flags /\ list' = list /\ hasPtr' = hasPtr
               /\ destroyed' = destroyed /\ done' = done /\ gone' = gone /\ closer' = closer
               /\ queue' = queue
               /\ fate' = [fate EXCEPT ![Top(t).x] = IF @ = "called" THEN "called twice" ELSE "called"]
               /\ h = IF Top(t).x \in Contexts THEN Frame("child.anchor", Top(t).x, None, FALSE)
                                               ELSE Frame("handler", Top(t).c, Top(t).x, FALSE)
               /\ Enter(t, "close.pop", h)
  BY DEF CallHandler, At, words, nodes, exec, clients
<1>2. Shapes /\ ClosersKnown /\ HandlersOK
  BY DEF HandlersInv
<1>3. PICK f : f = Top(t)
  OBVIOUS
<1>4. f \in FrameSet /\ FrameOK(t, f) /\ f.c \in Contexts /\ f.x \in Arguments /\ f.pc = "close.call"
  BY <1>1, <1>3, TopIs
<1>5. PICK x : x = f.x
  OBVIOUS
<1>6. x \in Handlers => HandlerFrameOK(f) /\ Owns(Top(t), x)
  BY <1>3, <1>4, <1>5 DEF FrameOK, Owns, PoppedPcs
<1>7. /\ fate' \in [Nodes -> Fates] /\ (x \in Handlers => fate'[x] \in {"called", "called twice"})
      /\ \A y \in Handlers : y # x => fate'[y] = fate[y]
  BY <1>1, <1>2, <1>3, <1>5 DEF Shapes, Fates, Nodes
<1>8. Typed
  BY <1>1, <1>2, <1>7 DEF Typed, Shapes, ClosersKnown
<1>9. /\ h \in FrameSet /\ h.pc \in {"child.anchor", "handler"}
      /\ h.pc = "handler" => h.x = x
  <2>1. CASE x \in Contexts
    <3>1. h = Frame("child.anchor", x, None, FALSE)
      BY <1>1, <1>3, <1>5, <2>1
    <3>2. QED
      BY <2>1, <3>1 DEF Frame, FrameSet, Pcs, Arguments
  <2>2. CASE x \notin Contexts
    <3>1. h = Frame("handler", f.c, x, FALSE)
      BY <1>1, <1>3, <1>5, <2>2
    <3>2. QED
      BY <1>4, <1>5, <3>1 DEF Frame, FrameSet, Pcs
  <2>3. QED
    BY <2>1, <2>2
<1>10. PICK g : g = [f EXCEPT !.pc = "close.pop"]
  OBVIOUS
<1>11. g \in FrameSet /\ g.pc = "close.pop" /\ g.x = x /\ g.c = f.c /\ "close.pop" \in Pcs
  BY <1>4, <1>5, <1>10, FrameIs DEF Pcs, ClosingPcs
<1>12. Moves(t, 1, <<h, g>>)
  BY <1>1, <1>3, <1>9, <1>10, <1>11, EnterMoves
<1>13. PICK X : X = {x}
  OBVIOUS
<1>14. \A y \in Handlers \ X : Same(y)
  BY <1>1, <1>7, <1>13 DEF Same
<1>15. \A y \in Handlers \cap X : HandlerOK(y)'
  <2> SUFFICES ASSUME x \in Handlers PROVE HandlerOK(x)'
    BY <1>13
  <2>1. QED
    BY <1>1, <1>4, <1>5, <1>6, <1>7 DEF HandlerOK, Listed, HandlerFrameOK, PoppedPcs
<1>16. \A c \in Contexts : Once(list[c])'
  BY <1>1, <1>2 DEF HandlersOK, Once
<1>17. ASSUME NEW u \in AllThreads, NEW j \in DOMAIN stack[u], u = t => j > 1,
              NEW e \in FrameSet, e = stack[u][j], e.x \in X \cap Handlers
       PROVE  HandlerFrameOK(e)'
  <2>1. e.x = x /\ x \in Handlers
    BY <1>13, <1>17
  <2>2. e.pc \notin AddPcs \cup PoppedPcs /\ HandlerFrameOK(e)
    BY <1>1, <1>6, <1>17, <2>1, OthersKnow
  <2>3. QED
    BY <1>1, <1>7, <2>1, <2>2, KnowsKeeps
<1>18. FrameOK(t, g)'
  <2>1. x \in Handlers => HandlerFrameOK(g)'
    BY <1>1, <1>4, <1>5, <1>6, <1>7, <1>11
       DEF HandlerFrameOK, AddPcs, PoppedPcs, KnowPcs, BelongsTo
  <2>2. closer'[g.c] = t
    BY <1>1, <1>4, <1>11 DEF FrameOK, ClosingPcs
  <2>3. QED
    BY <1>11, <2>1, <2>2 DEF FrameOK, ChildPcs, AddPcs, StartPcs
<1>19. FrameOK(t, h)' /\ \A y \in Handlers : ~Owns(h, y)
  BY <1>9 DEF FrameOK, HandlerFrameOK, Owns, ClosingPcs, ChildPcs, AddPcs, StartPcs, PoppedPcs,
              KnowPcs
<1>20. NoOtherOwner(t, 1, g)
  <2>1. \A y \in Handlers : Owns(g, y) => Owns(Top(t), y)
    BY <1>6, <1>11 DEF Owns
  <2>2. QED
    BY <1>1, <2>1, OwnerStays
<1>21. g.pc \notin {"handler", "inline"} /\ h.pc # "inline"
       /\ (h.pc = "handler" => g.pc = "close.pop" /\ g.x = h.x)
  BY <1>9, <1>11
<1>22. Touches(t, 1, X)
  BY <1>14, <1>15, <1>16, <1>17 DEF Touches
<1>23. QED
  BY <1>8, <1>9, <1>11, <1>12, <1>18, <1>19, <1>20, <1>21, <1>22, TwoFrames

LEMMA CloseChildKeeps ==
  ASSUME HandlersInv, NEW t \in AllThreads, CloseChild(t)
  PROVE  HandlersInv'
<1>1. /\ stack[t] # <<>> /\ Top(t).pc = "child.done"
      /\ program' = program /\ flags' = flags /\ list' = list /\ hasPtr' = hasPtr
      /\ fate' = fate /\ gone' = gone /\ closer' = closer /\ queue' = queue
      /\ destroyed' = [destroyed EXCEPT ![Top(t).c] = TRUE]
      /\ done' = [done EXCEPT ![Top(t).c] = TRUE]
      /\ Enter(t, "child.release", Frame("close", Top(t).c, None, FALSE))
  BY DEF CloseChild, At, words, exec, history, clients
<1>2. Shapes /\ ClosersKnown /\ Top(t).c \in Contexts
  BY <1>1, TopIs DEF HandlersInv
<1>3. /\ destroyed' \in [Nodes -> BOOLEAN] /\ done' \in [Nodes -> BOOLEAN]
      /\ \A y \in Handlers : destroyed'[y] = destroyed[y] /\ done'[y] = done[y]
  BY <1>1, <1>2, TreeAssumption DEF Shapes, Nodes
<1>4. Quiet
  <2>1. \A y \in Handlers : Same(y)
    BY <1>1, <1>3 DEF Same
  <2>2. Typed
    BY <1>1, <1>2, <1>3 DEF Typed, Shapes, ClosersKnown
  <2>3. QED
    BY <1>1, <2>1, <2>2 DEF Quiet
<1>5. PICK f : f = Frame("close", Top(t).c, None, FALSE)
  OBVIOUS
<1>6. f \in FrameSet /\ f.pc = "close"
  BY <1>2, <1>5 DEF Frame, FrameSet, Pcs, Arguments
<1>7. Harmless(t, f) /\ Onward(Top(t).pc, "child.release")
  BY <1>1, <1>6 DEF Harmless, Onward, PoppedPcs, AddPcs, ChildPcs, ClosingPcs, Pcs, KnowPcs, StartPcs
<1>8. QED
  BY <1>1, <1>4, <1>5, <1>7, QuietEnter

-----------------------------------------------------------------------------
\* The loop of callCloseHandlers.

LEMMA PopHandlerKeeps ==
  ASSUME HandlersInv, NEW t \in AllThreads, PopHandler(t)
  PROVE  HandlersInv'
<1>1. stack[t] # <<>> /\ Top(t).pc = "close.pop" /\ Shapes /\ ClosersKnown /\ HandlersOK
  BY DEF PopHandler, At, HandlersInv
<1>2. PICK f : f = Top(t)
  OBVIOUS
<1>3. /\ f \in FrameSet /\ FrameOK(t, f) /\ f.c \in Contexts /\ f.x \in Arguments
      /\ f.pc = "close.pop" /\ f = stack[t][1] /\ 1 \in DOMAIN stack[t]
      /\ Len(stack[t]) >= 1 /\ Len(stack[t]) \in Nat
  BY <1>1, <1>2, TopIs
<1>4. PICK c : c = f.c
  OBVIOUS
<1>5. PICK last : last = f.x
  OBVIOUS
<1>6. PICK s : s = list[c]
  OBVIOUS
<1>7. s \in Seq(Nodes) /\ Once(s) /\ c \in Contexts
  BY <1>1, <1>3, <1>4, <1>6 DEF Shapes, HandlersOK
<1>8. PICK next : next = IF s = <<>> THEN None ELSE Head(s)
  OBVIOUS
<1>9. PICK touch \in BOOLEAN : touch = (last # None /\ ~destroyed[last])
  OBVIOUS
<1>10. PICK ptrs : ptrs = IF touch THEN [hasPtr EXCEPT ![last] = FALSE] ELSE hasPtr
  OBVIOUS
<1>11. PICK q : q = IF next = None THEN "close.parent" ELSE "close.call"
  OBVIOUS
<1>12. /\ program' = program /\ flags' = flags /\ fate' = fate /\ gone' = gone /\ closer' = closer
       /\ queue' = queue
       /\ done' = IF touch THEN [done EXCEPT ![last] = TRUE] ELSE done
       /\ IF next = None
          THEN hasPtr' = ptrs /\ list' = list /\ destroyed' = destroyed
          ELSE /\ hasPtr' = [ptrs EXCEPT ![next] = TRUE]
               /\ destroyed' = [destroyed EXCEPT ![next] = FALSE]
               /\ list' = [list EXCEPT ![c] = Tail(@)]
       /\ stack' = [stack EXCEPT ![t][1].x = next, ![t][1].pc = q]
  BY <1>2, <1>4, <1>5, <1>6, <1>8, <1>9, <1>10, <1>11 DEF PopHandler, words, exec, history, clients
\* The next handler is the first of the list, and is then in none.
<1>13. IF s = <<>> THEN next = None ELSE next \in Nodes /\ next # None /\ next = s[1] /\ 1 \in DOMAIN s
  BY <1>7, <1>8, TailIs, TreeAssumption DEF Nodes
<1>14. PICK r : r = IF s = <<>> THEN s ELSE Tail(s)
  OBVIOUS
<1>15. /\ r \in Seq(Nodes) /\ (s # <<>> => Len(r) = Len(s) - 1) /\ Len(s) \in Nat
       /\ s # <<>> => \A i \in 1..(Len(s) - 1) : r[i] = s[i + 1]
  <2>1. CASE s = <<>>
    BY <1>7, <1>14, <2>1
  <2>2. CASE s # <<>>
    BY <1>7, <1>14, <2>2, TailIs
  <2>3. QED
    BY <2>1, <2>2
<1>16. list' \in [Contexts -> Seq(Nodes)] /\ list'[c] = r /\ \A d \in Contexts : d # c => list'[d] = list[d]
  <2>1. CASE s = <<>>
    BY <1>1, <1>6, <1>12, <1>13, <1>14, <2>1 DEF Shapes
  <2>2. CASE s # <<>>
    <3>1. list' = [list EXCEPT ![c] = r]
      BY <1>6, <1>12, <1>13, <1>14, <2>2
    <3>2. QED
      BY <1>1, <1>7, <1>15, <3>1 DEF Shapes
  <2>3. QED
    BY <2>1, <2>2
<1>17. /\ Once(r) /\ \A y : y \in ToSet(r) => y \in ToSet(s)
       /\ next \in Handlers => next \notin ToSet(r)
  <2>1. CASE s = <<>>
    BY <1>7, <1>13, <1>14, <2>1, TreeAssumption DEF Nodes
  <2>2. CASE s # <<>>
    <3>1. \A i \in DOMAIN r : i \in Nat /\ i + 1 \in DOMAIN s /\ i + 1 # 1 /\ r[i] = s[i + 1]
      <4> SUFFICES ASSUME NEW i \in DOMAIN r
                   PROVE  i \in Nat /\ i + 1 \in DOMAIN s /\ i + 1 # 1 /\ r[i] = s[i + 1]
        OBVIOUS
      <4>1. i \in 1..(Len(s) - 1)
        BY <1>15, <2>2
      <4>2. QED
        BY <1>7, <1>15, <2>2, <4>1
    <3>2. ASSUME NEW i \in DOMAIN r, NEW j \in DOMAIN r, r[i] = r[j], r[i] \in Handlers PROVE i = j
      <4>1. i + 1 = j + 1
        BY <1>7, <3>1, <3>2 DEF Once
      <4>2. QED
        BY <3>1, <4>1
    <3>3. ASSUME next \in Handlers, NEW i \in DOMAIN r, r[i] = next PROVE FALSE
      BY <1>7, <1>13, <2>2, <3>1, <3>3 DEF Once
    <3>4. QED
      BY <3>1, <3>2, <3>3 DEF Once, ToSet
  <2>3. QED
    BY <2>1, <2>2
<1>18. \A d \in Contexts : Once(list[d])'
  BY <1>1, <1>16, <1>17 DEF HandlersOK, Once
<1>19. \A d \in Contexts : \A y : y \in ToSet(list'[d]) => y \in ToSet(list[d])
  BY <1>6, <1>16, <1>17
\* The handler that was called: only this frame owns it, and it is in no list.
<1>20. last \in Handlers =>
         /\ \A d \in Contexts : last \notin ToSet(list[d])
         /\ fate[last] \notin {"new", "adding"} /\ Owns(Top(t), last)
  BY <1>2, <1>3, <1>5 DEF FrameOK, HandlerFrameOK, PoppedPcs, Owns
<1>21. next \in Handlers => Listed(next, c) /\ next \in ToSet(list[c]) /\ s # <<>>
  <2> SUFFICES ASSUME next \in Handlers
               PROVE  Listed(next, c) /\ next \in ToSet(list[c]) /\ s # <<>>
    OBVIOUS
  <2>1. s # <<>> /\ next = s[1] /\ 1 \in DOMAIN s
    BY <1>13, TreeAssumption
  <2>2. next \in ToSet(list[c])
    BY <1>6, <2>1 DEF ToSet
  <2>3. QED
    BY <1>1, <1>7, <2>1, <2>2 DEF HandlersOK, HandlerOK
<1>22. next \in Handlers => next # last
  BY <1>7, <1>20, <1>21
<1>23. next \in Handlers => \A d \in Contexts : next \notin ToSet(list'[d])
  <2> SUFFICES ASSUME next \in Handlers, NEW d \in Contexts PROVE next \notin ToSet(list'[d])
    OBVIOUS
  <2>1. CASE d = c
    BY <1>16, <1>17, <2>1
  <2>2. CASE d # c
    <3>1. next \in ToSet(list[d]) => Listed(next, d)
      BY <1>1 DEF HandlersOK, HandlerOK
    <3>2. QED
      BY <1>1, <1>16, <1>21, <2>2, <3>1, OneHome DEF Listed
  <2>3. QED
    BY <2>1, <2>2
<1>24. ptrs \in [Nodes -> BOOLEAN] /\ \A y \in Nodes : y # last => ptrs[y] = hasPtr[y]
  BY <1>1, <1>10 DEF Shapes
<1>25. /\ hasPtr' \in [Nodes -> BOOLEAN] /\ destroyed' \in [Nodes -> BOOLEAN] /\ done' \in [Nodes -> BOOLEAN]
       /\ \A y \in Nodes : y # last /\ y # next =>
            hasPtr'[y] = hasPtr[y] /\ destroyed'[y] = destroyed[y] /\ done'[y] = done[y]
       /\ next \in Handlers => hasPtr'[next] /\ ~destroyed'[next] /\ done'[next] = done[next]
  <2>1. done' \in [Nodes -> BOOLEAN] /\ \A y \in Nodes : y # last => done'[y] = done[y]
    BY <1>1, <1>12 DEF Shapes
  <2>2. hasPtr' \in [Nodes -> BOOLEAN] /\ \A y \in Nodes : y # last /\ y # next => hasPtr'[y] = hasPtr[y]
    BY <1>12, <1>24
  <2>3. destroyed' \in [Nodes -> BOOLEAN] /\ \A y \in Nodes : y # next => destroyed'[y] = destroyed[y]
    BY <1>1, <1>12 DEF Shapes
  <2>4. next \in Handlers => hasPtr'[next] /\ ~destroyed'[next] /\ done'[next] = done[next]
    <3> SUFFICES ASSUME next \in Handlers
                 PROVE  hasPtr'[next] /\ ~destroyed'[next] /\ done'[next] = done[next]
      OBVIOUS
    <3>1. next \in Nodes /\ next # None /\ next # last
      BY <1>13, <1>21, <1>22
    <3>2. hasPtr'[next] /\ ~destroyed'[next]
      BY <1>1, <1>12, <1>24, <3>1 DEF Shapes
    <3>3. QED
      BY <2>1, <3>1, <3>2
  <2>5. QED
    BY <2>1, <2>2, <2>3, <2>4
<1>26. Typed
  BY <1>1, <1>12, <1>16, <1>25 DEF Typed, Shapes, ClosersKnown
<1>27. PICK X : X = {last, next}
  OBVIOUS
<1>28. \A y \in Handlers \ X : Same(y)
  BY <1>12, <1>19, <1>25, <1>27 DEF Same, Nodes
<1>29. \A y \in Handlers \cap X : HandlerOK(y)'
  <2>1. last \in Handlers => HandlerOK(last)'
    BY <1>12, <1>19, <1>20 DEF HandlerOK
  <2>2. next \in Handlers => HandlerOK(next)'
    BY <1>12, <1>21, <1>23 DEF HandlerOK, Listed
  <2>3. QED
    BY <1>27, <2>1, <2>2
<1>30. ASSUME NEW u \in AllThreads, NEW j \in DOMAIN stack[u], u = t => j > 1,
              NEW e \in FrameSet, e = stack[u][j], e.x \in X \cap Handlers
       PROVE  HandlerFrameOK(e)'
  <2>1. e.pc \notin AddPcs \cup PoppedPcs /\ HandlerFrameOK(e)
    <3>1. CASE e.x = last
      BY <1>1, <1>20, <1>30, <3>1, OthersKnow
    <3>2. CASE e.x = next
      <4>1. HandlerFrameOK(e)
        BY <1>30, FrameHolds DEF FrameOK
      <4>2. QED
        BY <1>7, <1>21, <1>30, <3>2, <4>1 DEF HandlerFrameOK, Fresh
    <3>3. QED
      BY <1>27, <1>30, <3>1, <3>2
  <2>2. e.pc = "start.fn" => fate'[e.x] \notin {"new", "adding"}
    BY <1>12, <2>1 DEF HandlerFrameOK
  <2>3. QED
    BY <1>12, <2>1, <2>2, KnowsKeeps
<1>31. PICK g : g = [f EXCEPT !.x = next, !.pc = q]
  OBVIOUS
<1>32. g \in FrameSet /\ g.pc = q /\ g.x = next /\ g.c = c
  <2>1. next \in Arguments
    BY <1>13 DEF Arguments
  <2>2. q \in Pcs
    BY <1>11 DEF Pcs, ClosingPcs
  <2>3. QED
    BY <1>3, <1>4, <1>31, <2>1, <2>2 DEF FrameSet
<1>33. Moves(t, 1, <<g>>)
  <2>1. stack[t] \in Seq(FrameSet) /\ stack \in [AllThreads -> Seq(FrameSet)]
    BY <1>1 DEF Shapes
  <2>2. stack' = [stack EXCEPT ![t] = <<g>> \o Tail(stack[t])]
    <3>1. stack' = [stack EXCEPT ![t] = [stack[t] EXCEPT ![1] = g]]
      BY <1>3, <1>12, <1>31, <2>1
    <3>2. [stack[t] EXCEPT ![1] = g] = <<g>> \o Tail(stack[t])
      BY <1>3, <1>32, <2>1, HeadSet
    <3>3. QED
      BY <3>1, <3>2
  <2>3. Tail(stack[t]) = IF 1 = 0 THEN stack[t] ELSE IF 1 = 1 THEN Tail(stack[t])
                         ELSE Tail(Tail(stack[t]))
    OBVIOUS
  <2>4. stack' = [stack EXCEPT ![t] = <<g>> \o (IF 1 = 0 THEN stack[t] ELSE IF 1 = 1 THEN Tail(stack[t])
                                                 ELSE Tail(Tail(stack[t])))]
    BY <2>2, <2>3
  <2>5. <<g>> \in Seq(FrameSet)
    BY <1>32, OneIs
  <2>6. QED
    BY <1>1, <1>3, <2>4, <2>5, StackMoves
<1>34. FrameOK(t, g)'
  <2>1. next \in Handlers => HandlerFrameOK(g)'
    <3> SUFFICES ASSUME next \in Handlers PROVE HandlerFrameOK(g)'
      OBVIOUS
    <3>1. g.pc = "close.call"
      BY <1>11, <1>32, TreeAssumption
    <3>2. BelongsTo(next, c) /\ fate[next] \notin {"new", "adding"} /\ gone[next] # "yes" /\ ~done[next]
      BY <1>21 DEF Listed
    <3>3. QED
      BY <1>12, <1>23, <1>25, <1>32, <3>1, <3>2
         DEF HandlerFrameOK, AddPcs, PoppedPcs, KnowPcs, BelongsTo
  <2>2. closer'[g.c] = t
    BY <1>3, <1>4, <1>12, <1>32 DEF FrameOK, ClosingPcs
  <2>3. QED
    BY <1>11, <1>32, <2>1, <2>2 DEF FrameOK, ChildPcs, AddPcs, StartPcs
<1>35. NoOtherOwner(t, 1, g)
  <2> SUFFICES ASSUME NEW y \in Handlers, Owns(g, y), NEW u \in AllThreads, NEW j \in DOMAIN stack[u],
                      Owns(stack[u][j], y)
               PROVE  FALSE
    BY DEF NoOtherOwner
  <2>1. y = next
    BY <1>32 DEF Owns
  <2>2. HandlerFrameOK(stack[u][j])
    BY FrameHolds DEF Owns, FrameOK
  <2>3. QED
    BY <1>7, <1>21, <2>1, <2>2 DEF Owns, HandlerFrameOK, Fresh
<1>36. g.pc \notin {"handler", "inline"}
  BY <1>11, <1>32
<1>37. Touches(t, 1, X)
  BY <1>18, <1>28, <1>29, <1>30 DEF Touches
<1>38. QED
  BY <1>26, <1>32, <1>33, <1>34, <1>35, <1>36, <1>37, OneFrame

-----------------------------------------------------------------------------
\* Client code, and the theorems.

\* A call by client code about the handler x, and one about none.
LEMMA IssueAddKeeps ==
  ASSUME HandlersInv, NEW t \in AllThreads, NEW k \in Calls[program], k.op \in {"add", "start"}, Issue(t, k)
  PROVE  HandlersInv'
<1>1. Shapes /\ ClosersKnown /\ HandlersOK
  BY DEF HandlersInv
<1>2. k.ctx \in Contexts /\ k.arg \in Handlers
  BY <1>1, ProgramsAssumption DEF Shapes
<1>3. PICK x : x = k.arg
  OBVIOUS
<1>4. PICK g : g = Frame(k.op, k.ctx, x, TRUE)
  OBVIOUS
<1>5. g \in FrameSet /\ g.pc = k.op /\ g.c = k.ctx /\ g.x = x
  <2>1. k.op \in Pcs /\ x \in Arguments
    BY <1>2, <1>3 DEF Pcs, AddPcs, Arguments, Nodes
  <2>2. QED
    BY <1>2, <1>4, <2>1 DEF Frame, FrameSet
<1>6. /\ program' = program /\ flags' = flags /\ list' = list /\ hasPtr' = hasPtr
      /\ destroyed' = destroyed /\ done' = done /\ closer' = closer /\ queue' = queue /\ gone' = gone
      /\ fate' = [fate EXCEPT ![x] = "adding"] /\ fate[x] = "new"
      /\ stack' = [stack EXCEPT ![t] = <<g>> \o stack[t]]
  <2>1. stack' = [stack EXCEPT ![t] = <<g>> \o @]
    BY <1>3, <1>4 DEF Issue
  <2>2. stack \in [AllThreads -> Seq(FrameSet)]
    BY <1>1 DEF Shapes
  <2>3. QED
    BY <1>3, <2>1, <2>2 DEF Issue, Permitted, nodes, exec
<1>7. x \in Handlers /\ Fresh(x)
  BY <1>1, <1>2, <1>3, <1>6 DEF HandlersOK, HandlerOK
<1>8. fate' \in [Nodes -> Fates] /\ fate'[x] = "adding" /\ \A y \in Handlers : y # x => fate'[y] = fate[y]
  BY <1>1, <1>6, <1>7 DEF Shapes, Fates, Nodes
<1>9. Typed
  BY <1>1, <1>6, <1>8 DEF Typed, Shapes, ClosersKnown
<1>10. Moves(t, 0, <<g>>)
  BY <1>5, <1>6, OneIs, PushMoves
<1>11. PICK X : X = {x}
  OBVIOUS
<1>12. \A y \in Handlers \ X : Same(y)
  BY <1>6, <1>8, <1>11 DEF Same
<1>13. \A y \in Handlers \cap X : HandlerOK(y)'
  BY <1>6, <1>7, <1>8, <1>11 DEF HandlerOK, Fresh
<1>14. \A c \in Contexts : Once(list[c])'
  BY <1>1, <1>6 DEF HandlersOK, Once
\* No call knows the handler yet.
<1>15. ASSUME NEW u \in AllThreads, NEW j \in DOMAIN stack[u], stack[u][j].x = x
       PROVE  stack[u][j].pc \notin AddPcs \cup PoppedPcs \cup KnowPcs
  <2>1. HandlerFrameOK(stack[u][j])
    BY <1>7, <1>15, FrameHolds DEF FrameOK
  <2>2. QED
    BY <1>6, <1>7, <1>15, <2>1 DEF HandlerFrameOK, Fresh, KnowPcs
<1>16. ASSUME NEW u \in AllThreads, NEW j \in DOMAIN stack[u], u = t => j > 0,
              NEW e \in FrameSet, e = stack[u][j], e.x \in X \cap Handlers
       PROVE  HandlerFrameOK(e)'
  BY <1>11, <1>15, <1>16 DEF HandlerFrameOK, KnowPcs
<1>17. FrameOK(t, g)'
  <2>1. BelongsTo(x, g.c)
    BY <1>3, <1>5 DEF BelongsTo
  <2>2. HandlerFrameOK(g)'
    BY <1>5, <1>6, <1>7, <1>8, <2>1 DEF HandlerFrameOK, AddPcs, PoppedPcs, KnowPcs, BelongsTo, Fresh
  <2>3. QED
    BY <1>5, <1>7, <2>2 DEF FrameOK, ClosingPcs, ChildPcs, Nodes
<1>18. NoOtherOwner(t, 0, g)
  BY <1>5, <1>15 DEF NoOtherOwner, Owns
<1>19. g.pc \notin {"handler", "inline"}
  BY <1>5
<1>20. Touches(t, 0, X)
  BY <1>12, <1>13, <1>14, <1>16 DEF Touches
<1>21. QED
  BY <1>5, <1>9, <1>10, <1>17, <1>18, <1>19, <1>20, OneFrame

LEMMA IssueRemoveKeeps ==
  ASSUME HandlersInv, NEW t \in AllThreads, NEW k \in Calls[program], k.op = "remove", Issue(t, k)
  PROVE  HandlersInv'
<1>1. Shapes /\ ClosersKnown /\ HandlersOK
  BY DEF HandlersInv
<1>2. k.ctx \in Contexts /\ k.arg \in Handlers
  BY <1>1, ProgramsAssumption DEF Shapes
<1>3. PICK x : x = k.arg
  OBVIOUS
<1>4. PICK g : g = Frame("remove", k.ctx, x, TRUE)
  OBVIOUS
<1>5. g \in FrameSet /\ g.pc = "remove" /\ g.c = k.ctx /\ g.x = x
  <2>1. "remove" \in Pcs /\ x \in Arguments
    BY <1>2, <1>3 DEF Pcs, KnowPcs, Arguments, Nodes
  <2>2. QED
    BY <1>2, <1>4, <2>1 DEF Frame, FrameSet
<1>6. /\ program' = program /\ flags' = flags /\ list' = list /\ hasPtr' = hasPtr
      /\ destroyed' = destroyed /\ done' = done /\ closer' = closer /\ queue' = queue /\ fate' = fate
      /\ gone' = [gone EXCEPT ![x] = "asked"] /\ fate[x] \in {"added", "called"}
      /\ stack' = [stack EXCEPT ![t] = <<g>> \o stack[t]]
  <2>1. stack' = [stack EXCEPT ![t] = <<g>> \o @]
    BY <1>3, <1>4 DEF Issue
  <2>2. stack \in [AllThreads -> Seq(FrameSet)]
    BY <1>1 DEF Shapes
  <2>3. QED
    BY <1>3, <2>1, <2>2 DEF Issue, Permitted, nodes, exec
<1>7. x \in Handlers
  BY <1>2, <1>3
<1>8. /\ gone' \in [Handlers -> {"no", "asked", "yes"}] /\ gone'[x] = "asked"
      /\ \A y \in Handlers : y # x => gone'[y] = gone[y]
  BY <1>1, <1>6, <1>7 DEF Shapes
<1>9. Typed
  BY <1>1, <1>6, <1>8 DEF Typed, Shapes, ClosersKnown
<1>10. Moves(t, 0, <<g>>)
  BY <1>5, <1>6, OneIs, PushMoves
<1>11. PICK X : X = {x}
  OBVIOUS
<1>12. \A y \in Handlers \ X : Same(y)
  BY <1>6, <1>8, <1>11 DEF Same
<1>13. \A y \in Handlers \cap X : HandlerOK(y)'
  BY <1>1, <1>6, <1>7, <1>8, <1>11 DEF HandlersOK, HandlerOK, Listed, BelongsTo
<1>14. \A c \in Contexts : Once(list[c])'
  BY <1>1, <1>6 DEF HandlersOK, Once
<1>15. ASSUME NEW u \in AllThreads, NEW j \in DOMAIN stack[u], u = t => j > 0,
              NEW e \in FrameSet, e = stack[u][j], e.x \in X \cap Handlers
       PROVE  HandlerFrameOK(e)'
  <2>1. e.x = x /\ HandlerFrameOK(e)
    BY <1>11, <1>15, FrameHolds DEF FrameOK
  <2>2. e.pc \notin AddPcs
    BY <1>6, <2>1 DEF HandlerFrameOK
  <2>3. QED
    BY <1>6, <1>8, <2>1, <2>2 DEF HandlerFrameOK, BelongsTo
<1>16. FrameOK(t, g)'
  <2>1. BelongsTo(x, g.c)
    BY <1>3, <1>5 DEF BelongsTo
  <2>2. HandlerFrameOK(g)'
    BY <1>5, <1>6, <1>8, <2>1 DEF HandlerFrameOK, AddPcs, PoppedPcs, BelongsTo
  <2>3. QED
    BY <1>5, <2>2 DEF FrameOK, ClosingPcs, ChildPcs, AddPcs, StartPcs
<1>17. NoOtherOwner(t, 0, g)
  BY <1>5 DEF NoOtherOwner, Owns, AddPcs, PoppedPcs
<1>18. g.pc \notin {"handler", "inline"}
  BY <1>5
<1>19. Touches(t, 0, X)
  BY <1>12, <1>13, <1>14, <1>15 DEF Touches
<1>20. QED
  BY <1>5, <1>9, <1>10, <1>16, <1>17, <1>18, <1>19, OneFrame

LEMMA IssueOtherKeeps ==
  ASSUME HandlersInv, NEW t \in AllThreads, NEW k \in Calls[program],
         k.op \in {"exec", "child", "close", "destroy"}, Issue(t, k)
  PROVE  HandlersInv'
<1>1. Shapes /\ ClosersKnown
  BY DEF HandlersInv
<1>2. k.ctx \in Contexts /\ k.arg \in (IF k.op = "child" THEN Contexts ELSE Works \cup {None})
  BY <1>1, ProgramsAssumption DEF Shapes
<1>3. PICK f : f = Frame(k.op, k.ctx, k.arg, TRUE)
  OBVIOUS
<1>4. f \in FrameSet /\ f.pc = k.op /\ f.x = k.arg
  <2>1. k.op \in Pcs /\ k.arg \in Arguments
    BY <1>2 DEF Pcs, ChildPcs, Arguments, Nodes
  <2>2. QED
    BY <1>2, <1>3, <2>1 DEF Frame, FrameSet
<1>5. Harmless(t, f)
  BY <1>2, <1>4, TreeAssumption
     DEF Harmless, ClosingPcs, AddPcs, PoppedPcs, KnowPcs, ChildPcs, StartPcs
<1>6. /\ program' = program /\ flags' = flags /\ list' = list /\ hasPtr' = hasPtr
      /\ destroyed' = destroyed /\ done' = done /\ closer' = closer /\ queue' = queue /\ gone' = gone
      /\ fate' = IF k.op = "child" THEN [fate EXCEPT ![k.arg] = "adding"] ELSE fate
  BY DEF Issue, nodes, exec
<1>7. fate' \in [Nodes -> Fates] /\ \A y \in Handlers : fate'[y] = fate[y]
  BY <1>1, <1>2, <1>6, TreeAssumption DEF Shapes, Fates, Nodes
<1>8. Quiet
  <2>1. \A y \in Handlers : Same(y)
    BY <1>6, <1>7 DEF Same
  <2>2. Typed
    BY <1>1, <1>6, <1>7 DEF Typed, Shapes, ClosersKnown
  <2>3. QED
    BY <1>6, <2>1, <2>2 DEF Quiet
<1>9. CASE k.op # "destroy"
  <2>1. stack' = [stack EXCEPT ![t] = <<f>> \o stack[t]]
    BY <1>1, <1>3, <1>9 DEF Issue, Shapes
  <2>2. Moves(t, 0, <<f>>)
    BY <1>4, <2>1, OneIs, PushMoves
  <2>3. f.pc \notin {"handler", "inline"}
    BY <1>4
  <2>4. QED
    BY <1>4, <1>5, <1>8, <2>2, <2>3, HarmlessFrame, QuietOne
<1>10. CASE k.op = "destroy"
  <2>1. PICK h : h = [f EXCEPT !.pc = "close", !.ref = FALSE]
    OBVIOUS
  <2>2. h \in FrameSet /\ h.pc = "close" /\ h.x = f.x
    BY <1>4, <2>1 DEF FrameSet, Pcs
  <2>3. Harmless(t, h)
    BY <2>2 DEF Harmless, ClosingPcs, AddPcs, PoppedPcs, KnowPcs, ChildPcs, StartPcs
  <2>4. stack' = [stack EXCEPT ![t] = <<h, f>> \o stack[t]]
    BY <1>1, <1>3, <1>10, <2>1 DEF Issue, Shapes
  <2>5. Moves(t, 0, <<h, f>>)
    BY <1>4, <2>2, <2>4, TwoIs, PushMoves
  <2>6. PICK X : X = {}
    OBVIOUS
  <2>7. /\ \A y \in Handlers \ X : Same(y)
        /\ Typed
    BY <1>8 DEF Quiet
  <2>8. \A y \in Handlers \cap X : HandlerOK(y)'
    BY <2>6
  <2>9. \A c \in Contexts : Once(list[c])'
    BY <1>6 DEF HandlersInv, HandlersOK, Once
  <2>10. \A u \in AllThreads : \A j \in DOMAIN stack[u] : (u = t => j > 0) =>
           \A e \in FrameSet : e = stack[u][j] /\ e.x \in X \cap Handlers => HandlerFrameOK(e)'
    BY <2>6
  <2>11. FrameOK(t, h)'
    BY <2>3, HarmlessFrame
  <2>12. FrameOK(t, f)' /\ NoOtherOwner(t, 0, f)
    BY <1>5, HarmlessFrame DEF NoOtherOwner
  <2>13. \A y \in Handlers : ~Owns(h, y)
    BY <2>3, HarmlessFrame
  <2>14. f.pc \notin {"handler", "inline"} /\ h.pc # "inline"
         /\ (h.pc = "handler" => f.pc = "close.pop" /\ f.x = h.x)
    BY <1>4, <1>10, <2>2
  <2>15. Touches(t, 0, X)
    BY <2>7, <2>8, <2>9, <2>10 DEF Touches
  <2>16. QED
    BY <1>4, <2>2, <2>5, <2>7, <2>11, <2>12, <2>13, <2>14, <2>15, TwoFrames
<1>11. QED
  BY <1>9, <1>10

-----------------------------------------------------------------------------
LEMMA SetToSeqIs ==
  ASSUME NEW S, IsFiniteSet(S)
  PROVE  SetToSeq(S) \in Seq(S)
<1>1. PICK n \in Nat : ExistsBijection(1..n, S)
  BY FS_NatBijection
<1>2. Cardinality(S) = n
  BY <1>1, FS_CountingElements
<1>3. \E s \in [1..Cardinality(S) -> S] : IsInjective(s)
  <2>1. PICK s \in [1..n -> S] : \A i, j \in 1..n : s[i] = s[j] => i = j
    BY <1>1 DEF ExistsBijection, Bijection, Injection, IsInjective
  <2>2. IsInjective(s)
    BY <2>1 DEF IsInjective
  <2> QED BY <1>2, <2>1, <2>2
<1>4. SetToSeq(S) \in [1..Cardinality(S) -> S]
  BY <1>3 DEF SetToSeq
<1> QED BY <1>1, <1>2, <1>4

LEMMA InitHolds == Init => HandlersInv
<1> SUFFICES ASSUME Init PROVE HandlersInv
  OBVIOUS
<1>1. program \in Programs /\ Initial[program] \subseteq Contexts
  BY ProgramsAssumption DEF Init
<1>2. ASSUME NEW c \in Contexts
      PROVE  list[c] \in Seq(Contexts)
  <2>1. PICK S : S = {k \in Initial[program] : Parent[k] = c}
    OBVIOUS
  <2>2. S \subseteq Contexts /\ IsFiniteSet(S)
    <3>1. S \subseteq Contexts
      BY <1>1, <2>1
    <3>2. QED
      BY <3>1, FS_Subset, TreeAssumption
  <2>3. list[c] = SetToSeq(S)
    BY <2>1 DEF Init
  <2>4. list[c] \in Seq(S)
    BY <2>2, <2>3, SetToSeqIs
  <2>5. QED
    BY <2>2, <2>4
<1>3. \A c \in Contexts : list[c] \in Seq(Nodes) /\ \A i \in DOMAIN list[c] : list[c][i] \notin Handlers
  <2> SUFFICES ASSUME NEW c \in Contexts
               PROVE  list[c] \in Seq(Nodes) /\ \A i \in DOMAIN list[c] : list[c][i] \notin Handlers
    OBVIOUS
  <2>1. list[c] \in Seq(Contexts)
    BY <1>2
  <2>2. \A i \in DOMAIN list[c] : list[c][i] \in Contexts
    BY <2>1
  <2>3. QED
    BY <2>1, <2>2, TreeAssumption DEF Nodes
<1>4. Shapes
  <2>1. list \in [Contexts -> Seq(Nodes)]
    BY <1>3 DEF Init
  <2>2. stack \in [AllThreads -> Seq(FrameSet)] /\ queue \in Seq(Closures)
    BY DEF Init
  <2>3. fate \in [Nodes -> Fates] /\ gone \in [Handlers -> {"no", "asked", "yes"}]
    BY DEF Init, Fates
  <2>4. QED
    BY <1>1, <2>1, <2>2, <2>3 DEF Init, Shapes
<1>5. \A t \in AllThreads : \A i \in DOMAIN stack[t] : FALSE
  BY DEF Init
<1>6. HandlersOK
  <2>1. \A c \in Contexts : \A x \in Handlers : x \notin ToSet(list[c])
    BY <1>3 DEF ToSet
  <2>2. ASSUME NEW x \in Handlers PROVE Fresh(x)
    BY <2>1, <2>2 DEF Init, Fresh, Nodes
  <2>3. \A c \in Contexts : Once(list[c])
    BY <1>3 DEF Once
  <2>4. QED
    BY <2>1, <2>2, <2>3 DEF HandlersOK, HandlerOK
<1>7. FramesOK /\ OneOwner /\ Nested
  BY <1>5 DEF FramesOK, OneOwner, Nested
<1>8. ClosersKnown
  BY DEF Init, ClosersKnown
<1>9. QED
  BY <1>4, <1>6, <1>7, <1>8 DEF HandlersInv

LEMMA StepKeeps ==
  ASSUME HandlersInv, [Next]_vars
  PROVE  HandlersInv'
<1>1. ASSUME NEW t \in AllThreads, NEW k \in Calls[program], Issue(t, k) PROVE HandlersInv'
  <2>1. k.op \in Ops
    BY ProgramsAssumption DEF HandlersInv, Shapes
  <2>2. QED
    BY <1>1, <2>1, IssueAddKeeps, IssueRemoveKeeps, IssueOtherKeeps DEF Ops
<1>2. ASSUME NEW t \in AllThreads, ExecStep(t) PROVE HandlersInv'
  BY <1>2, BlockKeeps, ReturnStepKeeps, PostKeeps, EnterStepKeeps, InlineReturnsKeeps, GotoStepKeeps
     DEF ExecStep
<1>3. ASSUME NEW t \in AllThreads, HandlerStep(t) PROVE HandlersInv'
  BY <1>3, BlockKeeps, UndoKeeps, InsertKeeps, EnterStepKeeps, ReturnStepKeeps, GotoStepKeeps,
     StartThrowsKeeps, RemoveKeeps, RemoveWaitKeeps DEF HandlerStep
<1>4. ASSUME NEW t \in AllThreads, CloseStep(t) PROVE HandlersInv'
  BY <1>4, StartCloseKeeps, GotoStepKeeps, SetClosingKeeps, PopHandlerKeeps, CallHandlerKeeps,
     ReturnStepKeeps, CloseChildKeeps, LeaveParentKeeps, ResetKeeps, ClosedKeeps DEF CloseStep
<1>5. ASSUME UNCHANGED vars PROVE HandlersInv'
  <2> USE <1>5 DEF vars, words, nodes, exec, history, clients
  <2>1. Shapes' /\ ClosersKnown'
    BY DEF HandlersInv, Shapes, ClosersKnown
  <2>2. HandlersOK'
    BY DEF HandlersInv, HandlersOK, HandlerOK, Fresh, Listed, BelongsTo
  <2>3. FramesOK'
    <3> SUFFICES ASSUME NEW u \in AllThreads, NEW j \in DOMAIN stack[u] PROVE FrameOK(u, stack[u][j])'
      BY DEF FramesOK
    <3>1. PICK e : e = stack[u][j]
      OBVIOUS
    <3>2. FrameOK(u, e)
      BY <3>1 DEF HandlersInv, FramesOK
    <3>3. HandlerFrameOK(e) => HandlerFrameOK(e)'
      BY DEF HandlerFrameOK, Fresh, BelongsTo
    <3>4. FrameOK(u, e)'
      BY <3>2, <3>3 DEF FrameOK
    <3>5. QED
      BY <3>1, <3>4
  <2>4. OneOwner' /\ Nested'
    BY DEF HandlersInv, OneOwner, Owns, Nested
  <2>5. QED
    BY <2>1, <2>2, <2>3, <2>4 DEF HandlersInv
<1>6. QED
  BY <1>1, <1>2, <1>3, <1>4, <1>5, TakeKeeps DEF Next, Step, Quiescent

\* Whatever the tree, the programs and the threads: what is known of the handlers
\* is so in every state.
THEOREM HandlersAreKnown == Spec => []HandlersInv
BY InitHolds, StepKeeps, PTL DEF Spec

\* The handler that a thread uses is in the hands of the loop that popped it.
LEMMA UsedIsPopped ==
  ASSUME HandlersInv, NEW t \in AllThreads, NEW x \in Handlers, Uses(t, x)
  PROVE  \E j \in DOMAIN stack[t] : Owns(stack[t][j], x) /\ stack[t][j].pc \in PoppedPcs
<1>1. PICK i \in DOMAIN stack[t] : stack[t][i].pc \in UsePcs /\ stack[t][i].x = x
  BY DEF Uses, FramesOf, ToSet
<1>2. CASE stack[t][i].pc \in PoppedPcs
  BY <1>1, <1>2 DEF Owns
<1>3. CASE stack[t][i].pc = "handler"
  BY <1>1, <1>3, FrameHolds DEF NestedOK, Owns, PoppedPcs
<1>4. QED
  BY <1>1, <1>2, <1>3 DEF UsePcs, PoppedPcs

\* When removeCloseHandler has returned callCloseHandlers will not write to the
\* handler, whichever thread popped it (ao-context-impl.h:169-214, 278-304).
THEOREM RemovedHandlersAreLeftAlone == Spec => []RemovedHandlerIsNotWritten
<1>1. HandlersInv => RemovedHandlerIsNotWritten
  <2> SUFFICES ASSUME HandlersInv, NEW t \in AllThreads, NEW x \in Handlers, Uses(t, x), gone[x] = "yes"
               PROVE  destroyed[x]
    BY DEF RemovedHandlerIsNotWritten
  <2>1. PICK j \in DOMAIN stack[t] : Owns(stack[t][j], x) /\ stack[t][j].pc \in PoppedPcs
    BY UsedIsPopped
  <2>2. QED
    BY <2>1, FrameHolds DEF FrameOK, HandlerFrameOK, Owns
<1>2. QED
  BY <1>1, HandlersAreKnown, PTL

\* Nothing but removeCloseHandler removes a handler.
LEMMA RemovedBy ==
  ASSUME HandlersInv, [Next]_vars, NEW x \in Handlers, gone[x] # "yes", gone'[x] = "yes"
  PROVE  \E u \in AllThreads : RemoveCloseHandler(u) \/ RemoveWait(u)
<1>1. gone \in [Handlers -> {"no", "asked", "yes"}]
  BY DEF HandlersInv, Shapes
<1>2. gone' # gone
  OBVIOUS
<1>3. ASSUME NEW t \in AllThreads, NEW k \in Calls[program], Issue(t, k) PROVE FALSE
  <2>1. gone' = [gone EXCEPT ![k.arg] = "asked"]
    BY <1>2, <1>3 DEF Issue
  <2>2. QED
    BY <1>1, <2>1
<1>4. ASSUME NEW t \in AllThreads, StartThrows(t) PROVE FALSE
  <2>1. gone' = [gone EXCEPT ![Top(t).x] = "asked"]
    BY <1>4 DEF StartThrows
  <2>2. QED
    BY <1>1, <2>1
<1>5. ASSUME NEW t \in AllThreads, ExecStep(t) PROVE gone' = gone
  BY <1>5 DEF ExecStep, BlockClose, UndoBlock, Post, PostInline, InlineReturns, Unblock, RunBlock,
     RunUndo, RunDrop, WorkReturns, history
<1>6. ASSUME NEW t \in AllThreads, HandlerStep(t)
      PROVE  gone' = gone \/ StartThrows(t) \/ RemoveCloseHandler(t) \/ RemoveWait(t)
  BY <1>6 DEF HandlerStep, BlockClose, UndoBlock, Insert, ConstructChild, ChildMade, StartSucceeds,
     Unblock, history
<1>7. ASSUME NEW t \in AllThreads, CloseStep(t) PROVE gone' = gone
  BY <1>7 DEF CloseStep, StartClose, WaitForClosing, SetClosingFlag, PopHandler, CallHandler,
     HandlerReturns, Anchor, CloseChild, ReleaseAnchor, LeaveParent, ResetExecutor, SetClosedFlag,
     CloseReturns, WaitForClosed, ReleaseOwner, history
<1>8. TakeClosure \/ UNCHANGED vars => gone' = gone
  BY DEF TakeClosure, vars, history
<1>9. QED
  BY <1>2, <1>3, <1>4, <1>5, <1>6, <1>7, <1>8 DEF Next, Step, Quiescent

\* removeCloseHandler returns while nobody but its own thread uses the handler.
THEOREM RemovalsWait == Spec => RemovalWaitsForOthers
<1>1. ASSUME HandlersInv, [Next]_vars, NEW t \in AllThreads, NEW x \in Handlers, Uses(t, x),
             gone[x] # "yes", gone'[x] = "yes"
      PROVE  stack'[t] # stack[t]
  <2>1. PICK j \in DOMAIN stack[t] : Owns(stack[t][j], x) /\ stack[t][j].pc \in PoppedPcs
    BY <1>1, UsedIsPopped
  <2>2. PICK f : f = stack[t][j]
    OBVIOUS
  <2>3. /\ HandlerFrameOK(f) /\ f.x = x /\ f.pc \in PoppedPcs /\ f.c \in Contexts
        /\ BelongsTo(x, f.c) /\ closer[f.c] = t
    BY <1>1, <2>1, <2>2, FrameHolds DEF FrameOK, HandlerFrameOK, Owns, PoppedPcs, ClosingPcs, FrameSet
  <2>4. ~done[x] /\ x \notin ToSet(list[f.c])
    BY <2>3 DEF HandlerFrameOK
  <2>5. PICK u \in AllThreads : RemoveCloseHandler(u) \/ RemoveWait(u)
    BY <1>1, RemovedBy
  <2>6. stack[u] # <<>> /\ Top(u).pc \in {"remove", "remove.wait"}
    BY <2>5 DEF RemoveCloseHandler, RemoveWait, At
  <2>7. FrameOK(u, Top(u)) /\ gone \in [Handlers -> {"no", "asked", "yes"}]
        /\ stack \in [AllThreads -> Seq(FrameSet)] /\ Shapes
    BY <1>1, <2>6, TopIs DEF HandlersInv, Shapes
  <2>8. Top(u).x = x
    <3>1. gone' = gone \/ gone' = GoneAfter(Top(u).x)
      BY <2>5 DEF RemoveCloseHandler, RemoveWait
    <3>2. QED
      BY <1>1, <2>7, <3>1 DEF GoneAfter
  <2>9. Top(u).c = f.c
    <3>1. BelongsTo(x, Top(u).c)
      BY <2>6, <2>7, <2>8 DEF FrameOK, HandlerFrameOK, KnowPcs
    <3>2. QED
      BY <2>3, <2>7, <3>1, OneHome
  <2>10. CASE RemoveWait(u)
    BY <2>4, <2>8, <2>10 DEF RemoveWait
  <2>11. CASE RemoveCloseHandler(u)
    <3>1. ClosingInThisThread(u, f.c) /\ Return(u)
      BY <1>1, <2>4, <2>8, <2>9, <2>11 DEF RemoveCloseHandler
    <3>2. \E i \in DOMAIN stack[u] : stack[u][i].c = f.c /\ stack[u][i].pc \in ClosingPcs
      BY <3>1 DEF ClosingInThisThread, FramesOf, ToSet
    <3>3. closer[f.c] = u
      BY <1>1, <3>2, FrameHolds DEF FrameOK
    <3>4. u = t /\ stack'[t] = Tail(stack[t]) /\ stack[t] \in Seq(FrameSet) /\ stack[t] # <<>>
      BY <2>3, <2>6, <2>7, <3>1, <3>3 DEF Return
    <3>5. QED
      BY <3>4, TailDiffers
  <2>12. QED
    BY <2>5, <2>10, <2>11
<1>2. HandlersInv /\ [Next]_vars =>
        [\A t \in AllThreads, x \in Handlers :
           Uses(t, x) /\ gone[x] # "yes" /\ gone'[x] = "yes" => stack'[t] # stack[t]]_vars
  BY <1>1
<1>3. QED
  BY <1>2, HandlersAreKnown, PTL DEF Spec, RemovalWaitsForOthers

\* Both together: whoever may be closing, and wherever its loop is, the client may
\* free the handler when removeCloseHandler has returned.
THEOREM RemovedHandlersAreUnused == Spec => RemovedHandlerIsUnused
BY RemovedHandlersAreLeftAlone, RemovalsWait, PTL DEF RemovedHandlerIsUnused

-----------------------------------------------------------------------------
\* The wait of close.

\* The frames in F, each by its thread and its height in the stack.
FrameAt(t, n) == stack[t][Len(stack[t]) + 1 - n]
Places(F) == {q \in AllThreads \X Nat : q[2] \in 1..Len(stack[q[1]]) /\ FrameAt(q[1], q[2]) \in F}

\* The frames that hold a block on c, and how they lie: all but the innermost one
\* are items, unless that is a call which its own caller is waiting for.
BlockPcs == InsidePcs \cup {"exec.undo", "undo", "run.undo"}
Blocking(c) == {f \in FrameSet : f.c = c /\ f.pc \in BlockPcs}
BlocksOK == /\ blocks \in [Contexts -> Nat]
            /\ \A c \in Contexts : /\ IsFiniteSet(Places(Blocking(c)))
                                  /\ blocks[c] = Cardinality(Places(Blocking(c)))

LeafPcs == {"add", "add.insert", "undo", "unblock", "remove", "remove.wait"}
Plain(f) == f.pc \in BlockPcs => f.pc \in {"exec.inline", "work"}
LowerOK(s, i) == i > 1 => Plain(s[i]) \/ (i = 2 /\ s[1].pc \in LeafPcs)
Lower == \A t \in AllThreads : \A i \in DOMAIN stack[t] : LowerOK(stack[t], i)

\* The wait of close is over: the other threads are out.
PastPcs == ClosingPcs \ {"close.wait"}
CalmPcs == {"work", "exec.inline", "exec.unblock"}
Past(c) == \/ "Closing" \in flags[c]
           \/ \E t \in AllThreads : \E i \in DOMAIN stack[t] :
                stack[t][i].c = c /\ stack[t][i].pc \in PastPcs
Excluded == \A c \in Contexts : Past(c) =>
              \A t \in AllThreads : \A i \in DOMAIN stack[t] :
                stack[t][i].c = c /\ stack[t][i].pc \in InsidePcs =>
                  t = closer[c] /\ stack[t][i].pc \in CalmPcs

\* How far the close of a context is.
LoopPcs == {"close.pop", "close.call"}
EndPcs  == {"close.parent", "close.reset", "close.closed", "close.release"}
FlagsOK == \A c \in Contexts :
  /\ "Closing" \in flags[c] => "PreparingForClosing" \in flags[c]
  /\ "Closed" \in flags[c] => "Closing" \in flags[c] /\ list[c] = <<>>
StageOK(f) == /\ f.pc \in LoopPcs \cup EndPcs => "Closing" \in flags[f.c]
              /\ f.pc \in EndPcs => list[f.c] = <<>>
Stages == \A t \in AllThreads : \A i \in DOMAIN stack[t] : StageOK(stack[t][i])

\* Where no work closes, no close is made from a work.
WorkPcs == {"exec", "exec.post", "exec.undo", "exec.inline", "exec.unblock", "inline", "run",
            "run.undo", "run.drop", "work"}
CallerPcs == ClosingPcs \cup {"close", "destroy", "handler", "child.anchor", "child.done",
                              "child.release"}
WorksKnown == /\ \A t \in AllThreads : \A i \in DOMAIN stack[t] :
                   stack[t][i].pc \in WorkPcs => stack[t][i].x \in Works
              /\ \A n \in DOMAIN queue : queue[n].work \in Works
Unworked(s) == \A i, j \in DOMAIN s : i < j /\ s[i].pc \in CallerPcs => s[j].pc \notin ItemPcs
NoWorkCloses == \A k \in Calls[program] : k.op \in {"close", "destroy"} => k.by \notin Works
OutsideWorks == NoWorkCloses => \A t \in AllThreads : Unworked(stack[t])

\* Where the program has one context, all frames are about that.
Single(c) == /\ Parent[c] = None /\ Initial[program] \subseteq {c}
             /\ \A k \in Calls[program] : k.ctx = c /\ k.op # "child"
OneTree == \A c \in Contexts : Single(c) =>
  /\ \A t \in AllThreads : \A i \in DOMAIN stack[t] : stack[t][i].c = c /\ stack[t][i].x \notin Contexts
  /\ \A n \in DOMAIN queue : queue[n].ctx = c
  /\ \A d \in Contexts : \A n \in DOMAIN list[d] : list[d][n] \notin Contexts

CloseInv == /\ HandlersInv /\ BlocksOK /\ Lower /\ Excluded /\ FlagsOK /\ Stages
            /\ WorksKnown /\ OutsideWorks /\ OneTree

-----------------------------------------------------------------------------
\* Counting frames: a step of t that gives the frames a for the k innermost ones,
\* where only the outermost of either may be in F.

OuterOnly(s, n, F) == \A i \in 1..n : i < n => s[i] \notin F
Holds(s, n, F) == n > 0 /\ s[n] \in F
One(b) == IF b THEN 1 ELSE 0

\* ... or frames that are in F where the frames of a are.
Shifts(t, k, a, F) ==
  /\ k \in 0..Len(stack[t]) /\ Len(a) \in Nat
  /\ \A u \in AllThreads \ {t} : stack'[u] = stack[u]
  /\ Len(stack'[t]) = Len(a) + Len(stack[t]) - k
  /\ \A i \in 1..Len(stack'[t]) :
       stack'[t][i] \in F <=> IF i <= Len(a) THEN a[i] \in F ELSE stack[t][i - Len(a) + k] \in F

LEMMA MovesShifts ==
  ASSUME NEW t \in AllThreads, NEW k, NEW a, Moves(t, k, a), NEW F
  PROVE  Shifts(t, k, a, F)
BY DEF Moves, Shifts

LEMMA PlacesShift ==
  ASSUME Shapes, NEW t \in AllThreads, NEW k, NEW a, NEW F, Shifts(t, k, a, F),
         OuterOnly(stack[t], k, F), OuterOnly(a, Len(a), F),
         NEW q, q = <<t, Len(stack[t]) - k + 1>>
  PROVE  /\ Places(F)' = IF Holds(a, Len(a), F) THEN Places(F) \cup {q} ELSE Places(F) \ {q}
         /\ q \in Places(F) <=> Holds(stack[t], k, F)
<1>1. PICK m \in Nat, l \in Nat : m = Len(a) /\ l = Len(stack[t])
  BY DEF Shapes, Shifts
<1>2. k \in 0..l /\ k \in Nat /\ Len(stack'[t]) = m + l - k
  BY <1>1 DEF Shifts
<1>3. \A i \in 1..(m + l - k) :
        stack'[t][i] \in F <=> IF i <= m THEN a[i] \in F ELSE stack[t][i - m + k] \in F
  BY <1>1, <1>2 DEF Shifts
<1>4. ASSUME NEW u \in AllThreads, NEW n \in Nat
      PROVE  /\ <<u, n>> \in Places(F) <=> n \in 1..Len(stack[u]) /\ FrameAt(u, n) \in F
             /\ <<u, n>> \in Places(F)' <=> n \in 1..Len(stack'[u]) /\ FrameAt(u, n)' \in F
  BY DEF Places
<1>5. ASSUME NEW u \in AllThreads, NEW n \in Nat, u # t
      PROVE  <<u, n>> \in Places(F)' <=> <<u, n>> \in Places(F)
  <2>1. stack'[u] = stack[u]
    BY <1>5 DEF Shifts
  <2> QED BY <1>4, <2>1 DEF FrameAt
<1>6. ASSUME NEW n \in Nat
      PROVE  n \in 1..l /\ FrameAt(t, n) \in F <=> n \in 1..l /\ stack[t][l + 1 - n] \in F
  BY <1>1 DEF FrameAt
<1>7. ASSUME NEW n \in Nat
      PROVE  n \in 1..Len(stack'[t]) /\ FrameAt(t, n)' \in F
               <=> n \in 1..(m + l - k) /\ stack'[t][m + l - k + 1 - n] \in F
  BY <1>2 DEF FrameAt
<1>8. ASSUME NEW n \in Nat, n <= l - k
      PROVE  <<t, n>> \in Places(F)' <=> <<t, n>> \in Places(F)
  <2>1. CASE n = 0
    BY <1>1, <1>4, <2>1
  <2>2. CASE n > 0
    <3>1. n \in 1..l /\ n \in 1..(m + l - k) /\ m + l - k + 1 - n \in 1..(m + l - k)
          /\ ~(m + l - k + 1 - n <= m) /\ m + l - k + 1 - n - m + k = l + 1 - n
      BY <1>1, <1>2, <1>8, <2>2
    <3>2. stack'[t][m + l - k + 1 - n] \in F <=> stack[t][l + 1 - n] \in F
      <4>1. PICK i : i = m + l - k + 1 - n
        OBVIOUS
      <4>2. i \in 1..(m + l - k) /\ ~(i <= m) /\ i - m + k = l + 1 - n
        <5>1. m \in Int /\ l \in Int /\ k \in Int /\ n \in Int /\ i \in Int
          BY <1>1, <1>2, <4>1
        <5> QED BY <1>2, <1>8, <2>2, <4>1, <5>1
      <4>3. stack'[t][i] \in F <=> stack[t][i - m + k] \in F
        BY <1>3, <4>2
      <4> QED BY <4>1, <4>2, <4>3
    <3>3. <<t, n>> \in Places(F) <=> stack[t][l + 1 - n] \in F
      BY <1>1, <1>4, <1>6, <3>1
    <3>4. <<t, n>> \in Places(F)' <=> stack'[t][m + l - k + 1 - n] \in F
      BY <1>4, <1>7, <3>1
    <3> QED BY <3>2, <3>3, <3>4
  <2> QED BY <2>1, <2>2
<1>9. ASSUME NEW n \in Nat, n > l - k + 1
      PROVE  <<t, n>> \notin Places(F)' /\ <<t, n>> \notin Places(F)
  <2>1. <<t, n>> \notin Places(F)
    <3>1. SUFFICES ASSUME n \in 1..l PROVE stack[t][l + 1 - n] \notin F
      BY <1>1, <1>4, <1>6
    <3>2. l + 1 - n \in 1..k /\ l + 1 - n < k
      BY <1>1, <1>2, <1>9, <3>1
    <3> QED BY <3>2 DEF OuterOnly
  <2>2. <<t, n>> \notin Places(F)'
    <3>1. SUFFICES ASSUME n \in 1..(m + l - k) PROVE stack'[t][m + l - k + 1 - n] \notin F
      BY <1>4, <1>7
    <3>2. m + l - k + 1 - n \in 1..(m + l - k) /\ m + l - k + 1 - n \in 1..m /\ m + l - k + 1 - n < m
      BY <1>1, <1>2, <1>9, <3>1
    <3>3. stack'[t][m + l - k + 1 - n] \in F <=> a[m + l - k + 1 - n] \in F
      BY <1>3, <3>2
    <3> QED BY <1>1, <3>2, <3>3 DEF OuterOnly
  <2> QED BY <2>1, <2>2
<1>10. <<t, l - k + 1>> \in Places(F) <=> Holds(stack[t], k, F)
  <2>1. l - k + 1 \in Nat /\ l + 1 - (l - k + 1) = k /\ (l - k + 1 \in 1..l <=> k > 0)
    BY <1>1, <1>2
  <2> QED BY <1>1, <1>4, <1>6, <2>1 DEF Holds
<1>11. <<t, l - k + 1>> \in Places(F)' <=> Holds(a, Len(a), F)
  <2>0. l - k + 1 \in Nat /\ l - k + 1 >= 1 /\ m + l - k \in Nat
    BY <1>1, <1>2
  <2>3. m + l - k + 1 - (l - k + 1) = m
    <3>1. m \in Int /\ l \in Int /\ k \in Int
      BY <1>1, <1>2
    <3> QED BY <3>1
  <2>4. l - k + 1 <= m + l - k <=> m > 0
    BY <1>1, <1>2
  <2>1. l - k + 1 \in 1..(m + l - k) <=> m > 0
    BY <2>0, <2>4
  <2>2. m > 0 => (stack'[t][m] \in F <=> a[m] \in F)
    BY <1>1, <1>2, <1>3
  <2> QED BY <1>1, <1>4, <1>7, <2>0, <2>1, <2>2, <2>3 DEF Holds
<1>12. q = <<t, l - k + 1>>
  BY <1>1
<1>13. ASSUME NEW p PROVE p \in Places(F)' <=> IF p = q THEN Holds(a, Len(a), F) ELSE p \in Places(F)
  <2>1. CASE p \notin AllThreads \X Nat
    <3>1. p \notin Places(F)' /\ p \notin Places(F)
      BY <2>1 DEF Places
    <3>2. p # q
      BY <1>1, <1>2, <1>12, <2>1
    <3> QED BY <3>1, <3>2
  <2>2. CASE p \in AllThreads \X Nat
    <3>1. PICK u \in AllThreads, n \in Nat : p = <<u, n>>
      BY <2>2
    <3>2. CASE u # t
      BY <1>5, <1>12, <3>1, <3>2
    <3>3. CASE u = t
      <4>1. p = q <=> n = l - k + 1
        BY <1>12, <3>1, <3>3
      <4>2. n <= l - k \/ n = l - k + 1 \/ n > l - k + 1
        BY <1>1, <1>2
      <4> QED BY <1>1, <1>2, <1>8, <1>9, <1>11, <3>1, <3>3, <4>1, <4>2
    <3> QED BY <3>2, <3>3
  <2> QED BY <2>1, <2>2
<1> QED BY <1>10, <1>12, <1>13

LEMMA CountMoves ==
  ASSUME Shapes, NEW t \in AllThreads, NEW k, NEW a, Moves(t, k, a), NEW F,
         OuterOnly(stack[t], k, F), OuterOnly(a, Len(a), F), IsFiniteSet(Places(F))
  PROVE  /\ IsFiniteSet(Places(F)') /\ Cardinality(Places(F)) \in Nat
         /\ Cardinality(Places(F)') = Cardinality(Places(F)) + One(Holds(a, Len(a), F))
                                        - One(Holds(stack[t], k, F))
         /\ Holds(stack[t], k, F) => Cardinality(Places(F)) > 0
<1>1. PICK q : q = <<t, Len(stack[t]) - k + 1>>
  OBVIOUS
<1>2. PICK P, Q : P = Places(F) /\ Q = Places(F)'
  OBVIOUS
<1>3. /\ Q = IF Holds(a, Len(a), F) THEN P \cup {q} ELSE P \ {q}
      /\ q \in P <=> Holds(stack[t], k, F)
  <2>1. Shifts(t, k, a, F)
    BY MovesShifts
  <2> QED BY <1>1, <1>2, <2>1, PlacesShift
<1>4. IsFiniteSet(P) /\ Cardinality(P) \in Nat
  BY <1>2, FS_CardinalityType
<1>5. IsFiniteSet(P \cup {q}) /\ Cardinality(P \cup {q}) = Cardinality(P) + One(q \notin P)
  BY <1>4, FS_AddElement DEF One
<1>6. IsFiniteSet(P \ {q}) /\ Cardinality(P \ {q}) = Cardinality(P) - One(q \in P)
  BY <1>4, FS_RemoveElement DEF One
<1>7. q \in P => Cardinality(P) > 0
  <2>1. P # {} => Cardinality(P) # 0
    BY <1>4, FS_EmptySet
  <2> QED BY <1>4, <2>1
<1>8. IsFiniteSet(Q) /\ Cardinality(Q) = Cardinality(P) + One(Holds(a, Len(a), F))
                                        - One(Holds(stack[t], k, F))
  <2>1. CASE Holds(a, Len(a), F)
    BY <1>3, <1>4, <1>5, <2>1 DEF One
  <2>2. CASE ~Holds(a, Len(a), F)
    BY <1>3, <1>4, <1>6, <2>2 DEF One
  <2> QED BY <2>1, <2>2
<1> QED BY <1>2, <1>3, <1>4, <1>7, <1>8
-----------------------------------------------------------------------------
\* What a step of t does to the closing of contexts, if it gives the frames a for
\* the k innermost ones.

TopIn(t, c, P) == stack[t] # <<>> /\ Top(t).c = c /\ Top(t).pc \in P

\* The flags and lists change only where the code says so.
Data(t) ==
  /\ program' = program
  /\ \A c \in Contexts :
       /\ flags[c] \subseteq flags'[c]
       /\ closer[c] # None => closer'[c] = closer[c]
       /\ "Closing" \in flags'[c] => "Closing" \in flags[c] \/ TopIn(t, c, {"close.flag"})
       /\ "Closed" \in flags'[c] => "Closed" \in flags[c] \/ TopIn(t, c, {"close.closed"})
       /\ list[c] = <<>> /\ list'[c] # <<>> => TopIn(t, c, {"add.insert", "start.insert"})
       /\ \A n \in DOMAIN list'[c] : list'[c][n] \in Contexts =>
            \/ \E m \in DOMAIN list[c] : list[c][m] = list'[c][n]
            \/ TopIn(t, c, {"add.insert", "start.insert"}) /\ Top(t).x = list'[c][n]

\* Nobody but t is in c, and t in its works only.
OnlyHere(t, c) ==
  /\ closer[c] = t
  /\ \A u \in AllThreads : \A i \in DOMAIN stack[u] :
       stack[u][i].c = c /\ stack[u][i].pc \in InsidePcs => u = t /\ stack[u][i].pc \in CalmPcs

Counts(t, k, a) ==
  /\ blocks' \in [Contexts -> Int]
  /\ \A c \in Contexts :
       /\ OuterOnly(stack[t], k, Blocking(c)) /\ OuterOnly(a, Len(a), Blocking(c))
       /\ blocks'[c] = blocks[c] + One(Holds(a, Len(a), Blocking(c)))
                                - One(Holds(stack[t], k, Blocking(c)))

LowerTurn(t, k, a) ==
  /\ k = 0 /\ Len(stack[t]) > 0 => stack[t][1].pc \in {"work", "inline", "handler"}
  /\ k > 0 /\ stack[t][1].pc \in LeafPcs =>
       k = 1 /\ \A i \in 1..Len(a) : i = 1 /\ a[i].pc \in LeafPcs
  /\ \A i \in 1..Len(a) : i > 1 => Plain(a[i]) \/ (i = 2 /\ a[1].pc \in LeafPcs)

\* The frame f comes after one at a pc in P of the same context.
After(t, k, f, P) == k > 0 /\ stack[t][k].c = f.c /\ stack[t][k].pc \in P

FrameTurn(t, k, f) ==
  /\ f.pc \in InsidePcs => \/ "PreparingForClosing" \notin flags'[f.c]
                           \/ After(t, k, f, InsidePcs) /\ (After(t, k, f, CalmPcs) => f.pc \in CalmPcs)
  /\ f.pc \in PastPcs => After(t, k, f, PastPcs) \/ OnlyHere(t, f.c)
  /\ f.pc \in LoopPcs \cup EndPcs => After(t, k, f, LoopPcs \cup EndPcs) \/ "Closing" \in flags'[f.c]
  /\ f.pc \in EndPcs => After(t, k, f, EndPcs) \/ list'[f.c] = <<>>
  /\ f.pc \in WorkPcs => f.x \in Works
  /\ f.pc \in CallerPcs => \/ k > 0 /\ stack[t][k].pc \in CallerPcs
                           \/ k = 0 /\ (Len(stack[t]) > 0 /\ NoWorkCloses => stack[t][1].pc = "handler")
  /\ \A c \in Contexts : Single(c) => f.c = c /\ f.x \notin Contexts

QueueTurn == \A n \in DOMAIN queue' :
  queue'[n].work \in Works /\ \A c \in Contexts : Single(c) => queue'[n].ctx = c

Turn(t, k, a) ==
  /\ Moves(t, k, a) /\ Data(t) /\ QueueTurn
  /\ Counts(t, k, a) /\ LowerTurn(t, k, a)
  /\ \A i \in 1..Len(a) : FrameTurn(t, k, a[i])
  /\ \A i, j \in 1..Len(a) : i < j /\ a[i].pc \in CallerPcs => a[j].pc \notin ItemPcs

\* The frame at i of v after the step is new, or it was there before.
LEMMA Comes ==
  ASSUME Shapes, NEW t \in AllThreads, NEW k, NEW a, Moves(t, k, a),
         NEW v \in AllThreads, NEW i \in DOMAIN stack'[v]
  PROVE  /\ i \in Nat /\ i >= 1 /\ k \in Nat /\ Len(a) \in Nat
         /\ \/ v = t /\ i \in 1..Len(a) /\ stack'[v][i] = a[i]
            \/ \E j \in DOMAIN stack[v] :
                 /\ j \in Nat /\ j >= 1 /\ stack'[v][i] = stack[v][j]
                 /\ IF v = t THEN j > k /\ i > Len(a) /\ i = j - k + Len(a) ELSE j = i
<1>1. stack[v] \in Seq(FrameSet) /\ stack'[v] \in Seq(FrameSet) /\ a \in Seq(FrameSet)
  BY DEF Shapes, Moves
<1>2. PICK m \in Nat, l \in Nat : m = Len(a) /\ l = Len(stack[t])
  BY DEF Shapes, Moves
<1>3. k \in 0..l /\ k \in Nat /\ Len(stack'[t]) = m + l - k /\ i \in Nat /\ i >= 1
  BY <1>1, <1>2 DEF Moves
<1>4. CASE v # t
  <2>1. stack'[v] = stack[v]
    BY <1>4 DEF Moves
  <2> QED BY <1>2, <1>3, <1>4, <2>1
<1>5. CASE v = t
  <2>1. i \in 1..(m + l - k) /\ stack'[t][i] = IF i <= m THEN a[i] ELSE stack[t][i - m + k]
    <3>1. i \in 1..Len(stack'[t])
      BY <1>1, <1>5
    <3> QED BY <1>2, <1>3, <3>1 DEF Moves
  <2>2. CASE i <= m
    BY <1>2, <1>3, <1>5, <2>1, <2>2
  <2>3. CASE ~(i <= m)
    <3>1. PICK j : j = i - m + k
      OBVIOUS
    <3>2. j \in 1..l /\ j > k /\ i > m /\ i = j - k + m
      <4>1. m \in Int /\ l \in Int /\ k \in Int /\ i \in Int /\ j \in Int
        BY <1>2, <1>3, <3>1
      <4> QED BY <1>3, <2>1, <2>3, <3>1, <4>1
    <3>3. j \in DOMAIN stack[v] /\ stack'[v][i] = stack[v][j]
      BY <1>1, <1>2, <1>5, <2>1, <2>3, <3>1, <3>2
    <3> QED BY <1>2, <1>3, <1>5, <3>2, <3>3
  <2> QED BY <2>2, <2>3
<1> QED BY <1>4, <1>5

LEMMA BlocksKeep ==
  ASSUME HandlersInv, BlocksOK, NEW t \in AllThreads, NEW k, NEW a, Moves(t, k, a), Counts(t, k, a)
  PROVE  BlocksOK'
<1>1. SUFFICES ASSUME NEW c \in Contexts
               PROVE  /\ IsFiniteSet(Places(Blocking(c)))' /\ blocks'[c] = Cardinality(Places(Blocking(c)))'
                      /\ blocks'[c] \in Nat
  BY DEF BlocksOK, Counts
<1>2. PICK F : F = Blocking(c)
  OBVIOUS
<1>3. /\ OuterOnly(stack[t], k, F) /\ OuterOnly(a, Len(a), F) /\ IsFiniteSet(Places(F))
      /\ blocks[c] = Cardinality(Places(F))
      /\ blocks'[c] = blocks[c] + One(Holds(a, Len(a), F)) - One(Holds(stack[t], k, F))
  BY <1>2 DEF BlocksOK, Counts
<1>4. /\ IsFiniteSet(Places(F)')
      /\ Cardinality(Places(F)') = Cardinality(Places(F)) + One(Holds(a, Len(a), F))
                                     - One(Holds(stack[t], k, F))
  BY <1>3, CountMoves DEF HandlersInv
<1>5. Places(F)' = Places(Blocking(c))'
  BY <1>2
<1>6. Cardinality(Places(F)') \in Nat
  BY <1>4, FS_CardinalityType
<1> QED BY <1>3, <1>4, <1>5, <1>6

LEMMA LowerKeeps ==
  ASSUME HandlersInv, Lower, NEW t \in AllThreads, NEW k, NEW a, Moves(t, k, a), LowerTurn(t, k, a)
  PROVE  Lower'
<1>1. SUFFICES ASSUME NEW v \in AllThreads, NEW i \in DOMAIN stack'[v], i > 1
               PROVE  Plain(stack'[v][i]) \/ (i = 2 /\ stack'[v][1].pc \in LeafPcs)
  BY DEF Lower, LowerOK, Plain
<1>2. Shapes /\ \A u \in AllThreads : stack[u] \in Seq(FrameSet) /\ stack'[u] \in Seq(FrameSet)
  BY DEF HandlersInv, Shapes, Moves
<1>3. i \in Nat /\ k \in Nat /\ Len(a) \in Nat /\ Len(stack[t]) \in Nat
  BY <1>2, Comes
<1>4. CASE v = t /\ i \in 1..Len(a) /\ stack'[v][i] = a[i]
  <2>1. stack'[t][1] = a[1]
    <3>1. 1 \in 1..Len(stack'[t]) /\ 1 <= Len(a)
      BY <1>1, <1>2, <1>3, <1>4
    <3> QED BY <3>1 DEF Moves
  <2> QED BY <1>1, <1>4, <2>1 DEF LowerTurn
<1>5. ASSUME NEW j \in DOMAIN stack[v], j \in Nat, j >= 1, stack'[v][i] = stack[v][j],
             IF v = t THEN j > k /\ i > Len(a) /\ i = j - k + Len(a) ELSE j = i
      PROVE  Plain(stack'[v][i]) \/ (i = 2 /\ stack'[v][1].pc \in LeafPcs)
  <2>1. CASE v # t
    <3>1. stack'[v] = stack[v]
      BY <2>1 DEF Moves
    <3> QED BY <1>1, <1>5, <2>1, <3>1 DEF Lower, LowerOK
  <2>2. CASE v = t
    <3>1. j > k /\ i = j - k + Len(a) /\ i > Len(a)
      BY <1>5, <2>2
    <3>2. CASE j = 1
      <4>1. k = 0 /\ Len(stack[t]) > 0
        BY <1>2, <1>3, <2>2, <3>1, <3>2
      <4>2. stack[t][1].pc \in {"work", "inline", "handler"}
        BY <4>1 DEF LowerTurn
      <4> QED BY <1>5, <2>2, <3>2, <4>2 DEF Plain, BlockPcs, InsidePcs
    <3>3. CASE j > 1
      <4>1. Plain(stack[t][j]) \/ (j = 2 /\ stack[t][1].pc \in LeafPcs)
        BY <2>2, <3>3 DEF Lower, LowerOK
      <4>2. CASE Plain(stack[t][j])
        BY <1>5, <2>2, <4>2
      <4>3. CASE j = 2 /\ stack[t][1].pc \in LeafPcs
        <5>1. k > 0
          <6>1. Len(stack[t]) > 0
            BY <1>2, <1>3, <2>2, <4>3
          <6>2. stack[t][1].pc \notin {"work", "inline", "handler"}
            BY <4>3 DEF LeafPcs
          <6> QED BY <1>3, <6>1, <6>2 DEF LowerTurn
        <5>2. k = 1 /\ \A n \in 1..Len(a) : n = 1 /\ a[n].pc \in LeafPcs
          BY <4>3, <5>1 DEF LowerTurn
        <5>3. Len(a) = 0 \/ Len(a) = 1
          <6>1. PICK m \in Nat : m = Len(a)
            BY <1>3
          <6>2. m > 1 => 2 \in 1..m
            BY <6>1
          <6>3. 2 \notin 1..m
            BY <5>2, <6>1
          <6>4. m = 0 \/ m = 1
            BY <6>1, <6>2, <6>3
          <6> QED BY <6>1, <6>4
        <5>4. Len(a) = 1 /\ i = 2
          BY <1>1, <3>1, <4>3, <5>2, <5>3
        <5>5. stack'[t][1] = a[1] /\ a[1].pc \in LeafPcs
          <6>1. 1 \in 1..Len(stack'[t])
            BY <1>1, <1>2, <1>3, <2>2
          <6> QED BY <5>2, <5>4, <6>1 DEF Moves
        <5> QED BY <2>2, <5>4, <5>5
      <4> QED BY <4>1, <4>2, <4>3
    <3> QED BY <1>5, <3>2, <3>3
  <2> QED BY <2>1, <2>2
<1> QED BY <1>2, <1>4, <1>5, Comes

\* What CloseInv says of a frame in the stack of u.
LEMMA FrameFacts ==
  ASSUME CloseInv, NEW u \in AllThreads, NEW i \in DOMAIN stack[u], NEW f, f = stack[u][i]
  PROVE  /\ f \in FrameSet /\ f.c \in Contexts /\ FrameOK(u, f) /\ StageOK(f)
         /\ f.pc \in ClosingPcs => "PreparingForClosing" \in flags[f.c]
         /\ f.pc \in PastPcs => Past(f.c)
         /\ Past(f.c) /\ f.pc \in InsidePcs => u = closer[f.c] /\ f.pc \in CalmPcs
         /\ f.pc \in WorkPcs => f.x \in Works
         /\ \A c \in Contexts : Single(c) => f.c = c /\ f.x \notin Contexts
<1>1. stack[u] \in Seq(FrameSet)
  BY DEF CloseInv, HandlersInv, Shapes
<1>2. f \in FrameSet /\ f.c \in Contexts
  <2>1. f \in FrameSet
    BY <1>1
  <2> QED BY <2>1 DEF FrameSet
<1>3. FrameOK(u, f) /\ StageOK(f)
  BY DEF CloseInv, HandlersInv, FramesOK, Stages
<1>4. f.pc \in ClosingPcs => "PreparingForClosing" \in flags[f.c]
  BY <1>2, <1>3, TreeAssumption DEF FrameOK, CloseInv, HandlersInv, ClosersKnown, AllThreads
<1>5. f.pc \in PastPcs => Past(f.c)
  BY DEF Past
<1>6. Past(f.c) /\ f.pc \in InsidePcs => u = closer[f.c] /\ f.pc \in CalmPcs
  BY <1>2 DEF CloseInv, Excluded
<1>7. f.pc \in WorkPcs => f.x \in Works
  BY DEF CloseInv, WorksKnown
<1>8. \A c \in Contexts : Single(c) => f.c = c /\ f.x \notin Contexts
  BY DEF CloseInv, OneTree
<1> QED BY <1>2, <1>3, <1>4, <1>5, <1>6, <1>7, <1>8

LEMMA TopFacts ==
  ASSUME CloseInv, NEW t \in AllThreads, stack[t] # <<>>
  PROVE  /\ 1 \in DOMAIN stack[t] /\ Top(t) = stack[t][1]
         /\ Top(t) \in FrameSet /\ Top(t).c \in Contexts /\ StageOK(Top(t))
         /\ Top(t).pc \in ClosingPcs => "PreparingForClosing" \in flags[Top(t).c]
         /\ Top(t).pc \in PastPcs => Past(Top(t).c)
         /\ Past(Top(t).c) /\ Top(t).pc \in InsidePcs =>
              t = closer[Top(t).c] /\ Top(t).pc \in CalmPcs
         /\ Top(t).pc \in WorkPcs => Top(t).x \in Works
         /\ \A c \in Contexts : Single(c) => Top(t).c = c /\ Top(t).x \notin Contexts
<1>1. 1 \in DOMAIN stack[t] /\ Top(t) = stack[t][1]
  BY TopIs DEF CloseInv
<1> QED BY <1>1, FrameFacts

LEMMA FlagsKeep ==
  ASSUME CloseInv, NEW t \in AllThreads, Data(t)
  PROVE  FlagsOK'
<1>1. SUFFICES ASSUME NEW c \in Contexts
               PROVE  /\ "Closing" \in flags'[c] => "PreparingForClosing" \in flags'[c]
                      /\ "Closed" \in flags'[c] => "Closing" \in flags'[c] /\ list'[c] = <<>>
  BY DEF FlagsOK
<1>2. /\ flags[c] \subseteq flags'[c]
      /\ "Closing" \in flags'[c] => "Closing" \in flags[c] \/ TopIn(t, c, {"close.flag"})
      /\ "Closed" \in flags'[c] => "Closed" \in flags[c] \/ TopIn(t, c, {"close.closed"})
      /\ list[c] = <<>> /\ list'[c] # <<>> => TopIn(t, c, {"add.insert", "start.insert"})
  BY DEF Data
<1>3. /\ "Closing" \in flags[c] => "PreparingForClosing" \in flags[c]
      /\ "Closed" \in flags[c] => "Closing" \in flags[c] /\ list[c] = <<>>
  BY DEF CloseInv, FlagsOK
<1>4. TopIn(t, c, {"close.flag"}) => "PreparingForClosing" \in flags[c]
  BY TopFacts DEF TopIn, ClosingPcs
<1>5. TopIn(t, c, {"close.closed"}) => "Closing" \in flags[c] /\ list[c] = <<>>
  BY TopFacts DEF TopIn, StageOK, LoopPcs, EndPcs
<1>6. "Closing" \in flags[c] => ~TopIn(t, c, {"add.insert", "start.insert"})
  BY TopFacts DEF TopIn, Past, InsidePcs, CalmPcs
<1> QED BY <1>2, <1>3, <1>4, <1>5, <1>6

LEMMA StagesKeep ==
  ASSUME CloseInv, NEW t \in AllThreads, NEW k, NEW a, Turn(t, k, a)
  PROVE  Stages'
<1>1. SUFFICES ASSUME NEW v \in AllThreads, NEW i \in DOMAIN stack'[v] PROVE StageOK(stack[v][i])'
  BY DEF Stages
<1>0. Shapes /\ Moves(t, k, a) /\ Data(t)
  BY DEF CloseInv, HandlersInv, Turn
<1>2. ASSUME NEW f \in FrameSet, StageOK(f)
      PROVE  /\ f.pc \in LoopPcs \cup EndPcs => "Closing" \in flags'[f.c]
             /\ f.pc \in EndPcs => list'[f.c] = <<>>
  <2>1. PICK c \in Contexts : c = f.c
    BY DEF FrameSet
  <2>2. "Closing" \in flags[c] => ~TopIn(t, c, {"add.insert", "start.insert"})
    BY TopFacts DEF TopIn, Past, InsidePcs, CalmPcs
  <2> QED BY <1>0, <1>2, <2>1, <2>2 DEF Data, StageOK
<1>3. CASE v = t /\ i \in 1..Len(a) /\ stack'[v][i] = a[i]
  <2>1. PICK f : f = a[i]
    OBVIOUS
  <2>2. FrameTurn(t, k, f)
    BY <1>3, <2>1 DEF Turn
  <2>3. ASSUME NEW P, After(t, k, f, P)
        PROVE  /\ stack[t][k] \in FrameSet /\ StageOK(stack[t][k])
               /\ stack[t][k].c = f.c /\ stack[t][k].pc \in P
    <3>1. k \in DOMAIN stack[t]
      BY <1>0, <2>3 DEF After, Moves, Shapes
    <3> QED BY <2>3, <3>1, FrameFacts DEF After
  <2>4. After(t, k, f, LoopPcs \cup EndPcs) => "Closing" \in flags'[f.c]
    <3> SUFFICES ASSUME After(t, k, f, LoopPcs \cup EndPcs) PROVE "Closing" \in flags'[f.c]
      OBVIOUS
    <3> QED BY <1>2, <2>3
  <2>5. After(t, k, f, EndPcs) => list'[f.c] = <<>>
    <3> SUFFICES ASSUME After(t, k, f, EndPcs) PROVE list'[f.c] = <<>>
      OBVIOUS
    <3> QED BY <1>2, <2>3
  <2>6. StageOK(f)'
    BY <2>2, <2>4, <2>5 DEF FrameTurn, StageOK
  <2> QED BY <1>3, <2>1, <2>6
<1>4. ASSUME NEW j \in DOMAIN stack[v], stack'[v][i] = stack[v][j]
      PROVE  StageOK(stack[v][i])'
  <2>1. PICK f : f = stack[v][j]
    OBVIOUS
  <2>2. f \in FrameSet /\ StageOK(f)
    BY <2>1, FrameFacts
  <2>3. StageOK(f)'
    BY <1>2, <2>2 DEF StageOK
  <2> QED BY <1>4, <2>1, <2>3
<1> QED BY <1>0, <1>3, <1>4, Comes

LEMMA ExcludedKeeps ==
  ASSUME CloseInv, HandlersInv', FlagsOK', NEW t \in AllThreads, NEW k, NEW a, Turn(t, k, a)
  PROVE  Excluded'
<1>0. Shapes /\ Moves(t, k, a) /\ Data(t) /\ \A i \in 1..Len(a) : FrameTurn(t, k, a[i])
  BY DEF CloseInv, HandlersInv, Turn
<1>1. SUFFICES ASSUME NEW c \in Contexts, Past(c)', NEW v \in AllThreads, NEW i \in DOMAIN stack'[v],
                      stack'[v][i].c = c, stack'[v][i].pc \in InsidePcs
               PROVE  v = closer'[c] /\ stack'[v][i].pc \in CalmPcs
  BY DEF Excluded
<1>2. "PreparingForClosing" \in flags'[c]
  <2>1. CASE "Closing" \in flags'[c]
    BY <2>1 DEF FlagsOK
  <2>2. ASSUME NEW u \in AllThreads, NEW j \in DOMAIN stack'[u],
               stack'[u][j].c = c, stack'[u][j].pc \in PastPcs
        PROVE  "PreparingForClosing" \in flags'[c]
    <3>1. closer'[c] = u
      BY <2>2 DEF HandlersInv, FramesOK, FrameOK, PastPcs
    <3>2. u # None
      BY TreeAssumption DEF AllThreads
    <3> QED BY <3>1, <3>2 DEF HandlersInv, ClosersKnown
  <2> QED BY <1>1, <2>1, <2>2 DEF Past
<1>3. ASSUME NEW f, NEW P, After(t, k, f, P)
      PROVE  k \in DOMAIN stack[t] /\ stack[t][k].c = f.c /\ stack[t][k].pc \in P
  BY <1>0, <1>3 DEF After, Moves, Shapes
<1>4. Past(c) \/ OnlyHere(t, c)
  <2>1. CASE "Closing" \in flags'[c]
    <3>1. CASE "Closing" \in flags[c]
      BY <3>1 DEF Past
    <3>2. CASE TopIn(t, c, {"close.flag"})
      BY <3>2, TopFacts DEF TopIn, PastPcs, ClosingPcs
    <3> QED BY <1>0, <2>1, <3>1, <3>2 DEF Data
  <2>2. ASSUME NEW u \in AllThreads, NEW j \in DOMAIN stack'[u],
               stack'[u][j].c = c, stack'[u][j].pc \in PastPcs
        PROVE  Past(c) \/ OnlyHere(t, c)
    <3>1. CASE u = t /\ j \in 1..Len(a) /\ stack'[u][j] = a[j]
      <4>1. PICK f : f = a[j]
        OBVIOUS
      <4>2. f.c = c /\ f.pc \in PastPcs /\ FrameTurn(t, k, f)
        BY <1>0, <2>2, <3>1, <4>1
      <4>3. CASE OnlyHere(t, f.c)
        BY <4>2, <4>3
      <4>4. CASE After(t, k, f, PastPcs)
        BY <1>3, <4>2, <4>4 DEF Past
      <4> QED BY <4>2, <4>3, <4>4 DEF FrameTurn
    <3>2. ASSUME NEW n \in DOMAIN stack[u], stack'[u][j] = stack[u][n]
          PROVE  Past(c)
      BY <2>2, <3>2 DEF Past
    <3> QED BY <1>0, <3>1, <3>2, Comes
  <2> QED BY <1>1, <2>1, <2>2 DEF Past
<1>5. ASSUME NEW u \in AllThreads, NEW j \in DOMAIN stack[u],
             stack[u][j].c = c, stack[u][j].pc \in InsidePcs
      PROVE  u = closer'[c] /\ stack[u][j].pc \in CalmPcs /\ closer[c] # None
  <2>1. u = closer[c] /\ stack[u][j].pc \in CalmPcs
    BY <1>4, <1>5, FrameFacts DEF OnlyHere
  <2>2. closer[c] # None
    BY <2>1, TreeAssumption DEF AllThreads
  <2> QED BY <1>0, <2>1, <2>2 DEF Data
<1>6. CASE v = t /\ i \in 1..Len(a) /\ stack'[v][i] = a[i]
  <2>1. PICK f : f = a[i]
    OBVIOUS
  <2>2. f.c = c /\ f.pc \in InsidePcs /\ FrameTurn(t, k, f)
    BY <1>0, <1>1, <1>6, <2>1
  <2>3. After(t, k, f, InsidePcs) /\ (After(t, k, f, CalmPcs) => f.pc \in CalmPcs)
    BY <1>2, <2>2 DEF FrameTurn
  <2>4. k \in DOMAIN stack[t] /\ stack[t][k].c = c /\ stack[t][k].pc \in InsidePcs
    BY <1>3, <2>2, <2>3
  <2>5. t = closer'[c] /\ stack[t][k].pc \in CalmPcs
    BY <1>5, <2>4
  <2>6. After(t, k, f, CalmPcs)
    BY <2>2, <2>3, <2>5 DEF After
  <2> QED BY <1>6, <2>1, <2>3, <2>5, <2>6
<1>7. ASSUME NEW j \in DOMAIN stack[v], stack'[v][i] = stack[v][j]
      PROVE  v = closer'[c] /\ stack'[v][i].pc \in CalmPcs
  BY <1>1, <1>5, <1>7
<1> QED BY <1>0, <1>6, <1>7, Comes

LEMMA WorksKeep ==
  ASSUME CloseInv, NEW t \in AllThreads, NEW k, NEW a, Turn(t, k, a)
  PROVE  WorksKnown'
<1>0. Shapes /\ Moves(t, k, a) /\ QueueTurn /\ \A i \in 1..Len(a) : FrameTurn(t, k, a[i])
  BY DEF CloseInv, HandlersInv, Turn
<1>1. ASSUME NEW v \in AllThreads, NEW i \in DOMAIN stack'[v], stack'[v][i].pc \in WorkPcs
      PROVE  stack'[v][i].x \in Works
  <2>1. CASE v = t /\ i \in 1..Len(a) /\ stack'[v][i] = a[i]
    BY <1>0, <1>1, <2>1 DEF FrameTurn
  <2>2. ASSUME NEW j \in DOMAIN stack[v], stack'[v][i] = stack[v][j]
        PROVE  stack'[v][i].x \in Works
    BY <1>1, <2>2 DEF CloseInv, WorksKnown
  <2> QED BY <1>0, <2>1, <2>2, Comes
<1> QED BY <1>0, <1>1 DEF WorksKnown, QueueTurn

LEMMA TreeKeeps ==
  ASSUME CloseInv, NEW t \in AllThreads, NEW k, NEW a, Turn(t, k, a)
  PROVE  OneTree'
<1>0. /\ Shapes /\ Moves(t, k, a) /\ QueueTurn /\ Data(t)
      /\ \A i \in 1..Len(a) : FrameTurn(t, k, a[i])
  BY DEF CloseInv, HandlersInv, Turn
<1>1. SUFFICES ASSUME NEW c \in Contexts, Single(c)
      PROVE  /\ \A v \in AllThreads : \A i \in DOMAIN stack'[v] :
                  stack'[v][i].c = c /\ stack'[v][i].x \notin Contexts
             /\ \A n \in DOMAIN queue' : queue'[n].ctx = c
             /\ \A d \in Contexts : \A n \in DOMAIN list'[d] : list'[d][n] \notin Contexts
  BY <1>0 DEF OneTree, Single, Data
<1>2. ASSUME NEW v \in AllThreads, NEW i \in DOMAIN stack'[v]
      PROVE  stack'[v][i].c = c /\ stack'[v][i].x \notin Contexts
  <2>1. CASE v = t /\ i \in 1..Len(a) /\ stack'[v][i] = a[i]
    BY <1>0, <1>1, <2>1 DEF FrameTurn
  <2>2. ASSUME NEW j \in DOMAIN stack[v], stack'[v][i] = stack[v][j]
        PROVE  stack'[v][i].c = c /\ stack'[v][i].x \notin Contexts
    BY <1>1, <2>2 DEF CloseInv, OneTree
  <2> QED BY <1>0, <2>1, <2>2, Comes
<1>3. ASSUME NEW d \in Contexts, NEW n \in DOMAIN list'[d], list'[d][n] \in Contexts PROVE FALSE
  <2>1. ~\E m \in DOMAIN list[d] : list[d][m] = list'[d][n]
    BY <1>1, <1>3 DEF CloseInv, OneTree
  <2>2. TopIn(t, d, {"add.insert", "start.insert"}) /\ Top(t).x = list'[d][n]
    BY <1>0, <1>3, <2>1 DEF Data
  <2>3. stack[t] # <<>> /\ Top(t).x \in Contexts
    BY <1>3, <2>2 DEF TopIn
  <2> QED BY <1>1, <2>3, TopFacts
<1> QED BY <1>0, <1>1, <1>2, <1>3 DEF QueueTurn

LEMMA OutsideKeeps ==
  ASSUME CloseInv, NEW t \in AllThreads, NEW k, NEW a, Turn(t, k, a)
  PROVE  OutsideWorks'
<1>0. /\ Shapes /\ Moves(t, k, a) /\ Data(t)
      /\ \A i \in 1..Len(a) : FrameTurn(t, k, a[i])
      /\ \A i, j \in 1..Len(a) : i < j /\ a[i].pc \in CallerPcs => a[j].pc \notin ItemPcs
  BY DEF CloseInv, HandlersInv, Turn
<1>1. SUFFICES ASSUME NoWorkCloses, NEW v \in AllThreads,
                      NEW i \in DOMAIN stack'[v], NEW j \in DOMAIN stack'[v],
                      i < j, stack'[v][i].pc \in CallerPcs
               PROVE  stack'[v][j].pc \notin ItemPcs
  BY <1>0 DEF OutsideWorks, NoWorkCloses, Unworked, Data
<1>2. \A u \in AllThreads : Unworked(stack[u])
  BY <1>1 DEF CloseInv, OutsideWorks
<1>3. k \in Nat /\ Len(a) \in Nat /\ k <= Len(stack[t]) /\ stack[t] \in Seq(FrameSet)
  BY <1>0 DEF Moves, Shapes
<1>4. CASE v = t /\ j \in 1..Len(a) /\ stack'[v][j] = a[j]
  <2>1. i \in 1..Len(a) /\ stack'[v][i] = a[i]
    <3>1. i \in Nat /\ i >= 1 /\ i <= Len(a) /\ i \in 1..Len(stack'[t])
      BY <1>0, <1>1, <1>3, <1>4, Comes
    <3> QED BY <1>0, <1>3, <1>4, <3>1 DEF Moves
  <2> QED BY <1>0, <1>1, <1>4, <2>1
<1>5. ASSUME NEW n \in DOMAIN stack[v], n \in Nat, n >= 1, stack'[v][j] = stack[v][n],
             IF v = t THEN n > k /\ j > Len(a) /\ j = n - k + Len(a) ELSE n = j
      PROVE  stack'[v][j].pc \notin ItemPcs
  <2>1. CASE v = t /\ i \in 1..Len(a) /\ stack'[v][i] = a[i]
    <3>1. PICK f : f = a[i]
      OBVIOUS
    <3>2. f.pc \in CallerPcs /\ FrameTurn(t, k, f) /\ n > k /\ n \in DOMAIN stack[t]
      BY <1>0, <1>1, <1>5, <2>1, <3>1
    <3>3. CASE k > 0 /\ stack[t][k].pc \in CallerPcs
      <4>1. k \in DOMAIN stack[t]
        BY <1>3, <3>3
      <4> QED BY <1>2, <1>5, <2>1, <3>2, <3>3, <4>1 DEF Unworked
    <3>4. CASE k = 0 /\ (Len(stack[t]) > 0 /\ NoWorkCloses => stack[t][1].pc = "handler")
      <4>1. Len(stack[t]) > 0 /\ 1 \in DOMAIN stack[t] /\ (n = 1 \/ n > 1)
        BY <1>3, <1>5, <3>2
      <4>2. stack[t][1].pc = "handler"
        BY <1>1, <3>4, <4>1
      <4>3. CASE n = 1
        BY <1>5, <2>1, <4>2, <4>3 DEF ItemPcs
      <4>4. CASE n > 1
        BY <1>2, <1>5, <2>1, <3>2, <4>1, <4>2, <4>4 DEF Unworked, CallerPcs
      <4> QED BY <4>1, <4>3, <4>4
    <3> QED BY <3>2, <3>3, <3>4 DEF FrameTurn
  <2>2. ASSUME NEW m \in DOMAIN stack[v], m \in Nat, stack'[v][i] = stack[v][m],
               IF v = t THEN m > k /\ i > Len(a) /\ i = m - k + Len(a) ELSE m = i
        PROVE  stack'[v][j].pc \notin ItemPcs
    <3>1. m < n
      BY <1>1, <1>3, <1>5, <2>2
    <3> QED BY <1>1, <1>2, <1>5, <2>2, <3>1 DEF Unworked
  <2> QED BY <1>0, <2>1, <2>2, Comes
<1> QED BY <1>0, <1>4, <1>5, Comes

LEMMA TurnKeeps ==
  ASSUME CloseInv, HandlersInv', NEW t \in AllThreads, NEW k, NEW a, Turn(t, k, a)
  PROVE  CloseInv'
<1>1. HandlersInv /\ BlocksOK /\ Lower /\ Moves(t, k, a) /\ Counts(t, k, a) /\ LowerTurn(t, k, a) /\ Data(t)
  BY DEF CloseInv, Turn
<1>2. BlocksOK' /\ Lower'
  BY <1>1, BlocksKeep, LowerKeeps
<1>3. FlagsOK'
  BY <1>1, FlagsKeep
<1>4. Excluded' /\ Stages'
  BY <1>3, ExcludedKeeps, StagesKeep
<1>5. WorksKnown' /\ OutsideWorks' /\ OneTree'
  BY WorksKeep, OutsideKeeps, TreeKeeps
<1> QED BY <1>2, <1>3, <1>4, <1>5 DEF CloseInv

\* t makes such a step.
Turns(t) == \E k, a : Turn(t, k, a)

-----------------------------------------------------------------------------
\* The frames that go on, return, call and are pushed.

\* The frame about c goes on from q to p.
PcTurn(t, c, q, p) ==
  /\ q \in LeafPcs => p \in LeafPcs
  /\ p \in CallerPcs => q \in CallerPcs
  /\ p \in WorkPcs => q \in WorkPcs
  /\ p \in InsidePcs => \/ "PreparingForClosing" \notin flags'[c]
                        \/ q \in InsidePcs /\ (q \in CalmPcs => p \in CalmPcs)
  /\ p \in PastPcs => q \in PastPcs \/ OnlyHere(t, c)
  /\ p \in LoopPcs \cup EndPcs => q \in LoopPcs \cup EndPcs \/ "Closing" \in flags'[c]
  /\ p \in EndPcs => q \in EndPcs \/ list'[c] = <<>>

\* The frame keeps its handler, work or child, or takes one from the list.
Carries(t, g) == \/ g.x = Top(t).x
                 \/ g.pc \notin WorkPcs /\ \A c \in Contexts : Single(c) => g.x \notin Contexts

LEMMA OnFrame ==
  ASSUME CloseInv, NEW t \in AllThreads, stack[t] # <<>>, NEW g \in FrameSet, g.c = Top(t).c,
         Carries(t, g), PcTurn(t, Top(t).c, Top(t).pc, g.pc)
  PROVE  FrameTurn(t, 1, g)
<1>1. PICK f : f = Top(t)
  OBVIOUS
<1>2. /\ f = stack[t][1] /\ (f.pc \in WorkPcs => f.x \in Works)
      /\ \A c \in Contexts : Single(c) => f.c = c /\ f.x \notin Contexts
  BY <1>1, TopFacts
<1>3. /\ g.c = f.c /\ PcTurn(t, f.c, f.pc, g.pc)
      /\ \/ g.x = f.x
         \/ g.pc \notin WorkPcs /\ \A c \in Contexts : Single(c) => g.x \notin Contexts
  BY <1>1 DEF Carries
<1>4. \A P : After(t, 1, g, P) <=> f.pc \in P
  BY <1>2, <1>3 DEF After
<1>5. \A c \in Contexts : Single(c) => g.c = c /\ g.x \notin Contexts
  BY <1>2, <1>3
<1>6. g.pc \in WorkPcs => g.x \in Works
  BY <1>2, <1>3 DEF PcTurn
<1> QED BY <1>2, <1>3, <1>4, <1>5, <1>6 DEF FrameTurn, PcTurn

\* Only the outermost frames of the step may hold a block, and the counter says which.
Ends(t, k, a, c, q, p) ==
  /\ k > 0 => stack[t][k].c = c /\ stack[t][k].pc = q
  /\ k = 0 => q \notin BlockPcs
  /\ Len(a) > 0 => a[Len(a)].c = c /\ a[Len(a)].pc = p
  /\ Len(a) = 0 => p \notin BlockPcs
Inner(t, k, a) ==
  /\ \A i \in 1..k : i < k => stack[t][i].pc \notin BlockPcs
  /\ \A i \in 1..Len(a) : i < Len(a) => a[i].pc \notin BlockPcs
Moved(c, q, p) ==
  blocks' = [blocks EXCEPT ![c] = @ + One(p \in BlockPcs) - One(q \in BlockPcs)]

LEMMA CountsIs ==
  ASSUME CloseInv, NEW t \in AllThreads, NEW k \in Nat, NEW a, Moves(t, k, a), NEW c \in Contexts,
         NEW q, NEW p, Ends(t, k, a, c, q, p), Inner(t, k, a), Moved(c, q, p)
  PROVE  Counts(t, k, a)
<1> USE DEF Ends, Inner, Moved
<1>1. blocks \in [Contexts -> Nat]
  BY DEF CloseInv, BlocksOK
<1>2. One(p \in BlockPcs) \in {0, 1} /\ One(q \in BlockPcs) \in {0, 1}
  BY DEF One
<1>3. PICK n \in Int : n = One(p \in BlockPcs) - One(q \in BlockPcs)
  BY <1>2
<1>4. blocks' \in [Contexts -> Int] /\ blocks'[c] = blocks[c] + One(p \in BlockPcs) - One(q \in BlockPcs)
      /\ \A d \in Contexts \ {c} : blocks'[d] = blocks[d]
  <2>1. PICK m \in Int : m = blocks[c] + One(p \in BlockPcs) - One(q \in BlockPcs)
    BY <1>1, <1>2
  <2>2. blocks' = [blocks EXCEPT ![c] = m]
    BY <2>1
  <2> QED BY <1>1, <2>1, <2>2
<1>5. a \in Seq(FrameSet) /\ stack[t] \in Seq(FrameSet) /\ k <= Len(stack[t])
  BY DEF CloseInv, HandlersInv, Shapes, Moves
<1>6. ASSUME NEW d \in Contexts
      PROVE  /\ OuterOnly(stack[t], k, Blocking(d)) /\ OuterOnly(a, Len(a), Blocking(d))
             /\ Holds(a, Len(a), Blocking(d)) <=> d = c /\ p \in BlockPcs
             /\ Holds(stack[t], k, Blocking(d)) <=> d = c /\ q \in BlockPcs
  <2>1. OuterOnly(stack[t], k, Blocking(d)) /\ OuterOnly(a, Len(a), Blocking(d))
    BY DEF OuterOnly, Blocking
  <2>2. Holds(a, Len(a), Blocking(d)) <=> d = c /\ p \in BlockPcs
    <3>1. CASE Len(a) = 0
      BY <3>1 DEF Holds
    <3>2. CASE Len(a) > 0
      <4>1. a[Len(a)] \in FrameSet
        BY <1>5, <3>2
      <4> QED BY <3>2, <4>1 DEF Holds, Blocking
    <3> QED BY <1>5, <3>1, <3>2
  <2>3. Holds(stack[t], k, Blocking(d)) <=> d = c /\ q \in BlockPcs
    <3>1. CASE k = 0
      BY <3>1 DEF Holds
    <3>2. CASE k > 0
      <4>1. stack[t][k] \in FrameSet
        BY <1>5, <3>2
      <4> QED BY <3>2, <4>1 DEF Holds, Blocking
    <3> QED BY <3>1, <3>2
  <2> QED BY <2>1, <2>2, <2>3
<1>7. ASSUME NEW d \in Contexts
      PROVE  blocks'[d] = blocks[d] + One(Holds(a, Len(a), Blocking(d)))
                                    - One(Holds(stack[t], k, Blocking(d)))
  <2>1. CASE d = c
    BY <1>4, <1>6, <2>1 DEF One
  <2>2. CASE d # c
    <3>1. blocks'[d] = blocks[d] /\ blocks[d] \in Nat
      BY <1>1, <1>4, <2>2
    <3>2. ~Holds(a, Len(a), Blocking(d)) /\ ~Holds(stack[t], k, Blocking(d))
      BY <1>6, <2>2
    <3> QED BY <3>1, <3>2 DEF One
  <2> QED BY <2>1, <2>2
<1> QED BY <1>4, <1>6, <1>7 DEF Counts

SameData == /\ program' = program /\ flags' = flags /\ closer' = closer /\ list' = list

LEMMA SameDataIs == ASSUME NEW t, SameData PROVE Data(t)
BY DEF SameData, Data

LEMMA SameQueue == ASSUME CloseInv, queue' = queue PROVE QueueTurn
BY DEF CloseInv, WorksKnown, OneTree, QueueTurn

\* The top frame of t goes on as g.
LEMMA GoesOn ==
  ASSUME CloseInv, NEW t \in AllThreads, stack[t] # <<>>, NEW g \in FrameSet,
         NEW a, a = <<g>>, Moves(t, 1, a),
         g.c = Top(t).c, Carries(t, g),
         PcTurn(t, Top(t).c, Top(t).pc, g.pc), Data(t), QueueTurn,
         blocks' = [blocks EXCEPT ![Top(t).c] = @ + One(g.pc \in BlockPcs) - One(Top(t).pc \in BlockPcs)]
  PROVE  Turns(t)
<1>1. PICK f : f = Top(t)
  OBVIOUS
<1>2. f = stack[t][1] /\ f.c \in Contexts
  BY <1>1, TopFacts
<1>3. Len(a) = 1 /\ a[1] = g /\ \A i \in 1..Len(a) : i = 1 /\ a[i] = g
  BY OneIs
<1>4. Counts(t, 1, a)
  <2>1. \A i \in 1..1 : ~(i < 1)
    OBVIOUS
  <2>2. \A i \in 1..Len(a) : ~(i < Len(a))
    BY <1>3
  <2>3. blocks' = [blocks EXCEPT ![f.c] = @ + One(g.pc \in BlockPcs) - One(f.pc \in BlockPcs)]
    BY <1>1
  <2>4. Ends(t, 1, a, f.c, f.pc, g.pc)
    BY <1>1, <1>2, <1>3 DEF Ends
  <2>5. Inner(t, 1, a)
    BY <2>1, <2>2 DEF Inner
  <2>6. Moved(f.c, f.pc, g.pc)
    BY <2>3 DEF Moved
  <2> QED BY <1>2, <2>4, <2>5, <2>6, CountsIs
<1>5. FrameTurn(t, 1, g)
  BY OnFrame
<1>6. LowerTurn(t, 1, a)
  <2>1. f.pc \in LeafPcs => g.pc \in LeafPcs
    BY <1>1 DEF PcTurn
  <2> QED BY <1>2, <1>3, <2>1 DEF LowerTurn
<1>7. \A i, j \in 1..Len(a) : ~(i < j)
  BY <1>3
<1>8. Turn(t, 1, a)
  BY <1>3, <1>4, <1>5, <1>6, <1>7 DEF Turn
<1> QED BY <1>8 DEF Turns

\* The top frame of t returns.
LEMMA GoesBack ==
  ASSUME CloseInv, NEW t \in AllThreads, stack[t] # <<>>, Return(t),
         Data(t), QueueTurn,
         blocks' = [blocks EXCEPT ![Top(t).c] = @ - One(Top(t).pc \in BlockPcs)]
  PROVE  Turns(t)
<1>1. PICK f : f = Top(t)
  OBVIOUS
<1>2. f = stack[t][1] /\ f.c \in Contexts
  BY <1>1, TopFacts
<1>3. PICK a : a = <<>>
  OBVIOUS
<1>4. Moves(t, 1, a) /\ Len(a) = 0 /\ \A i \in 1..Len(a) : FALSE
  BY <1>3, ReturnMoves DEF CloseInv
<1>5. Counts(t, 1, a)
  <2>1. \A i \in 1..1 : ~(i < 1)
    OBVIOUS
  <2>2. PICK p : p = "none"
    OBVIOUS
  <2>3. p \notin BlockPcs
    BY <2>2 DEF BlockPcs, InsidePcs
  <2>4. blocks \in [Contexts -> Nat] /\ One(f.pc \in BlockPcs) \in {0, 1} /\ One(p \in BlockPcs) = 0
    BY <2>3 DEF CloseInv, BlocksOK, One
  <2>5. blocks' = [blocks EXCEPT ![f.c] = blocks[f.c] - One(f.pc \in BlockPcs)]
    BY <1>1
  <2>6. blocks[f.c] - One(f.pc \in BlockPcs) = blocks[f.c] + One(p \in BlockPcs) - One(f.pc \in BlockPcs)
    BY <1>2, <2>4
  <2>7. blocks' = [blocks EXCEPT ![f.c] = @ + One(p \in BlockPcs) - One(f.pc \in BlockPcs)]
    BY <2>5, <2>6
  <2>8. Ends(t, 1, a, f.c, f.pc, p)
    BY <1>2, <1>4, <2>3 DEF Ends
  <2>9. Inner(t, 1, a)
    BY <1>4, <2>1 DEF Inner
  <2>10. Moved(f.c, f.pc, p)
    BY <2>7 DEF Moved
  <2> QED BY <1>2, <1>4, <2>8, <2>9, <2>10, CountsIs
<1>6. LowerTurn(t, 1, a)
  BY <1>4 DEF LowerTurn
<1>7. Turn(t, 1, a)
  BY <1>4, <1>5, <1>6 DEF Turn
<1> QED BY <1>7 DEF Turns

\* The top frame of t calls h and goes on as g when h returns.
Called(t, h, g) ==
  /\ h \in FrameSet /\ h.pc \in {"inline", "add", "remove", "handler", "child.anchor", "close"}
  /\ h.pc = "inline" => h.x \in Works
  /\ h.pc \in CallerPcs => Top(t).pc \in CallerPcs /\ g.pc \notin ItemPcs
  /\ Plain(g) \/ h.pc \in LeafPcs
  /\ Top(t).pc \notin LeafPcs
  /\ \A c \in Contexts : Single(c) => h.c = c /\ h.x \notin Contexts

LEMMA CallTurns ==
  ASSUME CloseInv, NEW t \in AllThreads, stack[t] # <<>>,
         NEW p \in Pcs, NEW h, NEW g, g = [Top(t) EXCEPT !.pc = p], Enter(t, p, h),
         Called(t, h, g), PcTurn(t, Top(t).c, Top(t).pc, p), Data(t), QueueTurn,
         blocks' = [blocks EXCEPT ![Top(t).c] = @ + One(p \in BlockPcs) - One(Top(t).pc \in BlockPcs)]
  PROVE  Turns(t)
<1>1. PICK f : f = Top(t)
  OBVIOUS
<1>2. f = stack[t][1] /\ f.c \in Contexts /\ f \in FrameSet
  BY <1>1, TopFacts
<1>3. g \in FrameSet /\ g.pc = p /\ g.c = f.c /\ g.x = f.x /\ h \in FrameSet
  BY <1>1, <1>2, FrameIs DEF Called
<1>4. PICK a : a = <<h, g>>
  OBVIOUS
<1>5. Moves(t, 1, a) /\ Len(a) = 2 /\ a[1] = h /\ a[2] = g
  BY <1>3, <1>4, EnterMoves, TwoIs DEF CloseInv
<1>6. \A i \in 1..Len(a) : (i = 1 /\ a[i] = h) \/ (i = 2 /\ a[i] = g)
  BY <1>5
<1>7. h.pc \notin BlockPcs /\ h.pc \notin InsidePcs \cup PastPcs \cup LoopPcs \cup EndPcs
      /\ (h.pc \in WorkPcs => h.pc = "inline")
  BY DEF Called, BlockPcs, InsidePcs, PastPcs, ClosingPcs, LoopPcs, EndPcs, WorkPcs
<1>8. Counts(t, 1, a)
  <2>1. \A i \in 1..1 : ~(i < 1)
    OBVIOUS
  <2>2. \A i \in 1..Len(a) : i < Len(a) => a[i].pc \notin BlockPcs
    BY <1>5, <1>6, <1>7
  <2>3. blocks' = [blocks EXCEPT ![f.c] = @ + One(p \in BlockPcs) - One(f.pc \in BlockPcs)]
    BY <1>1
  <2>4. Ends(t, 1, a, f.c, f.pc, p)
    BY <1>2, <1>3, <1>5 DEF Ends
  <2>5. Inner(t, 1, a)
    BY <2>1, <2>2 DEF Inner
  <2>6. Moved(f.c, f.pc, p)
    BY <2>3 DEF Moved
  <2> QED BY <1>2, <1>5, <2>4, <2>5, <2>6, CountsIs
<1>9. FrameTurn(t, 1, g)
  BY <1>1, <1>3, OnFrame DEF Carries
<1>10. FrameTurn(t, 1, h)
  <2>1. h.pc \in CallerPcs => stack[t][1].pc \in CallerPcs
    BY <1>1, <1>2 DEF Called
  <2>2. h.pc \in WorkPcs => h.x \in Works
    BY <1>7 DEF Called
  <2> QED BY <1>7, <2>1, <2>2 DEF FrameTurn, Called
<1>11. LowerTurn(t, 1, a)
  <2>1. stack[t][1].pc \notin LeafPcs /\ (Plain(g) \/ h.pc \in LeafPcs)
    BY <1>1, <1>2 DEF Called
  <2> QED BY <1>5, <1>6, <2>1 DEF LowerTurn
<1>12. \A i, j \in 1..Len(a) : i < j /\ a[i].pc \in CallerPcs => a[j].pc \notin ItemPcs
  <2>1. h.pc \in CallerPcs => g.pc \notin ItemPcs
    BY DEF Called
  <2>2. SUFFICES ASSUME NEW i \in 1..Len(a), NEW j \in 1..Len(a), i < j, a[i].pc \in CallerPcs
                 PROVE  a[j].pc \notin ItemPcs
    OBVIOUS
  <2>3. i = 1 /\ j = 2
    BY <1>5, <2>2
  <2> QED BY <1>5, <2>1, <2>2, <2>3
<1>13. Turn(t, 1, a)
  BY <1>5, <1>6, <1>8, <1>9, <1>10, <1>11, <1>12 DEF Turn
<1> QED BY <1>13 DEF Turns

\* Client code, or the executor, pushes the frames a: none of them is inside.
PushedPcs == {"exec", "add", "start", "child", "remove", "close", "destroy", "run"}

LEMMA PushTurns ==
  ASSUME CloseInv, NEW t \in AllThreads, NEW a, Moves(t, 0, a),
         Len(stack[t]) > 0 => stack[t][1].pc \in {"work", "inline", "handler"},
         \A i \in 1..Len(a) :
           /\ i = 1 \/ i = 2
           /\ a[i].pc \in PushedPcs
           /\ a[i].pc \in WorkPcs => a[i].x \in Works
           /\ a[i].pc \in CallerPcs /\ Len(stack[t]) > 0 /\ NoWorkCloses => stack[t][1].pc = "handler"
           /\ \A c \in Contexts : Single(c) => a[i].c = c /\ a[i].x \notin Contexts,
         Data(t), QueueTurn, blocks' = blocks, NEW c \in Contexts
  PROVE  Turns(t)
<1>1. \A i \in 1..Len(a) : a[i].pc \notin BlockPcs \cup InsidePcs \cup PastPcs \cup LoopPcs \cup EndPcs
                                          \cup ItemPcs
  BY DEF PushedPcs, BlockPcs, InsidePcs, PastPcs, ClosingPcs, LoopPcs, EndPcs, ItemPcs
<1>2. Len(a) \in Nat
  BY DEF Moves
<1>3. Counts(t, 0, a)
  <2>1. blocks \in [Contexts -> Nat]
    BY DEF CloseInv, BlocksOK
  <2>2. ASSUME NEW d \in Contexts
        PROVE  /\ OuterOnly(stack[t], 0, Blocking(d)) /\ OuterOnly(a, Len(a), Blocking(d))
               /\ ~Holds(a, Len(a), Blocking(d)) /\ ~Holds(stack[t], 0, Blocking(d))
    <3>1. \A i \in 1..Len(a) : a[i] \notin Blocking(d)
      BY <1>1 DEF Blocking
    <3>2. Len(a) > 0 => Len(a) \in 1..Len(a)
      BY <1>2
    <3>3. \A i \in 1..0 : FALSE
      OBVIOUS
    <3> QED BY <3>1, <3>2, <3>3 DEF OuterOnly, Holds
  <2> QED BY <2>1, <2>2 DEF Counts, One
<1>4. \A i \in 1..Len(a) : FrameTurn(t, 0, a[i])
  BY <1>1 DEF FrameTurn
<1>5. LowerTurn(t, 0, a)
  <2>1. \A i \in 1..Len(a) : Plain(a[i])
    BY <1>1 DEF Plain
  <2> QED BY <2>1 DEF LowerTurn
<1>6. Turn(t, 0, a)
  BY <1>1, <1>3, <1>4, <1>5 DEF Turn
<1> QED BY <1>6 DEF Turns

-----------------------------------------------------------------------------
\* The steps, one by one.

LEMMA MovedIs ==
  ASSUME CloseInv, NEW c \in Contexts, NEW q, NEW p,
         \/ blocks' = blocks /\ (q \in BlockPcs <=> p \in BlockPcs)
         \/ blocks' = [blocks EXCEPT ![c] = @ + 1] /\ q \notin BlockPcs /\ p \in BlockPcs
         \/ blocks' = [blocks EXCEPT ![c] = @ - 1] /\ q \in BlockPcs /\ p \notin BlockPcs
  PROVE  Moved(c, q, p)
<1>1. blocks \in [Contexts -> Nat]
  BY DEF CloseInv, BlocksOK
<1>2. PICK n \in Nat : n = blocks[c]
  BY <1>1
<1>3. CASE blocks' = blocks /\ (q \in BlockPcs <=> p \in BlockPcs)
  <2>1. n + One(p \in BlockPcs) - One(q \in BlockPcs) = n
    BY <1>2, <1>3 DEF One
  <2>2. blocks' = [blocks EXCEPT ![c] = n]
    BY <1>1, <1>2, <1>3
  <2> QED BY <1>2, <2>1, <2>2 DEF Moved
<1>4. CASE blocks' = [blocks EXCEPT ![c] = @ + 1] /\ q \notin BlockPcs /\ p \in BlockPcs
  <2>1. n + One(p \in BlockPcs) - One(q \in BlockPcs) = n + 1
    BY <1>2, <1>4 DEF One
  <2>2. blocks' = [blocks EXCEPT ![c] = n + 1]
    BY <1>2, <1>4
  <2> QED BY <1>2, <2>1, <2>2 DEF Moved
<1>5. CASE blocks' = [blocks EXCEPT ![c] = @ - 1] /\ q \in BlockPcs /\ p \notin BlockPcs
  <2>1. n + One(p \in BlockPcs) - One(q \in BlockPcs) = n - 1
    BY <1>2, <1>5 DEF One
  <2>2. blocks' = [blocks EXCEPT ![c] = n - 1]
    BY <1>2, <1>5
  <2> QED BY <1>2, <2>1, <2>2 DEF Moved
<1> QED BY <1>3, <1>4, <1>5

LEMMA GotoTurns ==
  ASSUME CloseInv, NEW t \in AllThreads, stack[t] # <<>>, NEW p \in Pcs, Goto(t, p),
         NEW c, NEW q, c = Top(t).c, q = Top(t).pc, PcTurn(t, c, q, p), Data(t), QueueTurn,
         Moved(c, q, p)
  PROVE  Turns(t)
<1>1. PICK g : g = [Top(t) EXCEPT !.pc = p]
  OBVIOUS
<1>2. Top(t) \in FrameSet
  BY TopFacts
<1>3. g \in FrameSet /\ g.pc = p /\ g.c = Top(t).c /\ g.x = Top(t).x
  BY <1>1, <1>2, FrameIs
<1>4. PICK a : a = <<g>>
  OBVIOUS
<1>5. Moves(t, 1, a)
  BY <1>1, <1>4, GotoMoves DEF CloseInv, HandlersInv
<1>6. PcTurn(t, Top(t).c, Top(t).pc, g.pc)
  BY <1>3
<1>7. blocks' = [blocks EXCEPT ![Top(t).c] = @ + One(g.pc \in BlockPcs) - One(Top(t).pc \in BlockPcs)]
  BY <1>3 DEF Moved
<1>8. Carries(t, g)
  BY <1>3 DEF Carries
<1> QED BY <1>3, <1>4, <1>5, <1>6, <1>7, <1>8, GoesOn

LEMMA BlockCloses ==
  ASSUME CloseInv, NEW t \in AllThreads,
         \/ BlockClose(t, "exec", "exec.post") \/ BlockClose(t, "add", "add.insert")
         \/ BlockClose(t, "start", "start.insert") \/ BlockClose(t, "child", "child.new")
  PROVE  Turns(t)
<1>1. PICK c, q, p : c = Top(t).c /\ q = Top(t).pc /\ Goto(t, p)
          /\ \/ q = "exec" /\ p = IF "PreparingForClosing" \in flags[c] THEN "exec.undo" ELSE "exec.post"
             \/ q = "add" /\ p = IF "PreparingForClosing" \in flags[c] THEN "undo" ELSE "add.insert"
             \/ q = "start" /\ p = IF "PreparingForClosing" \in flags[c] THEN "undo" ELSE "start.insert"
             \/ q = "child" /\ p = IF "PreparingForClosing" \in flags[c] THEN "undo" ELSE "child.new"
  BY DEF BlockClose, At
<1>2. /\ stack[t] # <<>> /\ SameData /\ queue' = queue
      /\ blocks' = [blocks EXCEPT ![c] = @ + 1]
  BY <1>1 DEF BlockClose, At, SameData, nodes, exec, history, clients
<1>3. c \in Contexts /\ flags' = flags
  BY <1>1, <1>2, TopFacts DEF SameData
<1>4. PcTurn(t, c, q, p)
  BY <1>1, <1>3 DEF PcTurn, LeafPcs, CallerPcs, WorkPcs, InsidePcs, PastPcs, ClosingPcs, LoopPcs, EndPcs
<1>5. p \in Pcs /\ Moved(c, q, p)
  <2>1. q \notin BlockPcs /\ p \in BlockPcs /\ p \in Pcs
    BY <1>1 DEF BlockPcs, InsidePcs, Pcs, AddPcs, ChildPcs, KnowPcs
  <2> QED BY <1>2, <1>3, <2>1, MovedIs
<1> QED BY <1>1, <1>2, <1>4, <1>5, GotoTurns, SameDataIs, SameQueue

\* Steps that go on within the call and change no flag, list or queue.
LEMMA SimpleGotos ==
  ASSUME CloseInv, NEW t \in AllThreads,
         RunBlock(t) \/ RunUndo(t) \/ StartSucceeds(t) \/ Anchor(t)
  PROVE  Turns(t)
<1>1. PICK c, q, p : /\ c = Top(t).c /\ q = Top(t).pc /\ Goto(t, p) /\ stack[t] # <<>>
          /\ \/ /\ q = "run" /\ p = IF "PreparingForClosing" \in flags[c] THEN "run.undo" ELSE "work"
                /\ blocks' = [blocks EXCEPT ![c] = @ + 1]
             \/ /\ q = "run.undo" /\ p = "run.drop"
                /\ blocks' = [blocks EXCEPT ![c] = @ - 1]
             \/ q = "start.fn" /\ p = "unblock" /\ blocks' = blocks
             \/ q = "child.anchor" /\ p = "child.done" /\ blocks' = blocks
  BY DEF RunBlock, RunUndo, StartSucceeds, Anchor, At, words
<1>2. SameData /\ queue' = queue
  BY DEF RunBlock, RunUndo, StartSucceeds, Anchor, SameData, words, nodes, exec, history, clients
<1>3. c \in Contexts /\ flags' = flags
  BY <1>1, <1>2, TopFacts DEF SameData
<1>4. PcTurn(t, c, q, p)
  BY <1>1, <1>3 DEF PcTurn, LeafPcs, CallerPcs, WorkPcs, InsidePcs, PastPcs, ClosingPcs, LoopPcs,
                    EndPcs, CalmPcs
<1>5. p \in Pcs /\ Moved(c, q, p)
  <2>1. p \in Pcs
    BY <1>1 DEF Pcs
  <2>2. \/ blocks' = blocks /\ (q \in BlockPcs <=> p \in BlockPcs)
        \/ blocks' = [blocks EXCEPT ![c] = @ + 1] /\ q \notin BlockPcs /\ p \in BlockPcs
        \/ blocks' = [blocks EXCEPT ![c] = @ - 1] /\ q \in BlockPcs /\ p \notin BlockPcs
    BY <1>1 DEF BlockPcs, InsidePcs
  <2> QED BY <1>3, <2>1, <2>2, MovedIs
<1> QED BY <1>1, <1>2, <1>4, <1>5, GotoTurns, SameDataIs, SameQueue

LEMMA PostTurns ==
  ASSUME CloseInv, NEW t \in AllThreads, Post(t)
  PROVE  Turns(t)
<1>1. PICK c, q, p : c = Top(t).c /\ q = Top(t).pc /\ p = "exec.unblock"
  OBVIOUS
<1>2. /\ stack[t] # <<>> /\ q = "exec.post" /\ Goto(t, p) /\ SameData /\ blocks' = blocks
      /\ queue' = Append(queue, [ctx |-> c, work |-> Top(t).x])
  BY <1>1 DEF Post, At, SameData, words, nodes, history, clients
<1>3. /\ c \in Contexts /\ Top(t).x \in Works /\ \A d \in Contexts : Single(d) => c = d
  <2>1. q \in WorkPcs
    BY <1>2 DEF WorkPcs
  <2> QED BY <1>1, <1>2, <2>1, TopFacts
<1>4. PcTurn(t, c, q, p)
  BY <1>1, <1>2 DEF PcTurn, LeafPcs, CallerPcs, WorkPcs, InsidePcs, PastPcs, ClosingPcs, LoopPcs,
                    EndPcs, CalmPcs
<1>5. p \in Pcs /\ Moved(c, q, p)
  <2>1. q \in BlockPcs /\ p \in BlockPcs /\ p \in Pcs
    BY <1>1, <1>2 DEF BlockPcs, InsidePcs, Pcs
  <2> QED BY <1>2, <1>3, <2>1, MovedIs
<1>6. QueueTurn
  <2>1. PICK e : e = [ctx |-> c, work |-> Top(t).x]
    OBVIOUS
  <2>2. e.ctx = c /\ e.work = Top(t).x
    BY <2>1
  <2>3. queue \in Seq(Closures)
    BY DEF CloseInv, HandlersInv, Shapes
  <2>4. SUFFICES ASSUME NEW n \in DOMAIN queue'
                 PROVE  queue'[n].work \in Works /\ \A d \in Contexts : Single(d) => queue'[n].ctx = d
    BY DEF QueueTurn
  <2>5. (n \in DOMAIN queue /\ queue'[n] = queue[n]) \/ queue'[n] = e
    BY <1>2, <2>1, <2>3, <2>4
  <2> QED BY <1>3, <2>2, <2>5 DEF CloseInv, WorksKnown, OneTree
<1> QED BY <1>1, <1>2, <1>4, <1>5, <1>6, GotoTurns, SameDataIs

LEMMA ResetTurns ==
  ASSUME CloseInv, NEW t \in AllThreads, ResetExecutor(t)
  PROVE  Turns(t)
<1>1. PICK c, q, p : c = Top(t).c /\ q = Top(t).pc /\ p = "close.closed"
  OBVIOUS
<1>2. /\ stack[t] # <<>> /\ q = "close.reset" /\ Goto(t, p) /\ SameData /\ blocks' = blocks
      /\ queue' = <<>> \/ queue' = queue
  BY <1>1 DEF ResetExecutor, At, SameData, nodes, history, clients
<1>3. c \in Contexts
  BY <1>1, <1>2, TopFacts
<1>4. PcTurn(t, c, q, p)
  BY <1>1, <1>2 DEF PcTurn, LeafPcs, CallerPcs, WorkPcs, InsidePcs, PastPcs, ClosingPcs, LoopPcs,
                    EndPcs, CalmPcs
<1>5. p \in Pcs /\ Moved(c, q, p)
  <2>1. q \notin BlockPcs /\ p \notin BlockPcs /\ p \in Pcs
    BY <1>1, <1>2 DEF BlockPcs, InsidePcs, Pcs, ClosingPcs
  <2> QED BY <1>2, <1>3, <2>1, MovedIs
<1>6. QueueTurn
  <2>1. CASE queue' = <<>>
    BY <2>1 DEF QueueTurn
  <2> QED BY <1>2, <2>1, SameQueue
<1> QED BY <1>1, <1>2, <1>4, <1>5, <1>6, GotoTurns, SameDataIs

\* Nothing but the flags of the top frame's context changes, and they grow.
LEMMA FlagsData ==
  ASSUME CloseInv, NEW t \in AllThreads, stack[t] # <<>>, NEW F,
         \/ F = {"PreparingForClosing"}
         \/ F = {"Closing"} /\ Top(t).pc = "close.flag"
         \/ F = {"Closed"} /\ Top(t).pc = "close.closed",
         flags' = [flags EXCEPT ![Top(t).c] = @ \cup F],
         program' = program, list' = list,
         \A d \in Contexts : closer[d] # None => closer'[d] = closer[d]
  PROVE  /\ Data(t) /\ \A d \in Contexts : d # Top(t).c => flags'[d] = flags[d]
         /\ flags'[Top(t).c] = flags[Top(t).c] \cup F
<1>1. PICK c : c = Top(t).c
  OBVIOUS
<1>2. c \in Contexts /\ flags \in [Contexts -> SUBSET Flags]
  BY <1>1, TopFacts DEF CloseInv, HandlersInv, Shapes
<1>3. \A d \in Contexts : flags'[d] = IF d = c THEN flags[d] \cup F ELSE flags[d]
  BY <1>1, <1>2
<1>4. \A P : TopIn(t, c, P) <=> Top(t).pc \in P
  BY <1>1 DEF TopIn
<1>5. SUFFICES ASSUME NEW d \in Contexts
               PROVE  /\ flags[d] \subseteq flags'[d]
                      /\ "Closing" \in flags'[d] => "Closing" \in flags[d] \/ TopIn(t, d, {"close.flag"})
                      /\ "Closed" \in flags'[d] => "Closed" \in flags[d] \/ TopIn(t, d, {"close.closed"})
  BY <1>1, <1>2, <1>3 DEF Data
<1>6. CASE d = c
  <2>1. TopIn(t, d, {"close.flag"}) <=> Top(t).pc = "close.flag"
    BY <1>4, <1>6
  <2>2. TopIn(t, d, {"close.closed"}) <=> Top(t).pc = "close.closed"
    BY <1>4, <1>6
  <2>3. flags'[d] = flags[d] \cup F
    BY <1>3, <1>6
  <2> QED BY <2>1, <2>2, <2>3
<1>7. CASE d # c
  BY <1>3, <1>7
<1> QED BY <1>6, <1>7

LEMMA SetClosedTurns ==
  ASSUME CloseInv, NEW t \in AllThreads, SetClosedFlag(t)
  PROVE  Turns(t)
<1>1. PICK c, q, p : c = Top(t).c /\ q = Top(t).pc /\ p = "close.release"
  OBVIOUS
<1>2. /\ stack[t] # <<>> /\ q = "close.closed" /\ Goto(t, p) /\ blocks' = blocks /\ queue' = queue
      /\ program' = program /\ list' = list /\ closer' = closer
      /\ flags' = [flags EXCEPT ![Top(t).c] = @ \cup {"Closed"}]
  BY <1>1 DEF SetClosedFlag, At, nodes, exec, history, clients
<1>3. c \in Contexts
  BY <1>1, <1>2, TopFacts
<1>4. PcTurn(t, c, q, p)
  BY <1>1, <1>2 DEF PcTurn, LeafPcs, CallerPcs, WorkPcs, InsidePcs, PastPcs, ClosingPcs, LoopPcs,
                    EndPcs, CalmPcs
<1>5. p \in Pcs /\ Moved(c, q, p)
  <2>1. q \notin BlockPcs /\ p \notin BlockPcs /\ p \in Pcs
    BY <1>1, <1>2 DEF BlockPcs, InsidePcs, Pcs, ClosingPcs
  <2> QED BY <1>2, <1>3, <2>1, MovedIs
<1>6. Data(t)
  BY <1>1, <1>2, FlagsData
<1> QED BY <1>1, <1>2, <1>4, <1>5, <1>6, GotoTurns, SameQueue

LEMMA StartCloseTurns ==
  ASSUME CloseInv, NEW t \in AllThreads, StartClose(t)
  PROVE  Turns(t)
<1>1. PICK c, q, p : c = Top(t).c /\ q = Top(t).pc /\ Goto(t, p) /\ p \in {"close.lost", "close.wait"}
                     /\ (p = "close.wait" => closer' = [closer EXCEPT ![c] = t]
                                             /\ "PreparingForClosing" \notin flags[c])
                     /\ (p = "close.lost" => closer' = closer)
  BY DEF StartClose
<1>2. /\ stack[t] # <<>> /\ q = "close" /\ blocks' = blocks /\ queue' = queue
      /\ program' = program /\ list' = list
      /\ flags' = [flags EXCEPT ![Top(t).c] = @ \cup {"PreparingForClosing"}]
  BY <1>1 DEF StartClose, At, nodes, exec, history, clients
<1>3. c \in Contexts
  BY <1>1, <1>2, TopFacts
<1>4. PcTurn(t, c, q, p)
  BY <1>1, <1>2 DEF PcTurn, LeafPcs, CallerPcs, WorkPcs, InsidePcs, PastPcs, ClosingPcs, LoopPcs,
                    EndPcs, CalmPcs
<1>5. p \in Pcs /\ Moved(c, q, p)
  <2>1. q \notin BlockPcs /\ p \notin BlockPcs /\ p \in Pcs
    BY <1>1, <1>2 DEF BlockPcs, InsidePcs, Pcs, ClosingPcs
  <2> QED BY <1>2, <1>3, <2>1, MovedIs
<1>6. \A d \in Contexts : closer[d] # None => closer'[d] = closer[d]
  <2>1. closer \in [Contexts -> AllThreads \cup {None}] /\ ClosersKnown
    BY DEF CloseInv, HandlersInv, Shapes
  <2>2. p = "close.wait" => closer[c] = None
    BY <1>1, <1>3, <2>1 DEF ClosersKnown
  <2> QED BY <1>1, <1>3, <2>1, <2>2
<1>7. Data(t)
  BY <1>2, <1>6, FlagsData
<1> QED BY <1>1, <1>2, <1>4, <1>5, <1>7, GotoTurns, SameQueue

\* The list of the top frame's context becomes s, and nothing else of a context changes.
ListTurn(t, c, s) ==
  /\ list[c] = <<>> /\ s # <<>> => Top(t).pc \in {"add.insert", "start.insert"}
  /\ \A n \in DOMAIN s : s[n] \in Contexts =>
       \/ \E m \in DOMAIN list[c] : list[c][m] = s[n]
       \/ Top(t).pc \in {"add.insert", "start.insert"} /\ Top(t).x = s[n]

LEMMA ListData ==
  ASSUME CloseInv, NEW t \in AllThreads, stack[t] # <<>>, NEW c, c = Top(t).c, NEW s,
         list' = [list EXCEPT ![c] = s], flags' = flags, closer' = closer, program' = program,
         ListTurn(t, c, s)
  PROVE  Data(t)
<1>1. c \in Contexts /\ list \in [Contexts -> Seq(Nodes)]
  BY TopFacts DEF CloseInv, HandlersInv, Shapes
<1>2. \A d \in Contexts : list'[d] = IF d = c THEN s ELSE list[d]
  BY <1>1
<1>3. \A P : TopIn(t, c, P) <=> Top(t).pc \in P
  BY DEF TopIn
<1>4. TopIn(t, c, {"add.insert", "start.insert"}) <=> Top(t).pc \in {"add.insert", "start.insert"}
  BY <1>3
<1>5. ASSUME NEW d \in Contexts
      PROVE  /\ list[d] = <<>> /\ list'[d] # <<>> => TopIn(t, d, {"add.insert", "start.insert"})
             /\ \A n \in DOMAIN list'[d] : list'[d][n] \in Contexts =>
                  \/ \E m \in DOMAIN list[d] : list[d][m] = list'[d][n]
                  \/ TopIn(t, d, {"add.insert", "start.insert"}) /\ Top(t).x = list'[d][n]
  <2>1. CASE d = c
    <3>1. list'[d] = s /\ list[d] = list[c]
      BY <1>2, <2>1
    <3> QED BY <1>4, <2>1, <3>1 DEF ListTurn
  <2>2. CASE d # c
    <3>1. list'[d] = list[d]
      BY <1>2, <2>2
    <3> QED BY <3>1
  <2> QED BY <2>1, <2>2
<1> QED BY <1>5 DEF Data

LEMMA InsertTurns ==
  ASSUME CloseInv, NEW t \in AllThreads,
         Insert(t, "add.insert", "unblock") \/ Insert(t, "start.insert", "start.fn")
  PROVE  Turns(t)
<1>1. PICK c, q, p : /\ c = Top(t).c /\ q = Top(t).pc /\ Goto(t, p) /\ stack[t] # <<>>
                     /\ (q = "add.insert" /\ p = "unblock") \/ (q = "start.insert" /\ p = "start.fn")
  BY DEF Insert, At
<1>2. /\ blocks' = blocks /\ queue' = queue /\ flags' = flags
      /\ program' = program /\ closer' = closer
      /\ list' = [list EXCEPT ![c] = <<Top(t).x>> \o list[c]]
  BY <1>1 DEF Insert, words, exec, clients
<1>3. c \in Contexts /\ list[c] \in Seq(Nodes) /\ Top(t) \in FrameSet
  BY <1>1, TopFacts DEF CloseInv, HandlersInv, Shapes
<1>4. PcTurn(t, c, q, p)
  BY <1>1 DEF PcTurn, LeafPcs, CallerPcs, WorkPcs, InsidePcs, PastPcs, ClosingPcs, LoopPcs,
              EndPcs, CalmPcs
<1>5. p \in Pcs /\ Moved(c, q, p)
  <2>1. q \in BlockPcs /\ p \in BlockPcs /\ p \in Pcs
    BY <1>1 DEF BlockPcs, InsidePcs, Pcs, KnowPcs
  <2> QED BY <1>2, <1>3, <2>1, MovedIs
<1>6. Data(t)
  <2>1. PICK x, s : x = Top(t).x /\ s = <<x>> \o list[c]
    OBVIOUS
  <2>2. Top(t).pc \in {"add.insert", "start.insert"}
    BY <1>1
  <2>3. \A n \in DOMAIN s : s[n] = x \/ \E m \in DOMAIN list[c] : list[c][m] = s[n]
    <3>1. PICK e : e = <<x>>
      OBVIOUS
    <3>2. e \in Seq({x}) /\ Len(e) = 1 /\ e[1] = x
      BY <3>1
    <3>0. PICK r, T : r = list[c] /\ T = Nodes \cup {x}
      OBVIOUS
    <3>3. s = e \o r /\ e \in Seq(T) /\ r \in Seq(T)
      BY <1>3, <2>1, <3>0, <3>1
    <3>4. PICK l \in Nat : l = Len(r)
      BY <3>3
    <3>5. s \in Seq(T) /\ Len(s) = 1 + l
          /\ \A i \in 1..(1 + l) : s[i] = IF i <= 1 THEN e[i] ELSE r[i - 1]
      <4>1. /\ e \o r \in Seq(T) /\ Len(e \o r) = Len(e) + Len(r)
            /\ \A i \in 1..(Len(e) + Len(r)) : (e \o r)[i] = IF i <= Len(e) THEN e[i] ELSE r[i - Len(e)]
        BY <3>3, ConcatIs
      <4> QED BY <3>2, <3>3, <3>4, <4>1
    <3>6. SUFFICES ASSUME NEW n \in 1..(1 + l)
                   PROVE  s[n] = x \/ \E m \in DOMAIN r : r[m] = s[n]
      BY <3>0, <3>5
    <3>7. n = 1 \/ n - 1 \in 1..l
      BY <3>4
    <3>8. DOMAIN r = 1..l
      BY <3>3, <3>4
    <3>9. CASE n = 1
      BY <3>2, <3>5, <3>9
    <3>10. CASE n - 1 \in 1..l
      <4>1. ~(n <= 1)
        BY <3>10
      <4>2. s[n] = r[n - 1]
        BY <3>5, <4>1
      <4> QED BY <3>8, <3>10, <4>2
    <3> QED BY <3>7, <3>9, <3>10
  <2>4. list' = [list EXCEPT ![c] = s]
    BY <1>2, <2>1
  <2>5. ListTurn(t, c, s)
    BY <2>1, <2>2, <2>3 DEF ListTurn
  <2> QED BY <1>1, <1>2, <2>4, <2>5, ListData
<1> QED BY <1>1, <1>2, <1>4, <1>5, <1>6, GotoTurns, SameQueue

\* The removed node leaves its list.
LEMMA UnlinkData ==
  ASSUME CloseInv, NEW t \in AllThreads, stack[t] # <<>>, NEW c, c = Top(t).c,
         list' = [list EXCEPT ![c] = Unlink(@, Top(t).x)], flags' = flags, closer' = closer,
         program' = program
  PROVE  Data(t)
<1>1. PICK s : s = Unlink(list[c], Top(t).x)
  OBVIOUS
<1>2. c \in Contexts /\ list[c] \in Seq(Nodes) /\ Once(list[c])
  BY TopFacts DEF CloseInv, HandlersInv, Shapes, HandlersOK
<1>3. s \in Seq(Nodes) /\ \A y \in ToSet(s) : y \in ToSet(list[c])
  BY <1>1, <1>2, UnlinkIs
<1>4. \A n \in DOMAIN s : \E m \in DOMAIN list[c] : list[c][m] = s[n]
  BY <1>3 DEF ToSet
<1>5. list[c] = <<>> => s = <<>>
  <2>1. SUFFICES ASSUME list[c] = <<>> PROVE s = <<>>
    OBVIOUS
  <2>2. \A n \in DOMAIN s : FALSE
    BY <1>4, <2>1
  <2>3. Len(s) \in Nat /\ DOMAIN s = 1..Len(s)
    BY <1>3
  <2>4. ~(Len(s) > 0)
    <3>1. Len(s) > 0 => 1 \in DOMAIN s
      BY <2>3
    <3> QED BY <2>2, <3>1
  <2>5. Len(s) = 0
    BY <2>3, <2>4
  <2> QED BY <1>3, <2>5
<1>6. list' = [list EXCEPT ![c] = s]
  BY <1>1
<1>7. ListTurn(t, c, s)
  BY <1>4, <1>5 DEF ListTurn
<1> QED BY <1>6, <1>7, ListData

\* The calls that return.
LEMMA BackTurns ==
  ASSUME CloseInv, NEW t \in AllThreads, stack[t] # <<>>, Return(t), Data(t), QueueTurn,
         NEW c, NEW q, c = Top(t).c, q = Top(t).pc,
         \/ blocks' = blocks /\ q \notin BlockPcs
         \/ blocks' = [blocks EXCEPT ![c] = @ - 1] /\ q \in BlockPcs
  PROVE  Turns(t)
<1>1. c \in Contexts /\ blocks \in [Contexts -> Nat]
  BY TopFacts DEF CloseInv, BlocksOK
<1>2. PICK n \in Nat : n = blocks[c]
  BY <1>1
<1>3. blocks' = [blocks EXCEPT ![Top(t).c] = @ - One(Top(t).pc \in BlockPcs)]
  <2>1. CASE blocks' = blocks /\ q \notin BlockPcs
    <3>1. n - One(q \in BlockPcs) = n
      BY <1>2, <2>1 DEF One
    <3>2. blocks' = [blocks EXCEPT ![c] = n]
      BY <1>1, <1>2, <2>1
    <3> QED BY <1>2, <3>1, <3>2
  <2>2. CASE blocks' = [blocks EXCEPT ![c] = @ - 1] /\ q \in BlockPcs
    <3>1. n - One(q \in BlockPcs) = n - 1
      BY <1>2, <2>2 DEF One
    <3>2. blocks' = [blocks EXCEPT ![c] = n - 1]
      BY <1>2, <2>2
    <3> QED BY <1>2, <3>1, <3>2
  <2> QED BY <2>1, <2>2
<1> QED BY <1>3, GoesBack

LEMMA SimpleReturns ==
  ASSUME CloseInv, NEW t \in AllThreads,
         \/ Unblock(t, "exec.unblock") \/ Unblock(t, "unblock") \/ WorkReturns(t) \/ RunDrop(t)
         \/ UndoBlock(t, "exec.undo") \/ UndoBlock(t, "undo") \/ ChildMade(t) \/ ReleaseOwner(t)
         \/ HandlerReturns(t) \/ ReleaseAnchor(t) \/ CloseReturns(t) \/ WaitForClosed(t) \/ RemoveWait(t)
  PROVE  Turns(t)
<1>1. PICK c, q : /\ c = Top(t).c /\ q = Top(t).pc
          /\ \/ /\ q \in {"exec.unblock", "unblock", "work", "exec.undo", "undo", "child.add"}
                /\ blocks' = [blocks EXCEPT ![c] = @ - 1]
             \/ /\ q \in {"run.drop", "destroy", "handler", "child.release", "close.release",
                          "close.lost", "remove.wait"}
                /\ blocks' = blocks
  BY DEF Unblock, WorkReturns, RunDrop, UndoBlock, ChildMade, ReleaseOwner, HandlerReturns,
         ReleaseAnchor, CloseReturns, WaitForClosed, RemoveWait, At, words
<1>2. SameData /\ queue' = queue /\ stack[t] # <<>> /\ Return(t)
  BY DEF Unblock, WorkReturns, RunDrop, UndoBlock, ChildMade, ReleaseOwner, HandlerReturns,
         ReleaseAnchor, CloseReturns, WaitForClosed, RemoveWait, At, SameData, words, nodes, exec,
         history, clients
<1>3. \/ blocks' = blocks /\ q \notin BlockPcs
      \/ blocks' = [blocks EXCEPT ![c] = @ - 1] /\ q \in BlockPcs
  BY <1>1 DEF BlockPcs, InsidePcs
<1> QED BY <1>1, <1>2, <1>3, BackTurns, SameDataIs, SameQueue

LEMMA RemoveTurns ==
  ASSUME CloseInv, NEW t \in AllThreads, RemoveCloseHandler(t)
  PROVE  Turns(t)
<1>1. PICK c, q : c = Top(t).c /\ q = Top(t).pc
  OBVIOUS
<1>2. /\ stack[t] # <<>> /\ q = "remove" /\ blocks' = blocks /\ queue' = queue /\ flags' = flags
      /\ closer' = closer /\ program' = program
      /\ list' = [list EXCEPT ![c] = Unlink(@, Top(t).x)]
      /\ Return(t) \/ Goto(t, "remove.wait")
  BY <1>1 DEF RemoveCloseHandler, At, exec, clients
<1>3. Data(t) /\ c \in Contexts
  BY <1>1, <1>2, UnlinkData, TopFacts
<1>4. CASE Return(t)
  <2>1. q \notin BlockPcs
    BY <1>2 DEF BlockPcs, InsidePcs
  <2> QED BY <1>1, <1>2, <1>3, <1>4, <2>1, BackTurns, SameQueue
<1>5. CASE Goto(t, "remove.wait")
  <2>1. PICK p : p = "remove.wait"
    OBVIOUS
  <2>2. PcTurn(t, c, q, p)
    BY <1>2, <2>1 DEF PcTurn, LeafPcs, CallerPcs, WorkPcs, InsidePcs, PastPcs, ClosingPcs, LoopPcs,
                      EndPcs, CalmPcs
  <2>3. p \in Pcs /\ Moved(c, q, p)
    <3>1. q \notin BlockPcs /\ p \notin BlockPcs /\ p \in Pcs
      BY <1>2, <2>1 DEF BlockPcs, InsidePcs, Pcs, KnowPcs
    <3> QED BY <1>2, <1>3, <3>1, MovedIs
  <2> QED BY <1>1, <1>2, <1>3, <1>5, <2>1, <2>2, <2>3, GotoTurns, SameQueue
<1> QED BY <1>2, <1>4, <1>5

\* SetClosingFlag and PopHandler, which put another handler into the frame.
LEMMA ReframeMoves ==
  ASSUME CloseInv, NEW t \in AllThreads, stack[t] # <<>>, NEW g \in FrameSet, NEW a, a = <<g>>,
         stack' = [stack EXCEPT ![t] = [@ EXCEPT ![1] = g]]
  PROVE  Moves(t, 1, a)
<1>1. /\ Shapes /\ stack[t] \in Seq(FrameSet) /\ Len(stack[t]) >= 1
      /\ Len(stack[t]) \in Nat /\ stack \in [AllThreads -> Seq(FrameSet)]
  BY TopIs DEF CloseInv, HandlersInv, Shapes
<1>2. a \in Seq(FrameSet)
  BY OneIs
<1>3. stack' = [stack EXCEPT ![t] = a \o Tail(stack[t])]
  <2>1. stack' = [stack EXCEPT ![t] = [stack[t] EXCEPT ![1] = g]]
    BY <1>1
  <2>2. [stack[t] EXCEPT ![1] = g] = a \o Tail(stack[t])
    BY <1>1, HeadSet
  <2> QED BY <2>1, <2>2
<1>4. Tail(stack[t]) = IF 1 = 0 THEN stack[t] ELSE IF 1 = 1 THEN Tail(stack[t])
                       ELSE Tail(Tail(stack[t]))
  OBVIOUS
<1>5. stack' = [stack EXCEPT ![t] = a \o (IF 1 = 0 THEN stack[t] ELSE IF 1 = 1 THEN Tail(stack[t])
                                               ELSE Tail(Tail(stack[t])))]
  BY <1>3, <1>4
<1> QED BY <1>1, <1>2, <1>5, StackMoves

LEMMA SetClosingTurns ==
  ASSUME CloseInv, NEW t \in AllThreads, SetClosingFlag(t)
  PROVE  Turns(t)
<1>1. PICK c, q, p : c = Top(t).c /\ q = Top(t).pc /\ p = "close.pop"
  OBVIOUS
<1>2. /\ stack[t] # <<>> /\ q = "close.flag" /\ blocks' = blocks /\ queue' = queue
      /\ program' = program /\ list' = list /\ closer' = closer
      /\ flags' = [flags EXCEPT ![Top(t).c] = @ \cup {"Closing"}]
  BY <1>1 DEF SetClosingFlag, At, nodes, exec, history, clients
<1>3. c \in Contexts
  BY <1>1, <1>2, TopFacts
<1>4. PICK g : g = [Top(t) EXCEPT !.pc = p, !.x = None]
  OBVIOUS
<1>5. stack' = [stack EXCEPT ![t] = [@ EXCEPT ![1] = g]]
  <2>1. Top(t) = stack[t][1] /\ Len(stack[t]) >= 1 /\ stack[t] \in Seq(FrameSet)
        /\ stack[t][1] \in FrameSet /\ stack \in [AllThreads -> Seq(FrameSet)]
    BY <1>2, TopIs DEF CloseInv, HandlersInv, Shapes
  <2> QED BY <1>1, <1>4, <2>1 DEF SetClosingFlag
<1>6. PICK a : a = <<g>>
  OBVIOUS
<1>7. Moves(t, 1, a) /\ g \in FrameSet /\ g.pc = p /\ g.c = Top(t).c /\ g.x = None
  <2>1. p \in Pcs /\ None \in Arguments /\ Top(t) \in FrameSet
    BY <1>1, <1>2, TopFacts DEF Pcs, ClosingPcs, Arguments
  <2>2. g \in FrameSet /\ g.pc = p /\ g.c = Top(t).c /\ g.x = None
    BY <1>4, <2>1 DEF FrameSet
  <2> QED BY <1>2, <1>5, <1>6, <2>2, ReframeMoves
<1>8. Data(t) /\ flags'[c] = flags[c] \cup {"Closing"}
  <2>1. PICK F : F = {"Closing"}
    OBVIOUS
  <2>2. flags' = [flags EXCEPT ![Top(t).c] = @ \cup F]
    BY <1>2, <2>1
  <2>3. F = {"Closing"} /\ Top(t).pc = "close.flag"
    BY <1>1, <1>2, <2>1
  <2>4. \A d \in Contexts : closer[d] # None => closer'[d] = closer[d]
    BY <1>2
  <2> QED BY <1>1, <1>2, <2>2, <2>3, <2>4, FlagsData
<1>9. PcTurn(t, Top(t).c, Top(t).pc, g.pc)
  <2>1. "Closing" \in flags'[c]
    BY <1>8
  <2>2. PcTurn(t, c, q, p)
    BY <1>1, <1>2, <2>1 DEF PcTurn, LeafPcs, CallerPcs, WorkPcs, InsidePcs, PastPcs, ClosingPcs,
                            LoopPcs, EndPcs, CalmPcs
  <2> QED BY <1>1, <1>7, <2>2
<1>10. blocks' = [blocks EXCEPT ![Top(t).c] = @ + One(g.pc \in BlockPcs) - One(Top(t).pc \in BlockPcs)]
  <2>1. q \notin BlockPcs /\ p \notin BlockPcs
    BY <1>1, <1>2 DEF BlockPcs, InsidePcs
  <2>2. Moved(c, q, p)
    BY <1>2, <1>3, <2>1, MovedIs
  <2> QED BY <1>1, <1>7, <2>2 DEF Moved
<1>11. Carries(t, g)
  BY <1>1, <1>7, TreeAssumption DEF Carries, WorkPcs
<1> QED BY <1>2, <1>6, <1>7, <1>8, <1>9, <1>10, <1>11, SameQueue, GoesOn

LEMMA PopTurns ==
  ASSUME CloseInv, NEW t \in AllThreads, PopHandler(t)
  PROVE  Turns(t)
<1>1. PICK c, q, s : c = Top(t).c /\ q = Top(t).pc /\ s = list[c]
  OBVIOUS
<1>2. PICK next, p : /\ next = IF s = <<>> THEN None ELSE Head(s)
                     /\ p = IF next = None THEN "close.parent" ELSE "close.call"
  OBVIOUS
<1>3. /\ stack[t] # <<>> /\ q = "close.pop" /\ blocks' = blocks /\ queue' = queue
      /\ program' = program /\ flags' = flags /\ closer' = closer
      /\ list' = IF next = None THEN list ELSE [list EXCEPT ![c] = Tail(@)]
      /\ stack' = [stack EXCEPT ![t][1].x = next, ![t][1].pc = p]
  BY <1>1, <1>2 DEF PopHandler, At, words, exec, history, clients
<1>4. c \in Contexts /\ s \in Seq(Nodes) /\ Top(t) \in FrameSet
  BY <1>1, <1>3, TopFacts DEF CloseInv, HandlersInv, Shapes
<1>5. IF s = <<>> THEN next = None ELSE next \in Nodes /\ next # None /\ next = s[1] /\ 1 \in DOMAIN s
  BY <1>2, <1>4, TailIs, TreeAssumption DEF Nodes
<1>6. PICK g : g = [Top(t) EXCEPT !.pc = p, !.x = next]
  OBVIOUS
<1>7. stack' = [stack EXCEPT ![t] = [@ EXCEPT ![1] = g]]
  <2>1. Top(t) = stack[t][1] /\ Len(stack[t]) >= 1 /\ stack[t] \in Seq(FrameSet)
        /\ stack[t][1] \in FrameSet /\ stack \in [AllThreads -> Seq(FrameSet)]
    BY <1>3, TopIs DEF CloseInv, HandlersInv, Shapes
  <2> QED BY <1>3, <1>6, <2>1
<1>8. PICK a : a = <<g>>
  OBVIOUS
<1>9. Moves(t, 1, a) /\ g \in FrameSet /\ g.pc = p /\ g.c = Top(t).c /\ g.x = next
  <2>1. p \in Pcs /\ next \in Arguments
    BY <1>2, <1>5 DEF Pcs, ClosingPcs, Arguments
  <2>2. g \in FrameSet /\ g.pc = p /\ g.c = Top(t).c /\ g.x = next
    BY <1>4, <1>6, <2>1 DEF FrameSet
  <2> QED BY <1>3, <1>7, <1>8, <2>2, ReframeMoves
<1>10. Data(t)
  <2>1. CASE s = <<>>
    <3>1. SameData
      BY <1>3, <1>5, <2>1 DEF SameData
    <3> QED BY <3>1, SameDataIs
  <2>2. CASE s # <<>>
    <3>1. PICK r : r = Tail(s)
      OBVIOUS
    <3>2. list' = [list EXCEPT ![c] = r]
      BY <1>1, <1>3, <1>5, <2>2, <3>1
    <3>3. \A n \in DOMAIN r : \E m \in DOMAIN s : s[m] = r[n]
      <4>1. r \in Seq(Nodes) /\ Len(r) = Len(s) - 1 /\ Len(s) \in Nat
            /\ \A i \in 1..(Len(s) - 1) : r[i] = s[i + 1]
        BY <1>4, <2>2, <3>1, TailIs
      <4>2. SUFFICES ASSUME NEW n \in 1..(Len(s) - 1) PROVE \E m \in DOMAIN s : s[m] = r[n]
        BY <4>1
      <4>3. n + 1 \in 1..Len(s) /\ r[n] = s[n + 1]
        BY <4>1
      <4>4. DOMAIN s = 1..Len(s)
        BY <1>4
      <4> QED BY <4>3, <4>4
    <3>4. ListTurn(t, c, r)
      BY <1>1, <2>2, <3>3 DEF ListTurn
    <3> QED BY <1>1, <1>3, <3>2, <3>4, ListData
  <2> QED BY <2>1, <2>2
<1>11. PcTurn(t, Top(t).c, Top(t).pc, g.pc)
  <2>1. p = "close.parent" => list'[c] = <<>>
    BY <1>1, <1>2, <1>3, <1>5
  <2>2. p \in {"close.parent", "close.call"}
    BY <1>2
  <2>3. PcTurn(t, c, q, p)
    BY <1>1, <1>3, <2>1, <2>2 DEF PcTurn, LeafPcs, CallerPcs, WorkPcs, InsidePcs, PastPcs, ClosingPcs,
                            LoopPcs, EndPcs, CalmPcs
  <2> QED BY <1>1, <1>9, <2>3
<1>12. blocks' = [blocks EXCEPT ![Top(t).c] = @ + One(g.pc \in BlockPcs) - One(Top(t).pc \in BlockPcs)]
  <2>1. q \notin BlockPcs /\ p \notin BlockPcs
    BY <1>2, <1>3 DEF BlockPcs, InsidePcs
  <2>2. Moved(c, q, p)
    BY <1>3, <1>4, <2>1, MovedIs
  <2> QED BY <1>1, <1>9, <2>2 DEF Moved
<1>13. Carries(t, g)
  <2>1. g.pc \notin WorkPcs
    BY <1>2, <1>9 DEF WorkPcs
  <2>2. ASSUME NEW d \in Contexts, Single(d) PROVE next \notin Contexts
    <3>1. CASE s = <<>>
      BY <1>5, <3>1, TreeAssumption
    <3>2. CASE s # <<>>
      <4>1. next = list[c][1] /\ 1 \in DOMAIN list[c]
        BY <1>1, <1>5, <3>2
      <4> QED BY <1>4, <2>2, <4>1 DEF CloseInv, OneTree
    <3> QED BY <3>1, <3>2
  <2> QED BY <1>9, <2>1, <2>2 DEF Carries
<1> QED BY <1>3, <1>8, <1>9, <1>10, <1>11, <1>12, <1>13, SameQueue, GoesOn

\* The calls that the calls make.
LEMMA EnterTurns ==
  ASSUME CloseInv, NEW t \in AllThreads, stack[t] # <<>>,
         NEW p \in Pcs, NEW h, Enter(t, p, h), NEW c, NEW q, c = Top(t).c, q = Top(t).pc,
         h \in FrameSet, h.pc \in {"inline", "add", "remove", "handler", "child.anchor", "close"},
         h.pc = "inline" => h.x \in Works,
         h.pc \in CallerPcs => q \in CallerPcs /\ p \notin ItemPcs,
         p \notin BlockPcs \/ p \in {"exec.inline", "work"} \/ h.pc \in LeafPcs,
         q \notin LeafPcs,
         \A d \in Contexts : Single(d) => h.c = d /\ h.x \notin Contexts,
         PcTurn(t, c, q, p), SameData, queue' = queue, blocks' = blocks, q \in BlockPcs <=> p \in BlockPcs
  PROVE  Turns(t)
<1>1. PICK g : g = [Top(t) EXCEPT !.pc = p]
  OBVIOUS
<1>2. Top(t) \in FrameSet /\ c \in Contexts
  BY TopFacts
<1>3. g.pc = p
  BY <1>1, <1>2, FrameIs
<1>4. Called(t, h, g)
  BY <1>3 DEF Called, Plain
<1>5. Moved(c, q, p)
  BY <1>2, MovedIs
<1>6. blocks' = [blocks EXCEPT ![Top(t).c] = @ + One(p \in BlockPcs) - One(Top(t).pc \in BlockPcs)]
  BY <1>5 DEF Moved
<1>7. PcTurn(t, Top(t).c, Top(t).pc, p) /\ Data(t) /\ QueueTurn
  BY SameDataIs, SameQueue
<1> QED BY <1>1, <1>4, <1>6, <1>7, CallTurns

LEMMA PostInlineTurns ==
  ASSUME CloseInv, NEW t \in AllThreads, PostInline(t)
  PROVE  Turns(t)
<1>1. PICK c, q, p, h : /\ c = Top(t).c /\ q = Top(t).pc /\ p = "exec.inline"
                        /\ h = Frame("inline", c, Top(t).x, TRUE)
  OBVIOUS
<1>2. stack[t] # <<>> /\ q = "exec.post" /\ SameData /\ queue' = queue /\ blocks' = blocks /\ Enter(t, p, h)
  BY <1>1 DEF PostInline, At, SameData, words, nodes, exec, history, clients
<1>3. /\ c \in Contexts /\ Top(t).x \in Works /\ Top(t) \in FrameSet
      /\ \A d \in Contexts : Single(d) => c = d /\ Top(t).x \notin Contexts
  <2>1. q \in WorkPcs
    BY <1>2 DEF WorkPcs
  <2> QED BY <1>1, <1>2, <2>1, TopFacts
<1>4. h \in FrameSet /\ h.pc = "inline" /\ h.c = c /\ h.x = Top(t).x
  BY <1>1, <1>3 DEF Frame, FrameSet, Pcs, Arguments
<1>5. PcTurn(t, c, q, p)
  BY <1>1, <1>2 DEF PcTurn, LeafPcs, CallerPcs, WorkPcs, InsidePcs, PastPcs, ClosingPcs, LoopPcs,
                    EndPcs, CalmPcs
<1>6. p \in Pcs /\ q \in BlockPcs /\ p \in BlockPcs /\ q \notin LeafPcs /\ h.pc \notin CallerPcs
  BY <1>1, <1>2, <1>4 DEF Pcs, BlockPcs, InsidePcs, LeafPcs, CallerPcs, ClosingPcs
<1> QED BY <1>1, <1>2, <1>3, <1>4, <1>5, <1>6, EnterTurns

LEMMA ConstructTurns ==
  ASSUME CloseInv, NEW t \in AllThreads, ConstructChild(t)
  PROVE  Turns(t)
<1>1. PICK c, q, p, h : /\ c = Top(t).c /\ q = Top(t).pc /\ p = "child.add"
                        /\ h = Frame("add", c, Top(t).x, FALSE)
  OBVIOUS
<1>2. stack[t] # <<>> /\ q = "child.new" /\ SameData /\ queue' = queue /\ blocks' = blocks /\ Enter(t, p, h)
  BY <1>1 DEF ConstructChild, At, SameData, nodes, history, clients
<1>3. /\ c \in Contexts /\ Top(t).x \in Arguments /\ Top(t) \in FrameSet
      /\ \A d \in Contexts : Single(d) => c = d /\ Top(t).x \notin Contexts
  BY <1>1, <1>2, TopFacts, TopIs DEF CloseInv
<1>4. h \in FrameSet /\ h.pc = "add" /\ h.c = c /\ h.x = Top(t).x
  BY <1>1, <1>3 DEF Frame, FrameSet, Pcs, AddPcs
<1>5. PcTurn(t, c, q, p)
  BY <1>1, <1>2 DEF PcTurn, LeafPcs, CallerPcs, WorkPcs, InsidePcs, PastPcs, ClosingPcs, LoopPcs,
                    EndPcs, CalmPcs
<1>6. p \in Pcs /\ q \in BlockPcs /\ p \in BlockPcs /\ q \notin LeafPcs /\ h.pc \notin CallerPcs
      /\ h.pc \in LeafPcs
  BY <1>1, <1>2, <1>4 DEF Pcs, ChildPcs, BlockPcs, InsidePcs, LeafPcs, CallerPcs, ClosingPcs
<1> QED BY <1>1, <1>2, <1>3, <1>4, <1>5, <1>6, EnterTurns

LEMMA StartThrowsTurns ==
  ASSUME CloseInv, NEW t \in AllThreads, StartThrows(t)
  PROVE  Turns(t)
<1>1. PICK c, q, p, h : /\ c = Top(t).c /\ q = Top(t).pc /\ p = "unblock"
                        /\ h = Frame("remove", c, Top(t).x, FALSE)
  OBVIOUS
<1>2. stack[t] # <<>> /\ q = "start.fn" /\ SameData /\ queue' = queue /\ blocks' = blocks /\ Enter(t, p, h)
  BY <1>1 DEF StartThrows, At, SameData, words, nodes, exec, clients
<1>3. /\ c \in Contexts /\ Top(t).x \in Arguments /\ Top(t) \in FrameSet
      /\ \A d \in Contexts : Single(d) => c = d /\ Top(t).x \notin Contexts
  BY <1>1, <1>2, TopFacts, TopIs DEF CloseInv
<1>4. h \in FrameSet /\ h.pc = "remove" /\ h.c = c /\ h.x = Top(t).x
  BY <1>1, <1>3 DEF Frame, FrameSet, Pcs, KnowPcs
<1>5. PcTurn(t, c, q, p)
  BY <1>1, <1>2 DEF PcTurn, LeafPcs, CallerPcs, WorkPcs, InsidePcs, PastPcs, ClosingPcs, LoopPcs,
                    EndPcs, CalmPcs
<1>6. p \in Pcs /\ q \in BlockPcs /\ p \in BlockPcs /\ q \notin LeafPcs /\ h.pc \notin CallerPcs
      /\ h.pc \in LeafPcs
  BY <1>1, <1>2, <1>4 DEF Pcs, BlockPcs, InsidePcs, LeafPcs, CallerPcs, ClosingPcs
<1> QED BY <1>1, <1>2, <1>3, <1>4, <1>5, <1>6, EnterTurns

LEMMA CallHandlerTurns ==
  ASSUME CloseInv, NEW t \in AllThreads, CallHandler(t)
  PROVE  Turns(t)
<1>1. PICK c, q, p, x, h : /\ c = Top(t).c /\ q = Top(t).pc /\ p = "close.pop" /\ x = Top(t).x
                           /\ h = IF x \in Contexts THEN Frame("child.anchor", x, None, FALSE)
                                                    ELSE Frame("handler", c, x, FALSE)
  OBVIOUS
<1>2. stack[t] # <<>> /\ q = "close.call" /\ SameData /\ queue' = queue /\ blocks' = blocks /\ Enter(t, p, h)
  BY <1>1 DEF CallHandler, At, SameData, words, nodes, exec, clients
<1>3. /\ c \in Contexts /\ x \in Arguments /\ Top(t) \in FrameSet
      /\ \A d \in Contexts : Single(d) => c = d /\ x \notin Contexts
  BY <1>1, <1>2, TopFacts, TopIs DEF CloseInv
<1>4. /\ h \in FrameSet /\ h.pc \in {"child.anchor", "handler"}
      /\ \A d \in Contexts : Single(d) => h.c = d /\ h.x \notin Contexts
  <2>1. CASE x \in Contexts
    <3>1. h \in FrameSet /\ h.pc = "child.anchor"
      BY <1>1, <2>1 DEF Frame, FrameSet, Pcs, Arguments
    <3> QED BY <1>3, <2>1, <3>1
  <2>2. CASE x \notin Contexts
    <3>1. h \in FrameSet /\ h.pc = "handler" /\ h.c = c /\ h.x = x
      BY <1>1, <1>3, <2>2 DEF Frame, FrameSet, Pcs
    <3> QED BY <1>3, <2>2, <3>1
  <2> QED BY <2>1, <2>2
<1>5. PcTurn(t, c, q, p)
  BY <1>1, <1>2 DEF PcTurn, LeafPcs, CallerPcs, WorkPcs, InsidePcs, PastPcs, ClosingPcs, LoopPcs,
                    EndPcs, CalmPcs
<1>6. p \in Pcs /\ q \notin BlockPcs /\ p \notin BlockPcs /\ q \notin LeafPcs /\ q \in CallerPcs
      /\ p \notin ItemPcs
  BY <1>1, <1>2 DEF Pcs, BlockPcs, InsidePcs, LeafPcs, CallerPcs, ClosingPcs, ItemPcs
<1>7. h.pc \in {"inline", "add", "remove", "handler", "child.anchor", "close"} /\ h.pc # "inline"
  BY <1>4
<1> QED BY <1>1, <1>2, <1>4, <1>5, <1>6, <1>7, EnterTurns

LEMMA CloseChildTurns ==
  ASSUME CloseInv, NEW t \in AllThreads, CloseChild(t)
  PROVE  Turns(t)
<1>1. PICK c, q, p, h : /\ c = Top(t).c /\ q = Top(t).pc /\ p = "child.release"
                        /\ h = Frame("close", c, None, FALSE)
  OBVIOUS
<1>2. stack[t] # <<>> /\ q = "child.done" /\ SameData /\ queue' = queue /\ blocks' = blocks /\ Enter(t, p, h)
  BY <1>1 DEF CloseChild, At, SameData, words, exec, history, clients
<1>3. c \in Contexts /\ \A d \in Contexts : Single(d) => c = d
  BY <1>1, <1>2, TopFacts
<1>4. h \in FrameSet /\ h.pc = "close" /\ h.c = c /\ h.x = None /\ None \notin Contexts
  BY <1>1, <1>3, TreeAssumption DEF Frame, FrameSet, Pcs, Arguments
<1>5. PcTurn(t, c, q, p)
  BY <1>1, <1>2 DEF PcTurn, LeafPcs, CallerPcs, WorkPcs, InsidePcs, PastPcs, ClosingPcs, LoopPcs,
                    EndPcs, CalmPcs
<1>6. p \in Pcs /\ q \notin BlockPcs /\ p \notin BlockPcs /\ q \notin LeafPcs /\ q \in CallerPcs
      /\ p \notin ItemPcs
  BY <1>1, <1>2 DEF Pcs, BlockPcs, InsidePcs, LeafPcs, CallerPcs, ClosingPcs, ItemPcs
<1> QED BY <1>1, <1>2, <1>3, <1>4, <1>5, <1>6, EnterTurns

LEMMA LeaveParentTurns ==
  ASSUME CloseInv, NEW t \in AllThreads, LeaveParent(t)
  PROVE  Turns(t)
<1>1. PICK c, q, p : c = Top(t).c /\ q = Top(t).pc /\ p = "close.reset"
  OBVIOUS
<1>2. /\ stack[t] # <<>> /\ q = "close.parent" /\ SameData /\ queue' = queue /\ blocks' = blocks
      /\ IF Parent[c] = None THEN Goto(t, p) ELSE Enter(t, p, Frame("remove", Parent[c], c, FALSE))
  BY <1>1 DEF LeaveParent, At, SameData, words, nodes, exec, history, clients
<1>3. c \in Contexts /\ \A d \in Contexts : Single(d) => c = d
  BY <1>1, <1>2, TopFacts
<1>4. PcTurn(t, c, q, p)
  BY <1>1, <1>2 DEF PcTurn, LeafPcs, CallerPcs, WorkPcs, InsidePcs, PastPcs, ClosingPcs, LoopPcs,
                    EndPcs, CalmPcs
<1>5. p \in Pcs /\ q \notin BlockPcs /\ p \notin BlockPcs /\ q \notin LeafPcs
  BY <1>1, <1>2 DEF Pcs, BlockPcs, InsidePcs, LeafPcs, ClosingPcs
<1>6. CASE Parent[c] = None
  <2>1. Moved(c, q, p)
    BY <1>2, <1>3, <1>5, MovedIs
  <2> QED BY <1>1, <1>2, <1>4, <1>5, <1>6, <2>1, GotoTurns, SameDataIs, SameQueue
<1>7. CASE Parent[c] # None
  <2>1. PICK h : h = Frame("remove", Parent[c], c, FALSE)
    OBVIOUS
  <2>2. Parent[c] \in Contexts
    BY <1>3, <1>7, TreeAssumption
  <2>3. h \in FrameSet /\ h.pc = "remove"
    <3>1. c \in Arguments /\ "remove" \in Pcs
      BY <1>3 DEF Arguments, Nodes, Pcs, KnowPcs
    <3> QED BY <2>1, <2>2, <3>1 DEF Frame, FrameSet
  <2>4. \A d \in Contexts : ~Single(d)
    BY <1>3, <1>7 DEF Single
  <2>5. h.pc \notin CallerPcs /\ h.pc \in LeafPcs
    BY <2>3 DEF CallerPcs, ClosingPcs, LeafPcs
  <2> QED BY <1>1, <1>2, <1>4, <1>5, <1>7, <2>1, <2>3, <2>4, <2>5, EnterTurns
<1> QED BY <1>6, <1>7

\* A work that ran within exec, a closure that is taken, a call that is made.
LEMMA InlineReturnsTurns ==
  ASSUME CloseInv, NEW t \in AllThreads, InlineReturns(t)
  PROVE  Turns(t)
<1>1. /\ SameData /\ queue' = queue /\ blocks' = blocks /\ stack[t] # <<>> /\ Top(t).pc = "inline"
      /\ Shapes /\ HandlersInv
  BY DEF InlineReturns, At, SameData, nodes, exec, history, clients, CloseInv, HandlersInv
<1>2. /\ 1 + 1 \in DOMAIN stack[t] /\ stack[t][1 + 1].pc = "exec.inline" /\ stack[t] \in Seq(FrameSet)
      /\ stack[t][1].pc = "inline"
  BY <1>1, TopIs DEF NestedOK, Shapes
<1>3. PICK f : f = stack[t][2]
  OBVIOUS
<1>4. /\ f \in FrameSet /\ f.pc = "exec.inline" /\ 2 \in DOMAIN stack[t] /\ 2 <= Len(stack[t])
      /\ f.c \in Contexts
  <2>1. 2 \in DOMAIN stack[t] /\ f.pc = "exec.inline" /\ f \in FrameSet /\ 2 <= Len(stack[t])
    BY <1>2, <1>3
  <2> QED BY <2>1 DEF FrameSet
<1>5. f.x \in Works /\ \A c \in Contexts : Single(c) => f.c = c /\ f.x \notin Contexts
  <2>1. f.pc \in WorkPcs
    BY <1>4 DEF WorkPcs
  <2> QED BY <1>3, <1>4, <2>1, FrameFacts
<1>6. PICK g : g = [f EXCEPT !.pc = "exec.unblock"]
  OBVIOUS
<1>7. g \in FrameSet /\ g.pc = "exec.unblock" /\ g.c = f.c /\ g.x = f.x
  BY <1>4, <1>6, FrameIs DEF Pcs
<1>8. PICK a : a = <<g>>
  OBVIOUS
<1>9. Len(a) = 1 /\ a[1] = g /\ a \in Seq(FrameSet) /\ \A i \in 1..Len(a) : i = 1 /\ a[i] = g
  BY <1>7, <1>8, OneIs
<1>10. Moves(t, 2, a)
  <2>1. stack' = [stack EXCEPT ![t] = a \o Tail(Tail(stack[t]))]
    BY <1>1, <1>3, <1>6, <1>8 DEF InlineReturns, Shapes
  <2>2. Tail(Tail(stack[t])) = IF 2 = 0 THEN stack[t] ELSE IF 2 = 1 THEN Tail(stack[t])
                               ELSE Tail(Tail(stack[t]))
    OBVIOUS
  <2>3. stack' = [stack EXCEPT ![t] = a \o (IF 2 = 0 THEN stack[t] ELSE IF 2 = 1 THEN Tail(stack[t])
                                                 ELSE Tail(Tail(stack[t])))]
    BY <2>1, <2>2
  <2> QED BY <1>1, <1>4, <1>9, <2>3, StackMoves
<1>11. Counts(t, 2, a)
  <2>1. PICK c, q, p : c = f.c /\ q = f.pc /\ p = g.pc
    OBVIOUS
  <2>2. Ends(t, 2, a, c, q, p)
    BY <1>3, <1>7, <1>9, <2>1 DEF Ends
  <2>3. Inner(t, 2, a)
    <3>1. \A i \in 1..2 : i < 2 => i = 1
      OBVIOUS
    <3>2. stack[t][1].pc \notin BlockPcs
      BY <1>2 DEF BlockPcs, InsidePcs
    <3>3. \A i \in 1..Len(a) : ~(i < Len(a))
      BY <1>9
    <3> QED BY <3>1, <3>2, <3>3 DEF Inner
  <2>4. q \in BlockPcs /\ p \in BlockPcs
    BY <1>4, <1>7, <2>1 DEF BlockPcs, InsidePcs
  <2>5. Moved(c, q, p)
    BY <1>1, <1>4, <2>1, <2>4, MovedIs
  <2> QED BY <1>4, <1>10, <2>1, <2>2, <2>3, <2>5, CountsIs
<1>12. LowerTurn(t, 2, a)
  BY <1>2, <1>9 DEF LowerTurn, LeafPcs
<1>13. FrameTurn(t, 2, g)
  <2>1. \A P : After(t, 2, g, P) <=> "exec.inline" \in P
    BY <1>3, <1>4, <1>7 DEF After
  <2>2. After(t, 2, g, InsidePcs) /\ g.pc \in CalmPcs
    BY <1>7, <2>1 DEF InsidePcs, CalmPcs
  <2>3. g.pc \notin PastPcs \cup LoopPcs \cup EndPcs \cup CallerPcs
    BY <1>7 DEF PastPcs, ClosingPcs, LoopPcs, EndPcs, CallerPcs
  <2> QED BY <1>5, <1>7, <2>2, <2>3 DEF FrameTurn
<1>14. \A i, j \in 1..Len(a) : ~(i < j)
  BY <1>9
<1>15. Turn(t, 2, a)
  BY <1>1, <1>9, <1>10, <1>11, <1>12, <1>13, <1>14, SameDataIs, SameQueue DEF Turn
<1> QED BY <1>15 DEF Turns

LEMMA TakeTurns ==
  ASSUME CloseInv, TakeClosure
  PROVE  Turns(Worker)
<1>1. /\ SameData /\ blocks' = blocks /\ stack[Worker] = <<>> /\ Worker \in AllThreads
      /\ queue # <<>> /\ queue' = Tail(queue) /\ queue \in Seq(Closures) /\ HandlersInv
  BY DEF TakeClosure, SameData, words, nodes, history, clients, AllThreads, CloseInv, HandlersInv, Shapes
<1>2. PICK e : e = Head(queue)
  OBVIOUS
<1>3. /\ e = queue[1] /\ 1 \in DOMAIN queue /\ e \in Closures
      /\ queue' \in Seq(Closures) /\ Len(queue') = Len(queue) - 1 /\ Len(queue) \in Nat
      /\ \A i \in 1..(Len(queue) - 1) : queue'[i] = queue[i + 1]
  BY <1>1, <1>2, TailIs
<1>4. e.work \in Works /\ \A c \in Contexts : Single(c) => e.ctx = c
  BY <1>3 DEF CloseInv, WorksKnown, OneTree
<1>5. e.ctx \in Contexts /\ e.work \in Arguments
  BY <1>3 DEF Closures
<1>6. PICK g : g = Frame("run", e.ctx, e.work, TRUE)
  OBVIOUS
<1>7. g \in FrameSet /\ g.pc = "run" /\ g.c = e.ctx /\ g.x = e.work
  BY <1>5, <1>6 DEF Frame, FrameSet, Pcs
<1>8. PICK a : a = <<g>>
  OBVIOUS
<1>9. a \in Seq(FrameSet) /\ Len(a) = 1 /\ \A i \in 1..Len(a) : i = 1 /\ a[i] = g
  BY <1>7, <1>8, OneIs
<1>10. Moves(Worker, 0, a)
  <2>1. a \o stack[Worker] = a
    BY <1>1, <1>9
  <2>2. stack' = [stack EXCEPT ![Worker] = a \o stack[Worker]]
    BY <1>2, <1>6, <1>8, <2>1 DEF TakeClosure
  <2> QED BY <1>1, <1>9, <2>2, PushMoves
<1>11. Len(stack[Worker]) = 0
  BY <1>1
<1>12. QueueTurn
  <2>1. SUFFICES ASSUME NEW n \in DOMAIN queue'
                 PROVE  queue'[n].work \in Works /\ \A c \in Contexts : Single(c) => queue'[n].ctx = c
    BY DEF QueueTurn
  <2>2. n \in 1..(Len(queue) - 1)
    BY <1>3
  <2>3. n + 1 \in 1..Len(queue) /\ queue'[n] = queue[n + 1]
    BY <1>3, <2>2
  <2>4. n + 1 \in DOMAIN queue
    BY <1>1, <2>3
  <2> QED BY <2>3, <2>4 DEF CloseInv, WorksKnown, OneTree
<1>13. \A i \in 1..Len(a) :
         /\ i = 1 \/ i = 2
         /\ a[i].pc \in PushedPcs
         /\ a[i].pc \in WorkPcs => a[i].x \in Works
         /\ a[i].pc \in CallerPcs /\ Len(stack[Worker]) > 0 /\ NoWorkCloses =>
              stack[Worker][1].pc = "handler"
         /\ \A c \in Contexts : Single(c) => a[i].c = c /\ a[i].x \notin Contexts
  <2>1. g.pc \in PushedPcs /\ g.x \in Works /\ g.x \notin Contexts
    BY <1>4, <1>7, TreeAssumption DEF PushedPcs
  <2> QED BY <1>4, <1>7, <1>9, <1>11, <2>1
<1>14. Data(Worker)
  BY <1>1, SameDataIs
<1> QED BY <1>1, <1>5, <1>10, <1>11, <1>12, <1>13, <1>14, PushTurns

LEMMA IssueTurns ==
  ASSUME CloseInv, NEW t \in AllThreads, NEW k \in Calls[program], Issue(t, k)
  PROVE  Turns(t)
<1>1. SameData /\ queue' = queue /\ blocks' = blocks /\ k.by = Site(t)
      /\ HandlersInv /\ program \in Programs
  BY DEF Issue, SameData, nodes, exec, CloseInv, HandlersInv, Shapes
<1>2. /\ k.op \in Ops /\ k.ctx \in Contexts /\ k.by \in Threads \cup Works \cup Handlers
      /\ k.arg \in IF k.op \in {"add", "start", "remove"} THEN Handlers
                   ELSE IF k.op = "child" THEN Contexts
                   ELSE IF k.op = "exec" THEN Works ELSE {None}
  BY <1>1, ProgramsAssumption
<1>3. Len(stack[t]) > 0 => /\ stack[t][1].pc \in {"work", "inline", "handler"}
                           /\ stack[t][1].pc \in {"work", "inline"} => k.by \in Works
  <2>1. SUFFICES ASSUME Len(stack[t]) > 0
                 PROVE  /\ stack[t][1].pc \in {"work", "inline", "handler"}
                        /\ stack[t][1].pc \in {"work", "inline"} => k.by \in Works
    OBVIOUS
  <2>2. stack[t] # <<>>
    BY <2>1
  <2>3. Top(t) = stack[t][1] /\ (Top(t).pc \in WorkPcs => Top(t).x \in Works)
    BY <2>2, TopFacts
  <2>4. k.by # None
    BY <1>2, TreeAssumption
  <2>5. Top(t).pc \in {"work", "inline", "handler"} /\ k.by = Top(t).x
    BY <1>1, <2>2, <2>4 DEF Site
  <2> QED BY <2>3, <2>5 DEF WorkPcs
<1>4. NoWorkCloses /\ k.op \in {"close", "destroy"} => k.by \notin Works
  BY DEF NoWorkCloses
<1>5. \A c \in Contexts : Single(c) => k.ctx = c /\ k.op # "child"
  BY DEF Single
<1>6. k.op # "child" => k.arg \notin Contexts
  BY <1>2, TreeAssumption
<1>7. PICK f : f = Frame(k.op, k.ctx, k.arg, TRUE)
  OBVIOUS
<1>8. f \in FrameSet /\ f.pc = k.op /\ f.c = k.ctx /\ f.x = k.arg
  <2>1. k.op \in Pcs /\ k.arg \in Arguments
    BY <1>2 DEF Ops, Pcs, AddPcs, ChildPcs, KnowPcs, Arguments, Nodes
  <2> QED BY <1>2, <1>7, <2>1 DEF Frame, FrameSet
<1>9. PICK h : h = [f EXCEPT !.pc = "close", !.ref = FALSE]
  OBVIOUS
<1>10. h \in FrameSet /\ h.pc = "close" /\ h.c = f.c /\ h.x = f.x
  BY <1>8, <1>9 DEF FrameSet, Pcs
<1>11. PICK a : a = IF k.op = "destroy" THEN <<h, f>> ELSE <<f>>
  OBVIOUS
<1>12. /\ a \in Seq(FrameSet)
       /\ \A i \in 1..Len(a) : (i = 1 \/ i = 2) /\ (a[i] = f \/ (a[i] = h /\ k.op = "destroy"))
  <2>1. CASE k.op = "destroy"
    <3>1. a \in Seq(FrameSet) /\ Len(a) = 2 /\ a[1] = h /\ a[2] = f
      BY <1>8, <1>10, <1>11, <2>1, TwoIs
    <3> QED BY <2>1, <3>1
  <2>2. CASE k.op # "destroy"
    <3>1. a \in Seq(FrameSet) /\ Len(a) = 1 /\ a[1] = f
      BY <1>8, <1>11, <2>2, OneIs
    <3> QED BY <3>1
  <2> QED BY <2>1, <2>2
<1>13. Moves(t, 0, a)
  <2>1. stack \in [AllThreads -> Seq(FrameSet)]
    BY <1>1 DEF HandlersInv, Shapes
  <2>2. stack' = [stack EXCEPT ![t] = a \o stack[t]]
    BY <1>7, <1>9, <1>11, <2>1 DEF Issue
  <2> QED BY <1>1, <1>12, <2>2, PushMoves
<1>14. ASSUME NEW g, g = f \/ (g = h /\ k.op = "destroy")
       PROVE  /\ g.pc \in PushedPcs
              /\ g.pc \in WorkPcs => g.x \in Works
              /\ g.pc \in CallerPcs /\ Len(stack[t]) > 0 /\ NoWorkCloses => stack[t][1].pc = "handler"
              /\ \A c \in Contexts : Single(c) => g.c = c /\ g.x \notin Contexts
  <2>1. g.c = k.ctx /\ g.x = k.arg /\ (g.pc = k.op \/ (g.pc = "close" /\ k.op = "destroy"))
    BY <1>8, <1>10, <1>14
  <2>2. g.pc \in PushedPcs
    BY <1>2, <2>1 DEF Ops, PushedPcs
  <2>3. g.pc \in WorkPcs => g.x \in Works
    BY <1>2, <2>1 DEF Ops, WorkPcs
  <2>4. g.pc \in CallerPcs => k.op \in {"close", "destroy"}
    BY <1>2, <2>1 DEF Ops, CallerPcs, ClosingPcs
  <2> QED BY <1>3, <1>4, <1>5, <1>6, <2>1, <2>2, <2>3, <2>4
<1>15. \A i \in 1..Len(a) :
         /\ i = 1 \/ i = 2
         /\ a[i].pc \in PushedPcs
         /\ a[i].pc \in WorkPcs => a[i].x \in Works
         /\ a[i].pc \in CallerPcs /\ Len(stack[t]) > 0 /\ NoWorkCloses => stack[t][1].pc = "handler"
         /\ \A c \in Contexts : Single(c) => a[i].c = c /\ a[i].x \notin Contexts
  <2> SUFFICES ASSUME NEW i \in 1..Len(a)
               PROVE  /\ i = 1 \/ i = 2
                      /\ a[i].pc \in PushedPcs
                      /\ a[i].pc \in WorkPcs => a[i].x \in Works
                      /\ a[i].pc \in CallerPcs /\ Len(stack[t]) > 0 /\ NoWorkCloses =>
                           stack[t][1].pc = "handler"
                      /\ \A c \in Contexts : Single(c) => a[i].c = c /\ a[i].x \notin Contexts
    OBVIOUS
  <2>1. PICK g : g = a[i]
    OBVIOUS
  <2>2. (i = 1 \/ i = 2) /\ (g = f \/ (g = h /\ k.op = "destroy"))
    BY <1>12, <2>1
  <2> QED BY <1>14, <2>1, <2>2
<1>16. Data(t) /\ QueueTurn
  BY <1>1, SameDataIs, SameQueue
<1> QED BY <1>1, <1>2, <1>3, <1>13, <1>15, <1>16, PushTurns

-----------------------------------------------------------------------------
\* The wait of close.

\* A frame that holds a block has its place.
LEMMA HasPlace ==
  ASSUME CloseInv, NEW u \in AllThreads, NEW i \in DOMAIN stack[u], NEW c \in Contexts,
         stack[u][i].c = c, stack[u][i].pc \in BlockPcs
  PROVE  /\ i \in Nat /\ Len(stack[u]) \in Nat
         /\ <<u, Len(stack[u]) + 1 - i>> \in Places(Blocking(c))
<1>1. stack[u] \in Seq(FrameSet)
  BY DEF CloseInv, HandlersInv, Shapes
<1>2. PICK l \in Nat : l = Len(stack[u])
  BY <1>1
<1>3. i \in 1..l /\ i \in Nat
  BY <1>1, <1>2
<1>4. PICK n : n = l + 1 - i
  OBVIOUS
<1>5. n \in Nat /\ n \in 1..l /\ l + 1 - n = i
  BY <1>3, <1>4
<1>6. stack[u][i] \in Blocking(c)
  <2>1. stack[u][i] \in FrameSet
    BY <1>1
  <2> QED BY <2>1 DEF Blocking
<1>7. FrameAt(u, n) = stack[u][i]
  BY <1>2, <1>5 DEF FrameAt
<1>8. <<u, n>> \in Places(Blocking(c))
  <2>1. PICK q : q = <<u, n>>
    OBVIOUS
  <2>2. q \in AllThreads \X Nat /\ q[1] = u /\ q[2] = n
    BY <1>5, <2>1
  <2>3. q[2] \in 1..Len(stack[q[1]]) /\ FrameAt(q[1], q[2]) \in Blocking(c)
    BY <1>2, <1>5, <1>6, <1>7, <2>2
  <2> QED BY <2>1, <2>2, <2>3 DEF Places
<1> QED BY <1>2, <1>3, <1>4, <1>8

Items(t) == {i \in DOMAIN stack[t] : stack[t][i].pc \in ItemPcs}

\* When no block is left but those of the items of t itself, the others are out.
LEMMA WaitIsOver ==
  ASSUME CloseInv, NEW t \in AllThreads, At(t, "close.wait"), NEW c, c = Top(t).c,
         blocks[c] <= BlockCount(t), ClosesAlone(program)
  PROVE  OnlyHere(t, c)
<1>1. /\ stack[t] # <<>> /\ Top(t) = stack[t][1] /\ stack[t][1].pc = "close.wait" /\ 1 \in DOMAIN stack[t]
      /\ c \in Contexts /\ FrameOK(t, Top(t)) /\ stack[t] \in Seq(FrameSet)
      /\ \A d \in Contexts : Single(d) => c = d
  BY TopFacts, TopIs DEF At, CloseInv, HandlersInv, Shapes
<1>2. closer[c] = t
  BY <1>1 DEF FrameOK, ClosingPcs
<1>3. PICK P : P = Places(Blocking(c))
  OBVIOUS
<1>4. IsFiniteSet(P) /\ blocks[c] = Cardinality(P) /\ Cardinality(P) \in Nat
  BY <1>1, <1>3, FS_CardinalityType DEF CloseInv, BlocksOK
<1>5. BlockCount(t) = Cardinality(Items(t))
  BY DEF BlockCount, Items
<1>6. SUFFICES ASSUME NEW u \in AllThreads, NEW i \in DOMAIN stack[u],
                      stack[u][i].c = c, stack[u][i].pc \in InsidePcs
               PROVE  u = t /\ stack[u][i].pc \in CalmPcs
  BY <1>2 DEF OnlyHere
<1>7. i \in Nat /\ Len(stack[u]) \in Nat /\ <<u, Len(stack[u]) + 1 - i>> \in P
  <2>1. stack[u][i].pc \in BlockPcs
    BY <1>6 DEF BlockPcs
  <2> QED BY <1>1, <1>3, <1>6, <2>1, HasPlace
<1>8. CASE NoWorkCloses
  <2>1. \A j \in DOMAIN stack[t] : stack[t][j].pc \notin ItemPcs
    <3>1. SUFFICES ASSUME NEW j \in DOMAIN stack[t] PROVE stack[t][j].pc \notin ItemPcs
      OBVIOUS
    <3>2. Unworked(stack[t])
      BY <1>8 DEF CloseInv, OutsideWorks
    <3>3. CASE j = 1
      BY <1>1, <3>3 DEF ItemPcs
    <3>4. CASE j # 1
      <4>1. 1 < j
        BY <1>1, <3>4
      <4>2. stack[t][1].pc \in CallerPcs
        BY <1>1 DEF CallerPcs, ClosingPcs
      <4> QED BY <1>1, <3>2, <4>1, <4>2 DEF Unworked
    <3> QED BY <3>3, <3>4
  <2>2. Items(t) = {}
    BY <2>1 DEF Items
  <2>3. Cardinality(P) = 0
    BY <1>4, <1>5, <2>2, FS_EmptySet
  <2>4. P = {}
    BY <1>4, <2>3, FS_EmptySet
  <2> QED BY <1>7, <2>4
<1>9. ASSUME NEW d \in Contexts, Single(d)
      PROVE  u = t /\ stack[u][i].pc \in CalmPcs
  <2>1. c = d
    BY <1>1, <1>9
  <2>2. PICK I : I = Items(t)
    OBVIOUS
  <2>3. PICK l \in Nat : l = Len(stack[t])
    BY <1>1
  <2>4. I \subseteq 1..l
    BY <1>1, <2>2, <2>3 DEF Items
  <2>5. PICK f : f = [j \in I |-> <<t, l + 1 - j>>]
    OBVIOUS
  <2>6. f \in Injection(I, P)
    <3>1. ASSUME NEW j \in I PROVE f[j] \in P
      <4>1. j \in DOMAIN stack[t] /\ stack[t][j].pc \in BlockPcs
        BY <2>2 DEF Items, ItemPcs, BlockPcs, InsidePcs
      <4>2. stack[t][j].c = c
        BY <1>9, <2>1, <4>1 DEF CloseInv, OneTree
      <4>3. <<t, Len(stack[t]) + 1 - j>> \in P
        BY <1>1, <1>3, <4>1, <4>2, HasPlace
      <4> QED BY <2>3, <2>5, <4>3
    <3>2. ASSUME NEW j \in I, NEW k \in I, f[j] = f[k] PROVE j = k
      <4>1. l + 1 - j = l + 1 - k
        BY <2>5, <3>2
      <4>2. l \in Int /\ j \in Int /\ k \in Int
        BY <2>3, <2>4
      <4> QED BY <4>1, <4>2
    <3>3. f \in [I -> P] /\ DOMAIN f = I
      BY <2>5, <3>1
    <3> QED BY <3>2, <3>3 DEF Injection, IsInjective
  <2>7. /\ IsFiniteSet(I) /\ Cardinality(I) <= Cardinality(P)
        /\ Cardinality(I) = Cardinality(P) <=> f \in Surjection(I, P)
    BY <1>4, <2>6, FS_Injection
  <2>8. Cardinality(I) = Cardinality(P)
    <3>1. Cardinality(I) \in Nat
      BY <2>7, FS_CardinalityType
    <3> QED BY <1>4, <1>5, <2>2, <2>7, <3>1
  <2>9. PICK j \in I : f[j] = <<u, Len(stack[u]) + 1 - i>>
    BY <1>7, <2>7, <2>8 DEF Surjection
  <2>10. u = t /\ l + 1 - j = Len(stack[u]) + 1 - i
    BY <2>5, <2>9
  <2>11. i = j
    BY <1>7, <2>3, <2>4, <2>10
  <2>12. stack[t][i].pc \in ItemPcs
    BY <2>2, <2>11 DEF Items
  <2>13. i # 1
    BY <1>1, <2>12 DEF ItemPcs
  <2>14. Plain(stack[t][i])
    <3>1. i > 1
      BY <2>4, <2>11, <2>13
    <3>2. LowerOK(stack[t], i)
      BY <1>6, <2>10 DEF CloseInv, Lower
    <3> QED BY <1>1, <3>1, <3>2 DEF LowerOK, LeafPcs
  <2> QED BY <2>10, <2>12, <2>14 DEF Plain, ItemPcs, BlockPcs, InsidePcs, CalmPcs
<1> QED BY <1>8, <1>9 DEF ClosesAlone, NoWorkCloses, Single

LEMMA WaitTurns ==
  ASSUME CloseInv, NEW t \in AllThreads, WaitForClosing(t), ClosesAlone(program)
  PROVE  Turns(t)
<1>1. PICK c, q, p : c = Top(t).c /\ q = Top(t).pc /\ p = "close.flag"
  OBVIOUS
<1>2. /\ stack[t] # <<>> /\ q = "close.wait" /\ SameData /\ queue' = queue /\ blocks' = blocks
      /\ Goto(t, p) /\ At(t, "close.wait") /\ blocks[c] <= BlockCount(t)
  BY <1>1 DEF WaitForClosing, At, SameData, words, nodes, exec, history, clients
<1>3. OnlyHere(t, c) /\ c \in Contexts
  BY <1>1, <1>2, WaitIsOver, TopFacts
<1>4. PcTurn(t, c, q, p)
  BY <1>1, <1>2, <1>3 DEF PcTurn, LeafPcs, CallerPcs, WorkPcs, InsidePcs, PastPcs, ClosingPcs, LoopPcs,
                    EndPcs, CalmPcs
<1>5. p \in Pcs /\ Moved(c, q, p)
  <2>1. q \notin BlockPcs /\ p \notin BlockPcs /\ p \in Pcs
    BY <1>1, <1>2 DEF BlockPcs, InsidePcs, Pcs, ClosingPcs
  <2> QED BY <1>2, <1>3, <2>1, MovedIs
<1> QED BY <1>1, <1>2, <1>4, <1>5, GotoTurns, SameDataIs, SameQueue

-----------------------------------------------------------------------------
LEMMA CloseInit == Init => CloseInv
<1> SUFFICES ASSUME Init PROVE CloseInv
  OBVIOUS
<1>1. HandlersInv
  BY InitHolds
<1>2. \A t \in AllThreads : stack[t] = <<>> /\ Len(stack[t]) = 0 /\ \A i \in DOMAIN stack[t] : FALSE
  BY DEF Init
<1>3. BlocksOK
  <2>1. \A F : Places(F) = {}
    <3>1. \A u \in AllThreads : 1..Len(stack[u]) = {}
      BY <1>2
    <3> QED BY <3>1 DEF Places
  <2>2. \A c \in Contexts : blocks[c] = 0
    BY DEF Init
  <2>3. blocks \in [Contexts -> Nat]
    BY DEF Init
  <2> QED BY <2>1, <2>2, <2>3, FS_EmptySet DEF BlocksOK
<1>4. Lower /\ Stages
  BY <1>2 DEF Lower, Stages
<1>5. \A c \in Contexts : flags[c] = {}
  BY DEF Init
<1>6. Excluded /\ FlagsOK
  BY <1>2, <1>5 DEF Excluded, Past, FlagsOK
<1>7. WorksKnown /\ OutsideWorks
  <2>1. queue = <<>>
    BY DEF Init
  <2> QED BY <1>2, <2>1 DEF WorksKnown, OutsideWorks, Unworked
<1>8. OneTree
  <2>1. queue = <<>>
    BY DEF Init
  <2>2. ASSUME NEW c \in Contexts, Single(c), NEW d \in Contexts PROVE \A n \in DOMAIN list[d] : FALSE
    <3>1. PICK S : S = {k \in Initial[program] : Parent[k] = d}
      OBVIOUS
    <3>2. S = {}
      BY <2>2, <3>1, TreeAssumption DEF Single
    <3>3. list[d] \in Seq(S)
      <4>1. list[d] = SetToSeq(S)
        BY <3>1 DEF Init
      <4>2. IsFiniteSet(S)
        BY <3>2, FS_EmptySet
      <4> QED BY <4>1, <4>2, SetToSeqIs
    <3> QED BY <3>2, <3>3
  <2> QED BY <1>2, <2>1, <2>2 DEF OneTree
<1> QED BY <1>1, <1>3, <1>4, <1>6, <1>7, <1>8 DEF CloseInv

LEMMA CloseStutters ==
  ASSUME CloseInv, HandlersInv', UNCHANGED vars
  PROVE  CloseInv'
<1> USE DEF vars, words, nodes, exec, history, clients
<1>1. BlocksOK'
  <2>1. \A F : Places(F)' = Places(F)
    BY DEF Places, FrameAt
  <2>2. SUFFICES ASSUME NEW c \in Contexts
                 PROVE  /\ IsFiniteSet(Places(Blocking(c)))'
                        /\ blocks'[c] = Cardinality(Places(Blocking(c)))'
    BY DEF CloseInv, BlocksOK
  <2>3. PICK F : F = Blocking(c)
    OBVIOUS
  <2>4. IsFiniteSet(Places(F)) /\ blocks[c] = Cardinality(Places(F))
    BY <2>3 DEF CloseInv, BlocksOK
  <2>5. IsFiniteSet(Places(F)') /\ blocks'[c] = Cardinality(Places(F)')
    BY <2>1, <2>4
  <2>6. Places(F)' = Places(Blocking(c))'
    BY <2>3
  <2> QED BY <2>5, <2>6
<1>2. Lower' /\ Stages' /\ FlagsOK'
  BY DEF CloseInv, Lower, Stages, StageOK, FlagsOK
<1>3. Excluded'
  BY DEF CloseInv, Excluded, Past
<1>4. WorksKnown' /\ OutsideWorks'
  BY DEF CloseInv, WorksKnown, OutsideWorks, NoWorkCloses
<1>5. OneTree'
  BY DEF CloseInv, OneTree, Single
<1> QED BY <1>1, <1>2, <1>3, <1>4, <1>5 DEF CloseInv

\* Every step is a turn of some thread.
LEMMA StepTurns ==
  ASSUME CloseInv, [Next]_vars, ClosesAlone(program)
  PROVE  UNCHANGED vars \/ \E t \in AllThreads : Turns(t)
<1>1. ASSUME NEW t \in AllThreads, ExecStep(t) PROVE Turns(t)
  BY <1>1, BlockCloses, SimpleReturns, PostTurns, PostInlineTurns, InlineReturnsTurns, SimpleGotos
     DEF ExecStep
<1>2. ASSUME NEW t \in AllThreads, HandlerStep(t) PROVE Turns(t)
  BY <1>2, BlockCloses, SimpleReturns, InsertTurns, ConstructTurns, SimpleGotos, StartThrowsTurns,
     RemoveTurns DEF HandlerStep
<1>3. ASSUME NEW t \in AllThreads, CloseStep(t) PROVE Turns(t)
  BY <1>3, StartCloseTurns, WaitTurns, SetClosingTurns, PopTurns, CallHandlerTurns, SimpleReturns,
     SimpleGotos, CloseChildTurns, LeaveParentTurns, ResetTurns, SetClosedTurns DEF CloseStep
<1>4. ASSUME NEW t \in AllThreads, NEW k \in Calls[program], Issue(t, k) PROVE Turns(t)
  BY <1>4, IssueTurns
<1>5. TakeClosure => Turns(Worker) /\ Worker \in AllThreads
  BY TakeTurns DEF AllThreads
<1> QED BY <1>1, <1>2, <1>3, <1>4, <1>5 DEF Next, Step, Quiescent

LEMMA CloseKeeps ==
  ASSUME CloseInv, [Next]_vars, \A g \in Programs : ClosesAlone(g)
  PROVE  CloseInv'
<1>1. HandlersInv' /\ ClosesAlone(program)
  BY StepKeeps DEF CloseInv, HandlersInv, Shapes
<1>2. UNCHANGED vars \/ \E t \in AllThreads : Turns(t)
  BY <1>1, StepTurns
<1>3. ASSUME NEW t \in AllThreads, Turns(t) PROVE CloseInv'
  BY <1>1, <1>3, TurnKeeps DEF Turns
<1> QED BY <1>1, <1>2, <1>3, CloseStutters

\* The blocks of a context are counted frame by frame, and whoever is past the wait
\* of its close is alone in it, where no work closes but that of a single context.
THEOREM ClosesAreKnown ==
  ASSUME \A g \in Programs : ClosesAlone(g)
  PROVE  Spec => []CloseInv
BY CloseInit, CloseKeeps, PTL DEF Spec

\* "Wait until other threads remove their blockClose" (ao-context-impl.h:256): once
\* the Closing flag is set nobody else is inside.
THEOREM ClosingExcludes ==
  ASSUME \A g \in Programs : ClosesAlone(g)
  PROVE  Spec => []ClosingExcludesOthers
<1>1. CloseInv => ClosingExcludesOthers
  <2> SUFFICES ASSUME CloseInv, NEW c \in Contexts, "Closing" \in flags[c], NEW t \in AllThreads,
                      Inside(t, c)
               PROVE  t = closer[c]
    BY DEF ClosingExcludesOthers
  <2>1. PICK i \in DOMAIN stack[t] : stack[t][i].c = c /\ stack[t][i].pc \in InsidePcs
    BY DEF Inside, FramesOf, ToSet
  <2> QED BY <2>1 DEF CloseInv, Excluded, Past
<1> QED BY <1>1, ClosesAreKnown, PTL

THEOREM HandlersAreNotForgotten ==
  ASSUME \A g \in Programs : ClosesAlone(g)
  PROVE  Spec => []NoHandlerForgotten
<1>1. CloseInv => NoHandlerForgotten
  BY DEF CloseInv, FlagsOK, NoHandlerForgotten
<1> QED BY <1>1, ClosesAreKnown, PTL

-----------------------------------------------------------------------------
\* The root is the gate of CloseGate.

LEMMA RootIs == Root \in Contexts /\ Parent[Root] = None
BY RootAssumption DEF Root

\* What a turn of t does to who is inside a context.
LEMMA TurnInside ==
  ASSUME CloseInv, NEW t \in AllThreads, Turns(t), NEW c \in Contexts
  PROVE  /\ \A u \in AllThreads \ {t} : Inside(u, c)' <=> Inside(u, c)
         /\ Inside(t, c)' => Inside(t, c) \/ "PreparingForClosing" \notin flags'[c]
         /\ flags[c] \subseteq flags'[c]
<1>1. PICK k, a : Turn(t, k, a)
  BY DEF Turns
<1>2. Shapes /\ Moves(t, k, a) /\ Data(t) /\ \A i \in 1..Len(a) : FrameTurn(t, k, a[i])
  BY <1>1 DEF CloseInv, HandlersInv, Turn
<1>3. ASSUME NEW u \in AllThreads \ {t} PROVE Inside(u, c)' <=> Inside(u, c)
  <2>1. stack'[u] = stack[u]
    BY <1>2 DEF Moves
  <2> QED BY <2>1 DEF Inside, FramesOf
<1>4. ASSUME Inside(t, c)' PROVE Inside(t, c) \/ "PreparingForClosing" \notin flags'[c]
  <2>1. PICK i \in DOMAIN stack'[t] : stack'[t][i].c = c /\ stack'[t][i].pc \in InsidePcs
    BY <1>4 DEF Inside, FramesOf, ToSet
  <2>2. ASSUME NEW j \in DOMAIN stack[t], stack[t][j].c = c, stack[t][j].pc \in InsidePcs
        PROVE  Inside(t, c)
    BY <2>2 DEF Inside, FramesOf, ToSet
  <2>3. CASE i \in 1..Len(a) /\ stack'[t][i] = a[i]
    <3>1. PICK f : f = a[i]
      OBVIOUS
    <3>2. f.c = c /\ f.pc \in InsidePcs /\ FrameTurn(t, k, f)
      BY <1>2, <2>1, <2>3, <3>1
    <3>3. "PreparingForClosing" \notin flags'[c] \/ After(t, k, f, InsidePcs)
      BY <3>2 DEF FrameTurn
    <3>4. ASSUME After(t, k, f, InsidePcs) PROVE Inside(t, c)
      <4>1. k \in DOMAIN stack[t] /\ stack[t][k].c = c /\ stack[t][k].pc \in InsidePcs
        BY <1>2, <3>2, <3>4 DEF After, Moves, Shapes
      <4> QED BY <2>2, <4>1
    <3> QED BY <3>3, <3>4
  <2>4. ASSUME NEW j \in DOMAIN stack[t], stack'[t][i] = stack[t][j] PROVE Inside(t, c)
    BY <2>1, <2>2, <2>4
  <2> QED BY <1>2, <2>3, <2>4, Comes
<1> QED BY <1>2, <1>3, <1>4 DEF Data

\* The top frame goes on: whether the thread is inside, the other frames decide.
LEMMA GotoInside ==
  ASSUME CloseInv, NEW t \in AllThreads, stack[t] # <<>>, NEW g \in FrameSet, Moves(t, 1, <<g>>),
         Top(t).pc \notin InsidePcs, g.pc \notin InsidePcs, NEW c \in Contexts, NEW u \in AllThreads
  PROVE  Inside(u, c)' <=> Inside(u, c)
<1>1. CASE u # t
  <2>1. stack'[u] = stack[u]
    BY <1>1 DEF Moves
  <2> QED BY <2>1 DEF Inside, FramesOf
<1>2. CASE u = t
  <2>1. stack[t] \in Seq(FrameSet) /\ stack'[t] \in Seq(FrameSet) /\ Len(stack[t]) >= 1
        /\ Top(t) = stack[t][1]
    BY TopIs DEF CloseInv, HandlersInv, Shapes, Moves
  <2>2. PICK n \in Nat : n = Len(stack[t]) /\ DOMAIN stack[t] = 1..n
    BY <2>1
  <2>3. DOMAIN stack'[t] = 1..n /\ \A i \in 1..n : stack'[t][i] = IF i <= 1 THEN g ELSE stack[t][i]
    <3>1. PICK a : a = <<g>>
      OBVIOUS
    <3>2. Len(a) = 1 /\ a[1] = g /\ Moves(t, 1, a)
      BY <3>1, OneIs
    <3>3. Len(stack'[t]) = n
      BY <2>2, <3>2 DEF Moves
    <3>4. \A i \in 1..n : stack'[t][i] = IF i <= 1 THEN a[i] ELSE stack[t][i - 1 + 1]
      BY <3>2, <3>3 DEF Moves
    <3>5. \A i \in 1..n : i - 1 + 1 = i /\ (i <= 1 => i = 1)
      OBVIOUS
    <3> QED BY <2>1, <3>2, <3>3, <3>4, <3>5
  <2>4. \A i \in 1..n : stack'[t][i] = stack[t][i] \/ (stack'[t][i] = g /\ stack[t][i] = Top(t))
    <3>1. \A i \in 1..n : i <= 1 => i = 1
      OBVIOUS
    <3> QED BY <2>1, <2>3, <3>1
  <2>5. (\E f \in ToSet(stack'[t]) : f.c = c /\ f.pc \in InsidePcs)
           <=> \E f \in ToSet(stack[t]) : f.c = c /\ f.pc \in InsidePcs
    BY <2>2, <2>3, <2>4 DEF ToSet
  <2> QED BY <1>2, <2>5 DEF Inside, FramesOf
<1> QED BY <1>1, <1>2

LEMMA SetClosingMoves ==
  ASSUME CloseInv, NEW t \in AllThreads, SetClosingFlag(t)
  PROVE  \E g \in FrameSet : Moves(t, 1, <<g>>) /\ g.pc = "close.pop"
<1>1. stack[t] # <<>>
  BY DEF SetClosingFlag, At
<1>2. PICK g : g = [Top(t) EXCEPT !.pc = "close.pop", !.x = None]
  OBVIOUS
<1>3. Top(t) = stack[t][1] /\ Len(stack[t]) >= 1 /\ stack[t] \in Seq(FrameSet)
      /\ stack[t][1] \in FrameSet /\ stack \in [AllThreads -> Seq(FrameSet)]
  BY <1>1, TopIs DEF CloseInv, HandlersInv, Shapes
<1>4. stack' = [stack EXCEPT ![t] = [@ EXCEPT ![1] = g]]
  BY <1>2, <1>3 DEF SetClosingFlag
<1>5. g \in FrameSet /\ g.pc = "close.pop"
  BY <1>2, <1>3 DEF FrameSet, Pcs, ClosingPcs, Arguments
<1> QED BY <1>1, <1>4, <1>5, ReframeMoves

\* The other steps leave the flags and the closing thread alone.
LEMMA OtherSteps ==
  ASSUME [Next]_vars
  PROVE  \/ flags' = flags /\ closer' = closer
         \/ \E t \in AllThreads : StartClose(t) \/ SetClosingFlag(t) \/ SetClosedFlag(t)
<1> USE DEF vars, words, nodes, history, clients
<1>1. ASSUME NEW t \in AllThreads, ExecStep(t) PROVE flags' = flags /\ closer' = closer
  BY <1>1 DEF ExecStep, BlockClose, UndoBlock, Post, PostInline, InlineReturns, Unblock, RunBlock,
              RunUndo, RunDrop, WorkReturns
<1>2. ASSUME NEW t \in AllThreads, HandlerStep(t) PROVE flags' = flags /\ closer' = closer
  BY <1>2 DEF HandlerStep, BlockClose, UndoBlock, Insert, ConstructChild, ChildMade, StartSucceeds,
              StartThrows, Unblock, RemoveCloseHandler, RemoveWait
<1>3. ASSUME NEW t \in AllThreads, CloseStep(t)
      PROVE  \/ flags' = flags /\ closer' = closer
             \/ StartClose(t) \/ SetClosingFlag(t) \/ SetClosedFlag(t)
  BY <1>3 DEF CloseStep, WaitForClosing, PopHandler, CallHandler, HandlerReturns, Anchor, CloseChild,
              ReleaseAnchor, LeaveParent, ResetExecutor, CloseReturns, WaitForClosed, ReleaseOwner
<1>4. ASSUME NEW t \in AllThreads, NEW k \in Calls[program], Issue(t, k)
      PROVE  flags' = flags /\ closer' = closer
  BY <1>4 DEF Issue
<1>5. TakeClosure => flags' = flags /\ closer' = closer
  BY DEF TakeClosure
<1>6. UNCHANGED vars => flags' = flags /\ closer' = closer
  OBVIOUS
<1> QED BY <1>1, <1>2, <1>3, <1>4, <1>5, <1>6 DEF Next, Step, Quiescent

LEMMA GateStep ==
  ASSUME CloseInv, CloseInv', [Next]_vars, ClosesAlone(program)
  PROVE  [Gate!Next]_(Gate!vars)
<1> DEFINE inside == {u \in AllThreads : Inside(u, Root)}
<1> USE DEF Gate!Next, Gate!vars
<1>0. Root \in Contexts
  BY RootIs
<1>1. /\ flags \in [Contexts -> SUBSET Flags] /\ closer \in [Contexts -> AllThreads \cup {None}]
      /\ "Closing" \in flags[Root] => "PreparingForClosing" \in flags[Root]
      /\ "Closed" \in flags[Root] => "Closing" \in flags[Root]
  BY <1>0 DEF CloseInv, HandlersInv, Shapes, FlagsOK
<1>2. ASSUME NEW t \in AllThreads, stack[t] # <<>>, NEW g, Moves(t, 1, <<g>>), g \in FrameSet,
             Top(t).pc \notin InsidePcs, g.pc \notin InsidePcs
      PROVE  inside' = inside
  BY <1>0, <1>2, GotoInside
<1>3. ASSUME NEW t \in AllThreads, StartClose(t) PROVE [Gate!Next]_(Gate!vars)
  <2>1. PICK p : /\ p \in {"close.lost", "close.wait"} /\ Goto(t, p) /\ stack[t] # <<>>
                 /\ Top(t).pc = "close"
    BY <1>3 DEF StartClose, At
  <2>2. Shapes /\ Top(t) \in FrameSet /\ p \in Pcs /\ p \notin InsidePcs
    BY <2>1, TopIs DEF CloseInv, HandlersInv, Pcs, ClosingPcs, InsidePcs
  <2>3. PICK g : g = [Top(t) EXCEPT !.pc = p] /\ g \in FrameSet /\ g.pc = p
    BY <2>2, FrameIs
  <2>4. inside' = inside
    BY <1>2, <2>1, <2>2, <2>3, GotoMoves DEF InsidePcs
  <2>5. CASE Top(t).c # Root \/ "PreparingForClosing" \in flags[Root]
    <3>1. flags'[Root] = flags[Root] /\ closer'[Root] = closer[Root]
      BY <1>0, <1>1, <1>3, <2>5 DEF StartClose
    <3> QED BY <2>4, <3>1
  <2>6. CASE Top(t).c = Root /\ "PreparingForClosing" \notin flags[Root]
    <3>1. flags'[Root] = flags[Root] \cup {"PreparingForClosing"} /\ closer'[Root] = t
      BY <1>0, <1>1, <1>3, <2>6 DEF StartClose
    <3>2. Gate!Prepare(t)
      BY <1>1, <2>4, <2>6, <3>1 DEF Gate!Prepare
    <3> QED BY <3>2
  <2> QED BY <2>5, <2>6
<1>4. ASSUME NEW t \in AllThreads, SetClosingFlag(t) PROVE [Gate!Next]_(Gate!vars)
  <2>1. stack[t] # <<>> /\ Top(t).pc = "close.flag" /\ closer' = closer
        /\ flags' = [flags EXCEPT ![Top(t).c] = @ \cup {"Closing"}]
    BY <1>4 DEF SetClosingFlag, At
  <2>2. inside' = inside
    <3>1. PICK g : g \in FrameSet /\ Moves(t, 1, <<g>>) /\ g.pc = "close.pop"
      BY <1>4, SetClosingMoves
    <3> QED BY <1>2, <2>1, <3>1 DEF InsidePcs
  <2>3. CASE Top(t).c # Root \/ "Closing" \in flags[Root]
    <3>1. flags'[Root] = flags[Root]
      BY <1>0, <1>1, <2>1, <2>3
    <3> QED BY <2>1, <2>2, <3>1
  <2>4. CASE Top(t).c = Root /\ "Closing" \notin flags[Root]
    <3>1. flags'[Root] = flags[Root] \cup {"Closing"} /\ "PreparingForClosing" \in flags[Root]
      BY <1>0, <1>1, <2>1, <2>4, TopFacts DEF ClosingPcs
    <3>2. Past(Root)
      BY <2>1, <2>4, TopFacts DEF PastPcs, ClosingPcs
    <3>3. \A u \in AllThreads : Inside(u, Root) => u = closer[Root]
      <4>1. SUFFICES ASSUME NEW u \in AllThreads, Inside(u, Root) PROVE u = closer[Root]
        OBVIOUS
      <4>2. PICK i \in DOMAIN stack[u] : stack[u][i].c = Root /\ stack[u][i].pc \in InsidePcs
        BY <4>1 DEF Inside, FramesOf, ToSet
      <4> QED BY <1>0, <3>2, <4>2 DEF CloseInv, Excluded
    <3>4. Gate!BeginClosing
      BY <1>1, <2>1, <2>2, <2>4, <3>1, <3>3 DEF Gate!BeginClosing
    <3> QED BY <3>4
  <2> QED BY <2>3, <2>4
<1>5. ASSUME NEW t \in AllThreads, SetClosedFlag(t) PROVE [Gate!Next]_(Gate!vars)
  <2>1. /\ stack[t] # <<>> /\ Top(t).pc = "close.closed" /\ closer' = closer
        /\ flags' = [flags EXCEPT ![Top(t).c] = @ \cup {"Closed"}] /\ Goto(t, "close.release")
    BY <1>5 DEF SetClosedFlag, At
  <2>2. inside' = inside
    <3>1. Shapes /\ Top(t) \in FrameSet /\ "close.release" \in Pcs
      BY <2>1, TopIs DEF CloseInv, HandlersInv, Pcs, ClosingPcs
    <3>2. PICK g : g = [Top(t) EXCEPT !.pc = "close.release"] /\ g \in FrameSet /\ g.pc = "close.release"
      BY <3>1, FrameIs
    <3> QED BY <1>2, <2>1, <3>1, <3>2, GotoMoves DEF InsidePcs
  <2>3. CASE Top(t).c # Root \/ "Closed" \in flags[Root]
    <3>1. flags'[Root] = flags[Root]
      BY <1>0, <1>1, <2>1, <2>3
    <3> QED BY <2>1, <2>2, <3>1
  <2>4. CASE Top(t).c = Root /\ "Closed" \notin flags[Root]
    <3>1. flags'[Root] = flags[Root] \cup {"Closed"} /\ "Closing" \in flags[Root]
      BY <1>0, <1>1, <2>1, <2>4, TopFacts DEF StageOK, EndPcs
    <3>2. Gate!FinishClosing
      BY <2>1, <2>2, <2>4, <3>1 DEF Gate!FinishClosing
    <3> QED BY <3>2
  <2> QED BY <2>3, <2>4
<1>6. ASSUME flags' = flags, closer' = closer, NEW t \in AllThreads, Turns(t)
      PROVE  [Gate!Next]_(Gate!vars)
  <2>1. /\ \A u \in AllThreads \ {t} : Inside(u, Root)' <=> Inside(u, Root)
        /\ Inside(t, Root)' => Inside(t, Root) \/ "PreparingForClosing" \notin flags[Root]
    BY <1>0, <1>6, TurnInside
  <2>2. CASE ~Inside(t, Root)'
    <3>1. inside' = inside \ {t}
      BY <2>1, <2>2
    <3>2. Gate!Leave(t)
      BY <1>6, <3>1 DEF Gate!Leave
    <3> QED BY <3>2
  <2>3. CASE Inside(t, Root)' /\ Inside(t, Root)
    <3>1. inside' = inside
      BY <2>1, <2>3
    <3> QED BY <1>6, <3>1
  <2>4. CASE Inside(t, Root)' /\ "PreparingForClosing" \notin flags[Root]
    <3>1. inside' = inside \cup {t}
      BY <2>1, <2>4
    <3>2. Gate!Enter(t)
      BY <1>1, <1>6, <2>4, <3>1 DEF Gate!Enter
    <3> QED BY <3>2
  <2> QED BY <2>1, <2>2, <2>3, <2>4
<1>7. CASE UNCHANGED vars
  <2>1. inside' = inside
    BY <1>7 DEF vars, Inside, FramesOf
  <2> QED BY <1>7, <2>1 DEF vars, words
<1>8. UNCHANGED vars \/ \E t \in AllThreads : Turns(t)
  BY StepTurns
<1> QED BY <1>3, <1>4, <1>5, <1>6, <1>7, <1>8, OtherSteps

\* The root lets threads in, waits for them and calls its close handlers as CloseGate
\* states it, each in one step of the code.
THEOREM RootIsCloseGate ==
  ASSUME \A g \in Programs : ClosesAlone(g)
  PROVE  Spec => ImplementsCloseGate
<1>1. Init => Gate!Init
  <2> SUFFICES ASSUME Init PROVE Gate!Init
    OBVIOUS
  <2>1. flags[Root] = {} /\ closer[Root] = None /\ \A t \in AllThreads : stack[t] = <<>>
    BY RootIs DEF Init
  <2>2. \A t \in AllThreads : ~Inside(t, Root)
    BY <2>1 DEF Inside, FramesOf, ToSet
  <2> QED BY <2>1, <2>2 DEF Gate!Init
<1>2. CloseInv /\ CloseInv' /\ [Next]_vars => [Gate!Next]_(Gate!vars)
  BY GateStep DEF CloseInv, HandlersInv, Shapes
<1> QED BY <1>1, <1>2, ClosesAreKnown, PTL DEF Spec, ImplementsCloseGate, Gate!Spec

-----------------------------------------------------------------------------
\* The spots of the frames: a frame keeps its spot while it is there, whatever
\* is called above it.

Spots    == {q \in AllThreads \X Nat : q[2] \in 1..Len(stack[q[1]])}
Fr(q)    == FrameAt(q[1], q[2])
Under(q) == <<q[1], q[2] - 1>>
TopSpot(t) == <<t, Len(stack[t])>>

\* The frames in K stay, those in N are new or have changed.
Given(K, N) ==
  /\ K \subseteq Spots /\ Spots' = K \cup N /\ K \cap N = {}
  /\ \A q \in K : Fr(q)' = Fr(q)
  /\ \A q \in K : Under(q) \in Spots => Under(q) \in K
  /\ \A q \in N, r \in K : q[1] = r[1] => r[2] < q[2]

LEMMA SpotIs ==
  ASSUME Shapes, NEW q \in Spots
  PROVE  /\ q[1] \in AllThreads /\ q[2] \in Nat /\ q[2] >= 1 /\ q = <<q[1], q[2]>>
         /\ q[2] <= Len(stack[q[1]]) /\ Len(stack[q[1]]) \in Nat
         /\ Len(stack[q[1]]) + 1 - q[2] \in DOMAIN stack[q[1]]
         /\ Fr(q) = stack[q[1]][Len(stack[q[1]]) + 1 - q[2]] /\ Fr(q) \in FrameSet
         /\ Under(q) \in Spots <=> q[2] # 1
<1>1. PICK t \in AllThreads, n \in Nat : q = <<t, n>> /\ n \in 1..Len(stack[t])
  BY DEF Spots
<1>2. stack[t] \in Seq(FrameSet) /\ Len(stack[t]) \in Nat
  BY DEF Shapes
<1>3. Len(stack[t]) + 1 - n \in 1..Len(stack[t]) /\ 1..Len(stack[t]) = DOMAIN stack[t]
  BY <1>1, <1>2
<1>4. Fr(q) = stack[t][Len(stack[t]) + 1 - n] /\ Fr(q) \in FrameSet
  BY <1>1, <1>2, <1>3 DEF Fr, FrameAt
<1>5. Under(q) = <<t, n - 1>>
  BY <1>1 DEF Under
<1>6. <<t, n - 1>> \in Spots <=> n # 1
  BY <1>1, <1>2 DEF Spots
<1> QED BY <1>1, <1>2, <1>3, <1>4, <1>5, <1>6

LEMMA FrameSpot ==
  ASSUME Shapes, NEW t \in AllThreads, NEW i \in DOMAIN stack[t], NEW q, q = <<t, Len(stack[t]) + 1 - i>>
  PROVE  q \in Spots /\ Fr(q) = stack[t][i] /\ q[1] = t /\ q[2] = Len(stack[t]) + 1 - i
<1>1. stack[t] \in Seq(FrameSet) /\ Len(stack[t]) \in Nat /\ i \in 1..Len(stack[t])
  BY DEF Shapes
<1>2. /\ Len(stack[t]) + 1 - i \in 1..Len(stack[t]) /\ Len(stack[t]) + 1 - i \in Nat
      /\ Len(stack[t]) + 1 - (Len(stack[t]) + 1 - i) = i
  BY <1>1
<1> QED BY <1>2 DEF Spots, Fr, FrameAt

Kept(t, b)        == {q \in Spots : q[1] # t \/ q[2] <= b}
Newer(t, b, m)    == {<<t, b + n>> : n \in 1..m}
GivesAt(t, b, N, a) == \A n \in 1..Len(a) : <<t, b + n>> \in N /\ Fr(<<t, b + n>>)' = a[Len(a) + 1 - n]

LEMMA SpotsMove ==
  ASSUME Shapes, NEW t \in AllThreads, NEW k, NEW a, Moves(t, k, a),
         NEW b, b = Len(stack[t]) - k,
         NEW K, K = Kept(t, b), NEW N, N = Newer(t, b, Len(a))
  PROVE  Given(K, N) /\ GivesAt(t, b, N, a)
<1>0. /\ K = {q \in Spots : q[1] # t \/ q[2] <= b}
      /\ N = {<<t, b + n>> : n \in 1..Len(a)}
  BY DEF Kept, Newer
<1>1. PICK m \in Nat, l \in Nat : m = Len(a) /\ l = Len(stack[t])
  <2>1. stack[t] \in Seq(FrameSet) /\ a \in Seq(FrameSet)
    BY DEF Shapes, Moves
  <2> QED BY <2>1
<1>2. k \in 0..l /\ b = l - k /\ b \in Nat /\ b <= l /\ k \in Nat /\ Len(stack'[t]) = b + m
  BY <1>1 DEF Moves
<1>3. \A i \in 1..(b + m) : stack'[t][i] = IF i <= m THEN a[i] ELSE stack[t][i - m + k]
  BY <1>1, <1>2 DEF Moves
<1>4. \A u \in AllThreads \ {t} : stack'[u] = stack[u]
  BY DEF Moves
<1>5. ASSUME NEW n \in Nat, n >= 1, n <= b PROVE FrameAt(t, n)' = FrameAt(t, n)
  <2>1. PICK i : i = b + m + 1 - n
    OBVIOUS
  <2>2. i \in 1..(b + m) /\ ~(i <= m) /\ i - m + k = l + 1 - n
    <3>1. l \in Int /\ m \in Int /\ b \in Int /\ k \in Int /\ n \in Int
      BY <1>2
    <3> QED BY <1>2, <1>5, <2>1, <3>1
  <2>3. stack'[t][i] = stack[t][l + 1 - n]
    BY <1>3, <2>2
  <2> QED BY <1>1, <1>2, <2>1, <2>3 DEF FrameAt
<1>6. ASSUME NEW n \in 1..m PROVE FrameAt(t, b + n)' = a[m + 1 - n]
  <2>1. PICK i : i = m + 1 - n
    OBVIOUS
  <2>2. i \in 1..(b + m) /\ i <= m /\ b + m + 1 - (b + n) = i
    <3>1. n \in Int /\ m \in Int /\ b \in Int /\ 1 <= n /\ n <= m /\ 0 <= b
      BY <1>1, <1>2
    <3> QED BY <2>1, <3>1
  <2>3. stack'[t][i] = a[i]
    BY <1>3, <2>2
  <2> QED BY <1>2, <2>1, <2>2, <2>3 DEF FrameAt
<1>7. ASSUME NEW u \in AllThreads, NEW n \in Nat
      PROVE  /\ <<u, n>> \in Spots <=> n \in 1..Len(stack[u])
             /\ <<u, n>> \in Spots' <=> n \in 1..Len(stack'[u])
             /\ <<u, n>> \in K <=> n \in 1..Len(stack[u]) /\ (u # t \/ n <= b)
  BY <1>0 DEF Spots
<1>8. Spots' = K \cup N
  <2>1. ASSUME NEW q \in Spots' PROVE q \in K \cup N
    <3>1. PICK u \in AllThreads, n \in Nat : q = <<u, n>> /\ n \in 1..Len(stack'[u])
      BY <2>1 DEF Spots
    <3>2. CASE u # t
      BY <1>4, <1>7, <3>1, <3>2
    <3>3. CASE u = t /\ n <= b
      BY <1>1, <1>2, <1>7, <3>1, <3>3
    <3>4. CASE u = t /\ n > b
      <4>1. n - b \in 1..m /\ b + (n - b) = n
        <5>1. n \in Int /\ m \in Int /\ b \in Int /\ b < n /\ n <= b + m
          BY <1>1, <1>2, <3>1, <3>4
        <5> QED BY <5>1
      <4> QED BY <1>0, <1>1, <3>1, <3>4, <4>1
    <3> QED BY <1>2, <3>1, <3>2, <3>3, <3>4
  <2>2. ASSUME NEW q \in K PROVE q \in Spots'
    <3>1. PICK u \in AllThreads, n \in Nat : q = <<u, n>> /\ n \in 1..Len(stack[u]) /\ (u # t \/ n <= b)
      BY <1>0, <2>2 DEF Spots
    <3>2. CASE u # t
      BY <1>4, <1>7, <3>1, <3>2
    <3>3. CASE u = t
      <4>1. n \in 1..(b + m)
        BY <1>2, <3>1, <3>3
      <4> QED BY <1>2, <1>7, <3>1, <3>3, <4>1
    <3> QED BY <3>2, <3>3
  <2>3. ASSUME NEW q \in N PROVE q \in Spots'
    <3>1. PICK n \in 1..m : q = <<t, b + n>>
      BY <1>0, <1>1
    <3>2. b + n \in Nat /\ b + n \in 1..(b + m)
      BY <1>2
    <3> QED BY <1>2, <1>7, <3>1, <3>2
  <2> QED BY <2>1, <2>2, <2>3
<1>9. ASSUME NEW q \in N, NEW r \in K PROVE q # r /\ (q[1] = r[1] => r[2] < q[2])
  <2>1. PICK n \in 1..m : q = <<t, b + n>>
    BY <1>0, <1>1
  <2>2. PICK u \in AllThreads, i \in Nat : r = <<u, i>> /\ (u # t \/ i <= b)
    BY <1>0 DEF Spots
  <2>3. b + n > b
    <3>1. n \in Int /\ b \in Int /\ 1 <= n
      BY <1>2
    <3> QED BY <3>1
  <2> QED BY <1>2, <2>1, <2>2, <2>3
<1>10. ASSUME NEW q \in K PROVE Fr(q)' = Fr(q) /\ (Under(q) \in Spots => Under(q) \in K)
  <2>1. PICK u \in AllThreads, n \in Nat : q = <<u, n>> /\ n \in 1..Len(stack[u]) /\ (u # t \/ n <= b)
    BY <1>0 DEF Spots
  <2>2. Under(q) = <<u, n - 1>> /\ (u # t \/ n - 1 <= b)
    BY <1>2, <2>1 DEF Under
  <2>3. CASE u # t
    <3>1. stack'[u] = stack[u]
      BY <1>4, <2>3
    <3> QED BY <1>0, <2>1, <2>2, <2>3, <3>1 DEF Fr, FrameAt
  <2>4. CASE u = t
    <3>1. FrameAt(t, n)' = FrameAt(t, n)
      BY <1>1, <1>2, <1>5, <2>1, <2>4
    <3> QED BY <1>0, <2>1, <2>2, <2>4, <3>1 DEF Fr
  <2> QED BY <2>3, <2>4
<1>11. \A n \in 1..Len(a) : <<t, b + n>> \in N /\ Fr(<<t, b + n>>)' = a[Len(a) + 1 - n]
  BY <1>0, <1>1, <1>6 DEF Fr
<1> QED
  <2>1. K \subseteq Spots
    BY <1>0
  <2> QED BY <1>8, <1>9, <1>10, <1>11, <2>1 DEF Given, GivesAt

LEMMA TopSpotIs ==
  ASSUME HandlersInv, NEW t \in AllThreads, stack[t] # <<>>, NEW s, s = TopSpot(t)
  PROVE  /\ s \in Spots /\ Fr(s) = Top(t) /\ s[1] = t /\ s[2] = Len(stack[t])
         /\ \A q \in Spots : q[1] = t => q[2] <= s[2] /\ (q # s => q[2] <= s[2] - 1)
         /\ \A q \in Spots : Under(q) # s
<1>1. PICK l \in Nat : l = Len(stack[t]) /\ l >= 1
  BY TopIs
<1>2. Shapes /\ Top(t) = stack[t][1]
  BY TopIs DEF HandlersInv
<1>3. s \in Spots /\ s[1] = t /\ s[2] = l /\ l + 1 - l = 1
  BY <1>1 DEF Spots, TopSpot
<1>4. Fr(s) = Top(t)
  BY <1>1, <1>2, <1>3 DEF Fr, FrameAt
<1>5. ASSUME NEW q \in Spots, q[1] = t PROVE q[2] <= l /\ (q # s => q[2] <= l - 1)
  <2>1. q = <<t, q[2]>> /\ q[2] \in Nat /\ q[2] <= l
    BY <1>1, <1>2, <1>5, SpotIs
  <2>2. q # s => q[2] # l
    BY <1>1, <2>1 DEF TopSpot
  <2> QED BY <1>1, <2>1, <2>2
<1>6. ASSUME NEW q \in Spots PROVE Under(q) # s
  <2>1. SUFFICES ASSUME Under(q) = s PROVE FALSE
    OBVIOUS
  <2>2. q[1] = t /\ q[2] - 1 = l
    BY <1>1, <2>1 DEF Under, TopSpot
  <2> QED BY <1>1, <1>2, <1>5, <2>2, SpotIs
<1> QED BY <1>1, <1>3, <1>4, <1>5, <1>6

\* The six ways of a step.
TurnsTo(s, g)       == s \in Spots /\ Given(Spots \ {s}, {s}) /\ Fr(s)' = g
Leaves(s)           == s \in Spots /\ Given(Spots \ {s}, {})
CallsUp(s, r, h, g) == /\ s \in Spots /\ r \notin Spots /\ Under(r) = s /\ r[1] = s[1] /\ s[2] < r[2]
                       /\ Given(Spots \ {s}, {s, r}) /\ Fr(s)' = g /\ Fr(r)' = h
Pushes(r, h)        == r \notin Spots /\ Given(Spots, {r}) /\ Fr(r)' = h
PushesTwo(s, r, h, g) == /\ s \notin Spots /\ r \notin Spots /\ Under(r) = s /\ r[1] = s[1] /\ s[2] < r[2]
                         /\ Given(Spots, {s, r}) /\ Fr(s)' = g /\ Fr(r)' = h
LeavesTo(r, s, g)   == /\ s \in Spots /\ r \in Spots /\ Under(r) = s
                       /\ Given(Spots \ {s, r}, {s}) /\ Fr(s)' = g

LEMMA OneSpot ==
  ASSUME HandlersInv, NEW t \in AllThreads, stack[t] # <<>>, NEW s, s = TopSpot(t)
  PROVE  Kept(t, Len(stack[t]) - 1) = Spots \ {s}
<1>1. PICK l \in Nat : l = Len(stack[t]) /\ l >= 1
  BY TopIs
<1>2. /\ s \in Spots /\ s[1] = t /\ s[2] = l
      /\ \A q \in Spots : q[1] = t => q[2] <= l /\ (q # s => q[2] <= l - 1)
  BY <1>1, TopSpotIs
<1>3. ~(l <= l - 1)
  BY <1>1
<1> QED BY <1>1, <1>2, <1>3 DEF Kept

LEMMA TurnSpots ==
  ASSUME HandlersInv, NEW t \in AllThreads, stack[t] # <<>>, NEW s, s = TopSpot(t),
         NEW g, NEW a, a = <<g>>, Moves(t, 1, a)
  PROVE  TurnsTo(s, g)
<1>0. PICK b : b = Len(stack[t]) - 1
  OBVIOUS
<1>1. PICK l \in Nat : Shapes /\ l = Len(stack[t]) /\ l >= 1 /\ b = l - 1
  BY <1>0, TopIs DEF HandlersInv
<1>2. PICK K : K = Kept(t, b)
  OBVIOUS
<1>3. PICK N : N = Newer(t, b, Len(a))
  OBVIOUS
<1>4. Given(K, N) /\ GivesAt(t, b, N, a)
  BY <1>0, <1>1, <1>2, <1>3, SpotsMove
<1>5. K = Spots \ {s}
  BY <1>1, <1>2, OneSpot
<1>6. Len(a) = 1 /\ a[1] = g /\ 1..1 = {1} /\ b + 1 = l /\ 1 + 1 - 1 = 1
  BY <1>1, OneIs
<1>7. N = {s} /\ Fr(s)' = g
  BY <1>1, <1>3, <1>4, <1>6 DEF TopSpot, Newer, GivesAt
<1> QED BY <1>4, <1>5, <1>7, TopSpotIs DEF TurnsTo

LEMMA LeaveSpots ==
  ASSUME HandlersInv, NEW t \in AllThreads, stack[t] # <<>>, NEW s, s = TopSpot(t), Moves(t, 1, <<>>)
  PROVE  Leaves(s)
<1>0. PICK b, a : b = Len(stack[t]) - 1 /\ a = <<>>
  OBVIOUS
<1>1. PICK l \in Nat : Shapes /\ l = Len(stack[t]) /\ l >= 1 /\ b = l - 1 /\ Moves(t, 1, a)
  BY <1>0, TopIs DEF HandlersInv
<1>2. PICK K : K = Kept(t, b)
  OBVIOUS
<1>3. PICK N : N = Newer(t, b, Len(a))
  OBVIOUS
<1>4. Given(K, N)
  BY <1>0, <1>1, <1>2, <1>3, SpotsMove
<1>5. K = Spots \ {s}
  BY <1>1, <1>2, OneSpot
<1>6. N = {}
  BY <1>0, <1>3 DEF Newer
<1> QED BY <1>4, <1>5, <1>6, TopSpotIs DEF Leaves

LEMMA CallSpots ==
  ASSUME HandlersInv, NEW t \in AllThreads, stack[t] # <<>>, NEW s, s = TopSpot(t),
         NEW r, r = <<t, Len(stack[t]) + 1>>,
         NEW h \in FrameSet, NEW g \in FrameSet, NEW a, a = <<h, g>>, Moves(t, 1, a)
  PROVE  CallsUp(s, r, h, g)
<1>0. PICK b : b = Len(stack[t]) - 1
  OBVIOUS
<1>1. PICK l \in Nat : Shapes /\ l = Len(stack[t]) /\ l >= 1 /\ b = l - 1
  BY <1>0, TopIs DEF HandlersInv
<1>2. PICK K : K = Kept(t, b)
  OBVIOUS
<1>3. PICK N : N = Newer(t, b, Len(a))
  OBVIOUS
<1>4. Given(K, N) /\ GivesAt(t, b, N, a)
  BY <1>0, <1>1, <1>2, <1>3, SpotsMove
<1>5. K = Spots \ {s}
  BY <1>1, <1>2, OneSpot
<1>6. Len(a) = 2 /\ a[1] = h /\ a[2] = g
  BY OneIs, TwoIs
<1>7. 1..2 = {1, 2} /\ b + 1 = l /\ b + 2 = l + 1 /\ 2 + 1 - 1 = 2 /\ 2 + 1 - 2 = 1
  BY <1>1
<1>8. N = {s, r} /\ Fr(s)' = g /\ Fr(r)' = h
  <2>1. s = <<t, b + 1>> /\ r = <<t, b + 2>>
    BY <1>1, <1>7 DEF TopSpot
  <2>2. N = {s, r}
    BY <1>3, <1>6, <1>7, <2>1 DEF Newer
  <2> QED BY <1>4, <1>6, <1>7, <2>1, <2>2 DEF GivesAt
<1>9. /\ Under(r) = s /\ r[1] = s[1] /\ s[2] < r[2] /\ s \in Spots
      /\ \A q \in Spots : q[1] = t => q[2] <= l
  <2>1. l + 1 - 1 = l /\ l < l + 1
    BY <1>1
  <2>2. \A q \in Spots : q[1] = t => q[2] <= l
    BY <1>1, TopSpotIs
  <2> QED BY <1>1, <2>1, <2>2, TopSpotIs DEF Under, TopSpot
<1>10. r \notin Spots
  <2>1. ~(l + 1 <= l)
    BY <1>1
  <2> QED BY <1>1, <1>9, <2>1
<1> QED BY <1>4, <1>5, <1>8, <1>9, <1>10 DEF CallsUp

LEMMA PushSpots ==
  ASSUME Shapes, NEW t \in AllThreads, NEW r, r = <<t, Len(stack[t]) + 1>>,
         NEW h, NEW a, a = <<h>>, Moves(t, 0, a)
  PROVE  Pushes(r, h) /\ Under(r) = TopSpot(t)
<1>1. PICK l \in Nat : l = Len(stack[t])
  BY DEF Shapes
<1>0. PICK b : b = Len(stack[t]) - 0
  OBVIOUS
<1>2. PICK K : K = Kept(t, b)
  OBVIOUS
<1>3. PICK N : N = Newer(t, b, Len(a))
  OBVIOUS
<1>4. Given(K, N) /\ GivesAt(t, b, N, a)
  BY <1>0, <1>2, <1>3, SpotsMove
<1>5. b = l /\ \A q \in Spots : q[1] = t => q[2] <= l
  <2>1. \A q \in Spots : q[2] <= Len(stack[q[1]])
    BY SpotIs
  <2> QED BY <1>0, <1>1, <2>1
<1>6. K = Spots
  BY <1>2, <1>5 DEF Kept
<1>7. Len(a) = 1 /\ a[1] = h /\ 1..1 = {1} /\ 1 + 1 - 1 = 1
  BY OneIs
<1>8. N = {r} /\ Fr(r)' = h
  BY <1>1, <1>3, <1>4, <1>5, <1>7 DEF Newer, GivesAt
<1>9. r \notin Spots /\ Under(r) = TopSpot(t)
  <2>1. ~(l + 1 <= l) /\ l + 1 - 1 = l
    BY <1>1
  <2> QED BY <1>1, <1>5, <2>1 DEF Under, TopSpot
<1> QED BY <1>4, <1>6, <1>8, <1>9 DEF Pushes

LEMMA PushTwoSpots ==
  ASSUME Shapes, NEW t \in AllThreads, stack[t] = <<>>, NEW s, s = <<t, 1>>, NEW r, r = <<t, 2>>,
         NEW h \in FrameSet, NEW g \in FrameSet, NEW a, a = <<h, g>>, Moves(t, 0, a)
  PROVE  PushesTwo(s, r, h, g) /\ \A q \in Spots : q[1] # t
<1>1. PICK b : b = Len(stack[t]) - 0
  OBVIOUS
<1>10. b = 0 /\ Len(stack[t]) = 0
  BY <1>1
<1>2. PICK K : K = Kept(t, b)
  OBVIOUS
<1>3. PICK N : N = Newer(t, b, Len(a))
  OBVIOUS
<1>4. Given(K, N) /\ GivesAt(t, b, N, a)
  BY <1>1, <1>2, <1>3, SpotsMove
<1>5. \A q \in Spots : q[1] # t
  <2>1. \A q \in Spots : q[2] <= Len(stack[q[1]]) /\ q[2] \in Nat /\ q[2] >= 1
    BY SpotIs
  <2> QED BY <1>10, <2>1
<1>6. K = Spots
  BY <1>2, <1>5 DEF Kept
<1>7. Len(a) = 2 /\ a[1] = h /\ a[2] = g /\ 1..2 = {1, 2} /\ 2 + 1 - 1 = 2 /\ 2 + 1 - 2 = 1
  BY TwoIs
<1>8. N = {s, r} /\ Fr(s)' = g /\ Fr(r)' = h
  BY <1>10, <1>3, <1>4, <1>7 DEF Newer, GivesAt
<1>9. s \notin Spots /\ r \notin Spots /\ Under(r) = s /\ r[1] = s[1] /\ s[2] < r[2]
  BY <1>5 DEF Under
<1> QED BY <1>4, <1>5, <1>6, <1>8, <1>9 DEF PushesTwo

LEMMA BackSpots ==
  ASSUME HandlersInv, NEW t \in AllThreads, stack[t] # <<>>, NEW r, r = TopSpot(t),
         Under(r) \in Spots, NEW s, s = Under(r), NEW g, NEW a, a = <<g>>, Moves(t, 2, a)
  PROVE  LeavesTo(r, s, g)
<1>0. PICK b : b = Len(stack[t]) - 2
  OBVIOUS
<1>1. PICK l \in Nat : Shapes /\ l = Len(stack[t]) /\ l >= 1 /\ b = l - 2
  BY <1>0, TopIs DEF HandlersInv
<1>2. PICK K : K = Kept(t, b)
  OBVIOUS
<1>3. PICK N : N = Newer(t, b, Len(a))
  OBVIOUS
<1>4. Given(K, N) /\ GivesAt(t, b, N, a)
  BY <1>0, <1>1, <1>2, <1>3, SpotsMove
<1>5. /\ r \in Spots /\ r[1] = t /\ r[2] = l /\ s = <<t, l - 1>>
      /\ \A q \in Spots : q[1] = t => q[2] <= l /\ q = <<t, q[2]>> /\ q[2] \in Nat
  BY <1>1, TopSpotIs, SpotIs DEF Under, TopSpot, HandlersInv
<1>6. K = Spots \ {s, r}
  <2>1. ASSUME NEW q \in Spots, q[1] = t PROVE q[2] <= b <=> q # s /\ q # r
    <3>1. PICK n \in Nat : n = q[2] /\ n <= l /\ q = <<t, n>>
      BY <1>5, <2>1
    <3>2. q # s /\ q # r <=> n # l - 1 /\ n # l
      BY <1>5, <3>1 DEF TopSpot
    <3> QED BY <1>1, <3>1, <3>2
  <2> QED BY <1>2, <1>5, <2>1 DEF Kept
<1>7. Len(a) = 1 /\ a[1] = g /\ 1..1 = {1} /\ b + 1 = l - 1 /\ 1 + 1 - 1 = 1
  BY <1>1, OneIs
<1>8. N = {s} /\ Fr(s)' = g
  BY <1>3, <1>4, <1>5, <1>7 DEF Newer, GivesAt
<1> QED BY <1>4, <1>5, <1>6, <1>8 DEF LeavesTo
-----------------------------------------------------------------------------
\* The lives of contexts, where the clients close them from the outside.

Depth == CHOOSE depth \in [Contexts -> Nat] :
           \A c \in Contexts : Parent[c] # None => depth[Parent[c]] < depth[c]

Born(c) == fate[c] \in {"added", "called"}

\* Which frame may be right above which, and at the bottom.
SitePcs      == {"work", "inline", "handler"}
CloserPcs    == ClosingPcs \cup {"close", "close.lost"}
AddCallPcs   == {"add", "add.insert", "undo", "unblock"}
RemovePcs    == {"remove", "remove.wait"}
ChildCallPcs == {"child.anchor", "child.done", "child.release"}
ClientPcs    == AddCallPcs \cup RemovePcs \cup StartPcs \cup ChildPcs \cup
                {"exec", "exec.post", "exec.undo", "exec.inline", "exec.unblock"}

Above(h, g) ==
  \/ g.pc \in SitePcs /\ h.ref /\ h.pc \in ClientPcs
  \/ g.pc = "destroy" /\ h.pc \in CloserPcs /\ ~h.ref /\ h.c = g.c
  \/ g.pc = "exec.inline" /\ h.pc = "inline" /\ h.ref /\ h.c = g.c
  \/ g.pc = "child.add" /\ h.pc \in AddCallPcs /\ ~h.ref /\ h.c = g.c /\ h.x = g.x
  \/ g.pc = "unblock" /\ h.pc \in RemovePcs /\ ~h.ref /\ h.c = g.c /\ h.x \in Handlers /\ g.ref
  \/ g.pc = "close.reset" /\ h.pc \in RemovePcs /\ ~h.ref /\ h.x = g.c /\ h.c = Parent[g.c]
  \/ g.pc = "close.pop" /\ h.pc \in ChildCallPcs /\ ~h.ref /\ h.c = g.x
  \/ g.pc = "close.pop" /\ h.pc = "handler" /\ ~h.ref /\ h.c = g.c /\ h.x = g.x /\ h.x \in Handlers
  \/ g.pc = "child.release" /\ h.pc \in CloserPcs /\ ~h.ref /\ h.c = g.c

Lowest(f) == f.ref /\ f.pc \in ClientPcs \cup CloserPcs \cup
                               {"destroy", "run", "run.undo", "run.drop", "work"}

Lies(q) == IF Under(q) \in Spots THEN Above(Fr(q), Fr(Under(q))) ELSE Lowest(Fr(q))
Grammar == \A q \in Spots : Lies(q)

\* A close called from a close is about a context further down.
DescentPcs == CloserPcs \cup ChildCallPcs
Descends == \A q, r \in Spots :
  q[1] = r[1] /\ r[2] < q[2] /\ Fr(r).pc \in ClosingPcs /\ Fr(q).pc \in DescentPcs
    => Depth[Fr(r).c] < Depth[Fr(q).c]

\* What a frame says of the context that it is about.
FrameLife(f) ==
  /\ f.ref /\ f.x \in Contexts /\ f.pc \in AddCallPcs \cup RemovePcs => f.pc = "undo"
  /\ f.x \in Contexts /\ f.pc \in AddPcs \cup ChildPcs =>
       /\ Parent[f.x] = f.c /\ fate[f.x] # "new"
       /\ f.pc # "child.add" => fate[f.x] = "adding"
  /\ f.x \in Contexts /\ f.pc = "unblock" => Born(f.x)
  /\ f.pc = "close.call" => f.x \in Nodes
  /\ f.x \in Nodes /\ f.pc \in PoppedPcs =>
       fate[f.x] = IF f.pc = "close.call" THEN "added" ELSE "called"
  /\ f.x \in Contexts /\ f.pc \in PoppedPcs =>
       Parent[f.x] = f.c /\ \A d \in Contexts : f.x \notin ToSet(list[d])
  /\ f.pc \in ClosingPcs => ("Closed" \in flags[f.c] <=> f.pc = "close.release")
FramesLive == \A q \in Spots : FrameLife(Fr(q))

\* What the frame on top of a stack says, when the frames above it are gone.
TopLife(f) ==
  /\ f.pc = "close.pop" /\ f.x \in Contexts => "Closed" \in flags[f.x]
  /\ f.pc \in {"child.release", "destroy"} => "Closed" \in flags[f.c]
  /\ f.pc = "child.add" => Born(f.x) \/ fate[f.x] = "refused"
TopsLive == \A q \in Spots : (\A r \in Spots : Under(r) # q) => TopLife(Fr(q))

AtMostOne(F) == \A q, r \in Spots : Fr(q) \in F /\ Fr(r) \in F => q = r
Some(F)      == \E q \in Spots : Fr(q) \in F

\* One call makes a context, one loop calls a node.
OnC(c, P)    == {f \in FrameSet : f.c = c /\ f.pc \in P}
AboutX(x, P) == {f \in FrameSet : f.x = x /\ f.pc \in P}
Adders(x)    == {f \in FrameSet : f.x = x /\ f.pc \in ChildPcs \cup {"undo"} /\ f.ref}
OneAdder  == \A x \in Contexts : AtMostOne(Adders(x))
OnePopper == \A x \in Nodes : AtMostOne(AboutX(x, PoppedPcs))

ListLives == \A c \in Contexts : \A n \in DOMAIN list[c] :
  /\ fate[list[c][n]] = "added"
  /\ list[c][n] \in Contexts =>
       /\ Parent[list[c][n]] = c
       /\ \A m \in DOMAIN list[c] : list[c][m] = list[c][n] => m = n

\* A child is in its parent's list, or the parent is about to call it or has
\* called it and not taken note of its end, or it has left its parent.
LatePcs == {"close.reset", "close.closed", "close.release"}
Left(c) == \/ "Closed" \in flags[c]
           \/ Some(OnC(c, LatePcs)) /\ ~Some(AboutX(c, RemovePcs))
Held(c) == \/ c \in ToSet(list[Parent[c]]) \/ Some(AboutX(c, PoppedPcs)) \/ Left(c)
ChildrenHeld == \A c \in Contexts : Born(c) /\ Parent[c] # None => Held(c)

LifeInv == /\ ClosesFromThreads(program) /\ Grammar /\ Descends /\ FramesLive /\ TopsLive
           /\ OneAdder /\ OnePopper /\ ListLives /\ ChildrenHeld
-----------------------------------------------------------------------------
\* What is kept by a step, whatever the frames are about.

LEMMA DepthIs ==
  /\ Depth \in [Contexts -> Nat]
  /\ \A c \in Contexts : Parent[c] # None => Parent[c] \in Contexts /\ Depth[Parent[c]] < Depth[c]
<1>1. PICK d \in [Contexts -> 0..Cardinality(Contexts)] :
        \A c \in Contexts : Parent[c] # None => d[Parent[c]] < d[c]
  BY DepthAssumption
<1>2. d \in [Contexts -> Nat]
  BY <1>1, TreeAssumption, FS_CardinalityType
<1>3. /\ Depth \in [Contexts -> Nat]
      /\ \A c \in Contexts : Parent[c] # None => Depth[Parent[c]] < Depth[c]
  BY <1>1, <1>2 DEF Depth
<1> QED BY <1>3, TreeAssumption

LEMMA GrammarGiven ==
  ASSUME CloseInv, Grammar, NEW K, NEW N, Given(K, N), \A q \in N : Lies(q)'
  PROVE  Grammar'
<1>1. SUFFICES ASSUME NEW q \in K PROVE Lies(q)'
  BY DEF Grammar, Given
<1>2. Lies(q) /\ q \in Spots /\ Fr(q)' = Fr(q) /\ (Under(q) \in Spots => Under(q) \in K)
  BY DEF Grammar, Given
<1>3. Under(q) \notin N
  <2>1. SUFFICES ASSUME Under(q) \in N PROVE FALSE
    OBVIOUS
  <2>2. q[1] = Under(q)[1] /\ Under(q)[2] = q[2] - 1 /\ q[2] \in Nat
    BY <1>2, SpotIs DEF Under, CloseInv, HandlersInv
  <2>3. q[2] < Under(q)[2]
    BY <2>1, <2>2 DEF Given
  <2> QED BY <2>2, <2>3
<1>4. Under(q) \in Spots' <=> Under(q) \in Spots
  BY <1>2, <1>3 DEF Given
<1>5. Under(q) \in Spots => Fr(Under(q))' = Fr(Under(q))
  BY <1>2 DEF Given
<1> QED BY <1>2, <1>4, <1>5 DEF Lies

LowerClosing(q) == \A r \in Spots : q[1] = r[1] /\ r[2] < q[2] /\ Fr(r).pc \in ClosingPcs
                                      => Depth[Fr(r).c] < Depth[Fr(q).c]

LEMMA DescendsGiven ==
  ASSUME CloseInv, Descends, NEW K, NEW N, Given(K, N),
         \A q \in N : Fr(q)'.pc \in DescentPcs => LowerClosing(q)'
  PROVE  Descends'
<1>1. SUFFICES ASSUME NEW q \in Spots', NEW r \in Spots', q[1] = r[1], r[2] < q[2],
                      Fr(r)'.pc \in ClosingPcs, Fr(q)'.pc \in DescentPcs
               PROVE  Depth[Fr(r)'.c] < Depth[Fr(q)'.c]
  BY DEF Descends
<1>2. CASE q \in N
  BY <1>1, <1>2 DEF LowerClosing
<1>3. CASE q \in K /\ r \in K
  BY <1>1, <1>3 DEF Descends, Given
<1>4. CASE q \in K /\ r \in N
  <2>1. q[2] < r[2] /\ q \in Spots
    BY <1>1, <1>4 DEF Given
  <2>3. q[2] \in Nat
    BY <2>1, SpotIs DEF CloseInv, HandlersInv
  <2>4. r[2] \in Nat
    BY <1>1 DEF Spots
  <2> QED BY <1>1, <2>1, <2>3, <2>4
<1> QED BY <1>2, <1>3, <1>4 DEF Given

LEMMA OneGiven ==
  ASSUME NEW F, AtMostOne(F), NEW K, NEW N, Given(K, N),
         \A q, r \in N : Fr(q)' \in F /\ Fr(r)' \in F => q = r,
         \A q \in N : Fr(q)' \in F => (\E s \in Spots \ K : Fr(s) \in F) \/ ~Some(F)
  PROVE  AtMostOne(F)'
<1>1. ASSUME NEW q \in N, NEW r \in K, Fr(q)' \in F, Fr(r)' \in F PROVE FALSE
  BY <1>1 DEF Given, AtMostOne, Some
<1>2. \A q, r \in K : Fr(q)' \in F /\ Fr(r)' \in F => q = r
  BY DEF Given, AtMostOne
<1>3. Spots' = K \cup N
  BY DEF Given
<1> QED BY <1>1, <1>2, <1>3 DEF AtMostOne

\* One frame closes a context.
LEMMA OneCloser ==
  ASSUME CloseInv, Descends, NEW q \in Spots, NEW r \in Spots,
         Fr(q).pc \in ClosingPcs, Fr(r).pc \in ClosingPcs, Fr(q).c = Fr(r).c
  PROVE  q = r
<1>1. ASSUME NEW u \in Spots, Fr(u).pc \in ClosingPcs
      PROVE  /\ u[1] = closer[Fr(u).c] /\ u = <<u[1], u[2]>> /\ u[2] \in Nat
             /\ Fr(u).c \in Contexts /\ Fr(u).pc \in DescentPcs
  <2>1. /\ Fr(u) = stack[u[1]][Len(stack[u[1]]) + 1 - u[2]] /\ u[1] \in AllThreads
        /\ Len(stack[u[1]]) + 1 - u[2] \in DOMAIN stack[u[1]] /\ Fr(u) \in FrameSet
        /\ u = <<u[1], u[2]>> /\ u[2] \in Nat
    BY SpotIs DEF CloseInv, HandlersInv
  <2>2. FrameOK(u[1], Fr(u))
    BY <2>1 DEF CloseInv, HandlersInv, FramesOK
  <2> QED BY <1>1, <2>1, <2>2 DEF FrameOK, DescentPcs, CloserPcs, FrameSet
<1>2. q[1] = r[1] /\ Depth[Fr(q).c] \in Nat /\ Depth[Fr(q).c] = Depth[Fr(r).c]
  BY <1>1, DepthIs
<1>3. ~(q[2] < r[2]) /\ ~(r[2] < q[2])
  BY <1>1, <1>2 DEF Descends
<1> QED BY <1>1, <1>2, <1>3

-----------------------------------------------------------------------------
\* A frame that goes on, or calls and waits.

Gotos == {<<"exec", "exec.post">>, <<"exec", "exec.undo">>, <<"add", "add.insert">>, <<"add", "undo">>,
          <<"start", "start.insert">>, <<"start", "undo">>, <<"child", "child.new">>,
          <<"child", "undo">>, <<"exec.post", "exec.unblock">>, <<"run", "work">>,
          <<"run", "run.undo">>, <<"run.undo", "run.drop">>, <<"start.fn", "unblock">>,
          <<"remove", "remove.wait">>, <<"close", "close.lost">>, <<"close.wait", "close.flag">>,
          <<"child.anchor", "child.done">>, <<"close.parent", "close.reset">>,
          <<"close.reset", "close.closed">>, <<"exec.post", "exec.inline">>,
          <<"exec.inline", "exec.unblock">>, <<"child.new", "child.add">>,
          <<"child.done", "child.release">>}

GoesTo(h, g) == /\ h \in FrameSet /\ g \in FrameSet /\ g.c = h.c /\ g.x = h.x /\ g.ref = h.ref
                /\ <<h.pc, g.pc>> \in Gotos

LEMMA GotoClasses ==
  ASSUME NEW q, NEW p, <<q, p>> \in Gotos
  PROVE  /\ q \in ClientPcs => p \in ClientPcs
         /\ q \in CloserPcs <=> p \in CloserPcs
         /\ q \in AddCallPcs => p \in AddCallPcs
         /\ p \in AddCallPcs => q \in AddCallPcs \/ (q \in {"child", "start"} /\ p = "undo")
                                \/ q = "start.fn"
         /\ q \in RemovePcs <=> p \in RemovePcs
         /\ q \in ChildCallPcs <=> p \in ChildCallPcs
         /\ q \in ClosingPcs <=> p \in ClosingPcs
         /\ q \notin PoppedPcs /\ p \notin PoppedPcs
         /\ q \in {"run", "run.undo"} <=> p \in {"run.undo", "run.drop", "work"}
         /\ q \notin {"inline", "handler", "destroy", "work", "child.add", "undo", "close.release"}
         /\ p \notin {"close.release", "destroy", "inline", "handler", "close.call", "close.pop"}
         /\ p \in AddPcs \cup ChildPcs => q \in AddPcs \cup ChildPcs
         /\ p \in ChildPcs => q \in ChildPcs
         /\ p = "unblock" => q = "start.fn"
         /\ q \in LatePcs => p \in LatePcs
BY DEF Gotos, ClientPcs, CloserPcs, AddCallPcs, RemovePcs, ChildCallPcs, ClosingPcs, PoppedPcs,
       AddPcs, ChildPcs, LatePcs, StartPcs

LEMMA GotoAbove ==
  ASSUME NEW h, NEW g, GoesTo(h, g)
  PROVE  /\ \A b : Above(h, b) => Above(g, b)
         /\ Lowest(h) => Lowest(g)
<1>1. /\ g.c = h.c /\ g.x = h.x /\ g.ref = h.ref
      /\ h.pc \in ClientPcs => g.pc \in ClientPcs
      /\ h.pc \in CloserPcs => g.pc \in CloserPcs
      /\ h.pc \in AddCallPcs => g.pc \in AddCallPcs
      /\ h.pc \in RemovePcs => g.pc \in RemovePcs
      /\ h.pc \in ChildCallPcs => g.pc \in ChildCallPcs
      /\ h.pc \in {"run", "run.undo"} <=> g.pc \in {"run.undo", "run.drop", "work"}
      /\ h.pc \notin {"inline", "handler", "destroy", "work"} /\ h.pc # "run.drop"
  <2>1. <<h.pc, g.pc>> \in Gotos
    BY DEF GoesTo
  <2>2. h.pc # "run.drop"
    BY <2>1 DEF Gotos
  <2> QED BY <2>1, <2>2, GotoClasses DEF GoesTo
<1>2. ASSUME NEW b, Above(h, b) PROVE Above(g, b)
  BY <1>1, <1>2 DEF Above
<1>3. Lowest(h) => Lowest(g)
  BY <1>1 DEF Lowest
<1> QED BY <1>2, <1>3

SameLife == flags' = flags /\ list' = list /\ fate' = fate /\ program' = program

LEMMA GotoLife ==
  ASSUME NEW t \in AllThreads, NEW h, NEW g, GoesTo(h, g), FrameLife(h), FrameOK(t, h)
  PROVE  FrameLife(g)
<1>1. /\ g.c = h.c /\ g.x = h.x /\ g.ref = h.ref /\ <<h.pc, g.pc>> \in Gotos
  BY DEF GoesTo
<1>2. h.pc \in StartPcs => h.x \notin Contexts
  BY TreeAssumption DEF FrameOK
<1>3. g.ref /\ g.x \in Contexts /\ g.pc \in AddCallPcs \cup RemovePcs => g.pc = "undo"
  BY <1>1, <1>2, GotoClasses DEF FrameLife, StartPcs
<1>4. g.x \in Contexts /\ g.pc \in AddPcs \cup ChildPcs =>
       /\ Parent[g.x] = g.c /\ fate[g.x] # "new"
       /\ g.pc # "child.add" => fate[g.x] = "adding"
  <2>1. g.pc \in AddPcs \cup ChildPcs => h.pc \in AddPcs \cup ChildPcs /\ h.pc # "child.add"
    BY <1>1, GotoClasses
  <2> QED BY <1>1, <2>1 DEF FrameLife
<1>5. g.x \in Contexts => g.pc # "unblock"
  BY <1>1, <1>2, GotoClasses DEF StartPcs
<1>6. g.pc \notin PoppedPcs /\ g.pc # "close.release" /\ h.pc # "close.release"
      /\ (g.pc \in ClosingPcs => h.pc \in ClosingPcs)
  BY <1>1, GotoClasses
<1> QED BY <1>1, <1>3, <1>4, <1>5, <1>6 DEF FrameLife, PoppedPcs

Gentle == /\ flags' = flags /\ list' = list /\ program' = program
          /\ \A y \in Nodes : fate'[y] = fate[y] \/ (fate[y] = "new" /\ fate'[y] = "adding")

LEMMA SameIsGentle == ASSUME SameLife PROVE Gentle
BY DEF SameLife, Gentle

LEMMA SameFrameLife ==
  ASSUME Gentle, NEW f, FrameLife(f)
  PROVE  FrameLife(f)'
BY DEF FrameLife, Gentle, Born, Nodes

\* The frames that stay keep what they say, when nothing that they say it of changes.
LEMMA FramesSame ==
  ASSUME FramesLive, Gentle, NEW K, NEW N, Given(K, N), \A q \in N : FrameLife(Fr(q))'
  PROVE  FramesLive'
<1>1. ASSUME NEW q \in K PROVE FrameLife(Fr(q))'
  <2>1. FrameLife(Fr(q)) /\ Fr(q)' = Fr(q)
    BY DEF FramesLive, Given
  <2> QED BY <2>1, SameFrameLife
<1> QED BY <1>1 DEF FramesLive, Given

\* The top frame of a thread.
LEMMA TopLifeIs ==
  ASSUME LifeInv, CloseInv, NEW t \in AllThreads, stack[t] # <<>>, NEW s, s = TopSpot(t)
  PROVE  /\ s \in Spots /\ Fr(s) = Top(t) /\ s[1] = t /\ Top(t) \in FrameSet
         /\ FrameOK(t, Top(t)) /\ FrameLife(Top(t)) /\ TopLife(Top(t)) /\ Lies(s)
         /\ Top(t).c \in Contexts
         /\ \A q \in Spots : Under(q) # s /\ (q[1] = t => q[2] <= s[2])
<1>1. /\ s \in Spots /\ Fr(s) = Top(t) /\ s[1] = t
      /\ \A q \in Spots : Under(q) # s /\ (q[1] = t => q[2] <= s[2])
  BY TopSpotIs DEF CloseInv
<1>2. Top(t) \in FrameSet /\ FrameOK(t, Top(t)) /\ Top(t).c \in Contexts
  BY TopIs DEF CloseInv
<1> QED BY <1>1, <1>2 DEF LifeInv, FramesLive, TopsLive, Grammar

LEMMA SpotFrame ==
  ASSUME CloseInv, NEW q \in Spots
  PROVE  FrameOK(q[1], Fr(q)) /\ Fr(q) \in FrameSet /\ Fr(q).c \in Contexts
<1>1. /\ Fr(q) = stack[q[1]][Len(stack[q[1]]) + 1 - q[2]] /\ q[1] \in AllThreads
      /\ Len(stack[q[1]]) + 1 - q[2] \in DOMAIN stack[q[1]] /\ Fr(q) \in FrameSet
  BY SpotIs DEF CloseInv, HandlersInv
<1>2. FrameOK(q[1], Fr(q))
  BY <1>1 DEF CloseInv, HandlersInv, FramesOK
<1> QED BY <1>1, <1>2 DEF FrameSet

\* The other tops stay tops.
LEMMA OtherTops ==
  ASSUME CloseInv, TopsLive, Gentle, NEW K, NEW N, Given(K, N),
         \A q \in N : (\A r \in Spots' : Under(r) # q) => TopLife(Fr(q))',
         \A q \in K : (\A r \in Spots' : Under(r) # q) /\ (\E r \in Spots : Under(r) = q)
                        => TopLife(Fr(q))'
  PROVE  TopsLive'
<1>1. SUFFICES ASSUME NEW q \in K, \A r \in Spots' : Under(r) # q, \A r \in Spots : Under(r) # q
               PROVE  TopLife(Fr(q))'
  BY DEF TopsLive, Given
<1>2. TopLife(Fr(q)) /\ Fr(q)' = Fr(q)
  BY <1>1 DEF TopsLive, Given
<1>3. Fr(q).pc = "child.add" => Fr(q).x \in Nodes
  BY SpotFrame DEF FrameOK, Given, ChildPcs, Nodes
<1> QED BY <1>2, <1>3 DEF TopLife, Gentle, Born

LEMMA SameLists ==
  ASSUME CloseInv, ListLives, Gentle
  PROVE  ListLives'
<1>1. \A c \in Contexts : \A n \in DOMAIN list[c] : list[c][n] \in Nodes
  BY DEF CloseInv, HandlersInv, Shapes
<1> QED BY <1>1 DEF ListLives, Gentle

\* A child stays held when the frames that hold it do.
LEMMA HeldGiven ==
  ASSUME NEW c, Held(c), flags' = flags, list' = list, NEW K, NEW N, Given(K, N),
         \A q \in Spots \ K : Fr(q) \in AboutX(c, PoppedPcs) => Held(c)',
         \A q \in Spots \ K : Fr(q) \in OnC(c, LatePcs) =>
           Held(c)' \/ \E r \in N : Fr(r)' \in OnC(c, LatePcs),
         \A q \in N : Fr(q)' \in AboutX(c, RemovePcs) =>
           Held(c)' \/ \E s \in Spots : Fr(s) \in AboutX(c, RemovePcs)
  PROVE  Held(c)'
<1>1. CASE c \in ToSet(list[Parent[c]]) \/ "Closed" \in flags[c]
  BY <1>1 DEF Held, Left
<1>2. CASE Some(AboutX(c, PoppedPcs))
  <2>1. PICK q \in Spots : Fr(q) \in AboutX(c, PoppedPcs)
    BY <1>2 DEF Some
  <2>2. CASE q \in K
    <3>1. q \in Spots' /\ Fr(q)' = Fr(q)
      BY <2>2 DEF Given
    <3>2. Some(AboutX(c, PoppedPcs))'
      BY <2>1, <3>1 DEF Some, AboutX
    <3> QED BY <3>2 DEF Held
  <2> QED BY <2>1, <2>2
<1>3. CASE Some(OnC(c, LatePcs)) /\ ~Some(AboutX(c, RemovePcs))
  <2>1. PICK q \in Spots : Fr(q) \in OnC(c, LatePcs)
    BY <1>3 DEF Some
  <2>2. SUFFICES ASSUME ~Held(c)' PROVE FALSE
    OBVIOUS
  <2>3. \E r \in Spots' : Fr(r)' \in OnC(c, LatePcs)
    <3>1. CASE q \in K
      BY <2>1, <3>1 DEF Given
    <3> QED BY <2>1, <2>2, <3>1 DEF Given
  <2>4. \E r \in Spots' : Fr(r)' \in AboutX(c, RemovePcs)
    BY <2>2, <2>3 DEF Held, Left, Some, OnC, AboutX
  <2>5. \E s \in Spots : Fr(s) \in AboutX(c, RemovePcs)
    BY <2>2, <2>4 DEF Given
  <2> QED BY <1>3, <2>5 DEF Some
<1> QED BY <1>1, <1>2, <1>3 DEF Held, Left

LEMMA BornSame ==
  ASSUME ChildrenHeld, Gentle, \A c \in Contexts : Held(c) => Held(c)'
  PROVE  ChildrenHeld'
BY DEF ChildrenHeld, Gentle, Born, Nodes

-----------------------------------------------------------------------------
\* The kinds of steps.

LEMMA GotoKeeps ==
  ASSUME LifeInv, CloseInv, NEW t \in AllThreads, stack[t] # <<>>, NEW s, s = TopSpot(t),
         NEW g, TurnsTo(s, g), SameLife, GoesTo(Top(t), g), g.pc \notin {"child.add", "child.release"}
  PROVE  LifeInv'
<1>0. Gentle /\ flags' = flags /\ list' = list
  BY SameIsGentle DEF SameLife
<1>1. PICK K, N : K = Spots \ {s} /\ N = {s}
  OBVIOUS
<1>2. Given(K, N) /\ Fr(s)' = g /\ s \in Spots /\ Spots' = Spots
  BY <1>1 DEF TurnsTo, Given
<1>3. PICK h : h = Top(t) /\ GoesTo(h, g) /\ Fr(s) = h
  BY TopLifeIs
<1>4. /\ FrameLife(h) /\ FrameOK(t, h) /\ Lies(s) /\ TopLife(h) /\ s[1] = t
      /\ \A q \in Spots : Under(q) # s /\ (q[1] = t => q[2] <= s[2])
  BY <1>3, TopLifeIs
<1>5. g.c = h.c /\ g.x = h.x /\ g.ref = h.ref /\ g \in FrameSet /\ h \in FrameSet /\ <<h.pc, g.pc>> \in Gotos
  BY <1>3 DEF GoesTo
<1>6. Grammar'
  <2>1. Under(s) \in Spots => Under(s) \in K /\ Fr(Under(s))' = Fr(Under(s))
    BY <1>1, <1>2, <1>4 DEF Given
  <2>2. Lies(s)'
    BY <1>2, <1>3, <1>4, <2>1, GotoAbove DEF Lies
  <2> QED BY <1>1, <1>2, <2>2, GrammarGiven DEF LifeInv
<1>7. Descends'
  <2>1. ASSUME g.pc \in DescentPcs PROVE LowerClosing(s)'
    <3>1. h.pc \in DescentPcs
      BY <1>5, <2>1, GotoClasses DEF DescentPcs
    <3>2. ASSUME NEW r \in Spots, s[1] = r[1], r[2] < s[2], Fr(r)'.pc \in ClosingPcs
          PROVE  Depth[Fr(r)'.c] < Depth[g.c]
      <4>1. r # s
        <5>1. s[2] \in Nat
          BY <1>2, SpotIs DEF CloseInv, HandlersInv
        <5> QED BY <3>2, <5>1
      <4>2. Fr(r)' = Fr(r)
        BY <1>1, <1>2, <4>1 DEF Given
      <4> QED BY <1>2, <1>3, <1>5, <3>1, <3>2, <4>2 DEF LifeInv, Descends
    <3> QED BY <1>2, <3>2 DEF LowerClosing
  <2> QED BY <1>1, <1>2, <2>1, DescendsGiven DEF LifeInv
<1>8. FramesLive'
  <2>1. FrameLife(g)'
    BY <1>3, <1>4, <1>0, GotoLife, SameFrameLife
  <2>2. \A q \in N : FrameLife(Fr(q))'
    BY <1>1, <1>2, <2>1 DEF FrameLife, Born
  <2> QED BY <1>2, <2>2, <1>0, FramesSame DEF LifeInv
<1>9. TopsLive'
  <2>1. TopLife(g)'
    BY <1>5, GotoClasses DEF TopLife
  <2>2. \A q \in N : TopLife(Fr(q))'
    BY <1>1, <1>2, <2>1 DEF TopLife, Born
  <2> QED BY <1>2, <2>2, <1>0, OtherTops DEF LifeInv
<1>10. OneAdder'
  <2>1. ASSUME NEW x \in Contexts PROVE AtMostOne(Adders(x))'
    <3>1. PICK F : F = Adders(x)
      OBVIOUS
    <3>2. g \in F => h \in F
      <4>1. SUFFICES ASSUME g.x = x, g.pc \in ChildPcs \cup {"undo"}, g.ref, h.pc \notin ChildPcs \cup {"undo"}
                     PROVE  FALSE
        BY <1>5, <3>1 DEF Adders
      <4>2. g.pc = "undo" /\ h.pc \in {"add", "start"}
        BY <1>5, <4>1, GotoClasses DEF Gotos, ChildPcs
      <4>3. h.pc # "start"
        BY <1>4, <1>5, <4>1, TreeAssumption DEF FrameOK, StartPcs
      <4> QED BY <1>4, <1>5, <4>1, <4>2, <4>3 DEF FrameLife, AddCallPcs
    <3>3. AtMostOne(F)'
      <4>1. AtMostOne(F)
        BY <3>1 DEF LifeInv, OneAdder
      <4> QED BY <1>1, <1>2, <1>3, <3>2, <4>1, OneGiven
    <3> QED BY <3>1, <3>3 DEF Adders, AtMostOne
  <2> QED BY <2>1 DEF OneAdder
<1>11. OnePopper'
  <2>1. ASSUME NEW x \in Nodes PROVE AtMostOne(AboutX(x, PoppedPcs))'
    <3>1. PICK F : F = AboutX(x, PoppedPcs)
      OBVIOUS
    <3>2. g \notin F
      BY <1>5, <3>1, GotoClasses DEF AboutX
    <3>3. AtMostOne(F)'
      <4>1. AtMostOne(F)
        BY <3>1 DEF LifeInv, OnePopper
      <4> QED BY <1>1, <1>2, <1>3, <3>2, <4>1, OneGiven
    <3> QED BY <3>1, <3>3 DEF AboutX, AtMostOne
  <2> QED BY <2>1 DEF OnePopper, Nodes
<1>12. ChildrenHeld'
  <2>1. ASSUME NEW c \in Contexts, Held(c) PROVE Held(c)'
    <3>1. h \notin AboutX(c, PoppedPcs) /\ (h \in OnC(c, LatePcs) => g \in OnC(c, LatePcs))
          /\ (g \in AboutX(c, RemovePcs) => h \in AboutX(c, RemovePcs))
      BY <1>5, GotoClasses DEF AboutX, OnC
    <3>2. \A q \in Spots \ K : q = s /\ Fr(q) = h
      BY <1>1, <1>3
    <3>3. \A q \in N : Fr(q)' = g
      BY <1>1, <1>2
    <3> QED BY <1>1, <1>2, <1>3, <2>1, <3>1, <3>2, <3>3, <1>0, HeldGiven
  <2> QED BY <2>1, <1>0, BornSame DEF LifeInv
<1> QED BY <1>6, <1>7, <1>8, <1>9, <1>10, <1>11, <1>12, <1>0, SameLists DEF LifeInv, SameLife, ClosesFromThreads

\* The call h returns to the frame b.
EndsWell(h) ==
  /\ h.pc \in {"exec.undo", "exec.unblock", "work", "unblock", "run.drop", "remove", "remove.wait",
               "handler", "child.add", "close.release", "close.lost", "child.release", "destroy"}
  /\ h.pc \in CloserPcs => "Closed" \in flags[h.c]

LEMMA BackTop ==
  ASSUME NEW h, NEW b, Above(h, b), EndsWell(h), TopLife(h), FrameLife(h),
         b.pc \in ChildPcs => b.x \in Contexts
  PROVE  TopLife(b)
<1>1. ASSUME b.pc = "close.pop", b.x \in Contexts PROVE "Closed" \in flags[b.x]
  <2>1. h.pc \in ChildCallPcs /\ h.c = b.x
    BY <1>1, TreeAssumption DEF Above, SitePcs
  <2>2. h.pc = "child.release"
    BY <2>1 DEF EndsWell, ChildCallPcs
  <2> QED BY <2>1, <2>2 DEF TopLife
<1>2. ASSUME b.pc \in {"child.release", "destroy"} PROVE "Closed" \in flags[b.c]
  <2>1. h.pc \in CloserPcs /\ h.c = b.c
    BY <1>2 DEF Above, SitePcs
  <2> QED BY <2>1 DEF EndsWell
<1>3. ASSUME b.pc = "child.add" PROVE Born(b.x)
  <2>1. h.pc \in AddCallPcs /\ h.x = b.x /\ b.x \in Contexts
    BY <1>3 DEF Above, SitePcs, ChildPcs
  <2>2. h.pc = "unblock"
    BY <2>1 DEF EndsWell, AddCallPcs
  <2> QED BY <2>1, <2>2 DEF FrameLife
<1> QED BY <1>1, <1>2, <1>3 DEF TopLife

LEMMA LeaveKeeps ==
  ASSUME LifeInv, CloseInv, NEW t \in AllThreads, stack[t] # <<>>, NEW s, s = TopSpot(t),
         Leaves(s), SameLife, EndsWell(Top(t))
  PROVE  LifeInv'
<1>0. Gentle /\ flags' = flags /\ list' = list
  BY SameIsGentle DEF SameLife
<1>1. PICK K, N : K = Spots \ {s} /\ N = {}
  OBVIOUS
<1>2. Given(K, N) /\ s \in Spots /\ Spots' = K
  BY <1>1 DEF Leaves, Given
<1>3. PICK h : h = Top(t) /\ EndsWell(h) /\ Fr(s) = h
  BY TopLifeIs
<1>4. /\ FrameLife(h) /\ FrameOK(t, h) /\ Lies(s) /\ TopLife(h)
      /\ \A q \in Spots : Under(q) # s
  BY <1>3, TopLifeIs
<1>6. Grammar'
  BY <1>1, <1>2, GrammarGiven DEF LifeInv
<1>7. Descends'
  BY <1>1, <1>2, DescendsGiven DEF LifeInv
<1>8. FramesLive'
  BY <1>1, <1>2, <1>0, FramesSame DEF LifeInv
<1>9. TopsLive'
  <2>1. ASSUME NEW q \in K, \A r \in Spots' : Under(r) # q, NEW u \in Spots, Under(u) = q
        PROVE  TopLife(Fr(q))'
    <3>1. u = s
      BY <1>1, <1>2, <2>1
    <3>2. Above(h, Fr(q)) /\ q \in Spots /\ Fr(q)' = Fr(q)
      BY <1>1, <1>2, <1>3, <1>4, <2>1, <3>1 DEF Lies, Given
    <3>3. Fr(q).pc \in ChildPcs => Fr(q).x \in Contexts
      BY <3>2, SpotFrame DEF FrameOK
    <3>4. TopLife(Fr(q))
      BY <1>3, <1>4, <3>2, <3>3, BackTop
    <3> QED BY <3>2, <3>4 DEF TopLife, SameLife, Born
  <2> QED BY <1>1, <1>2, <2>1, <1>0, OtherTops DEF LifeInv
<1>10. OneAdder'
  <2>1. ASSUME NEW x \in Contexts PROVE AtMostOne(Adders(x))'
    <3>1. PICK F : F = Adders(x) /\ AtMostOne(F)
      BY DEF LifeInv, OneAdder
    <3>2. AtMostOne(F)'
      BY <1>1, <1>2, <3>1, OneGiven
    <3> QED BY <3>1, <3>2 DEF Adders, AtMostOne
  <2> QED BY <2>1 DEF OneAdder
<1>11. OnePopper'
  <2>1. ASSUME NEW x \in Nodes PROVE AtMostOne(AboutX(x, PoppedPcs))'
    <3>1. PICK F : F = AboutX(x, PoppedPcs) /\ AtMostOne(F)
      BY DEF LifeInv, OnePopper
    <3>2. AtMostOne(F)'
      BY <1>1, <1>2, <3>1, OneGiven
    <3> QED BY <3>1, <3>2 DEF AboutX, AtMostOne
  <2> QED BY <2>1 DEF OnePopper, Nodes
<1>12. ChildrenHeld'
  <2>1. ASSUME NEW c \in Contexts, Held(c) PROVE Held(c)'
    <3>1. h \notin AboutX(c, PoppedPcs)
      BY <1>3 DEF AboutX, EndsWell, PoppedPcs
    <3>2. h \in OnC(c, LatePcs) => Held(c)'
      <4>1. SUFFICES ASSUME h.pc \in LatePcs, h.c = c PROVE "Closed" \in flags[c]
        BY DEF OnC, Held, Left, SameLife
      <4> QED BY <1>3, <4>1 DEF EndsWell, LatePcs, CloserPcs, ClosingPcs
    <3>3. \A q \in Spots \ K : q = s /\ Fr(q) = h
      BY <1>1, <1>3
    <3> QED BY <1>1, <1>2, <2>1, <3>1, <3>2, <3>3, <1>0, HeldGiven
  <2> QED BY <2>1, <1>0, BornSame DEF LifeInv
<1> QED BY <1>6, <1>7, <1>8, <1>9, <1>10, <1>11, <1>12, <1>0, SameLists DEF LifeInv, SameLife, ClosesFromThreads

\* The frame on top goes on at g when the frame h above it returns.
LEMMA CallKeeps ==
  ASSUME LifeInv, CloseInv, NEW t \in AllThreads, stack[t] # <<>>, NEW s, s = TopSpot(t),
         NEW r, NEW g, NEW h, CallsUp(s, r, h, g), SameLife, GoesTo(Top(t), g),
         Above(h, g), FrameLife(h), h.pc \in {"inline", "add", "remove", "close"},
         h.pc = "add" => ~h.ref,
         h.pc = "remove" /\ h.x \in Contexts => Top(t).pc = "close.parent",
         h.pc = "close" => h.c = Top(t).c /\ Top(t).pc = "child.done"
  PROVE  LifeInv'
<1>0. Gentle /\ flags' = flags /\ list' = list
  BY SameIsGentle DEF SameLife
<1>1. PICK K, N : K = Spots \ {s} /\ N = {s, r}
  OBVIOUS
<1>2. /\ Given(K, N) /\ Fr(s)' = g /\ Fr(r)' = h /\ s \in Spots /\ Spots' = Spots \cup {r}
      /\ r \notin Spots /\ Under(r) = s /\ r[1] = s[1] /\ s[2] < r[2]
  BY <1>1 DEF CallsUp, Given
<1>3. PICK f : f = Top(t) /\ GoesTo(f, g) /\ Fr(s) = f
  BY TopLifeIs
<1>4. /\ FrameLife(f) /\ FrameOK(t, f) /\ Lies(s) /\ TopLife(f) /\ s[1] = t
      /\ \A q \in Spots : Under(q) # s /\ (q[1] = t => q[2] <= s[2])
  BY <1>3, TopLifeIs
<1>5. g.c = f.c /\ g.x = f.x /\ g.ref = f.ref /\ g \in FrameSet /\ f \in FrameSet /\ <<f.pc, g.pc>> \in Gotos
  BY <1>3 DEF GoesTo
<1>6. Grammar'
  <2>1. Under(s) \in Spots => Under(s) \in K /\ Fr(Under(s))' = Fr(Under(s))
    BY <1>1, <1>2, <1>4 DEF Given
  <2>2. Under(s) # r
    <3>1. s[2] \in Nat /\ Under(s)[2] = s[2] - 1
      BY <1>2, SpotIs DEF Under, CloseInv, HandlersInv
    <3>2. ~(s[2] < s[2] - 1)
      BY <3>1
    <3> QED BY <1>2, <3>1, <3>2
  <2>3. Lies(s)'
    BY <1>2, <1>3, <1>4, <2>1, <2>2, GotoAbove DEF Lies
  <2>4. Lies(r)'
    BY <1>2 DEF Lies
  <2>5. \A q \in N : Lies(q)'
    BY <1>1, <2>3, <2>4
  <2> QED BY <1>2, <2>5, GrammarGiven DEF LifeInv
<1>7. Descends'
  <2>0. ASSUME NEW u \in Spots', u # s, s[1] = u[1], u[2] < r[2], Fr(u)'.pc \in ClosingPcs
        PROVE  u \in Spots /\ Fr(u)' = Fr(u) /\ u[2] < s[2]
    <3>1. u # r /\ s[2] \in Nat /\ r[2] \in Nat
      <4>1. r \in Spots' /\ \A v \in Spots' : v[2] \in Nat
        BY <1>2 DEF Spots
      <4> QED BY <1>2, <2>0, <4>1
    <3>2. u \in Spots /\ Fr(u)' = Fr(u)
      BY <1>1, <1>2, <2>0, <3>1 DEF Given
    <3>3. u[2] <= s[2] /\ u[2] # s[2] /\ u[2] \in Nat
      <4>1. u = <<u[1], u[2]>> /\ s = <<s[1], s[2]>> /\ u[2] \in Nat
        BY <1>2, <3>2, SpotIs DEF CloseInv, HandlersInv
      <4> QED BY <1>4, <2>0, <3>2, <4>1
    <3> QED BY <3>1, <3>2, <3>3
  <2>1. ASSUME g.pc \in DescentPcs PROVE LowerClosing(s)'
    <3>1. f.pc \in DescentPcs
      BY <1>5, <2>1, GotoClasses DEF DescentPcs
    <3>2. ASSUME NEW u \in Spots', s[1] = u[1], u[2] < s[2], Fr(u)'.pc \in ClosingPcs
          PROVE  Depth[Fr(u)'.c] < Depth[g.c]
      <4>1. u # s /\ u[2] < r[2]
        <5>1. s[2] \in Nat /\ r[2] \in Nat /\ u[2] \in Nat
          <6>1. r \in Spots' /\ s \in Spots' /\ \A v \in Spots' : v[2] \in Nat
            BY <1>2 DEF Spots
          <6> QED BY <3>2, <6>1
        <5> QED BY <1>2, <3>2, <5>1
      <4>2. u \in Spots /\ Fr(u)' = Fr(u)
        BY <2>0, <3>2, <4>1
      <4> QED BY <1>2, <1>3, <1>5, <3>1, <3>2, <4>2 DEF LifeInv, Descends
    <3> QED BY <1>2, <3>2 DEF LowerClosing
  <2>2. ASSUME h.pc \in DescentPcs PROVE LowerClosing(r)'
    <3>1. h.pc = "close" /\ h.c = f.c /\ f.pc = "child.done"
      BY <1>3, <2>2 DEF DescentPcs, CloserPcs, ClosingPcs, ChildCallPcs
    <3>2. f.pc \in DescentPcs /\ g.pc \notin ClosingPcs
      BY <1>5, <3>1, GotoClasses DEF DescentPcs, ChildCallPcs, ClosingPcs
    <3>3. ASSUME NEW u \in Spots', r[1] = u[1], u[2] < r[2], Fr(u)'.pc \in ClosingPcs
          PROVE  Depth[Fr(u)'.c] < Depth[h.c]
      <4>1. u # s
        BY <1>2, <3>2, <3>3
      <4>2. u \in Spots /\ Fr(u)' = Fr(u) /\ u[2] < s[2]
        BY <1>2, <2>0, <3>3, <4>1
      <4> QED BY <1>2, <1>3, <3>1, <3>2, <3>3, <4>2 DEF LifeInv, Descends
    <3> QED BY <1>2, <3>3 DEF LowerClosing
  <2>3. \A q \in N : Fr(q)'.pc \in DescentPcs => LowerClosing(q)'
    BY <1>1, <1>2, <2>1, <2>2
  <2> QED BY <1>2, <2>3, DescendsGiven DEF LifeInv
<1>8. FramesLive'
  <2>1. FrameLife(g)' /\ FrameLife(h)'
    BY <1>3, <1>4, <1>0, GotoLife, SameFrameLife
  <2>2. \A q \in N : FrameLife(Fr(q))'
    BY <1>1, <1>2, <2>1 DEF FrameLife, Born
  <2> QED BY <1>2, <2>2, <1>0, FramesSame DEF LifeInv
<1>9. TopsLive'
  <2>1. TopLife(h)'
    BY DEF TopLife
  <2>2. \A q \in N : (\A u \in Spots' : Under(u) # q) => TopLife(Fr(q))'
    BY <1>1, <1>2, <2>1 DEF TopLife, Born
  <2>3. \A q \in K : (\A u \in Spots' : Under(u) # q) => ~\E u \in Spots : Under(u) = q
    BY <1>2
  <2> QED BY <1>2, <2>2, <2>3, <1>0, OtherTops DEF LifeInv
<1>10. OneAdder'
  <2>1. ASSUME NEW x \in Contexts PROVE AtMostOne(Adders(x))'
    <3>1. PICK F : F = Adders(x) /\ AtMostOne(F)
      BY DEF LifeInv, OneAdder
    <3>2. g \in F => f \in F
      <4>1. SUFFICES ASSUME g.pc \in ChildPcs \cup {"undo"}, f.pc \notin ChildPcs \cup {"undo"}
                     PROVE  FALSE
        BY <1>5, <3>1 DEF Adders
      <4>2. g.pc = "undo"
        BY <1>5, <4>1, GotoClasses
      <4>3. h.pc \in {"inline", "add", "remove", "close"}
        OBVIOUS
      <4> QED BY <4>2, <4>3 DEF Above, SitePcs
    <3>3. h \notin F
      BY <3>1 DEF Adders, ChildPcs
    <3>4. \A q \in N : Fr(q)' \in F => q = s /\ f \in F
      BY <1>1, <1>2, <3>2, <3>3
    <3>5. AtMostOne(F)'
      BY <1>1, <1>2, <1>3, <3>1, <3>4, OneGiven
    <3> QED BY <3>1, <3>5 DEF Adders, AtMostOne
  <2> QED BY <2>1 DEF OneAdder
<1>11. OnePopper'
  <2>1. ASSUME NEW x \in Nodes PROVE AtMostOne(AboutX(x, PoppedPcs))'
    <3>1. PICK F : F = AboutX(x, PoppedPcs) /\ AtMostOne(F)
      BY DEF LifeInv, OnePopper
    <3>2. g \notin F /\ h \notin F
      BY <1>5, <3>1, GotoClasses DEF AboutX, PoppedPcs
    <3>3. AtMostOne(F)'
      BY <1>1, <1>2, <3>1, <3>2, OneGiven
    <3> QED BY <3>1, <3>3 DEF AboutX, AtMostOne
  <2> QED BY <2>1 DEF OnePopper, Nodes
<1>12. ChildrenHeld'
  <2>1. ASSUME NEW c \in Contexts, Held(c) PROVE Held(c)'
    <3>1. f \notin AboutX(c, PoppedPcs) /\ (f \in OnC(c, LatePcs) => g \in OnC(c, LatePcs))
          /\ (g \in AboutX(c, RemovePcs) => f \in AboutX(c, RemovePcs))
      BY <1>5, GotoClasses DEF AboutX, OnC
    <3>2. \A q \in Spots \ K : q = s /\ Fr(q) = f
      BY <1>1, <1>3
    <3>3. CASE h \notin AboutX(c, RemovePcs)
      <4>1. \A q \in N : Fr(q)' \in AboutX(c, RemovePcs) => Fr(s) \in AboutX(c, RemovePcs)
        BY <1>1, <1>2, <1>3, <3>1, <3>3
      <4> QED BY <1>1, <1>2, <1>3, <2>1, <3>1, <3>2, <4>1, <1>0, HeldGiven
    <3>4. CASE h \in AboutX(c, RemovePcs)
      <4>1. h.pc \in RemovePcs /\ h.x = c /\ f.pc = "close.parent"
        BY <1>3, <3>4 DEF AboutX, RemovePcs
      <4>2. g.pc = "close.reset" /\ f.c = c
        <5>1. g.pc = "close.reset"
          BY <1>5, <4>1 DEF Gotos
        <5> QED BY <1>5, <4>1, <5>1 DEF Above, SitePcs
      <4>3. "Closed" \notin flags[c] /\ f.pc \in ClosingPcs
        BY <1>4, <4>1, <4>2 DEF FrameLife, ClosingPcs
      <4>4. ~Some(OnC(c, LatePcs))
        <5>1. SUFFICES ASSUME NEW q \in Spots, Fr(q).c = c, Fr(q).pc \in LatePcs PROVE FALSE
          BY DEF Some, OnC
        <5>2. q = s
          BY <1>2, <1>3, <4>2, <4>3, <5>1, OneCloser DEF LatePcs, ClosingPcs, LifeInv
        <5> QED BY <1>3, <4>1, <5>1, <5>2 DEF LatePcs
      <4>5. c \in ToSet(list[Parent[c]]) \/ Some(AboutX(c, PoppedPcs))
        BY <2>1, <4>3, <4>4 DEF Held, Left
      <4>6. CASE c \in ToSet(list[Parent[c]])
        BY <4>6 DEF Held, SameLife
      <4>7. CASE Some(AboutX(c, PoppedPcs))
        <5>1. PICK q \in Spots : Fr(q) \in AboutX(c, PoppedPcs)
          BY <4>7 DEF Some
        <5>2. q \in K /\ q \in Spots' /\ Fr(q)' = Fr(q)
          BY <1>1, <1>2, <1>3, <3>1, <5>1 DEF Given
        <5>3. Some(AboutX(c, PoppedPcs))'
          BY <5>1, <5>2 DEF Some, AboutX
        <5> QED BY <5>3 DEF Held
      <4> QED BY <4>5, <4>6, <4>7
    <3> QED BY <3>3, <3>4
  <2> QED BY <2>1, <1>0, BornSame DEF LifeInv
<1> QED BY <1>6, <1>7, <1>8, <1>9, <1>10, <1>11, <1>12, <1>0, SameLists DEF LifeInv, SameLife, ClosesFromThreads

LEMMA EmptyStack ==
  ASSUME CloseInv, NEW t \in AllThreads, stack[t] = <<>>, NEW q \in Spots
  PROVE  q[1] # t
<1>1. q[2] <= Len(stack[q[1]]) /\ q[2] >= 1 /\ q[2] \in Nat
  BY SpotIs DEF CloseInv, HandlersInv
<1>2. stack[t] = <<>> => Len(stack[t]) = 0
  OBVIOUS
<1> QED BY <1>1, <1>2

\* A call from outside, or from the client code on top.
LEMMA PushKeeps ==
  ASSUME LifeInv, CloseInv, NEW t \in AllThreads, NEW r, NEW f, Pushes(r, f), r[1] = t,
         Under(r) = TopSpot(t), Gentle, FrameLife(f)',
         stack[t] = <<>> => Lowest(f),
         stack[t] # <<>> => Top(t).pc \in SitePcs /\ f.ref /\ f.pc \in ClientPcs \ CloserPcs,
         f.pc \in {"exec", "add", "start", "child", "remove", "close", "run"},
         f.pc = "child" => fate[f.x] = "new",
         f.pc = "remove" => f.x \notin Contexts
  PROVE  LifeInv'
<1>0. flags' = flags /\ list' = list
  BY DEF Gentle
<1>1. PICK K, N : K = Spots /\ N = {r}
  OBVIOUS
<1>2. Given(K, N) /\ Fr(r)' = f /\ Spots' = Spots \cup {r} /\ r \notin Spots
  BY <1>1 DEF Pushes, Given
<1>6. Grammar'
  <2>1. CASE stack[t] = <<>>
    <3>1. Under(r) \notin Spots
      <4>1. Under(r)[1] = t
        BY DEF TopSpot
      <4> QED BY <2>1, <4>1, EmptyStack
    <3>2. Under(r) # r
      <4>1. r \in Spots'
        BY <1>2
      <4>2. r[2] \in Nat
        BY <4>1 DEF Spots
      <4> QED BY <4>2 DEF Under
    <3>3. Lies(r)'
      BY <1>2, <2>1, <3>1, <3>2 DEF Lies
    <3> QED BY <1>1, <1>2, <3>3, GrammarGiven DEF LifeInv
  <2>2. CASE stack[t] # <<>>
    <3>1. Under(r) \in Spots /\ Fr(Under(r)) = Top(t)
      BY <2>2, TopLifeIs
    <3>2. Fr(Under(r))' = Top(t) /\ Under(r) \in Spots'
      BY <1>1, <1>2, <3>1 DEF Given
    <3>3. Lies(r)'
      BY <1>2, <2>2, <3>2 DEF Lies, Above
    <3> QED BY <1>1, <1>2, <3>3, GrammarGiven DEF LifeInv
  <2> QED BY <2>1, <2>2
<1>7. Descends'
  <2>1. ASSUME f.pc \in DescentPcs PROVE LowerClosing(r)'
    <3>1. f.pc \in CloserPcs
      BY <2>1 DEF DescentPcs, ChildCallPcs
    <3>2. stack[t] = <<>>
      BY <3>1
    <3>3. ASSUME NEW u \in Spots', r[1] = u[1], u[2] < r[2] PROVE FALSE
      <4>1. u = r
        BY <1>2, <3>2, <3>3, EmptyStack
      <4>2. r \in Spots'
        BY <1>2
      <4>3. r[2] \in Nat
        BY <4>2 DEF Spots
      <4> QED BY <3>3, <4>1, <4>3
    <3> QED BY <3>3 DEF LowerClosing
  <2> QED BY <1>1, <1>2, <2>1, DescendsGiven DEF LifeInv
<1>8. FramesLive'
  <2>1. \A q \in N : FrameLife(Fr(q))'
    BY <1>1, <1>2 DEF FrameLife, Born
  <2> QED BY <1>2, <2>1, FramesSame DEF LifeInv
<1>9. TopsLive'
  <2>1. TopLife(f)'
    BY DEF TopLife
  <2>2. \A q \in N : TopLife(Fr(q))'
    BY <1>1, <1>2, <2>1 DEF TopLife, Born
  <2>3. \A q \in K : (\A u \in Spots' : Under(u) # q) => ~\E u \in Spots : Under(u) = q
    BY <1>2
  <2> QED BY <1>2, <2>2, <2>3, OtherTops DEF LifeInv
<1>10. OneAdder'
  <2>1. ASSUME NEW x \in Contexts PROVE AtMostOne(Adders(x))'
    <3>1. PICK F : F = Adders(x) /\ AtMostOne(F)
      BY DEF LifeInv, OneAdder
    <3>2. f \in F => ~Some(F)
      <4>1. SUFFICES ASSUME f.pc = "child", f.x = x, NEW q \in Spots, Fr(q) \in F PROVE FALSE
        BY <3>1 DEF Some, Adders, ChildPcs
      <4>2. FrameLife(Fr(q)) /\ fate[x] = "new"
        BY <4>1 DEF LifeInv, FramesLive
      <4> QED BY <3>1, <4>1, <4>2 DEF Adders, FrameLife, AddPcs
    <3>3. AtMostOne(F)'
      BY <1>1, <1>2, <3>1, <3>2, OneGiven
    <3> QED BY <3>1, <3>3 DEF Adders, AtMostOne
  <2> QED BY <2>1 DEF OneAdder
<1>11. OnePopper'
  <2>1. ASSUME NEW x \in Nodes PROVE AtMostOne(AboutX(x, PoppedPcs))'
    <3>1. PICK F : F = AboutX(x, PoppedPcs) /\ AtMostOne(F)
      BY DEF LifeInv, OnePopper
    <3>2. f \notin F
      BY <3>1 DEF AboutX, PoppedPcs
    <3>3. AtMostOne(F)'
      BY <1>1, <1>2, <3>1, <3>2, OneGiven
    <3> QED BY <3>1, <3>3 DEF AboutX, AtMostOne
  <2> QED BY <2>1 DEF OnePopper, Nodes
<1>12. ChildrenHeld'
  <2>1. ASSUME NEW c \in Contexts, Held(c) PROVE Held(c)'
    <3>1. f \notin AboutX(c, RemovePcs)
      BY <2>1 DEF AboutX, RemovePcs
    <3>2. \A q \in N : Fr(q)' = f
      BY <1>1, <1>2
    <3>3. \A q \in Spots \ K : FALSE
      BY <1>1
    <3> QED BY <1>0, <1>2, <2>1, <3>1, <3>2, <3>3, HeldGiven
  <2> QED BY <2>1, BornSame DEF LifeInv
<1> QED BY <1>6, <1>7, <1>8, <1>9, <1>10, <1>11, <1>12, SameLists DEF LifeInv, Gentle, ClosesFromThreads

\* ~AOContext: close, called by the frame of the destructor.
LEMMA DestroyKeeps ==
  ASSUME LifeInv, CloseInv, NEW t \in AllThreads, stack[t] = <<>>, NEW s, NEW r, NEW g, NEW h,
         PushesTwo(s, r, h, g), s = <<t, 1>>, SameLife, g.pc = "destroy", h.pc = "close", h.c = g.c,
         g.ref, ~h.ref
  PROVE  LifeInv'
<1>0. flags' = flags /\ list' = list /\ Gentle
  BY SameIsGentle DEF SameLife
<1>1. PICK K, N : K = Spots /\ N = {s, r}
  OBVIOUS
<1>2. /\ Given(K, N) /\ Fr(s)' = g /\ Fr(r)' = h /\ Spots' = Spots \cup {s, r}
      /\ s \notin Spots /\ r \notin Spots /\ Under(r) = s /\ s[1] = t /\ r[1] = t /\ Under(s) = <<t, 0>>
  BY <1>1 DEF PushesTwo, Given, Under
<1>6. Grammar'
  <2>1. \A u \in Spots' : u[2] >= 1
    BY DEF Spots
  <2>2. Under(s) \notin Spots'
    BY <1>2, <2>1
  <2>3. Lies(s)'
    BY <1>2, <2>2 DEF Lies, Lowest
  <2>4. Lies(r)'
    BY <1>2 DEF Lies, Above, CloserPcs
  <2>5. \A q \in N : Lies(q)'
    BY <1>1, <2>3, <2>4
  <2> QED BY <1>2, <2>5, GrammarGiven DEF LifeInv
<1>7. Descends'
  <2>1. ASSUME NEW q \in N PROVE LowerClosing(q)'
    <3>1. SUFFICES ASSUME NEW u \in Spots', q[1] = u[1], u[2] < q[2], Fr(u)'.pc \in ClosingPcs
                   PROVE  FALSE
      BY DEF LowerClosing
    <3>2. u \in N
      BY <1>1, <1>2, <2>1, <3>1, EmptyStack
    <3> QED BY <1>1, <1>2, <3>1, <3>2 DEF ClosingPcs
  <2> QED BY <1>2, <2>1, DescendsGiven DEF LifeInv
<1>8. FramesLive'
  <2>1. FrameLife(g)' /\ FrameLife(h)'
    BY DEF FrameLife, AddCallPcs, RemovePcs, AddPcs, ChildPcs, PoppedPcs, ClosingPcs
  <2>2. \A q \in N : FrameLife(Fr(q))'
    BY <1>1, <1>2, <2>1 DEF FrameLife, Born
  <2> QED BY <1>0, <1>2, <2>2, FramesSame DEF LifeInv
<1>9. TopsLive'
  <2>1. TopLife(h)'
    BY DEF TopLife
  <2>2. \A q \in N : (\A u \in Spots' : Under(u) # q) => TopLife(Fr(q))'
    BY <1>1, <1>2, <2>1 DEF TopLife, Born
  <2>3. \A q \in K : (\A u \in Spots' : Under(u) # q) => ~\E u \in Spots : Under(u) = q
    BY <1>2
  <2> QED BY <1>0, <1>2, <2>2, <2>3, OtherTops DEF LifeInv
<1>10. OneAdder'
  <2>1. ASSUME NEW x \in Contexts PROVE AtMostOne(Adders(x))'
    <3>1. PICK F : F = Adders(x) /\ AtMostOne(F)
      BY DEF LifeInv, OneAdder
    <3>2. g \notin F /\ h \notin F
      BY <3>1 DEF Adders, ChildPcs
    <3>3. AtMostOne(F)'
      BY <1>1, <1>2, <3>1, <3>2, OneGiven
    <3> QED BY <3>1, <3>3 DEF Adders, AtMostOne
  <2> QED BY <2>1 DEF OneAdder
<1>11. OnePopper'
  <2>1. ASSUME NEW x \in Nodes PROVE AtMostOne(AboutX(x, PoppedPcs))'
    <3>1. PICK F : F = AboutX(x, PoppedPcs) /\ AtMostOne(F)
      BY DEF LifeInv, OnePopper
    <3>2. g \notin F /\ h \notin F
      BY <3>1 DEF AboutX, PoppedPcs
    <3>3. AtMostOne(F)'
      BY <1>1, <1>2, <3>1, <3>2, OneGiven
    <3> QED BY <3>1, <3>3 DEF AboutX, AtMostOne
  <2> QED BY <2>1 DEF OnePopper, Nodes
<1>12. ChildrenHeld'
  <2>1. ASSUME NEW c \in Contexts, Held(c) PROVE Held(c)'
    <3>1. \A q \in N : Fr(q)' \notin AboutX(c, RemovePcs)
      BY <1>1, <1>2 DEF AboutX, RemovePcs
    <3>3. \A q \in Spots \ K : FALSE
      BY <1>1
    <3> QED BY <1>0, <1>2, <2>1, <3>1, <3>3, HeldGiven
  <2> QED BY <1>0, <2>1, BornSame DEF LifeInv
<1> QED BY <1>0, <1>6, <1>7, <1>8, <1>9, <1>10, <1>11, <1>12, SameLists DEF LifeInv, Gentle, ClosesFromThreads

\* A work that was run at once returns to exec.
LEMMA InlineKeeps ==
  ASSUME LifeInv, CloseInv, NEW t \in AllThreads, stack[t] # <<>>, NEW r, r = TopSpot(t), NEW s, NEW g,
         LeavesTo(r, s, g), SameLife, Top(t).pc = "inline", GoesTo(Fr(s), g), Fr(s).pc = "exec.inline",
         g.pc = "exec.unblock"
  PROVE  LifeInv'
<1>0. flags' = flags /\ list' = list /\ Gentle
  BY SameIsGentle DEF SameLife
<1>1. PICK K, N : K = Spots \ {s, r} /\ N = {s}
  OBVIOUS
<1>2. /\ Given(K, N) /\ Fr(s)' = g /\ s \in Spots /\ r \in Spots /\ Under(r) = s
      /\ Spots' = (Spots \ {s, r}) \cup {s}
  BY <1>1 DEF LeavesTo, Given
<1>3. PICK f : f = Fr(s) /\ GoesTo(f, g) /\ f.pc = "exec.inline" /\ Fr(r).pc = "inline"
  BY TopLifeIs
<1>4. FrameLife(f) /\ Lies(s) /\ FrameOK(s[1], f) /\ s[1] \in AllThreads
  <2>1. s[1] \in AllThreads
    BY <1>2 DEF Spots
  <2> QED BY <1>2, <1>3, <2>1, SpotFrame DEF LifeInv, FramesLive, Grammar
<1>5. g.c = f.c /\ g.x = f.x /\ g.ref = f.ref /\ g \in FrameSet /\ f \in FrameSet
  BY <1>3 DEF GoesTo
<1>6. Grammar'
  <2>1. Under(s) # s /\ Under(s) # r
    <3>1. r[2] - 1 = s[2] /\ s[2] \in Nat /\ r[2] \in Nat /\ Under(s)[2] = s[2] - 1
      <4>1. s[2] \in Nat /\ r[2] \in Nat
        BY <1>2, SpotIs DEF CloseInv, HandlersInv
      <4> QED BY <1>2, <4>1 DEF Under
    <3>2. s[2] - 1 # s[2] /\ s[2] - 1 # r[2]
      BY <3>1
    <3> QED BY <3>1, <3>2
  <2>2. Under(s) \in Spots => Under(s) \in K /\ Fr(Under(s))' = Fr(Under(s))
    BY <1>1, <1>2, <2>1 DEF Given
  <2>3. Under(s) \in Spots' <=> Under(s) \in Spots
    BY <1>2, <2>1
  <2>4. Lies(s)'
    BY <1>2, <1>3, <1>4, <2>2, <2>3, GotoAbove DEF Lies
  <2> QED BY <1>1, <1>2, <2>4, GrammarGiven DEF LifeInv
<1>7. Descends'
  <2>1. g.pc \notin DescentPcs
    BY DEF DescentPcs, CloserPcs, ClosingPcs, ChildCallPcs
  <2> QED BY <1>1, <1>2, <2>1, DescendsGiven DEF LifeInv
<1>8. FramesLive'
  <2>1. FrameLife(g)'
    BY <1>0, <1>3, <1>4, GotoLife, SameFrameLife
  <2>2. \A q \in N : FrameLife(Fr(q))'
    BY <1>1, <1>2, <2>1 DEF FrameLife, Born
  <2> QED BY <1>0, <1>2, <2>2, FramesSame DEF LifeInv
<1>9. TopsLive'
  <2>1. TopLife(g)'
    BY DEF TopLife
  <2>2. \A q \in N : TopLife(Fr(q))'
    BY <1>1, <1>2, <2>1 DEF TopLife, Born
  <2>3. ASSUME NEW q \in K, \A u \in Spots' : Under(u) # q, NEW u \in Spots, Under(u) = q PROVE FALSE
    BY <1>1, <1>2, <2>3
  <2> QED BY <1>0, <1>2, <2>2, <2>3, OtherTops DEF LifeInv
<1>10. OneAdder'
  <2>1. ASSUME NEW x \in Contexts PROVE AtMostOne(Adders(x))'
    <3>1. PICK F : F = Adders(x) /\ AtMostOne(F)
      BY DEF LifeInv, OneAdder
    <3>2. g \notin F
      BY <3>1 DEF Adders, ChildPcs
    <3>3. AtMostOne(F)'
      BY <1>1, <1>2, <3>1, <3>2, OneGiven
    <3> QED BY <3>1, <3>3 DEF Adders, AtMostOne
  <2> QED BY <2>1 DEF OneAdder
<1>11. OnePopper'
  <2>1. ASSUME NEW x \in Nodes PROVE AtMostOne(AboutX(x, PoppedPcs))'
    <3>1. PICK F : F = AboutX(x, PoppedPcs) /\ AtMostOne(F)
      BY DEF LifeInv, OnePopper
    <3>2. g \notin F
      BY <3>1 DEF AboutX, PoppedPcs
    <3>3. AtMostOne(F)'
      BY <1>1, <1>2, <3>1, <3>2, OneGiven
    <3> QED BY <3>1, <3>3 DEF AboutX, AtMostOne
  <2> QED BY <2>1 DEF OnePopper, Nodes
<1>12. ChildrenHeld'
  <2>1. ASSUME NEW c \in Contexts, Held(c) PROVE Held(c)'
    <3>1. \A q \in N : Fr(q)' \notin AboutX(c, RemovePcs)
      BY <1>1, <1>2 DEF AboutX, RemovePcs
    <3>3. \A q \in Spots \ K : Fr(q) \notin AboutX(c, PoppedPcs) /\ Fr(q) \notin OnC(c, LatePcs)
      BY <1>1, <1>3 DEF AboutX, OnC, PoppedPcs, LatePcs
    <3> QED BY <1>0, <1>2, <2>1, <3>1, <3>3, HeldGiven
  <2> QED BY <1>0, <2>1, BornSame DEF LifeInv
<1> QED BY <1>0, <1>6, <1>7, <1>8, <1>9, <1>10, <1>11, <1>12, SameLists DEF LifeInv, Gentle, ClosesFromThreads
-----------------------------------------------------------------------------
\* The steps that change flags, lists or fates.

\* The frames and the one above another that a turn or a return leaves in order.
LEMMA TurnStands ==
  ASSUME LifeInv, CloseInv, NEW t \in AllThreads, stack[t] # <<>>, NEW s, s = TopSpot(t),
         NEW g \in FrameSet, TurnsTo(s, g), NEW h, h = Top(t), g.c = h.c,
         \A b : Above(h, b) => Above(g, b), Lowest(h) => Lowest(g),
         g.pc \in DescentPcs => h.pc \in DescentPcs,
         \A x \in Contexts : g \in Adders(x) => h \in Adders(x),
         \A x \in Nodes : g \in AboutX(x, PoppedPcs) =>
           h \in AboutX(x, PoppedPcs) \/ ~Some(AboutX(x, PoppedPcs))
  PROVE  Grammar' /\ Descends' /\ OneAdder' /\ OnePopper'
<1>1. PICK K, N : K = Spots \ {s} /\ N = {s}
  OBVIOUS
<1>2. Given(K, N) /\ Fr(s)' = g /\ s \in Spots /\ Spots' = Spots
  BY <1>1 DEF TurnsTo, Given
<1>3. /\ Fr(s) = h /\ Lies(s) /\ s[1] = t
      /\ \A q \in Spots : Under(q) # s /\ (q[1] = t => q[2] <= s[2])
  BY TopLifeIs
<1>4. Grammar'
  <2>1. Under(s) \in Spots => Under(s) \in K /\ Fr(Under(s))' = Fr(Under(s))
    BY <1>1, <1>2, <1>3 DEF Given
  <2>2. Lies(s)'
    BY <1>2, <1>3, <2>1 DEF Lies
  <2> QED BY <1>1, <1>2, <2>2, GrammarGiven DEF LifeInv
<1>5. Descends'
  <2>1. ASSUME g.pc \in DescentPcs PROVE LowerClosing(s)'
    <3>1. h.pc \in DescentPcs
      BY <2>1
    <3>2. ASSUME NEW r \in Spots, s[1] = r[1], r[2] < s[2], Fr(r)'.pc \in ClosingPcs
          PROVE  Depth[Fr(r)'.c] < Depth[g.c]
      <4>1. r # s
        <5>1. s[2] \in Nat
          BY <1>2, SpotIs DEF CloseInv, HandlersInv
        <5> QED BY <3>2, <5>1
      <4>2. Fr(r)' = Fr(r)
        BY <1>1, <1>2, <4>1 DEF Given
      <4> QED BY <1>2, <1>3, <3>1, <3>2, <4>2 DEF LifeInv, Descends
    <3> QED BY <1>2, <3>2 DEF LowerClosing
  <2> QED BY <1>1, <1>2, <2>1, DescendsGiven DEF LifeInv
<1>6. OneAdder'
  <2>1. ASSUME NEW x \in Contexts PROVE AtMostOne(Adders(x))'
    <3>1. PICK F : F = Adders(x) /\ AtMostOne(F)
      BY DEF LifeInv, OneAdder
    <3>2. g \in F => h \in F
      BY <3>1
    <3>3. AtMostOne(F)'
      BY <1>1, <1>2, <1>3, <3>1, <3>2, OneGiven
    <3> QED BY <3>1, <3>3 DEF Adders, AtMostOne
  <2> QED BY <2>1 DEF OneAdder
<1>7. OnePopper'
  <2>1. ASSUME NEW x \in Nodes PROVE AtMostOne(AboutX(x, PoppedPcs))'
    <3>1. PICK F : F = AboutX(x, PoppedPcs) /\ AtMostOne(F)
      BY DEF LifeInv, OnePopper
    <3>2. g \in F => h \in F \/ ~Some(F)
      BY <3>1
    <3>3. AtMostOne(F)'
      BY <1>1, <1>2, <1>3, <3>1, <3>2, OneGiven
    <3> QED BY <3>1, <3>3 DEF AboutX, AtMostOne
  <2> QED BY <2>1 DEF OnePopper, Nodes
<1> QED BY <1>4, <1>5, <1>6, <1>7

LEMMA LeaveStands ==
  ASSUME LifeInv, CloseInv, NEW s, Leaves(s)
  PROVE  Grammar' /\ Descends' /\ OneAdder' /\ OnePopper'
<1>1. PICK K, N : K = Spots \ {s} /\ N = {}
  OBVIOUS
<1>2. Given(K, N)
  BY <1>1 DEF Leaves
<1>3. Grammar'
  BY <1>1, <1>2, GrammarGiven DEF LifeInv
<1>4. Descends'
  BY <1>1, <1>2, DescendsGiven DEF LifeInv
<1>5. OneAdder'
  <2>1. ASSUME NEW x \in Contexts PROVE AtMostOne(Adders(x))'
    <3>1. PICK F : F = Adders(x) /\ AtMostOne(F)
      BY DEF LifeInv, OneAdder
    <3>2. AtMostOne(F)'
      BY <1>1, <1>2, <3>1, OneGiven
    <3> QED BY <3>1, <3>2 DEF Adders, AtMostOne
  <2> QED BY <2>1 DEF OneAdder
<1>6. OnePopper'
  <2>1. ASSUME NEW x \in Nodes PROVE AtMostOne(AboutX(x, PoppedPcs))'
    <3>1. PICK F : F = AboutX(x, PoppedPcs) /\ AtMostOne(F)
      BY DEF LifeInv, OnePopper
    <3>2. AtMostOne(F)'
      BY <1>1, <1>2, <3>1, OneGiven
    <3> QED BY <3>1, <3>2 DEF AboutX, AtMostOne
  <2> QED BY <2>1 DEF OnePopper, Nodes
<1> QED BY <1>3, <1>4, <1>5, <1>6

\* The frames and tops that stay keep what they say, one by one.
LEMMA FramesGiven ==
  ASSUME FramesLive, NEW K, NEW N, Given(K, N), \A q \in N : FrameLife(Fr(q))',
         \A q \in K : FrameLife(Fr(q)) => FrameLife(Fr(q))'
  PROVE  FramesLive'
BY DEF FramesLive, Given

LEMMA TopsGiven ==
  ASSUME TopsLive, NEW K, NEW N, Given(K, N),
         \A q \in N : (\A r \in Spots' : Under(r) # q) => TopLife(Fr(q))',
         \A q \in K : (\A r \in Spots' : Under(r) # q) /\ (\E r \in Spots : Under(r) = q)
                        => TopLife(Fr(q))',
         \A q \in K : TopLife(Fr(q)) => TopLife(Fr(q))'
  PROVE  TopsLive'
<1>1. SUFFICES ASSUME NEW q \in K, \A r \in Spots' : Under(r) # q, \A r \in Spots : Under(r) # q
               PROVE  TopLife(Fr(q))'
  BY DEF TopsLive, Given
<1>2. TopLife(Fr(q))
  BY <1>1 DEF TopsLive, Given
<1> QED BY <1>2

LEMMA HeldMoves ==
  ASSUME NEW c, Held(c), "Closed" \in flags[c] => "Closed" \in flags'[c],
         c \in ToSet(list[Parent[c]]) => Held(c)', NEW K, NEW N, Given(K, N),
         \A q \in Spots \ K : Fr(q) \in AboutX(c, PoppedPcs) => Held(c)',
         \A q \in Spots \ K : Fr(q) \in OnC(c, LatePcs) =>
           Held(c)' \/ \E r \in N : Fr(r)' \in OnC(c, LatePcs),
         \A q \in N : Fr(q)' \in AboutX(c, RemovePcs) =>
           Held(c)' \/ \E s \in Spots : Fr(s) \in AboutX(c, RemovePcs)
  PROVE  Held(c)'
<1>1. CASE c \in ToSet(list[Parent[c]]) \/ "Closed" \in flags[c]
  BY <1>1 DEF Held, Left
<1>2. CASE Some(AboutX(c, PoppedPcs))
  <2>1. PICK q \in Spots : Fr(q) \in AboutX(c, PoppedPcs)
    BY <1>2 DEF Some
  <2>2. CASE q \in K
    <3>1. q \in Spots' /\ Fr(q)' = Fr(q)
      BY <2>2 DEF Given
    <3>2. Some(AboutX(c, PoppedPcs))'
      BY <2>1, <3>1 DEF Some, AboutX
    <3> QED BY <3>2 DEF Held
  <2> QED BY <2>1, <2>2
<1>3. CASE Some(OnC(c, LatePcs)) /\ ~Some(AboutX(c, RemovePcs))
  <2>1. PICK q \in Spots : Fr(q) \in OnC(c, LatePcs)
    BY <1>3 DEF Some
  <2>2. SUFFICES ASSUME ~Held(c)' PROVE FALSE
    OBVIOUS
  <2>3. \E r \in Spots' : Fr(r)' \in OnC(c, LatePcs)
    <3>1. CASE q \in K
      BY <2>1, <3>1 DEF Given
    <3> QED BY <2>1, <2>2, <3>1 DEF Given
  <2>4. \E r \in Spots' : Fr(r)' \in AboutX(c, RemovePcs)
    BY <2>2, <2>3 DEF Held, Left, Some, OnC, AboutX
  <2>5. \E s \in Spots : Fr(s) \in AboutX(c, RemovePcs)
    BY <2>2, <2>4 DEF Given
  <2> QED BY <1>3, <2>5 DEF Some
<1> QED BY <1>1, <1>2, <1>3 DEF Held, Left

\* What adds a child: the frame of makeChild, and one call right above it.
LEMMA AdderIs ==
  ASSUME LifeInv, CloseInv, NEW q \in Spots, NEW f, f = Fr(q), f.x \in Contexts,
         f.pc \in AddPcs \cup ChildPcs
  PROVE  \/ f.ref /\ f \in Adders(f.x)
         \/ /\ ~f.ref /\ Under(q) \in Spots /\ Fr(Under(q)) \in Adders(f.x)
            /\ Fr(Under(q)).pc = "child.add"
<1>1. /\ f \in FrameSet /\ FrameOK(q[1], f) /\ FrameLife(f) /\ Lies(q)
  BY SpotFrame DEF LifeInv, FramesLive, Grammar
<1>2. f.pc \notin StartPcs
  BY <1>1, TreeAssumption DEF FrameOK
<1>3. f.pc \in {"child", "child.new", "child.add", "add", "add.insert", "undo"}
  BY <1>2 DEF AddPcs, ChildPcs, StartPcs
<1>4. CASE f.ref
  BY <1>1, <1>3, <1>4 DEF FrameLife, AddCallPcs, Adders, ChildPcs
<1>5. CASE ~f.ref
  <2>1. Under(q) \in Spots /\ Above(f, Fr(Under(q)))
    BY <1>1, <1>5 DEF Lies, Lowest
  <2>2. PICK b : b = Fr(Under(q)) /\ b.pc = "child.add" /\ b.x = f.x
    BY <1>3, <1>5, <2>1, TreeAssumption DEF Above, RemovePcs, ChildCallPcs, CloserPcs, ClosingPcs
  <2>3. Lies(Under(q)) /\ b \in FrameSet
    BY <2>1, <2>2, SpotFrame DEF LifeInv, Grammar
  <2>4. b.ref
    BY <2>2, <2>3 DEF Lies, Lowest, Above, AddCallPcs, RemovePcs, ChildCallPcs, CloserPcs, ClosingPcs
  <2> QED BY <1>5, <2>1, <2>2, <2>3, <2>4 DEF Adders, ChildPcs
<1> QED BY <1>4, <1>5

LEMMA InserterIs ==
  ASSUME LifeInv, CloseInv, NEW s \in Spots, Fr(s).pc \in {"add.insert", "undo"}, Fr(s).x \in Contexts,
         NEW q \in Spots, Fr(q).x = Fr(s).x, Fr(q).pc \in AddPcs \cup ChildPcs
  PROVE  q = s \/ Fr(q).pc = "child.add"
<1>1. PICK x \in Contexts : x = Fr(s).x
  OBVIOUS
<1>2. AtMostOne(Adders(x))
  BY DEF LifeInv, OneAdder
<1>3. \/ Fr(s).ref /\ Fr(s) \in Adders(x)
      \/ /\ ~Fr(s).ref /\ Under(s) \in Spots /\ Fr(Under(s)) \in Adders(x)
         /\ Fr(Under(s)).pc = "child.add"
  BY <1>1, AdderIs DEF AddPcs
<1>4. \/ Fr(q).ref /\ Fr(q) \in Adders(x)
      \/ /\ ~Fr(q).ref /\ Under(q) \in Spots /\ Fr(Under(q)) \in Adders(x)
         /\ Fr(Under(q)).pc = "child.add"
  BY <1>1, AdderIs
<1>5. Under(q) = Under(s) => q = s
  <2>1. q = <<q[1], q[2]>> /\ s = <<s[1], s[2]>> /\ q[2] \in Nat /\ s[2] \in Nat
    BY SpotIs DEF CloseInv, HandlersInv
  <2> QED BY <2>1 DEF Under
<1>6. CASE Fr(s).ref /\ Fr(q).ref
  BY <1>2, <1>3, <1>4, <1>6 DEF AtMostOne
<1>7. CASE Fr(s).ref /\ ~Fr(q).ref
  <2>1. Under(q) = s
    BY <1>2, <1>3, <1>4, <1>7 DEF AtMostOne
  <2> QED BY <1>4, <1>7, <2>1
<1>8. CASE ~Fr(s).ref /\ Fr(q).ref
  <2>1. Under(s) = q
    BY <1>2, <1>3, <1>4, <1>8 DEF AtMostOne
  <2> QED BY <1>3, <1>8, <2>1
<1>9. CASE ~Fr(s).ref /\ ~Fr(q).ref
  <2>1. Under(s) = Under(q)
    BY <1>2, <1>3, <1>4, <1>9 DEF AtMostOne
  <2> QED BY <1>5, <2>1
<1>10. Fr(s).ref \in BOOLEAN /\ Fr(q).ref \in BOOLEAN
  BY SpotFrame DEF FrameSet
<1> QED BY <1>3, <1>4, <1>6, <1>7, <1>8, <1>9

\* A handler or a child comes into the list.
LEMMA InsertLife ==
  ASSUME LifeInv, CloseInv, NEW t \in AllThreads, stack[t] # <<>>, NEW s, s = TopSpot(t),
         NEW g \in FrameSet, TurnsTo(s, g), NEW h, h = Top(t),
         <<h.pc, g.pc>> \in {<<"add.insert", "unblock">>, <<"start.insert", "start.fn">>},
         g.c = h.c, g.x = h.x, g.ref = h.ref, flags' = flags, program' = program,
         list' = [list EXCEPT ![h.c] = <<h.x>> \o @], fate' = [fate EXCEPT ![h.x] = "added"]
  PROVE  LifeInv'
<1>1. PICK K, N : K = Spots \ {s} /\ N = {s}
  OBVIOUS
<1>2. Given(K, N) /\ Fr(s)' = g /\ s \in Spots /\ Spots' = Spots
  BY <1>1 DEF TurnsTo, Given
<1>3. /\ Fr(s) = h /\ h \in FrameSet /\ FrameLife(h) /\ FrameOK(t, h) /\ h.c \in Contexts
      /\ \A q \in Spots : Under(q) # s
  BY TopLifeIs
<1>4. h.pc \in {"add.insert", "start.insert"} /\ h.pc \in AddPcs /\ h.x \in Nodes
  BY <1>3 DEF FrameOK, AddPcs
<1>5. fate[h.x] = "adding"
  BY <1>3, <1>4 DEF FrameOK, FrameLife, HandlerFrameOK, Nodes
<1>6. h.x \in Contexts => Parent[h.x] = h.c
  BY <1>3, <1>4 DEF FrameLife
<1>7. fate'[h.x] = "added" /\ \A x \in Nodes \ {h.x} : fate'[x] = fate[x]
  BY <1>4 DEF CloseInv, HandlersInv, Shapes
<1>8. \A d \in Contexts : list[d] \in Seq(Nodes)
  BY DEF CloseInv, HandlersInv, Shapes
<1>9. \A d \in Contexts \ {h.c} : list'[d] = list[d]
  BY <1>3 DEF CloseInv, HandlersInv, Shapes
<1>10. /\ DOMAIN list'[h.c] = 1..(Len(list[h.c]) + 1) /\ Len(list[h.c]) \in Nat
       /\ list'[h.c][1] = h.x
       /\ \A n \in 1..(Len(list[h.c]) + 1) : n # 1 =>
            n - 1 \in DOMAIN list[h.c] /\ list'[h.c][n] = list[h.c][n - 1]
       /\ \A n \in DOMAIN list[h.c] : n + 1 \in DOMAIN list'[h.c] /\ list'[h.c][n + 1] = list[h.c][n]
  <2>1. PICK l : l = list[h.c] /\ l \in Seq(Nodes)
    BY <1>3, <1>8
  <2>2. list'[h.c] = <<h.x>> \o l
    BY <1>3, <2>1 DEF CloseInv, HandlersInv, Shapes
  <2>3. PICK m : m = <<h.x>> \o l
    OBVIOUS
  <2>4. /\ <<h.x>> \in Seq(Nodes) /\ Len(<<h.x>>) = 1 /\ <<h.x>>[1] = h.x
    BY <1>4, OneIs
  <2>5. /\ m \in Seq(Nodes) /\ Len(m) = 1 + Len(l) /\ Len(l) \in Nat
        /\ \A i \in 1..(1 + Len(l)) : m[i] = IF i <= 1 THEN h.x ELSE l[i - 1]
    <3>1. /\ \A i \in 1..(1 + Len(l)) : m[i] = IF i <= 1 THEN <<h.x>>[i] ELSE l[i - 1]
          /\ m \in Seq(Nodes) /\ Len(m) = 1 + Len(l) /\ Len(l) \in Nat
      BY <2>1, <2>3, <2>4, ConcatIs
    <3>2. \A i \in 1..(1 + Len(l)) : i <= 1 => i = 1
      BY <3>1
    <3> QED BY <2>4, <3>1, <3>2
  <2>6. DOMAIN m = 1..(Len(l) + 1) /\ DOMAIN l = 1..Len(l)
    BY <2>1, <2>5
  <2>7. /\ m[1] = h.x
        /\ \A n \in 1..(Len(l) + 1) : n # 1 => n - 1 \in DOMAIN l /\ m[n] = l[n - 1]
        /\ \A n \in DOMAIN l : n + 1 \in DOMAIN m /\ m[n + 1] = l[n]
    BY <2>5, <2>6
  <2>8. m = list'[h.c]
    BY <2>2, <2>3
  <2>9. DOMAIN list'[h.c] = 1..(Len(l) + 1)
    BY <2>6, <2>8
  <2> QED BY <2>1, <2>5, <2>7, <2>8, <2>9
<1>11. \A d \in Contexts : \A n \in DOMAIN list[d] : list[d][n] # h.x
  BY <1>5 DEF LifeInv, ListLives
<1>12. ASSUME NEW d \in Contexts, NEW x \in ToSet(list'[d])
       PROVE  x = h.x \/ x \in ToSet(list[d])
  BY <1>9, <1>10, <1>12 DEF ToSet
<1>13. ASSUME NEW d \in Contexts, NEW x \in ToSet(list[d]) PROVE x \in ToSet(list'[d])
  <2>1. PICK n \in DOMAIN list[d] : x = list[d][n]
    BY <1>13 DEF ToSet
  <2>2. CASE d = h.c
    <3>1. n + 1 \in DOMAIN list'[d] /\ list'[d][n + 1] = x
      BY <1>10, <2>1, <2>2
    <3> QED BY <3>1 DEF ToSet
  <2>3. CASE d # h.c
    BY <1>9, <1>13, <2>3
  <2> QED BY <2>2, <2>3
<1>14. ASSUME NEW f, f.x \in Contexts => f.pc \notin AddPcs \cup ChildPcs \/ f.x # h.x \/ f.pc = "child.add",
              FrameLife(f)
       PROVE  FrameLife(f)'
  <2>1. f.x \in Nodes /\ f.pc \in PoppedPcs => f.x # h.x
    BY <1>5, <1>14 DEF FrameLife
  <2>2. f.x \in Contexts /\ f.pc \in AddPcs \cup ChildPcs =>
       /\ Parent[f.x] = f.c /\ fate'[f.x] # "new"
       /\ f.pc # "child.add" => fate'[f.x] = "adding"
    BY <1>7, <1>14 DEF FrameLife, Nodes
  <2>3. f.x \in Contexts /\ f.pc = "unblock" => Born(f.x)'
    BY <1>7, <1>14 DEF FrameLife, Nodes, Born
  <2>4. f.x \in Nodes /\ f.pc \in PoppedPcs =>
       fate'[f.x] = IF f.pc = "close.call" THEN "added" ELSE "called"
    BY <1>7, <1>14, <2>1 DEF FrameLife
  <2>5. f.x \in Contexts /\ f.pc \in PoppedPcs =>
       Parent[f.x] = f.c /\ \A d \in Contexts : f.x \notin ToSet(list'[d])
    BY <1>12, <1>14, <2>1 DEF FrameLife, Nodes
  <2> QED BY <1>14, <2>2, <2>3, <2>4, <2>5 DEF FrameLife
<1>15. Grammar' /\ Descends' /\ OneAdder' /\ OnePopper'
  <2>1. \A b : Above(h, b) => Above(g, b)
    BY <1>4 DEF Above, AddCallPcs, ClientPcs, StartPcs, RemovePcs, CloserPcs, ClosingPcs, ChildCallPcs
  <2>2. Lowest(h) => Lowest(g)
    BY <1>4 DEF Lowest, ClientPcs, AddCallPcs, StartPcs
  <2>3. g.pc \notin DescentPcs /\ g.pc \notin PoppedPcs /\ g.pc \notin ChildPcs \cup {"undo"}
    BY DEF DescentPcs, CloserPcs, ClosingPcs, ChildCallPcs, PoppedPcs, ChildPcs
  <2>4. \A x : g \notin Adders(x) /\ g \notin AboutX(x, PoppedPcs)
    BY <2>3 DEF Adders, AboutX
  <2> QED BY <2>1, <2>2, <2>3, <2>4, TurnStands
<1>16. FramesLive'
  <2>1. FrameLife(g)'
    <3>1. g.pc \in {"unblock", "start.fn"} /\ (g.x \in Contexts => g.pc = "unblock" /\ ~g.ref)
      <4>1. h.x \in Contexts => h.pc = "add.insert" /\ ~h.ref
        BY <1>3, <1>4, TreeAssumption DEF FrameLife, FrameOK, StartPcs, AddCallPcs
      <4> QED BY <4>1
    <3> QED BY <1>7, <3>1 DEF FrameLife, Born, AddPcs, ChildPcs, AddCallPcs, RemovePcs, PoppedPcs, ClosingPcs
  <2>2. \A q \in N : FrameLife(Fr(q))'
    BY <1>1, <1>2, <2>1 DEF FrameLife, Born
  <2>3. ASSUME NEW q \in K, FrameLife(Fr(q)) PROVE FrameLife(Fr(q))'
    <3>1. PICK f : f = Fr(q) /\ f = Fr(q)'
      BY <1>2 DEF Given
    <3>2. f.x \in Contexts => f.pc \notin AddPcs \cup ChildPcs \/ f.x # h.x \/ f.pc = "child.add"
      <4>1. SUFFICES ASSUME f.x \in Contexts, f.pc \in AddPcs \cup ChildPcs, f.x = h.x PROVE f.pc = "child.add"
        OBVIOUS
      <4>2. h.pc = "add.insert"
        BY <1>3, <1>4, <4>1, TreeAssumption DEF FrameOK, StartPcs
      <4> QED BY <1>1, <1>2, <1>3, <3>1, <4>1, <4>2, InserterIs
    <3>3. FrameLife(f)'
      BY <1>14, <2>3, <3>1, <3>2
    <3> QED BY <3>1, <3>3 DEF FrameLife, Born
  <2> QED BY <1>2, <2>2, <2>3, FramesGiven DEF LifeInv
<1>17. TopsLive'
  <2>1. TopLife(g)'
    BY DEF TopLife
  <2>2. \A q \in N : TopLife(Fr(q))'
    BY <1>1, <1>2, <2>1 DEF TopLife, Born
  <2>3. ASSUME NEW q \in K, TopLife(Fr(q)) PROVE TopLife(Fr(q))'
    <3>1. Fr(q)' = Fr(q) /\ (Fr(q).pc = "child.add" => Fr(q).x \in Nodes)
      BY <1>1, <1>2, SpotFrame DEF Given, FrameOK, ChildPcs, Nodes
    <3> QED BY <1>5, <1>7, <2>3, <3>1 DEF TopLife, Born
  <2>4. \A q \in K : (\A r \in Spots' : Under(r) # q) => ~\E r \in Spots : Under(r) = q
    BY <1>2
  <2> QED BY <1>2, <2>2, <2>3, <2>4, TopsGiven DEF LifeInv
<1>18. ListLives'
  <2>1. ASSUME NEW c \in Contexts, NEW n \in DOMAIN list'[c]
        PROVE  /\ fate'[list'[c][n]] = "added"
               /\ list'[c][n] \in Contexts =>
                    /\ Parent[list'[c][n]] = c
                    /\ \A m \in DOMAIN list'[c] : list'[c][m] = list'[c][n] => m = n
    <3>1. CASE c # h.c
      <4>1. PICK l : l = list[c] /\ l = list'[c]
        BY <1>9, <2>1, <3>1
      <4>5. n \in DOMAIN l /\ l \in Seq(Nodes) /\ \A m \in DOMAIN l : l[m] # h.x
        <5>1. l \in Seq(Nodes) /\ n \in DOMAIN l
          BY <1>8, <2>1, <4>1
        <5>2. \A m \in DOMAIN list[c] : list[c][m] # h.x
          BY <1>11
        <5> QED BY <4>1, <5>1, <5>2
      <4>2. l[n] \in Nodes \ {h.x} /\ n \in DOMAIN l
        BY <4>5
      <4>3. /\ fate[l[n]] = "added"
            /\ l[n] \in Contexts => /\ Parent[l[n]] = c
                                   /\ \A m \in DOMAIN l : l[m] = l[n] => m = n
        <5>1. \A m \in DOMAIN list[c] :
                /\ fate[list[c][m]] = "added"
                /\ list[c][m] \in Contexts =>
                     /\ Parent[list[c][m]] = c
                     /\ \A k \in DOMAIN list[c] : list[c][k] = list[c][m] => k = m
          BY DEF LifeInv, ListLives
        <5> QED BY <4>1, <4>2, <5>1
      <4>4. fate'[l[n]] = "added"
        BY <1>7, <4>2, <4>3
      <4> QED BY <4>1, <4>3, <4>4
    <3>2. CASE c = h.c /\ n = 1
      BY <1>6, <1>7, <1>10, <1>11, <3>2
    <3>3. CASE c = h.c /\ n # 1
      <4>1. n - 1 \in DOMAIN list[c] /\ list'[c][n] = list[c][n - 1] /\ list[c][n - 1] \in Nodes \ {h.x}
            /\ n \in Nat
        BY <1>8, <1>10, <1>11, <2>1, <3>3
      <4>2. fate'[list'[c][n]] = "added" /\ (list'[c][n] \in Contexts => Parent[list'[c][n]] = c)
        BY <1>7, <2>1, <4>1 DEF LifeInv, ListLives
      <4>3. ASSUME list'[c][n] \in Contexts, NEW m \in DOMAIN list'[c], list'[c][m] = list'[c][n] PROVE m = n
        <5>1. m # 1
          BY <1>10, <3>3, <4>1, <4>3
        <5>2. m - 1 \in DOMAIN list[c] /\ list'[c][m] = list[c][m - 1] /\ m \in Nat
          BY <1>10, <3>3, <4>3, <5>1
        <5>3. m - 1 = n - 1
          BY <4>1, <4>3, <5>2 DEF LifeInv, ListLives
        <5> QED BY <4>1, <5>2, <5>3
      <4> QED BY <4>2, <4>3
    <3> QED BY <3>1, <3>2, <3>3
  <2> QED BY <2>1 DEF ListLives
<1>19. ChildrenHeld'
  <2>1. ASSUME NEW c \in Contexts, fate'[c] \in {"added", "called"}, Parent[c] # None PROVE Held(c)'
    <3>1. CASE c = h.x
      <4>1. c \in ToSet(list'[Parent[c]])
        BY <1>6, <1>10, <3>1 DEF ToSet
      <4> QED BY <4>1 DEF Held
    <3>2. CASE c # h.x
      <4>1. Held(c)
        BY <1>7, <2>1, <3>2 DEF LifeInv, ChildrenHeld, Born, Nodes
      <4>2. c \in ToSet(list[Parent[c]]) => Held(c)'
        <5>1. Parent[c] \in Contexts
          BY <2>1, TreeAssumption
        <5> QED BY <1>13, <5>1 DEF Held
      <4>3. \A q \in Spots \ K : Fr(q) \notin AboutX(c, PoppedPcs) /\ Fr(q) \notin OnC(c, LatePcs)
        BY <1>1, <1>3, <1>4 DEF AboutX, OnC, PoppedPcs, LatePcs
      <4>4. \A q \in N : Fr(q)' \notin AboutX(c, RemovePcs)
        BY <1>1, <1>2 DEF AboutX, RemovePcs
      <4> QED BY <1>2, <4>1, <4>2, <4>3, <4>4, HeldMoves
    <3> QED BY <3>1, <3>2
  <2> QED BY <2>1 DEF ChildrenHeld, Born
<1> QED BY <1>15, <1>16, <1>17, <1>18, <1>19 DEF LifeInv, ClosesFromThreads

\* The call came too late, and the handler or the child was not added.
LEMMA UndoLife ==
  ASSUME LifeInv, CloseInv, NEW t \in AllThreads, stack[t] # <<>>, NEW s, s = TopSpot(t), Leaves(s),
         NEW h, h = Top(t), h.pc = "undo", flags' = flags, program' = program, list' = list,
         fate' = [fate EXCEPT ![h.x] = "refused"]
  PROVE  LifeInv'
<1>1. PICK K, N : K = Spots \ {s} /\ N = {}
  OBVIOUS
<1>2. Given(K, N) /\ s \in Spots /\ Spots' = K
  BY <1>1 DEF Leaves, Given
<1>3. /\ Fr(s) = h /\ FrameLife(h) /\ FrameOK(t, h) /\ Lies(s)
      /\ \A q \in Spots : Under(q) # s
  BY TopLifeIs
<1>4. h.pc \in AddPcs /\ h.x \in Nodes
  BY <1>3 DEF FrameOK, AddPcs
<1>5. fate[h.x] = "adding"
  BY <1>3, <1>4 DEF FrameOK, FrameLife, HandlerFrameOK, Nodes
<1>6. fate'[h.x] = "refused" /\ \A x \in Nodes \ {h.x} : fate'[x] = fate[x]
  BY <1>4 DEF CloseInv, HandlersInv, Shapes
<1>7. \A d \in Contexts : \A n \in DOMAIN list[d] : list[d][n] \in Nodes \ {h.x}
  <2>1. \A d \in Contexts : list[d] \in Seq(Nodes)
    BY DEF CloseInv, HandlersInv, Shapes
  <2>2. \A d \in Contexts : \A n \in DOMAIN list[d] : list[d][n] # h.x
    BY <1>5 DEF LifeInv, ListLives
  <2> QED BY <2>1, <2>2
<1>8. ASSUME NEW f, f.x \in Contexts => f.pc \notin AddPcs \cup ChildPcs \/ f.x # h.x \/ f.pc = "child.add",
             FrameLife(f)
      PROVE  FrameLife(f)'
  <2>1. f.x \in Nodes /\ f.pc \in PoppedPcs => f.x # h.x
    BY <1>5, <1>8 DEF FrameLife
  <2>2. f.x \in Contexts /\ f.pc \in AddPcs \cup ChildPcs =>
       /\ Parent[f.x] = f.c /\ fate'[f.x] # "new"
       /\ f.pc # "child.add" => fate'[f.x] = "adding"
    BY <1>6, <1>8 DEF FrameLife, Nodes
  <2>3. f.x \in Contexts /\ f.pc = "unblock" => Born(f.x)'
    BY <1>5, <1>6, <1>8 DEF FrameLife, Nodes, Born
  <2>4. f.x \in Nodes /\ f.pc \in PoppedPcs =>
       fate'[f.x] = IF f.pc = "close.call" THEN "added" ELSE "called"
    BY <1>6, <1>8, <2>1 DEF FrameLife
  <2> QED BY <1>8, <2>2, <2>3, <2>4 DEF FrameLife
<1>9. Grammar' /\ Descends' /\ OneAdder' /\ OnePopper'
  BY LeaveStands
<1>10. FramesLive'
  <2>1. ASSUME NEW q \in K, FrameLife(Fr(q)) PROVE FrameLife(Fr(q))'
    <3>1. PICK f : f = Fr(q) /\ f = Fr(q)'
      BY <1>2 DEF Given
    <3>2. f.x \in Contexts => f.pc \notin AddPcs \cup ChildPcs \/ f.x # h.x \/ f.pc = "child.add"
      BY <1>1, <1>2, <1>3, <3>1, InserterIs
    <3>3. FrameLife(f)'
      BY <1>8, <2>1, <3>1, <3>2
    <3> QED BY <3>1, <3>3 DEF FrameLife, Born
  <2> QED BY <1>1, <1>2, <2>1, FramesGiven DEF LifeInv
<1>11. TopsLive'
  <2>1. ASSUME NEW q \in K, TopLife(Fr(q)) PROVE TopLife(Fr(q))'
    <3>1. Fr(q)' = Fr(q) /\ (Fr(q).pc = "child.add" => Fr(q).x \in Nodes)
      BY <1>1, <1>2, SpotFrame DEF Given, FrameOK, ChildPcs, Nodes
    <3> QED BY <1>5, <1>6, <2>1, <3>1 DEF TopLife, Born
  <2>2. ASSUME NEW q \in K, \A r \in Spots' : Under(r) # q, NEW u \in Spots, Under(u) = q
        PROVE  TopLife(Fr(q))'
    <3>1. u = s
      BY <1>1, <1>2, <2>2
    <3>2. PICK b : b = Fr(q) /\ b = Fr(q)' /\ Above(h, b)
      BY <1>1, <1>2, <1>3, <2>2, <3>1 DEF Lies, Given
    <3>3. b.pc \in SitePcs \/ (b.pc = "child.add" /\ h.x = b.x)
      BY <3>2 DEF Above, CloserPcs, ClosingPcs, RemovePcs, ChildCallPcs
    <3>4. TopLife(b)'
      BY <1>6, <3>3 DEF TopLife, SitePcs
    <3> QED BY <3>2, <3>4 DEF TopLife, Born
  <2> QED BY <1>1, <1>2, <2>1, <2>2, TopsGiven DEF LifeInv
<1>12. ListLives'
  BY <1>6, <1>7 DEF LifeInv, ListLives
<1>13. ChildrenHeld'
  <2>1. ASSUME NEW c \in Contexts, fate'[c] \in {"added", "called"}, Parent[c] # None PROVE Held(c)'
    <3>1. c # h.x /\ Held(c)
      BY <1>6, <2>1 DEF LifeInv, ChildrenHeld, Born, Nodes
    <3>2. c \in ToSet(list[Parent[c]]) => Held(c)'
      BY DEF Held
    <3>3. \A q \in Spots \ K : Fr(q) \notin AboutX(c, PoppedPcs) /\ Fr(q) \notin OnC(c, LatePcs)
      BY <1>1, <1>3 DEF AboutX, OnC, PoppedPcs, LatePcs
    <3> QED BY <1>1, <1>2, <3>1, <3>2, <3>3, HeldMoves
  <2> QED BY <2>1 DEF ChildrenHeld, Born
<1> QED BY <1>9, <1>10, <1>11, <1>12, <1>13 DEF LifeInv, ClosesFromThreads

\* What stays in a list when one entry is taken out.
LEMMA UnlinkLeaves ==
  ASSUME NEW s \in Seq(Nodes), NEW x, NEW r, r = Unlink(s, x)
  PROVE  /\ r \in Seq(Nodes)
         /\ \A n \in DOMAIN r : r[n] \in ToSet(s)
         /\ \A n \in DOMAIN r : (\A i, j \in DOMAIN s : s[i] = r[n] /\ s[j] = r[n] => i = j)
              => \A m \in DOMAIN r : r[m] = r[n] => m = n
         /\ \A y \in ToSet(s) : y # x => y \in ToSet(r)
<1>1. CASE x \notin ToSet(s)
  BY <1>1 DEF Unlink, ToSet
<1>2. CASE x \in ToSet(s)
  <2>1. PICK i : i = CHOOSE j \in DOMAIN s : s[j] = x
    OBVIOUS
  <2>2. i \in 1..Len(s) /\ s[i] = x
    <3>1. \E j \in DOMAIN s : s[j] = x
      BY <1>2 DEF ToSet
    <3>2. i \in DOMAIN s /\ s[i] = x
      BY <2>1, <3>1
    <3> QED BY <3>2
  <2>3. r = RemoveAt(s, i)
    BY <1>2, <2>1 DEF Unlink
  <2>4. PICK l \in Nat : l = Len(s) /\ DOMAIN s = 1..l
    OBVIOUS
  <2>5. /\ r \in Seq(Nodes) /\ Len(r) = l - 1
        /\ \A n \in 1..(l - 1) : r[n] = IF n < i THEN s[n] ELSE s[n + 1]
    <3>1. /\ RemoveAt(s, i) \in Seq(Nodes) /\ Len(RemoveAt(s, i)) = Len(s) - 1
          /\ \A n \in 1..(Len(s) - 1) : RemoveAt(s, i)[n] = IF n < i THEN s[n] ELSE s[n + 1]
      BY <2>2, RemoveAtIs
    <3> QED BY <2>3, <2>4, <3>1
  <2> DEFINE from(n) == IF n < i THEN n ELSE n + 1
  <2>6. DOMAIN r = 1..(l - 1) /\ i \in 1..l
    BY <2>2, <2>4, <2>5
  <2>7. ASSUME NEW n \in DOMAIN r
        PROVE  n \in Nat /\ from(n) \in DOMAIN s /\ r[n] = s[from(n)]
    BY <2>4, <2>5, <2>6, <2>7
  <2>8. ASSUME NEW n \in DOMAIN r, NEW m \in DOMAIN r, from(n) = from(m) PROVE m = n
    BY <2>6, <2>7, <2>8
  <2>9. ASSUME NEW j \in DOMAIN s, j # i PROVE \E n \in DOMAIN r : r[n] = s[j]
    <3>1. CASE j < i
      <4>1. j \in DOMAIN r /\ from(j) = j
        BY <2>4, <2>6, <2>9, <3>1
      <4> QED BY <2>7, <4>1
    <3>2. CASE ~(j < i)
      <4>1. j - 1 \in DOMAIN r /\ from(j - 1) = j
        BY <2>4, <2>6, <2>9, <3>2
      <4> QED BY <2>7, <4>1
    <3> QED BY <3>1, <3>2
  <2>10. \A n \in DOMAIN r : r[n] \in ToSet(s)
    BY <2>7 DEF ToSet
  <2>11. ASSUME NEW n \in DOMAIN r, \A a, b \in DOMAIN s : s[a] = r[n] /\ s[b] = r[n] => a = b,
                NEW m \in DOMAIN r, r[m] = r[n]
         PROVE  m = n
    <3>1. from(n) = from(m)
      BY <2>7, <2>11
    <3> QED BY <2>8, <3>1
  <2>12. \A y \in ToSet(s) : y # x => y \in ToSet(r)
    BY <2>2, <2>9 DEF ToSet
  <2> QED BY <2>5, <2>10, <2>11, <2>12
<1> QED BY <1>1, <1>2

\* Lists that have lost entries are as alive.
LEMMA ShorterLists ==
  ASSUME LifeInv, CloseInv, fate' = fate, NEW c \in Contexts,
         \A d \in Contexts \ {c} : list'[d] = list[d],
         \A n \in DOMAIN list'[c] : list'[c][n] \in ToSet(list[c]),
         \A n \in DOMAIN list'[c] :
           (\A i, j \in DOMAIN list[c] : list[c][i] = list'[c][n] /\ list[c][j] = list'[c][n] => i = j)
             => \A m \in DOMAIN list'[c] : list'[c][m] = list'[c][n] => m = n
  PROVE  ListLives'
<1>1. ASSUME NEW d \in Contexts, NEW n \in DOMAIN list'[d]
      PROVE  /\ fate'[list'[d][n]] = "added"
             /\ list'[d][n] \in Contexts =>
                  /\ Parent[list'[d][n]] = d
                  /\ \A m \in DOMAIN list'[d] : list'[d][m] = list'[d][n] => m = n
  <2>1. CASE d # c
    <3>1. PICK l : l = list[d] /\ l = list'[d]
      BY <2>1
    <3>2. \A k \in DOMAIN l :
            /\ fate[l[k]] = "added"
            /\ l[k] \in Contexts => Parent[l[k]] = d /\ \A m \in DOMAIN l : l[m] = l[k] => m = k
      <4>1. \A k \in DOMAIN list[d] :
              /\ fate[list[d][k]] = "added"
              /\ list[d][k] \in Contexts =>
                   Parent[list[d][k]] = d /\ \A m \in DOMAIN list[d] : list[d][m] = list[d][k] => m = k
        BY DEF LifeInv, ListLives
      <4> QED BY <3>1, <4>1
    <3>3. n \in DOMAIN l
      BY <1>1, <3>1
    <3> QED BY <3>1, <3>2, <3>3
  <2>2. CASE d = c
    <3>1. PICK k \in DOMAIN list[c] : list'[c][n] = list[c][k]
      BY <1>1, <2>2 DEF ToSet
    <3>2. /\ fate[list[c][k]] = "added"
          /\ list[c][k] \in Contexts =>
               Parent[list[c][k]] = c /\ \A m \in DOMAIN list[c] : list[c][m] = list[c][k] => m = k
      BY DEF LifeInv, ListLives
    <3> QED BY <1>1, <2>2, <3>1, <3>2
  <2> QED BY <2>1, <2>2
<1> QED BY <1>1 DEF ListLives

\* A call that takes a child out of a list is made by the close of the child.
LEMMA RemoverIs ==
  ASSUME LifeInv, CloseInv, NEW c \in Contexts, NEW q \in Spots, Fr(q) \in AboutX(c, RemovePcs)
  PROVE  Under(q) \in Spots /\ Fr(Under(q)).pc = "close.reset" /\ Fr(Under(q)).c = c
<1>1. PICK f : f = Fr(q) /\ f.x = c /\ f.pc \in RemovePcs /\ Lies(q) /\ FrameLife(f) /\ f.ref \in BOOLEAN
  BY SpotFrame DEF AboutX, LifeInv, FramesLive, Grammar, FrameSet
<1>2. ~f.ref
  BY <1>1 DEF FrameLife, RemovePcs
<1>3. Under(q) \in Spots /\ Above(f, Fr(Under(q)))
  BY <1>1, <1>2 DEF Lies, Lowest
<1> QED BY <1>1, <1>2, <1>3, TreeAssumption
        DEF Above, RemovePcs, AddCallPcs, CloserPcs, ClosingPcs, ChildCallPcs

LEMMA OneRemover ==
  ASSUME LifeInv, CloseInv, NEW c \in Contexts, NEW q \in Spots, NEW s \in Spots,
         Fr(q) \in AboutX(c, RemovePcs), Fr(s) \in AboutX(c, RemovePcs)
  PROVE  q = s
<1>1. /\ Under(q) \in Spots /\ Fr(Under(q)).pc = "close.reset" /\ Fr(Under(q)).c = c
      /\ Under(s) \in Spots /\ Fr(Under(s)).pc = "close.reset" /\ Fr(Under(s)).c = c
  BY RemoverIs
<1>2. Under(q) = Under(s)
  BY <1>1, OneCloser DEF ClosingPcs, LifeInv
<1>3. q = <<q[1], q[2]>> /\ s = <<s[1], s[2]>> /\ q[2] \in Nat /\ s[2] \in Nat
  BY SpotIs DEF CloseInv, HandlersInv
<1> QED BY <1>2, <1>3 DEF Under

\* A handler or a child is taken out of the list.
LEMMA UnlinkLife ==
  ASSUME LifeInv, CloseInv, NEW t \in AllThreads, stack[t] # <<>>, NEW s, s = TopSpot(t), Leaves(s),
         NEW h, h = Top(t), h.pc = "remove", flags' = flags, program' = program, fate' = fate,
         list' = [list EXCEPT ![h.c] = Unlink(@, h.x)]
  PROVE  LifeInv'
<1>1. PICK K, N : K = Spots \ {s} /\ N = {}
  OBVIOUS
<1>2. Given(K, N) /\ s \in Spots /\ Spots' = K
  BY <1>1 DEF Leaves, Given
<1>3. /\ Fr(s) = h /\ FrameLife(h) /\ FrameOK(t, h) /\ Lies(s) /\ TopLife(h) /\ h.c \in Contexts
      /\ \A q \in Spots : Under(q) # s
  BY TopLifeIs
<1>4. PICK r : r = Unlink(list[h.c], h.x) /\ r = list'[h.c]
  BY <1>3 DEF CloseInv, HandlersInv, Shapes
<1>5. \A d \in Contexts \ {h.c} : list'[d] = list[d]
  BY <1>3 DEF CloseInv, HandlersInv, Shapes
<1>6. list[h.c] \in Seq(Nodes)
  BY <1>3 DEF CloseInv, HandlersInv, Shapes
<1>7. /\ \A n \in DOMAIN r : r[n] \in ToSet(list[h.c])
      /\ \A n \in DOMAIN r :
           (\A i, j \in DOMAIN list[h.c] : list[h.c][i] = r[n] /\ list[h.c][j] = r[n] => i = j)
             => \A m \in DOMAIN r : r[m] = r[n] => m = n
      /\ \A y \in ToSet(list[h.c]) : y # h.x => y \in ToSet(r)
  <2>1. PICK l, x : l = list[h.c] /\ x = h.x
    OBVIOUS
  <2>2. l \in Seq(Nodes) /\ r = Unlink(l, x)
    BY <1>4, <1>6, <2>1
  <2>3. /\ \A n \in DOMAIN r : r[n] \in ToSet(l)
        /\ \A n \in DOMAIN r : (\A i, j \in DOMAIN l : l[i] = r[n] /\ l[j] = r[n] => i = j)
             => \A m \in DOMAIN r : r[m] = r[n] => m = n
        /\ \A y \in ToSet(l) : y # x => y \in ToSet(r)
    BY <2>2, UnlinkLeaves
  <2> QED BY <2>1, <2>3
<1>8. \A d \in Contexts : \A x \in ToSet(list'[d]) : x \in ToSet(list[d])
  BY <1>4, <1>5, <1>7 DEF ToSet
<1>9. \A d \in Contexts : \A x \in ToSet(list[d]) : x # h.x => x \in ToSet(list'[d])
  BY <1>4, <1>5, <1>7
<1>10. Grammar' /\ Descends' /\ OneAdder' /\ OnePopper'
  BY LeaveStands
<1>11. FramesLive'
  <2>1. ASSUME NEW f, FrameLife(f) PROVE FrameLife(f)'
    BY <1>8, <2>1 DEF FrameLife, Born
  <2>2. ASSUME NEW q \in K, FrameLife(Fr(q)) PROVE FrameLife(Fr(q))'
    <3>1. PICK f : f = Fr(q) /\ f = Fr(q)'
      BY <1>2 DEF Given
    <3>2. FrameLife(f)'
      BY <2>1, <2>2, <3>1
    <3> QED BY <3>1, <3>2 DEF FrameLife, Born
  <2> QED BY <1>1, <1>2, <2>2, FramesGiven DEF LifeInv
<1>12. TopsLive'
  <2>1. ASSUME NEW q \in K, TopLife(Fr(q)) PROVE TopLife(Fr(q))'
    <3>1. Fr(q)' = Fr(q)
      BY <1>2 DEF Given
    <3> QED BY <2>1, <3>1 DEF TopLife, Born
  <2>2. ASSUME NEW q \in K, \A u \in Spots' : Under(u) # q, NEW u \in Spots, Under(u) = q
        PROVE  TopLife(Fr(q))'
    <3>1. u = s
      BY <1>1, <1>2, <2>2
    <3>2. Above(h, Fr(q)) /\ q \in Spots /\ Fr(q)' = Fr(q)
      BY <1>1, <1>2, <1>3, <2>2, <3>1 DEF Lies, Given
    <3>3. Fr(q).pc \in ChildPcs => Fr(q).x \in Contexts
      BY <3>2, SpotFrame DEF FrameOK
    <3>4. EndsWell(h)
      BY DEF EndsWell, CloserPcs, ClosingPcs
    <3>5. TopLife(Fr(q))
      BY <1>3, <3>2, <3>3, <3>4, BackTop
    <3> QED BY <3>2, <3>5 DEF TopLife, Born
  <2> QED BY <1>1, <1>2, <2>1, <2>2, TopsGiven DEF LifeInv
<1>13. ListLives'
  BY <1>3, <1>4, <1>5, <1>7, ShorterLists
<1>14. ChildrenHeld'
  <2>1. ASSUME NEW c \in Contexts, fate[c] \in {"added", "called"}, Parent[c] # None PROVE Held(c)'
    <3>1. CASE c = h.x
      <4>1. h \in AboutX(c, RemovePcs)
        BY <1>2, <1>3, <3>1, SpotFrame DEF AboutX, RemovePcs
      <4>2. Under(s) \in Spots /\ Fr(Under(s)).pc = "close.reset" /\ Fr(Under(s)).c = c
        BY <1>2, <1>3, <4>1, RemoverIs
      <4>3. Under(s) \in Spots' /\ Fr(Under(s))' = Fr(Under(s)) /\ Fr(Under(s)) \in FrameSet
        BY <1>1, <1>2, <1>3, <4>2, SpotFrame DEF Given
      <4>4. Some(OnC(c, LatePcs))'
        BY <4>2, <4>3 DEF Some, OnC, LatePcs
      <4>5. ~Some(AboutX(c, RemovePcs))'
        <5>1. SUFFICES ASSUME NEW q \in Spots', Fr(q)' \in AboutX(c, RemovePcs) PROVE FALSE
          BY DEF Some, AboutX
        <5>2. q \in Spots /\ q # s /\ Fr(q) \in AboutX(c, RemovePcs)
          BY <1>1, <1>2, <5>1 DEF Given
        <5> QED BY <1>2, <1>3, <4>1, <5>2, OneRemover
      <4> QED BY <4>4, <4>5 DEF Held, Left
    <3>2. CASE c # h.x
      <4>1. Held(c)
        BY <2>1 DEF LifeInv, ChildrenHeld, Born
      <4>2. c \in ToSet(list[Parent[c]]) => Held(c)'
        <5>1. Parent[c] \in Contexts
          BY <2>1, TreeAssumption
        <5> QED BY <1>9, <3>2, <5>1 DEF Held
      <4>3. \A q \in Spots \ K : Fr(q) \notin AboutX(c, PoppedPcs) /\ Fr(q) \notin OnC(c, LatePcs)
        BY <1>1, <1>3 DEF AboutX, OnC, PoppedPcs, LatePcs
      <4> QED BY <1>1, <1>2, <4>1, <4>2, <4>3, HeldMoves
    <3> QED BY <3>1, <3>2
  <2> QED BY <2>1 DEF ChildrenHeld, Born
<1> QED BY <1>10, <1>11, <1>12, <1>13, <1>14 DEF LifeInv, ClosesFromThreads

\* The call that is the first to close a context goes on, and announces it.
LEMMA FlagLife ==
  ASSUME LifeInv, CloseInv, NEW t \in AllThreads, stack[t] # <<>>, NEW s, s = TopSpot(t),
         NEW g \in FrameSet, TurnsTo(s, g), NEW h, h = Top(t), g.c = h.c, g.ref = h.ref,
         <<h.pc, g.pc>> \in {<<"close", "close.wait">>, <<"close.flag", "close.pop">>},
         h.pc = "close" => g.x = h.x /\ "Closed" \notin flags[h.c],
         h.pc = "close.flag" => g.x = None,
         \A c \in Contexts : "Closed" \in flags'[c] <=> "Closed" \in flags[c],
         list' = list, fate' = fate, program' = program
  PROVE  LifeInv'
<1>1. PICK K, N : K = Spots \ {s} /\ N = {s}
  OBVIOUS
<1>2. Given(K, N) /\ Fr(s)' = g /\ s \in Spots /\ Spots' = Spots
  BY <1>1 DEF TurnsTo, Given
<1>3. /\ Fr(s) = h /\ h \in FrameSet /\ FrameLife(h) /\ h.c \in Contexts
      /\ \A q \in Spots : Under(q) # s
  BY TopLifeIs
<1>4. ASSUME NEW f \in FrameSet, FrameLife(f) PROVE FrameLife(f)'
  <2>1. f.c \in Contexts
    BY DEF FrameSet
  <2> QED BY <1>4, <2>1 DEF FrameLife, Born
<1>5. Grammar' /\ Descends' /\ OneAdder' /\ OnePopper'
  <2>1. {h.pc, g.pc} \subseteq CloserPcs /\ {h.pc, g.pc} \cap SitePcs = {}
    BY DEF CloserPcs, ClosingPcs, SitePcs
  <2>2. \A b : Above(h, b) => Above(g, b)
    BY DEF Above, ClientPcs, AddCallPcs, RemovePcs, StartPcs, ChildPcs, ChildCallPcs, CloserPcs, ClosingPcs
  <2>3. Lowest(h) => Lowest(g)
    BY <2>1 DEF Lowest
  <2>4. g.pc \in DescentPcs => h.pc \in DescentPcs
    BY <2>1 DEF DescentPcs
  <2>5. \A x : g \notin Adders(x)
    BY DEF Adders, ChildPcs
  <2>6. \A x \in Nodes : g \notin AboutX(x, PoppedPcs)
    BY TreeAssumption DEF AboutX, PoppedPcs, Nodes
  <2> QED BY <2>2, <2>3, <2>4, <2>5, <2>6, TurnStands
<1>6. FramesLive'
  <2>1. FrameLife(g)'
    <3>1. "Closed" \notin flags'[g.c]
      BY <1>3 DEF FrameLife, ClosingPcs
    <3>2. g.pc = "close.pop" => g.x \notin Nodes
      BY TreeAssumption DEF Nodes
    <3> QED BY <3>1, <3>2 DEF FrameLife, AddCallPcs, RemovePcs, AddPcs, ChildPcs, PoppedPcs, Nodes
  <2>2. \A q \in N : FrameLife(Fr(q))'
    BY <1>1, <1>2, <2>1 DEF FrameLife, Born
  <2>3. ASSUME NEW q \in K, FrameLife(Fr(q)) PROVE FrameLife(Fr(q))'
    <3>1. PICK f : f = Fr(q) /\ f = Fr(q)' /\ f \in FrameSet
      BY <1>1, <1>2, SpotFrame DEF Given
    <3>2. FrameLife(f)'
      BY <1>4, <2>3, <3>1
    <3> QED BY <3>1, <3>2 DEF FrameLife, Born
  <2> QED BY <1>2, <2>2, <2>3, FramesGiven DEF LifeInv
<1>7. TopsLive'
  <2>1. TopLife(g)'
    BY TreeAssumption DEF TopLife
  <2>2. \A q \in N : TopLife(Fr(q))'
    BY <1>1, <1>2, <2>1 DEF TopLife, Born
  <2>3. ASSUME NEW q \in K, TopLife(Fr(q)) PROVE TopLife(Fr(q))'
    <3>1. Fr(q)' = Fr(q) /\ Fr(q).c \in Contexts
      BY <1>1, <1>2, SpotFrame DEF Given
    <3> QED BY <2>3, <3>1 DEF TopLife, Born
  <2>4. \A q \in K : (\A r \in Spots' : Under(r) # q) => ~\E r \in Spots : Under(r) = q
    BY <1>2
  <2> QED BY <1>2, <2>2, <2>3, <2>4, TopsGiven DEF LifeInv
<1>8. ListLives'
  BY DEF LifeInv, ListLives
<1>9. ChildrenHeld'
  <2>1. ASSUME NEW c \in Contexts, Held(c) PROVE Held(c)'
    <3>1. c \in ToSet(list[Parent[c]]) => Held(c)'
      BY DEF Held
    <3>2. \A q \in Spots \ K : Fr(q) \notin OnC(c, LatePcs) /\ Fr(q) \notin AboutX(c, PoppedPcs)
      BY <1>1, <1>3 DEF AboutX, OnC, PoppedPcs, LatePcs
    <3>3. \A q \in N : Fr(q)' \notin AboutX(c, RemovePcs)
      BY <1>1, <1>2 DEF AboutX, RemovePcs
    <3> QED BY <1>2, <2>1, <3>1, <3>2, <3>3, HeldMoves
  <2> QED BY <2>1 DEF LifeInv, ChildrenHeld, Born
<1> QED BY <1>5, <1>6, <1>7, <1>8, <1>9 DEF LifeInv, ClosesFromThreads

\* The context is closed.
LEMMA ClosedLife ==
  ASSUME LifeInv, CloseInv, NEW t \in AllThreads, stack[t] # <<>>, NEW s, s = TopSpot(t),
         NEW g \in FrameSet, TurnsTo(s, g), NEW h, h = Top(t), g.c = h.c, g.ref = h.ref, g.x = h.x,
         h.pc = "close.closed", g.pc = "close.release",
         flags' = [flags EXCEPT ![h.c] = @ \cup {"Closed"}],
         list' = list, fate' = fate, program' = program
  PROVE  LifeInv'
<1>1. PICK K, N : K = Spots \ {s} /\ N = {s}
  OBVIOUS
<1>2. Given(K, N) /\ Fr(s)' = g /\ s \in Spots /\ Spots' = Spots
  BY <1>1 DEF TurnsTo, Given
<1>3. /\ Fr(s) = h /\ h \in FrameSet /\ FrameLife(h) /\ h.c \in Contexts
      /\ \A q \in Spots : Under(q) # s
  BY TopLifeIs
<1>4. "Closed" \in flags'[h.c] /\ \A c \in Contexts \ {h.c} : flags'[c] = flags[c]
  BY <1>3 DEF CloseInv, HandlersInv, Shapes
<1>5. ASSUME NEW f \in FrameSet, FrameLife(f), f.pc \in ClosingPcs => f.c # h.c PROVE FrameLife(f)'
  <2>1. f.c \in Contexts
    BY DEF FrameSet
  <2> QED BY <1>4, <1>5, <2>1 DEF FrameLife, Born
<1>6. Grammar' /\ Descends' /\ OneAdder' /\ OnePopper'
  <2>1. {h.pc, g.pc} \subseteq CloserPcs
    BY DEF CloserPcs, ClosingPcs
  <2>2. \A b : Above(h, b) => Above(g, b)
    BY DEF Above, ClientPcs, AddCallPcs, RemovePcs, StartPcs, ChildPcs, ChildCallPcs, CloserPcs, ClosingPcs
  <2>3. Lowest(h) => Lowest(g)
    BY <2>1 DEF Lowest
  <2>4. g.pc \in DescentPcs => h.pc \in DescentPcs
    BY <2>1 DEF DescentPcs
  <2>5. \A x : g \notin Adders(x) /\ g \notin AboutX(x, PoppedPcs)
    BY DEF Adders, ChildPcs, AboutX, PoppedPcs
  <2> QED BY <2>2, <2>3, <2>4, <2>5, TurnStands
<1>7. FramesLive'
  <2>1. FrameLife(g)'
    BY <1>4 DEF FrameLife, AddCallPcs, RemovePcs, AddPcs, ChildPcs, PoppedPcs
  <2>2. \A q \in N : FrameLife(Fr(q))'
    BY <1>1, <1>2, <2>1 DEF FrameLife, Born
  <2>3. ASSUME NEW q \in K, FrameLife(Fr(q)) PROVE FrameLife(Fr(q))'
    <3>1. PICK f : f = Fr(q) /\ f = Fr(q)' /\ f \in FrameSet
      BY <1>1, <1>2, SpotFrame DEF Given
    <3>2. f.pc \in ClosingPcs => f.c # h.c
      BY <1>1, <1>2, <1>3, <3>1, OneCloser DEF ClosingPcs, LifeInv
    <3>3. FrameLife(f)'
      BY <1>5, <2>3, <3>1, <3>2
    <3> QED BY <3>1, <3>3 DEF FrameLife, Born
  <2> QED BY <1>2, <2>2, <2>3, FramesGiven DEF LifeInv
<1>8. TopsLive'
  <2>1. TopLife(g)'
    BY DEF TopLife
  <2>2. \A q \in N : TopLife(Fr(q))'
    BY <1>1, <1>2, <2>1 DEF TopLife, Born
  <2>3. ASSUME NEW q \in K, TopLife(Fr(q)) PROVE TopLife(Fr(q))'
    <3>1. Fr(q)' = Fr(q) /\ Fr(q).c \in Contexts
      BY <1>1, <1>2, SpotFrame DEF Given
    <3> QED BY <1>4, <2>3, <3>1 DEF TopLife, Born
  <2>4. \A q \in K : (\A r \in Spots' : Under(r) # q) => ~\E r \in Spots : Under(r) = q
    BY <1>2
  <2> QED BY <1>2, <2>2, <2>3, <2>4, TopsGiven DEF LifeInv
<1>9. ListLives'
  BY DEF LifeInv, ListLives
<1>10. ChildrenHeld'
  <2>1. ASSUME NEW c \in Contexts, Held(c) PROVE Held(c)'
    <3>1. c \in ToSet(list[Parent[c]]) => Held(c)'
      BY DEF Held
    <3>2. \A q \in Spots \ K : Fr(q) \notin AboutX(c, PoppedPcs)
      BY <1>1, <1>3 DEF AboutX, PoppedPcs
    <3>5. \A q \in Spots \ K : Fr(q) \in OnC(c, LatePcs) => Held(c)'
      BY <1>1, <1>3, <1>4 DEF OnC, Held, Left
    <3>3. \A q \in N : Fr(q)' \notin AboutX(c, RemovePcs)
      BY <1>1, <1>2 DEF AboutX, RemovePcs
    <3>4. "Closed" \in flags[c] => "Closed" \in flags'[c]
      BY <1>4
    <3> QED BY <1>2, <2>1, <3>1, <3>2, <3>3, <3>4, <3>5, HeldMoves
  <2> QED BY <2>1 DEF LifeInv, ChildrenHeld, Born
<1> QED BY <1>6, <1>7, <1>8, <1>9, <1>10 DEF LifeInv, ClosesFromThreads

\* The loop of close takes note of the end of a handler and pops the next one.
LEMMA PopLife ==
  ASSUME LifeInv, CloseInv, NEW t \in AllThreads, stack[t] # <<>>, NEW s, s = TopSpot(t),
         NEW g \in FrameSet, TurnsTo(s, g), NEW h, h = Top(t), g.c = h.c, g.ref = h.ref,
         h.pc = "close.pop",
         \/ list[h.c] = <<>> /\ g.pc = "close.parent" /\ list' = list
         \/ /\ list[h.c] # <<>> /\ g.pc = "close.call" /\ g.x = Head(list[h.c])
            /\ list' = [list EXCEPT ![h.c] = Tail(@)],
         flags' = flags, fate' = fate, program' = program
  PROVE  LifeInv'
<1>1. PICK K, N : K = Spots \ {s} /\ N = {s}
  OBVIOUS
<1>2. Given(K, N) /\ Fr(s)' = g /\ s \in Spots /\ Spots' = Spots
  BY <1>1 DEF TurnsTo, Given
<1>3. /\ Fr(s) = h /\ h \in FrameSet /\ FrameLife(h) /\ TopLife(h) /\ h.c \in Contexts
      /\ \A q \in Spots : Under(q) # s
  BY TopLifeIs
<1>4. PICK l, r : l = list[h.c] /\ r = list'[h.c] /\ l \in Seq(Nodes)
  BY <1>3 DEF CloseInv, HandlersInv, Shapes
<1>5. \A d \in Contexts \ {h.c} : list'[d] = list[d]
  BY <1>3 DEF CloseInv, HandlersInv, Shapes
<1>6. \/ l = <<>> /\ r = l /\ g.pc = "close.parent"
      \/ l # <<>> /\ r = Tail(l) /\ g.pc = "close.call" /\ g.x = Head(l)
  BY <1>3, <1>4 DEF CloseInv, HandlersInv, Shapes
<1>7. \A m \in DOMAIN l :
        /\ fate[l[m]] = "added"
        /\ l[m] \in Contexts => Parent[l[m]] = h.c /\ \A k \in DOMAIN l : l[k] = l[m] => k = m
  <2>1. \A m \in DOMAIN list[h.c] :
          /\ fate[list[h.c][m]] = "added"
          /\ list[h.c][m] \in Contexts =>
               /\ Parent[list[h.c][m]] = h.c
               /\ \A k \in DOMAIN list[h.c] : list[h.c][k] = list[h.c][m] => k = m
    BY <1>3 DEF LifeInv, ListLives
  <2> QED BY <1>4, <2>1
<1>8. l # <<>> => /\ DOMAIN l = 1..Len(l) /\ Len(l) \in Nat /\ Len(l) >= 1 /\ Head(l) = l[1] /\ 1 \in DOMAIN l
                  /\ DOMAIN Tail(l) = 1..(Len(l) - 1)
                  /\ \A n \in 1..(Len(l) - 1) : Tail(l)[n] = l[n + 1] /\ n + 1 \in DOMAIN l
  <2>1. SUFFICES ASSUME l # <<>>
                 PROVE  /\ DOMAIN l = 1..Len(l) /\ Len(l) \in Nat /\ Len(l) >= 1 /\ Head(l) = l[1] /\ 1 \in DOMAIN l
                        /\ DOMAIN Tail(l) = 1..(Len(l) - 1)
                        /\ \A n \in 1..(Len(l) - 1) : Tail(l)[n] = l[n + 1] /\ n + 1 \in DOMAIN l
    OBVIOUS
  <2>2. /\ Tail(l) \in Seq(Nodes) /\ Len(Tail(l)) = Len(l) - 1
        /\ \A i \in 1..(Len(l) - 1) : Tail(l)[i] = l[i + 1]
        /\ Head(l) = l[1] /\ Len(l) \in Nat /\ Len(l) >= 1 /\ DOMAIN l = 1..Len(l)
    BY <1>4, <2>1, TailIs
  <2>3. DOMAIN Tail(l) = 1..(Len(l) - 1)
    BY <2>2
  <2> QED BY <2>2, <2>3
<1>9. ASSUME NEW x \in ToSet(r)
      PROVE  x \in ToSet(l) /\ (l # <<>> /\ Head(l) \in Contexts => x # Head(l))
  <2>1. PICK n \in DOMAIN r : x = r[n]
    BY <1>9 DEF ToSet
  <2>2. CASE l = <<>>
    BY <1>6, <1>9, <2>2
  <2>3. CASE l # <<>>
    <3>1. n \in 1..(Len(l) - 1) /\ x = l[n + 1] /\ n + 1 \in DOMAIN l
      BY <1>6, <1>8, <2>1, <2>3
    <3>2. n + 1 # 1
      BY <1>8, <2>3, <3>1
    <3>3. Head(l) \in Contexts => x # Head(l)
      BY <1>7, <1>8, <2>3, <3>1, <3>2
    <3> QED BY <3>1, <3>3 DEF ToSet
  <2> QED BY <2>2, <2>3
<1>10. \A d \in Contexts : \A x \in ToSet(list'[d]) : x \in ToSet(list[d])
  BY <1>4, <1>5, <1>9
<1>11. ASSUME NEW x \in ToSet(l), x # g.x PROVE x \in ToSet(r)
  <2>1. PICK n \in DOMAIN l : x = l[n]
    BY <1>11 DEF ToSet
  <2>2. CASE l = <<>>
    BY <1>6, <1>11, <2>2
  <2>3. CASE l # <<>>
    <3>1. n # 1
      BY <1>6, <1>8, <1>11, <2>1, <2>3
    <3>2. n - 1 \in 1..(Len(l) - 1) /\ n - 1 + 1 = n
      BY <1>8, <2>1, <2>3, <3>1
    <3>3. n - 1 \in DOMAIN r /\ r[n - 1] = x
      BY <1>6, <1>8, <2>1, <2>3, <3>2
    <3> QED BY <3>3 DEF ToSet
  <2> QED BY <2>2, <2>3
<1>12. l # <<>> => /\ g.x \in Nodes /\ fate[g.x] = "added"
                   /\ g.x \in Contexts => Parent[g.x] = h.c /\ \A d \in Contexts : g.x \notin ToSet(list'[d])
  <2>1. SUFFICES ASSUME l # <<>>
                 PROVE  /\ g.x \in Nodes /\ fate[g.x] = "added"
                        /\ g.x \in Contexts => Parent[g.x] = h.c /\ \A d \in Contexts : g.x \notin ToSet(list'[d])
    OBVIOUS
  <2>2. g.x = l[1] /\ 1 \in DOMAIN l /\ g.x \in Nodes /\ g.x = Head(l)
    BY <1>4, <1>6, <1>8, <2>1
  <2>3. fate[g.x] = "added" /\ (g.x \in Contexts => Parent[g.x] = h.c)
    BY <1>7, <2>2
  <2>4. ASSUME g.x \in Contexts, NEW d \in Contexts, g.x \in ToSet(list'[d]) PROVE FALSE
    <3>1. CASE d = h.c
      BY <1>4, <1>9, <2>1, <2>2, <2>4, <3>1
    <3>2. CASE d # h.c
      <4>1. PICK n \in DOMAIN list[d] : list[d][n] = g.x
        BY <1>5, <2>4, <3>2 DEF ToSet
      <4>2. Parent[g.x] = d
        BY <2>4, <4>1 DEF LifeInv, ListLives
      <4> QED BY <2>3, <2>4, <3>2, <4>2
    <3> QED BY <3>1, <3>2
  <2> QED BY <2>2, <2>3, <2>4
<1>13. ASSUME l # <<>>, NEW q \in Spots, Fr(q).x = g.x, Fr(q).pc \in PoppedPcs PROVE FALSE
  <2>1. g.x \in ToSet(list[h.c])
    BY <1>4, <1>6, <1>8, <1>13 DEF ToSet
  <2>2. FrameLife(Fr(q)) /\ FrameOK(q[1], Fr(q))
    BY SpotFrame DEF LifeInv, FramesLive
  <2>3. g.x \notin Contexts
    BY <1>3, <1>13, <2>1, <2>2 DEF FrameLife
  <2>4. g.x \in Handlers
    BY <1>12, <1>13, <2>3 DEF Nodes
  <2> QED BY <1>3, <1>13, <2>1, <2>2, <2>4 DEF FrameOK, HandlerFrameOK
<1>14. Grammar' /\ Descends' /\ OneAdder' /\ OnePopper'
  <2>1. {h.pc, g.pc} \subseteq CloserPcs
    BY DEF CloserPcs, ClosingPcs
  <2>2. \A b : Above(h, b) => Above(g, b)
    BY DEF Above, ClientPcs, AddCallPcs, RemovePcs, StartPcs, ChildPcs, ChildCallPcs, CloserPcs, ClosingPcs
  <2>3. Lowest(h) => Lowest(g)
    BY <2>1 DEF Lowest
  <2>4. g.pc \in DescentPcs => h.pc \in DescentPcs
    BY <2>1 DEF DescentPcs
  <2>5. \A x : g \notin Adders(x)
    BY DEF Adders, ChildPcs
  <2>6. \A x \in Nodes : g \in AboutX(x, PoppedPcs) => ~Some(AboutX(x, PoppedPcs))
    BY <1>6, <1>13 DEF AboutX, Some, PoppedPcs
  <2> QED BY <2>2, <2>3, <2>4, <2>5, <2>6, TurnStands
<1>15. FramesLive'
  <2>1. FrameLife(g)'
    <3>1. "Closed" \notin flags[g.c]
      BY <1>3 DEF FrameLife, ClosingPcs
    <3> QED BY <1>6, <1>12, <3>1 DEF FrameLife, AddCallPcs, RemovePcs, AddPcs, ChildPcs, PoppedPcs
  <2>2. \A q \in N : FrameLife(Fr(q))'
    BY <1>1, <1>2, <2>1 DEF FrameLife, Born
  <2>3. ASSUME NEW f, FrameLife(f) PROVE FrameLife(f)'
    BY <1>10, <2>3 DEF FrameLife, Born
  <2>4. ASSUME NEW q \in K, FrameLife(Fr(q)) PROVE FrameLife(Fr(q))'
    <3>1. PICK f : f = Fr(q) /\ f = Fr(q)'
      BY <1>2 DEF Given
    <3>2. FrameLife(f)'
      BY <2>3, <2>4, <3>1
    <3> QED BY <3>1, <3>2 DEF FrameLife, Born
  <2> QED BY <1>2, <2>2, <2>4, FramesGiven DEF LifeInv
<1>16. TopsLive'
  <2>1. TopLife(g)'
    BY DEF TopLife
  <2>2. \A q \in N : TopLife(Fr(q))'
    BY <1>1, <1>2, <2>1 DEF TopLife, Born
  <2>3. ASSUME NEW q \in K, TopLife(Fr(q)) PROVE TopLife(Fr(q))'
    <3>1. Fr(q)' = Fr(q)
      BY <1>2 DEF Given
    <3> QED BY <2>3, <3>1 DEF TopLife, Born
  <2>4. \A q \in K : (\A u \in Spots' : Under(u) # q) => ~\E u \in Spots : Under(u) = q
    BY <1>2
  <2> QED BY <1>2, <2>2, <2>3, <2>4, TopsGiven DEF LifeInv
<1>17. ListLives'
  <2>1. \A n \in DOMAIN r : r[n] \in ToSet(l)
    BY <1>9 DEF ToSet
  <2>2. ASSUME NEW n \in DOMAIN r, \A i, j \in DOMAIN l : l[i] = r[n] /\ l[j] = r[n] => i = j,
               NEW m \in DOMAIN r, r[m] = r[n]
        PROVE  m = n
    <3>1. CASE l = <<>>
      BY <1>6, <2>2, <3>1
    <3>2. CASE l # <<>>
      <4>1. /\ n \in 1..(Len(l) - 1) /\ m \in 1..(Len(l) - 1) /\ Len(l) \in Nat
            /\ r[n] = l[n + 1] /\ r[m] = l[m + 1] /\ n + 1 \in DOMAIN l /\ m + 1 \in DOMAIN l
        BY <1>6, <1>8, <2>2, <3>2
      <4>2. n + 1 = m + 1
        BY <2>2, <4>1
      <4> QED BY <4>1, <4>2
    <3> QED BY <3>1, <3>2
  <2>3. /\ \A n \in DOMAIN list'[h.c] : list'[h.c][n] \in ToSet(list[h.c])
        /\ \A n \in DOMAIN list'[h.c] :
           (\A i, j \in DOMAIN list[h.c] : list[h.c][i] = list'[h.c][n] /\ list[h.c][j] = list'[h.c][n] => i = j)
             => \A m \in DOMAIN list'[h.c] : list'[h.c][m] = list'[h.c][n] => m = n
    BY <1>4, <2>1, <2>2
  <2> QED BY <1>3, <1>5, <2>3, ShorterLists
<1>18. ChildrenHeld'
  <2>1. ASSUME NEW c \in Contexts, Parent[c] # None, Held(c) PROVE Held(c)'
    <3>1. Parent[c] \in Contexts
      BY <2>1, TreeAssumption
    <3>2. CASE l # <<>> /\ c = g.x
      <4>1. g \in AboutX(c, PoppedPcs) /\ s \in Spots'
        BY <1>2, <1>6, <3>2 DEF AboutX, PoppedPcs
      <4>2. Some(AboutX(c, PoppedPcs))'
        BY <1>2, <4>1 DEF Some, AboutX
      <4> QED BY <4>2 DEF Held
    <3>3. CASE ~(l # <<>> /\ c = g.x)
      <4>1. c \in ToSet(list[Parent[c]]) => Held(c)'
        BY <1>4, <1>5, <1>6, <1>11, <3>1, <3>3 DEF Held
      <4>2. h \in AboutX(c, PoppedPcs) => Held(c)'
        BY <1>3 DEF AboutX, TopLife, Held, Left
      <4>3. \A q \in Spots \ K : Fr(q) \in AboutX(c, PoppedPcs) => Held(c)'
        BY <1>1, <1>3, <4>2
      <4>4. \A q \in Spots \ K : Fr(q) \notin OnC(c, LatePcs)
        BY <1>1, <1>3 DEF OnC, LatePcs
      <4>5. \A q \in N : Fr(q)' \notin AboutX(c, RemovePcs)
        BY <1>1, <1>2, <1>6 DEF AboutX, RemovePcs
      <4> QED BY <1>2, <2>1, <4>1, <4>3, <4>4, <4>5, HeldMoves
    <3> QED BY <3>2, <3>3
  <2> QED BY <2>1 DEF LifeInv, ChildrenHeld, Born
<1> QED BY <1>14, <1>15, <1>16, <1>17, <1>18 DEF LifeInv, ClosesFromThreads

\* The loop of close calls a handler of the clients, or a child.
LEMMA CallLife ==
  ASSUME LifeInv, CloseInv, NEW t \in AllThreads, stack[t] # <<>>, NEW s, s = TopSpot(t),
         NEW r, NEW g \in FrameSet, NEW f, CallsUp(s, r, f, g), NEW h, h = Top(t),
         g.c = h.c, g.x = h.x, g.ref = h.ref, h.pc = "close.call", g.pc = "close.pop", ~f.ref,
         \/ h.x \in Contexts /\ f.pc = "child.anchor" /\ f.c = h.x /\ f.x = None
         \/ h.x \notin Contexts /\ f.pc = "handler" /\ f.c = h.c /\ f.x = h.x,
         fate'[h.x] = "called", \A x \in Nodes \ {h.x} : fate'[x] = fate[x],
         flags' = flags, list' = list, program' = program
  PROVE  LifeInv'
<1>1. PICK K, N : K = Spots \ {s} /\ N = {s, r}
  OBVIOUS
<1>2. /\ Given(K, N) /\ Fr(s)' = g /\ Fr(r)' = f /\ s \in Spots /\ Spots' = Spots \cup {r}
      /\ r \notin Spots /\ Under(r) = s /\ r[1] = s[1] /\ s[2] < r[2]
  BY <1>1 DEF CallsUp, Given
<1>3. /\ Fr(s) = h /\ h \in FrameSet /\ FrameLife(h) /\ FrameOK(t, h) /\ Lies(s) /\ s[1] = t
      /\ h.c \in Contexts
      /\ \A q \in Spots : Under(q) # s /\ (q[1] = t => q[2] <= s[2])
  BY TopLifeIs
<1>4. h.x \in Nodes /\ fate[h.x] = "added"
  BY <1>3 DEF FrameLife, PoppedPcs
<1>5. fate'[h.x] = "called" /\ \A x \in Nodes \ {h.x} : fate'[x] = fate[x]
  OBVIOUS
<1>6. \A d \in Contexts : h.x \notin ToSet(list[d])
  BY <1>3, <1>4 DEF FrameLife, FrameOK, HandlerFrameOK, PoppedPcs, Nodes
<1>7. /\ f.pc \in {"child.anchor", "handler"}
      /\ f.pc \notin AddCallPcs \cup RemovePcs \cup AddPcs \cup ChildPcs \cup PoppedPcs \cup ClosingPcs \cup CloserPcs
      /\ f.pc \notin {"unblock", "undo", "close.call", "close.pop", "child.release", "destroy", "child.add"}
  BY DEF AddCallPcs, RemovePcs, AddPcs, ChildPcs, PoppedPcs, ClosingPcs, CloserPcs
<1>8. ASSUME NEW e, FrameLife(e), e.pc \in PoppedPcs => e.x # h.x
      PROVE  FrameLife(e)'
  <2>1. e.x \in Contexts /\ e.pc \in AddPcs \cup ChildPcs =>
       /\ Parent[e.x] = e.c /\ fate'[e.x] # "new"
       /\ e.pc # "child.add" => fate'[e.x] = "adding"
    BY <1>4, <1>5, <1>8 DEF FrameLife, Nodes
  <2>2. e.x \in Contexts /\ e.pc = "unblock" => Born(e.x)'
    BY <1>5, <1>8 DEF FrameLife, Nodes, Born
  <2>3. e.x \in Nodes /\ e.pc \in PoppedPcs =>
       fate'[e.x] = IF e.pc = "close.call" THEN "added" ELSE "called"
    BY <1>5, <1>8 DEF FrameLife
  <2> QED BY <1>8, <2>1, <2>2, <2>3 DEF FrameLife
<1>9. Grammar'
  <2>1. Under(s) \in Spots => Under(s) \in K /\ Fr(Under(s))' = Fr(Under(s))
    BY <1>1, <1>2, <1>3 DEF Given
  <2>2. Under(s) # r
    <3>1. s[2] \in Nat /\ Under(s)[2] = s[2] - 1
      BY <1>2, SpotIs DEF Under, CloseInv, HandlersInv
    <3>2. ~(s[2] < s[2] - 1)
      BY <3>1
    <3> QED BY <1>2, <3>1, <3>2
  <2>3. \A b : Above(h, b) => Above(g, b)
    BY DEF Above, ClientPcs, AddCallPcs, RemovePcs, StartPcs, ChildPcs, ChildCallPcs, CloserPcs, ClosingPcs
  <2>4. Lowest(h) => Lowest(g)
    BY DEF Lowest, ClientPcs, AddCallPcs, RemovePcs, StartPcs, ChildPcs, CloserPcs, ClosingPcs
  <2>5. Lies(s)'
    BY <1>2, <1>3, <2>1, <2>2, <2>3, <2>4 DEF Lies
  <2>6. Above(f, g)
    BY <1>4 DEF Above, ChildCallPcs, Nodes
  <2>7. Lies(r)'
    BY <1>2, <2>6 DEF Lies
  <2>8. \A q \in N : Lies(q)'
    BY <1>1, <2>5, <2>7
  <2> QED BY <1>2, <2>8, GrammarGiven DEF LifeInv
<1>10. Descends'
  <2>0. ASSUME NEW u \in Spots', u # s, s[1] = u[1], u[2] < r[2], Fr(u)'.pc \in ClosingPcs
        PROVE  u \in Spots /\ Fr(u)' = Fr(u) /\ u[2] < s[2] /\ Depth[Fr(u).c] < Depth[h.c]
               /\ Depth[Fr(u).c] \in Nat
    <3>1. u # r /\ s[2] \in Nat /\ r[2] \in Nat
      <4>1. r \in Spots' /\ \A v \in Spots' : v[2] \in Nat
        BY <1>2 DEF Spots
      <4> QED BY <1>2, <2>0, <4>1
    <3>2. u \in Spots /\ Fr(u)' = Fr(u)
      BY <1>1, <1>2, <2>0, <3>1 DEF Given
    <3>3. u[2] <= s[2] /\ u[2] # s[2] /\ u[2] \in Nat
      <4>1. u = <<u[1], u[2]>> /\ s = <<s[1], s[2]>> /\ u[2] \in Nat
        BY <1>2, <3>2, SpotIs DEF CloseInv, HandlersInv
      <4> QED BY <1>3, <2>0, <3>2, <4>1
    <3>4. u[2] < s[2]
      BY <3>1, <3>3
    <3>5. Depth[Fr(u).c] < Depth[h.c]
      BY <1>2, <1>3, <2>0, <3>2, <3>4 DEF LifeInv, Descends, DescentPcs, CloserPcs, ClosingPcs
    <3>6. Depth[Fr(u).c] \in Nat
      BY <3>2, SpotFrame, DepthIs
    <3> QED BY <3>2, <3>4, <3>5, <3>6
  <2>1. LowerClosing(s)'
    <3>1. ASSUME NEW u \in Spots', s[1] = u[1], u[2] < s[2], Fr(u)'.pc \in ClosingPcs
          PROVE  Depth[Fr(u)'.c] < Depth[g.c]
      <4>1. u # s /\ u[2] < r[2]
        <5>1. s[2] \in Nat /\ r[2] \in Nat /\ u[2] \in Nat
          <6>1. r \in Spots' /\ s \in Spots' /\ \A v \in Spots' : v[2] \in Nat
            BY <1>2 DEF Spots
          <6> QED BY <3>1, <6>1
        <5> QED BY <1>2, <3>1, <5>1
      <4> QED BY <2>0, <3>1, <4>1
    <3> QED BY <1>2, <3>1 DEF LowerClosing
  <2>2. ASSUME f.pc \in DescentPcs PROVE LowerClosing(r)'
    <3>1. f.pc = "child.anchor" /\ f.c = h.x /\ h.x \in Contexts
      BY <1>7, <2>2 DEF DescentPcs, ChildCallPcs
    <3>2. Parent[h.x] = h.c
      BY <1>3, <3>1 DEF FrameLife, PoppedPcs
    <3>3. Depth[h.c] < Depth[h.x] /\ Depth[h.c] \in Nat /\ Depth[h.x] \in Nat
      BY <1>3, <3>1, <3>2, TreeAssumption, DepthIs
    <3>4. ASSUME NEW u \in Spots', r[1] = u[1], u[2] < r[2], Fr(u)'.pc \in ClosingPcs
          PROVE  Depth[Fr(u)'.c] < Depth[f.c]
      <4>1. CASE u = s
        BY <1>2, <3>1, <3>3, <4>1
      <4>2. CASE u # s
        <5>1. Fr(u)' = Fr(u) /\ Depth[Fr(u).c] < Depth[h.c] /\ Depth[Fr(u).c] \in Nat
          BY <1>2, <2>0, <3>4, <4>2
        <5> QED BY <3>1, <3>3, <5>1
      <4> QED BY <4>1, <4>2
    <3> QED BY <1>2, <3>4 DEF LowerClosing
  <2>3. \A q \in N : Fr(q)'.pc \in DescentPcs => LowerClosing(q)'
    BY <1>1, <1>2, <2>1, <2>2
  <2> QED BY <1>2, <2>3, DescendsGiven DEF LifeInv
<1>11. FramesLive'
  <2>1. FrameLife(f)'
    BY <1>7 DEF FrameLife
  <2>2. FrameLife(g)'
    <3>1. "Closed" \notin flags[g.c] /\ (g.x \in Contexts => Parent[g.x] = g.c)
      BY <1>3 DEF FrameLife, ClosingPcs, PoppedPcs
    <3> QED BY <1>5, <1>6, <3>1 DEF FrameLife, AddCallPcs, RemovePcs, AddPcs, ChildPcs, PoppedPcs
  <2>3. \A q \in N : FrameLife(Fr(q))'
    BY <1>1, <1>2, <2>1, <2>2 DEF FrameLife, Born
  <2>4. ASSUME NEW q \in K, FrameLife(Fr(q)) PROVE FrameLife(Fr(q))'
    <3>1. PICK e : e = Fr(q) /\ e = Fr(q)' /\ e \in FrameSet
      BY <1>1, <1>2, SpotFrame DEF Given
    <3>2. e.pc \in PoppedPcs => e.x # h.x
      <4>1. SUFFICES ASSUME e.pc \in PoppedPcs, e.x = h.x PROVE FALSE
        OBVIOUS
      <4>2. PICK F : F = AboutX(h.x, PoppedPcs) /\ AtMostOne(F)
        BY <1>4 DEF LifeInv, OnePopper
      <4>3. Fr(q) \in F /\ Fr(s) \in F
        BY <1>3, <3>1, <4>1, <4>2 DEF AboutX, PoppedPcs
      <4> QED BY <1>1, <1>2, <4>2, <4>3 DEF AtMostOne
    <3>3. FrameLife(e)'
      BY <1>8, <2>4, <3>1, <3>2
    <3> QED BY <3>1, <3>3 DEF FrameLife, Born
  <2> QED BY <1>2, <2>3, <2>4, FramesGiven DEF LifeInv
<1>12. TopsLive'
  <2>1. TopLife(f)'
    BY <1>7 DEF TopLife
  <2>2. \A q \in N : (\A u \in Spots' : Under(u) # q) => TopLife(Fr(q))'
    BY <1>1, <1>2, <2>1 DEF TopLife, Born
  <2>3. ASSUME NEW q \in K, TopLife(Fr(q)) PROVE TopLife(Fr(q))'
    <3>1. Fr(q)' = Fr(q) /\ (Fr(q).pc = "child.add" => Fr(q).x \in Nodes)
      BY <1>1, <1>2, SpotFrame DEF Given, FrameOK, ChildPcs, Nodes
    <3> QED BY <1>4, <1>5, <2>3, <3>1 DEF TopLife, Born
  <2>4. \A q \in K : (\A u \in Spots' : Under(u) # q) => ~\E u \in Spots : Under(u) = q
    BY <1>2
  <2> QED BY <1>2, <2>2, <2>3, <2>4, TopsGiven DEF LifeInv
<1>13. OneAdder'
  <2>1. ASSUME NEW x \in Contexts PROVE AtMostOne(Adders(x))'
    <3>1. PICK F : F = Adders(x) /\ AtMostOne(F)
      BY DEF LifeInv, OneAdder
    <3>2. g \notin F /\ f \notin F
      BY <1>7, <3>1 DEF Adders, ChildPcs
    <3>3. AtMostOne(F)'
      BY <1>1, <1>2, <3>1, <3>2, OneGiven
    <3> QED BY <3>1, <3>3 DEF Adders, AtMostOne
  <2> QED BY <2>1 DEF OneAdder
<1>14. OnePopper'
  <2>1. ASSUME NEW x \in Nodes PROVE AtMostOne(AboutX(x, PoppedPcs))'
    <3>1. PICK F : F = AboutX(x, PoppedPcs) /\ AtMostOne(F)
      BY DEF LifeInv, OnePopper
    <3>2. (g \in F => h \in F) /\ f \notin F
      BY <1>3, <1>7, <3>1 DEF AboutX, PoppedPcs
    <3>3. \A q \in N : Fr(q)' \in F => q = s /\ h \in F
      BY <1>1, <1>2, <3>2
    <3>4. AtMostOne(F)'
      BY <1>1, <1>2, <1>3, <3>1, <3>3, OneGiven
    <3> QED BY <3>1, <3>4 DEF AboutX, AtMostOne
  <2> QED BY <2>1 DEF OnePopper, Nodes
<1>15. ListLives'
  <2>1. \A d \in Contexts : \A n \in DOMAIN list[d] : list[d][n] \in Nodes /\ list[d][n] # h.x
    <3>1. \A d \in Contexts : list[d] \in Seq(Nodes)
      BY DEF CloseInv, HandlersInv, Shapes
    <3>2. \A d \in Contexts : \A n \in DOMAIN list[d] : list[d][n] # h.x
      BY <1>6 DEF ToSet
    <3> QED BY <3>1, <3>2
  <2> QED BY <1>5, <2>1 DEF LifeInv, ListLives
<1>16. ChildrenHeld'
  <2>1. ASSUME NEW c \in Contexts, fate'[c] \in {"added", "called"}, Parent[c] # None PROVE Held(c)'
    <3>1. Held(c)
      BY <1>4, <1>5, <2>1 DEF LifeInv, ChildrenHeld, Born, Nodes
    <3>2. c \in ToSet(list[Parent[c]]) => Held(c)'
      BY DEF Held
    <3>3. h \in AboutX(c, PoppedPcs) => Held(c)'
      <4>1. SUFFICES ASSUME h.x = c PROVE Held(c)'
        BY DEF AboutX
      <4>2. g \in AboutX(c, PoppedPcs)
        BY <4>1 DEF AboutX, PoppedPcs
      <4>3. Some(AboutX(c, PoppedPcs))'
        BY <1>2, <4>2 DEF Some, AboutX
      <4> QED BY <4>3 DEF Held
    <3>4. \A q \in Spots \ K : Fr(q) \in AboutX(c, PoppedPcs) => Held(c)'
      BY <1>1, <1>3, <3>3
    <3>5. \A q \in Spots \ K : Fr(q) \notin OnC(c, LatePcs)
      BY <1>1, <1>3 DEF OnC, LatePcs
    <3>6. \A q \in N : Fr(q)' \notin AboutX(c, RemovePcs)
      BY <1>1, <1>2, <1>7 DEF AboutX, RemovePcs
    <3> QED BY <1>2, <3>1, <3>2, <3>4, <3>5, <3>6, HeldMoves
  <2> QED BY <2>1 DEF ChildrenHeld, Born
<1> QED BY <1>9, <1>10, <1>11, <1>12, <1>13, <1>14, <1>15, <1>16 DEF LifeInv, ClosesFromThreads
=============================================================================
