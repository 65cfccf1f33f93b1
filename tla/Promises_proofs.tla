--------------------------- MODULE Promises_proofs ---------------------------
(***************************************************************************)
(* For every number of states and of promises: a state that waits for its  *)
(* result has exactly one that will bring it, one that has it has none,    *)
(* and a chain shares one flag.  For every number of objects, flags and    *)
(* threads: a flag lives exactly as long as somebody holds a reference.    *)
(* For every set of works and of origin threads: the works of a strand     *)
(* never overlap, and the strand implements SequenceExecutor.              *)
(***************************************************************************)
EXTENDS Promises, SharedFlag, StrandExecutor, FiniteSetTheorems, TLAPS

Results == {"pending", "value", "error", "broken", "cancelled", "future"}
Kinds == {"none", "then", "fail", "unwrap"}

TypeOK ==
  /\ made \in 0..MaxStates
  /\ result \in [States -> Results]
  /\ inside \in [States -> Used \cup {0}]
  /\ nested \subseteq States /\ fired \subseteq States /\ held \subseteq Used
  /\ callback \in [States -> [kind : Kinds, next : Used \cup {0}]]
  /\ promise \in [Slots -> [state : Used \cup {0}, satisfied : BOOLEAN, retrieved : BOOLEAN]]

\* The promise p, and the callback of c, have still to resolve a state; the value
\* of n is a future that the callback of n has still to follow.
Owes(p) == ~promise[p].satisfied
Calls(c) == c \notin fired /\ callback[c].next # 0
Gives(n) == n \notin fired /\ result[n] = "future"

\* What is not made, or empty, or without a callback, is so altogether.
Blank ==
  /\ \A p \in Slots : promise[p].state = 0 => promise[p].satisfied /\ promise[p].retrieved
  /\ \A s \in States \ Used : result[s] = "pending" /\ callback[s].next = 0
  /\ \A s \in States : s \in fired => callback[s].next # 0
  /\ \A s \in States : callback[s].kind = "none" <=> callback[s].next = 0

\* Nobody owes a state that has its result, nor do two owe the same one.
OwedOnce ==
  /\ \A p \in Slots : Owes(p) => result[promise[p].state] = "pending"
  /\ \A c \in States : Calls(c) => result[callback[c].next] = "pending"
  /\ \A p, o \in Slots : Owes(p) /\ Owes(o) /\ promise[p].state = promise[o].state => p = o
  /\ \A c, d \in States : Calls(c) /\ Calls(d) /\ callback[c].next = callback[d].next => c = d
  /\ \A p \in Slots, c \in States : Owes(p) /\ Calls(c) => promise[p].state # callback[c].next

\* Somebody owes each state that waits.
Owed ==
  \A s \in Used : result[s] = "pending" =>
    \/ \E p \in Slots : Owes(p) /\ promise[p].state = s
    \/ \E c \in States : Calls(c) /\ callback[c].next = s

\* The future of a state that has no callback is in one place: in the program, in
\* the promise that has not given it away, or in a value that is a future.
OneFuture ==
  /\ \A s \in held : callback[s].next = 0
  /\ \A p \in Slots : ~promise[p].retrieved =>
       promise[p].state \notin held /\ callback[promise[p].state].next = 0
  /\ \A n \in States : Gives(n) =>
       inside[n] \in Used \ held /\ callback[inside[n]].next = 0
  /\ \A p, o \in Slots :
       ~promise[p].retrieved /\ ~promise[o].retrieved /\ promise[p].state = promise[o].state => p = o
  /\ \A n, m \in States : Gives(n) /\ Gives(m) /\ inside[n] = inside[m] => n = m
  /\ \A n \in States, p \in Slots :
       Gives(n) /\ ~promise[p].retrieved => inside[n] # promise[p].state

\* OneResolver is not inductive: a callback hung on a state that has one already
\* would take the resolver from another state, which OneFuture excludes.
IInv == TypeOK /\ Blank /\ OwedOnce /\ Owed /\ OneFuture

\* The states that are made are states, which are no zeros.
LEMMA UsedAreStates ==
  ASSUME TypeOK PROVE Used \subseteq States /\ 0 \notin States /\ 0 \notin Used
BY MaxStatesAssumption DEF TypeOK, Used, States

LEMMA InitEstablishesIInv == Init => IInv
<1> SUFFICES ASSUME Init PROVE IInv
  OBVIOUS
<1> USE MaxStatesAssumption DEF Init, NoCallback, MovedFrom, States, Used
<1>1. TypeOK
  BY DEF TypeOK, Results, Kinds
<1>2. Blank
  BY DEF Blank
<1>3. OwedOnce
  BY DEF OwedOnce, Owes, Calls
<1>4. Owed
  BY DEF Owed
<1>5. OneFuture
  BY DEF OneFuture, Gives
<1> QED BY <1>1, <1>2, <1>3, <1>4, <1>5 DEF IInv

-----------------------------------------------------------------------------
\* The promises.
LEMMA MakePromiseKeeps == ASSUME IInv, NEW p \in Slots, MakePromise(p) PROVE IInv'
<1> USE MaxStatesAssumption DEF IInv, MakePromise, NewPromise, States, Used, First
<1>1. TypeOK'
  BY DEF TypeOK
<1>2. Blank'
  BY DEF TypeOK, Blank
<1>3. OwedOnce'
  BY DEF TypeOK, Blank, OwedOnce, Owes, Calls
<1>4. Owed'
  <2> SUFFICES ASSUME NEW s \in Used', result'[s] = "pending"
               PROVE  \/ \E o \in Slots : Owes(o)' /\ promise'[o].state = s
                      \/ \E c \in States : Calls(c)' /\ callback'[c].next = s
    BY DEF Owed
  <2>1. CASE s = First
    BY <2>1 DEF TypeOK, Owes
  <2>2. CASE s # First
    <3>1. s \in Used /\ result[s] = "pending"
      BY <2>2 DEF TypeOK
    <3>2. \A o \in Slots : promise[o].state = s => promise'[o] = promise[o]
      BY <2>2 DEF TypeOK
    <3>3. CASE \E o \in Slots : Owes(o) /\ promise[o].state = s
      BY <3>2, <3>3 DEF Owes
    <3>4. CASE \E c \in States : Calls(c) /\ callback[c].next = s
      BY <3>4 DEF Calls
    <3> QED BY <3>1, <3>3, <3>4 DEF Owed
  <2> QED BY <2>1, <2>2
<1>5. OneFuture'
  BY DEF TypeOK, Blank, OneFuture, Gives
<1> QED BY <1>1, <1>2, <1>3, <1>4, <1>5 DEF IInv

LEMMA GetFutureKeeps == ASSUME IInv, NEW p \in Slots, GetFuture(p) PROVE IInv'
<1> USE DEF IInv, GetFuture, States, Used
<1>1. TypeOK'
  <2>1. promise[p] \in [state : Used \cup {0}, satisfied : BOOLEAN, retrieved : BOOLEAN]
    BY DEF TypeOK
  <2>2. promise' \in [Slots -> [state : Used \cup {0}, satisfied : BOOLEAN, retrieved : BOOLEAN]]
    <3>1. PICK o : o = [promise[p] EXCEPT !.retrieved = TRUE]
      OBVIOUS
    <3>2. o \in [state : Used \cup {0}, satisfied : BOOLEAN, retrieved : BOOLEAN]
      BY <2>1, <3>1
    <3>3. promise' = [promise EXCEPT ![p] = o]
      BY <3>1
    <3> QED BY <3>2, <3>3 DEF TypeOK
  <2>3. held' \subseteq Used
    BY <2>1 DEF TypeOK, Blank
  <2> QED BY <2>2, <2>3 DEF TypeOK
<1>2. Blank'
  BY DEF TypeOK, Blank
<1>3. OwedOnce'
  BY DEF TypeOK, OwedOnce, Owes, Calls
<1>4. Owed'
  BY DEF TypeOK, Owed, Owes, Calls
<1>5. OneFuture'
  BY DEF TypeOK, Blank, OneFuture, Gives
<1> QED BY <1>1, <1>2, <1>3, <1>4, <1>5 DEF IInv

\* The promises of ps bring r to their states, and may be gone thereafter.
Bring(ps, r) ==
  /\ \A p \in ps : promise[p].state # 0 /\ ~promise[p].satisfied
  /\ \A s \in States : result'[s] =
       IF \E p \in ps : promise[p].state = s THEN r ELSE result[s]
  /\ result' \in [States -> Results]
  /\ promise' \in [Slots -> [state : Used \cup {0}, satisfied : BOOLEAN, retrieved : BOOLEAN]]
  /\ \A p \in ps : \/ promise'[p] = MovedFrom
                   \/ /\ promise'[p].state = promise[p].state /\ promise'[p].satisfied
                      /\ promise'[p].retrieved = promise[p].retrieved
  /\ \A p \in Slots \ ps : promise'[p] = promise[p]
  /\ UNCHANGED <<made, inside, callback, fired, held>> /\ nested' \subseteq States

LEMMA PromisesResolve ==
  ASSUME IInv, NEW ps \in SUBSET Slots, NEW r \in {"value", "error", "broken"}, Bring(ps, r)
  PROVE  IInv'
<1>0. Used' = Used /\ States' = States
  BY DEF Bring, Used, States
<1> USE <1>0, UsedAreStates DEF IInv, MovedFrom, Bring
<1>1. TypeOK'
  BY DEF TypeOK
<1>2. \A s \in States : result'[s] = "future" <=> result[s] = "future"
  BY DEF OwedOnce, Owes
<1>3. \A s \in States : result'[s] = "pending" => result[s] = "pending"
  OBVIOUS
<1>4. \A p \in Slots : Owes(p)' => p \notin ps /\ promise'[p] = promise[p] /\ Owes(p)
  BY DEF Owes
<1>5. Blank'
  BY <1>1 DEF TypeOK, Blank
<1>6. \A p \in Slots : Owes(p)' => result'[promise'[p].state] = "pending"
  <2> SUFFICES ASSUME NEW p \in Slots, Owes(p)' PROVE result'[promise'[p].state] = "pending"
    OBVIOUS
  <2>1. promise[p].state \in States /\ result[promise[p].state] = "pending"
    BY <1>4 DEF TypeOK, Blank, Owes, OwedOnce
  <2>2. ~\E o \in ps : promise[o].state = promise[p].state
    BY <1>4 DEF OwedOnce, Owes
  <2> QED BY <1>4, <2>1, <2>2
<1>7. \A c \in States : Calls(c)' => result'[callback[c].next] = "pending"
  <2> SUFFICES ASSUME NEW c \in States, Calls(c) PROVE result'[callback[c].next] = "pending"
    BY DEF Calls
  <2>1. callback[c].next \in States /\ result[callback[c].next] = "pending"
    BY DEF TypeOK, OwedOnce, Calls
  <2>2. ~\E o \in ps : promise[o].state = callback[c].next
    BY DEF OwedOnce, Owes
  <2> QED BY <2>1, <2>2
<1>8. OwedOnce'
  <2>1. \A p, o \in Slots : Owes(p)' /\ Owes(o)' /\ promise'[p].state = promise'[o].state => p = o
    BY <1>4 DEF OwedOnce
  <2>2. \A c, d \in States :
          Calls(c)' /\ Calls(d)' /\ callback'[c].next = callback'[d].next => c = d
    BY DEF OwedOnce, Calls
  <2>3. \A p \in Slots, c \in States : Owes(p)' /\ Calls(c)' => promise'[p].state # callback'[c].next
    BY <1>4 DEF OwedOnce, Calls
  <2> QED BY <1>6, <1>7, <2>1, <2>2, <2>3 DEF OwedOnce, Calls
<1>9. Owed'
  <2> SUFFICES ASSUME NEW s \in Used, result'[s] = "pending"
               PROVE  \/ \E o \in Slots : Owes(o)' /\ promise'[o].state = s
                      \/ \E c \in States : Calls(c)' /\ callback'[c].next = s
    BY DEF Owed
  <2>1. s \in States /\ result[s] = "pending" /\ ~\E p \in ps : promise[p].state = s
    BY DEF TypeOK
  <2>2. CASE \E o \in Slots : Owes(o) /\ promise[o].state = s
    BY <2>1, <2>2 DEF Owes
  <2>3. CASE \E c \in States : Calls(c) /\ callback[c].next = s
    BY <2>3 DEF Calls
  <2> QED BY <2>1, <2>2, <2>3 DEF Owed
<1>10. \A p \in Slots : ~promise'[p].retrieved =>
         ~promise[p].retrieved /\ promise'[p].state = promise[p].state
  OBVIOUS
<1>11. \A n \in States : Gives(n)' => Gives(n)
  BY <1>2 DEF Gives
<1>12. OneFuture'
  BY <1>10, <1>11 DEF OneFuture
<1> QED BY <1>1, <1>5, <1>8, <1>9, <1>12 DEF IInv

LEMMA SatisfyKeeps ==
  ASSUME IInv, NEW p \in Slots, NEW r \in {"value", "error"}, Satisfy(p, r) PROVE IInv'
<1>1. promise[p].state \in States
  BY UsedAreStates DEF IInv, TypeOK, Satisfy
<1>2. Bring({p}, r)
  BY <1>1 DEF IInv, TypeOK, Satisfy, Bring, Results
<1> QED BY <1>2, PromisesResolve

LEMMA ResolvePromisesKeeps ==
  ASSUME IInv, NEW ps \in SUBSET Slots, NEW r \in {"value", "error"}, ResolvePromises(ps, r)
  PROVE  IInv'
<1>1. Bring(ps, r)
  BY DEF IInv, TypeOK, ResolvePromises, Bring, MovedFrom, Results
<1> QED BY <1>1, PromisesResolve

LEMMA DestroyPromiseKeeps == ASSUME IInv, NEW p \in Slots, DestroyPromise(p) PROVE IInv'
<1>1. promise[p].state \in States
  BY UsedAreStates DEF IInv, TypeOK, DestroyPromise
<1>2. CASE ~promise[p].satisfied
  <2>1. Bring({p}, "broken")
    BY <1>1, <1>2 DEF IInv, TypeOK, DestroyPromise, Bring, MovedFrom, Results
  <2> QED BY <2>1, PromisesResolve
<1>3. CASE promise[p].satisfied
  <2> USE <1>3 DEF IInv, TypeOK, DestroyPromise, MovedFrom, Used
  <2>1. TypeOK' /\ Blank' /\ OneFuture'
    BY DEF Blank, OneFuture, Gives
  <2>2. OwedOnce'
    BY DEF OwedOnce, Owes, Calls
  <2>3. Owed'
    BY DEF Owed, Owes, Calls
  <2> QED BY <2>1, <2>2, <2>3
<1> QED BY <1>2, <1>3

LEMMA MovePromiseKeeps ==
  ASSUME IInv, NEW p \in Slots, NEW q \in Slots, MovePromise(p, q) PROVE IInv'
<1> USE DEF IInv, MovePromise, MovedFrom, States, Used
<1>1. TypeOK'
  BY DEF TypeOK
<1>2. Blank'
  BY DEF TypeOK, Blank
<1>3. OwedOnce'
  BY DEF TypeOK, OwedOnce, Owes, Calls
<1>4. Owed'
  BY DEF TypeOK, Owed, Owes, Calls
<1>5. OneFuture'
  BY DEF TypeOK, OneFuture, Gives
<1> QED BY <1>1, <1>2, <1>3, <1>4, <1>5 DEF IInv

-----------------------------------------------------------------------------
\* The futures.
LEMMA HangKeeps ==
  ASSUME IInv, NEW s \in States, NEW kind \in {"then", "fail"}, Hang(s, kind) PROVE IInv'
<1> USE MaxStatesAssumption DEF IInv, Hang, States, Used, First
<1>1. TypeOK'
  BY DEF TypeOK, Kinds
<1>2. Blank'
  BY DEF TypeOK, Blank
<1>3. OwedOnce'
  BY DEF TypeOK, Blank, OwedOnce, OneFuture, Owes, Calls
<1>4. Owed'
  BY DEF TypeOK, Blank, Owed, OneFuture, Owes, Calls
<1>5. OneFuture'
  BY DEF TypeOK, Blank, OneFuture, Gives
<1> QED BY <1>1, <1>2, <1>3, <1>4, <1>5 DEF IInv

LEMMA ThenUnwrapKeeps == ASSUME IInv, NEW s \in States, ThenUnwrap(s) PROVE IInv'
<1> DEFINE mid == First  last == First + 1
<1> USE MaxStatesAssumption DEF IInv, States, Used
<1>1. /\ s \in held /\ s \in Used /\ mid \in States \ Used /\ last \in States \ Used /\ mid # last
      /\ Used' = Used \cup {mid, last} /\ held' = (held \ {s}) \cup {last}
      /\ made' \in 0..MaxStates /\ s # mid /\ s # last
      /\ UNCHANGED <<result, inside, fired, promise>>
  BY DEF ThenUnwrap, TypeOK, First
<1>2. /\ callback' \in [States -> [kind : Kinds, next : Used' \cup {0}]]
      /\ callback'[s] = [kind |-> "then", next |-> mid]
      /\ callback'[mid] = [kind |-> "unwrap", next |-> last]
      /\ \A c \in States \ {s, mid} : callback'[c] = callback[c]
  <2>1. \A c \in States : callback'[c] =
          IF c = mid THEN [kind |-> "unwrap", next |-> last]
          ELSE IF c = s THEN [kind |-> "then", next |-> mid] ELSE callback[c]
    BY <1>1 DEF ThenUnwrap, TypeOK
  <2>2. callback' = [c \in States |-> callback'[c]]
    BY DEF ThenUnwrap, TypeOK
  <2>3. \A c \in States : callback'[c] \in [kind : Kinds, next : Used' \cup {0}]
    BY <1>1, <2>1 DEF TypeOK, Kinds
  <2> QED BY <1>1, <2>1, <2>2, <2>3
<1>3. nested' \subseteq States
  BY <1>1 DEF ThenUnwrap, TypeOK
<1>4. /\ callback[s].next = 0 /\ s \notin fired
      /\ \A m \in States \ Used : /\ result[m] = "pending" /\ callback[m].next = 0
                                  /\ m \notin fired
  BY <1>1 DEF Blank, OneFuture
<1> HIDE DEF mid, last, States, Used
<1>5. TypeOK'
  BY <1>1, <1>2, <1>3 DEF TypeOK
<1>6. Blank'
  <2>1. \A m \in States \ Used' : result'[m] = "pending" /\ callback'[m].next = 0
    BY <1>1, <1>2, <1>4
  <2>2. mid # 0 /\ last # 0
    BY <1>1 DEF States
  <2>3. \A c \in States : c \in fired' => callback'[c].next # 0
    BY <1>1, <1>2, <1>4 DEF Blank
  <2>4. \A c \in States : callback'[c].kind = "none" <=> callback'[c].next = 0
    BY <1>2, <2>2 DEF Blank
  <2> QED BY <1>1, <2>1, <2>3, <2>4 DEF Blank, States
<1>7. \A c \in States : Calls(c)' => \/ c = s /\ callback'[c].next = mid
                                     \/ c = mid /\ callback'[c].next = last
                                     \/ Calls(c) /\ callback'[c].next = callback[c].next
  BY <1>1, <1>2 DEF Calls
<1>8. /\ \A p \in Slots : Owes(p) => promise[p].state \in Used
      /\ \A c \in States : Calls(c) => callback[c].next \in Used
  BY DEF TypeOK, Blank, Owes, Calls
<1>9. OwedOnce'
  <2>1. \A p \in Slots : Owes(p)' => result'[promise'[p].state] = "pending"
    BY <1>1 DEF OwedOnce, Owes
  <2>2. \A c \in States : Calls(c)' => result'[callback'[c].next] = "pending"
    BY <1>1, <1>4, <1>7 DEF OwedOnce
  <2>3. \A c, d \in States :
          Calls(c)' /\ Calls(d)' /\ callback'[c].next = callback'[d].next => c = d
    BY <1>1, <1>7, <1>8 DEF OwedOnce
  <2>4. \A p \in Slots, c \in States : Owes(p)' /\ Calls(c)' => promise'[p].state # callback'[c].next
    BY <1>1, <1>7, <1>8 DEF OwedOnce, Owes
  <2> QED BY <1>1, <2>1, <2>2, <2>3, <2>4 DEF OwedOnce, Owes
<1>10. Owed'
  <2> SUFFICES ASSUME NEW m \in Used', result[m] = "pending"
               PROVE  \/ \E o \in Slots : Owes(o)' /\ promise'[o].state = m
                      \/ \E c \in States : Calls(c)' /\ callback'[c].next = m
    BY <1>1 DEF Owed
  <2>0. mid # 0 /\ last # 0
    BY <1>1 DEF States
  <2>1. CASE m = mid
    BY <1>1, <1>2, <1>4, <2>0, <2>1 DEF Calls
  <2>2. CASE m = last
    BY <1>1, <1>2, <1>4, <2>0, <2>2 DEF Calls
  <2>3. CASE m \in Used /\ \E o \in Slots : Owes(o) /\ promise[o].state = m
    BY <1>1, <2>3 DEF Owes
  <2>4. CASE m \in Used /\ \E c \in States : Calls(c) /\ callback[c].next = m
    BY <1>1, <1>2, <1>4, <2>4 DEF Calls
  <2> QED BY <1>1, <2>1, <2>2, <2>3, <2>4 DEF Owed
<1>11. /\ \A n \in States : Gives(n)' => Gives(n) /\ inside[n] \in Used \ {s}
       /\ \A p \in Slots : ~promise[p].retrieved => promise[p].state \in Used \ {s}
       /\ held \subseteq Used
  BY <1>1 DEF TypeOK, Blank, OneFuture, Gives
<1>12. \A m \in Used \ {s} : callback'[m] = callback[m]
  BY <1>1, <1>2 DEF States, TypeOK, Used
<1>13. OneFuture'
  <2>1. callback'[last].next = 0
    BY <1>1, <1>2, <1>4
  <2> QED BY <1>1, <1>4, <1>11, <1>12, <2>1 DEF OneFuture
<1> QED BY <1>5, <1>6, <1>9, <1>10, <1>13

LEMMA CancelKeeps == ASSUME IInv, NEW s \in States, Cancel(s) PROVE IInv'
BY DEF IInv, Cancel, TypeOK, Blank, OwedOnce, Owed, OneFuture, Owes, Calls, Gives, Used

-----------------------------------------------------------------------------
\* The callbacks.
\* A callback runs and brings the next state a result, but for a future.
LEMMA CallbackResolves ==
  ASSUME IInv, NEW s \in States, callback[s].kind # "none", s \notin fired,
         NEW r \in Results \ {"pending", "future"}, Resolve(s, r), fired' = fired \cup {s},
         UNCHANGED <<made, inside, nested, callback, promise, held>>
  PROVE  IInv'
<1> DEFINE n == callback[s].next
<1> USE UsedAreStates DEF IInv
<1>0. Used' = Used /\ States' = States
  BY DEF Used, States
<1> USE <1>0
<1>1. n \in Used /\ n \in States /\ Calls(s) /\ result[n] = "pending"
  BY DEF TypeOK, Blank, OwedOnce, Calls
<1>2. /\ result' \in [States -> Results] /\ result'[n] = r
      /\ \A m \in States \ {n} : result'[m] = result[m]
  BY <1>1 DEF TypeOK, Resolve
<1> HIDE DEF n
<1>3. TypeOK'
  BY <1>2 DEF TypeOK
<1>4. Blank'
  BY <1>1, <1>2 DEF TypeOK, Blank, n
<1>5. \A c \in States : Calls(c)' => Calls(c) /\ c # s
  BY DEF Calls
<1>6. \A c \in States : Calls(c)' => callback[c].next # n
  BY <1>1, <1>5 DEF OwedOnce, n
<1>7. OwedOnce'
  <2>1. \A p \in Slots : Owes(p)' => result'[promise'[p].state] = "pending"
    BY <1>1, <1>2 DEF TypeOK, Blank, OwedOnce, Owes, n
  <2>2. \A c \in States : Calls(c)' => result'[callback'[c].next] = "pending"
    BY <1>2, <1>5, <1>6 DEF TypeOK, OwedOnce, Calls
  <2> QED BY <1>5, <2>1, <2>2 DEF OwedOnce, Owes
<1>8. Owed'
  <2> SUFFICES ASSUME NEW m \in Used, result'[m] = "pending"
               PROVE  \/ \E o \in Slots : Owes(o)' /\ promise'[o].state = m
                      \/ \E c \in States : Calls(c)' /\ callback'[c].next = m
    BY DEF Owed
  <2>1. m # n /\ result[m] = "pending"
    BY <1>2 DEF TypeOK
  <2>2. CASE \E o \in Slots : Owes(o) /\ promise[o].state = m
    BY <2>2 DEF Owes
  <2>3. CASE \E c \in States : Calls(c) /\ callback[c].next = m
    BY <2>1, <2>3 DEF Calls, n
  <2> QED BY <2>1, <2>2, <2>3 DEF Owed
<1>9. \A m \in States : Gives(m)' => Gives(m)
  BY <1>2 DEF Gives
<1>10. OneFuture'
  BY <1>9 DEF OneFuture
<1> QED BY <1>3, <1>4, <1>7, <1>8, <1>10

\* A callback runs and the value of the next state is a future of the program.
LEMMA CallbackGives ==
  ASSUME IInv, NEW s \in States, callback[s].kind # "none", s \notin fired, NEW i \in held,
         Resolve(s, "future"), inside' = [inside EXCEPT ![callback[s].next] = i],
         fired' = fired \cup {s}, held' = held \ {i},
         UNCHANGED <<made, nested, callback, promise>>
  PROVE  IInv'
<1> DEFINE n == callback[s].next
<1> USE UsedAreStates DEF IInv
<1>0. Used' = Used /\ States' = States
  BY DEF Used, States
<1> USE <1>0
<1>1. n \in Used /\ n \in States /\ Calls(s) /\ result[n] = "pending"
  BY DEF TypeOK, Blank, OwedOnce, Calls
<1>2. /\ result' \in [States -> Results] /\ result'[n] = "future"
      /\ \A m \in States \ {n} : result'[m] = result[m]
  BY <1>1 DEF TypeOK, Resolve, Results
<1>3. /\ inside' \in [States -> Used \cup {0}] /\ inside'[n] = i
      /\ \A m \in States \ {n} : inside'[m] = inside[m]
  BY <1>1 DEF TypeOK
<1> HIDE DEF n
<1>4. TypeOK'
  BY <1>2, <1>3 DEF TypeOK
<1>5. Blank'
  BY <1>1, <1>2 DEF TypeOK, Blank, n
<1>6. \A c \in States : Calls(c)' => Calls(c) /\ c # s
  BY DEF Calls
<1>7. \A c \in States : Calls(c)' => callback[c].next # n
  BY <1>1, <1>6 DEF OwedOnce, n
<1>8. OwedOnce'
  <2>1. \A p \in Slots : Owes(p)' => result'[promise'[p].state] = "pending"
    BY <1>1, <1>2 DEF TypeOK, Blank, OwedOnce, Owes, n
  <2>2. \A c \in States : Calls(c)' => result'[callback'[c].next] = "pending"
    BY <1>2, <1>6, <1>7 DEF TypeOK, OwedOnce, Calls
  <2> QED BY <1>6, <2>1, <2>2 DEF OwedOnce, Owes
<1>9. Owed'
  <2> SUFFICES ASSUME NEW m \in Used, result'[m] = "pending"
               PROVE  \/ \E o \in Slots : Owes(o)' /\ promise'[o].state = m
                      \/ \E c \in States : Calls(c)' /\ callback'[c].next = m
    BY DEF Owed
  <2>1. m # n /\ result[m] = "pending"
    BY <1>2 DEF TypeOK
  <2>2. CASE \E o \in Slots : Owes(o) /\ promise[o].state = m
    BY <2>2 DEF Owes
  <2>3. CASE \E c \in States : Calls(c) /\ callback[c].next = m
    BY <2>1, <2>3 DEF Calls, n
  <2> QED BY <2>1, <2>2, <2>3 DEF Owed
<1>10. \A m \in States : Gives(m)' => m = n \/ (m # n /\ Gives(m) /\ inside'[m] = inside[m])
  BY <1>2, <1>3 DEF Gives
<1>11. /\ i \in Used /\ callback[i].next = 0
       /\ \A m \in States : Gives(m) => inside[m] # i
       /\ \A p \in Slots : ~promise[p].retrieved => promise[p].state # i
  BY DEF TypeOK, OneFuture
<1>12. OneFuture'
  BY <1>3, <1>10, <1>11 DEF OneFuture
<1> QED BY <1>4, <1>5, <1>8, <1>9, <1>12

LEMMA FireThenKeeps == ASSUME IInv, NEW s \in States, FireThen(s) PROVE IInv'
<1> USE DEF FireThen, Fires, Failures, Results
<1>1. CASE \E r \in Results \ {"pending", "future"} : Resolve(s, r) /\ UNCHANGED <<inside, held>>
  BY <1>1, CallbackResolves
<1>2. CASE \E i \in held : /\ Resolve(s, "future")
                           /\ inside' = [inside EXCEPT ![callback[s].next] = i]
                           /\ held' = held \ {i}
  BY <1>2, CallbackGives
<1> QED BY <1>1, <1>2

LEMMA FireFailKeeps == ASSUME IInv, NEW s \in States, FireFail(s) PROVE IInv'
BY CallbackResolves DEF FireFail, Fires, Failures, Results

LEMMA FireUnwrapKeeps == ASSUME IInv, NEW s \in States, FireUnwrap(s) PROVE IInv'
<1>1. CASE result[s] # "future"
  <2>1. result[s] \in Results \ {"pending", "future"}
    BY <1>1 DEF FireUnwrap, Fires, IInv, TypeOK
  <2> QED BY <1>1, <2>1, CallbackResolves DEF FireUnwrap, Fires
<1>2. CASE result[s] = "future"
  <2> DEFINE i == inside[s]  last == callback[s].next
  <2> USE UsedAreStates DEF IInv
  <2>0. Used' = Used /\ States' = States
    BY DEF FireUnwrap, Used, States
  <2> USE <2>0
  <2>1. /\ last \in Used /\ Calls(s) /\ Gives(s) /\ fired' = fired \cup {s}
        /\ UNCHANGED <<made, result, inside, nested, promise, held>>
    BY <1>2 DEF FireUnwrap, Fires, TypeOK, Blank, Calls, Gives
  <2>2. i \in Used \ held /\ i \in States /\ callback[i].next = 0 /\ i # s /\ i \notin fired
    BY <2>1 DEF OneFuture, TypeOK, Blank, Calls
  <2>3. /\ callback' \in [States -> [kind : Kinds, next : Used \cup {0}]]
        /\ callback'[i].kind = "unwrap" /\ callback'[i].next = last
        /\ \A c \in States \ {i} : callback'[c] = callback[c]
    BY <1>2, <2>1, <2>2 DEF FireUnwrap, TypeOK, Kinds
  <2> HIDE DEF i, last
  <2>4. TypeOK'
    BY <2>1, <2>3 DEF TypeOK
  <2>5. Blank'
    <3>1. \A c \in States : c \in fired' => callback'[c].next # 0
      BY <2>1, <2>3 DEF Blank, Calls
    <3>2. \A c \in States : callback'[c].kind = "none" <=> callback'[c].next = 0
      BY <2>1, <2>3 DEF Blank
    <3> QED BY <2>1, <2>2, <2>3, <3>1, <3>2 DEF Blank
  <2>6. \A c \in States : Calls(c)' => \/ c = i
                                       \/ c # i /\ c # s /\ Calls(c) /\ callback'[c] = callback[c]
    BY <2>1, <2>3 DEF Calls
  <2>7. OwedOnce'
    BY <2>1, <2>2, <2>3, <2>6 DEF OwedOnce, Owes, last
  <2>8. Owed'
    <3> SUFFICES ASSUME NEW m \in Used, result[m] = "pending"
                 PROVE  \/ \E o \in Slots : Owes(o)' /\ promise'[o].state = m
                        \/ \E c \in States : Calls(c)' /\ callback'[c].next = m
      BY <2>1 DEF Owed
    <3>1. CASE \E o \in Slots : Owes(o) /\ promise[o].state = m
      BY <2>1, <3>1 DEF Owes
    <3>2. CASE \E c \in States : Calls(c) /\ callback[c].next = m
      <4> PICK c \in States : Calls(c) /\ callback[c].next = m
        BY <3>2
      <4>1. CASE c = s
        BY <2>1, <2>2, <2>3, <4>1 DEF Calls, last
      <4>2. CASE c # s
        <5>1. c # i
          BY <2>2 DEF Calls
        <5> QED BY <2>1, <2>3, <4>2, <5>1 DEF Calls
      <4> QED BY <4>1, <4>2
    <3> QED BY <3>1, <3>2 DEF Owed
  <2>9. \A m \in States : Gives(m)' => Gives(m) /\ m # s /\ inside[m] # i
    BY <2>1 DEF OneFuture, Gives, i
  <2>10. \A p \in Slots : ~promise[p].retrieved => promise[p].state \in States \ {i}
    BY <2>1 DEF TypeOK, Blank, OneFuture, i
  <2>11. OneFuture'
    <3>1. /\ \A m \in held : callback'[m].next = 0
          /\ \A p \in Slots : ~promise[p].retrieved => callback'[promise[p].state].next = 0
          /\ \A m \in States : Gives(m)' => callback'[inside[m]].next = 0
      BY <2>2, <2>3, <2>9, <2>10 DEF OneFuture, TypeOK
    <3> QED BY <2>1, <2>9, <3>1 DEF OneFuture
  <2> QED BY <2>4, <2>5, <2>7, <2>8, <2>11
<1> QED BY <1>1, <1>2

-----------------------------------------------------------------------------
LEMMA NextPreservesIInv == ASSUME IInv, [Next]_vars PROVE IInv'
<1>1. ASSUME NEW p \in Slots, MakePromise(p) PROVE IInv'
  BY <1>1, MakePromiseKeeps
<1>2. ASSUME NEW p \in Slots, GetFuture(p) PROVE IInv'
  BY <1>2, GetFutureKeeps
<1>3. ASSUME NEW p \in Slots, DestroyPromise(p) PROVE IInv'
  BY <1>3, DestroyPromiseKeeps
<1>4. ASSUME NEW p \in Slots, NEW r \in {"value", "error"}, Satisfy(p, r) PROVE IInv'
  BY <1>4, SatisfyKeeps
<1>5. ASSUME NEW p \in Slots, NEW q \in Slots, MovePromise(p, q) PROVE IInv'
  BY <1>5, MovePromiseKeeps
<1>6. ASSUME NEW ps \in SUBSET Slots, NEW r \in {"value", "error"}, ResolvePromises(ps, r)
      PROVE  IInv'
  BY <1>6, ResolvePromisesKeeps
<1>7. ASSUME NEW s \in States, NEW kind \in {"then", "fail"}, Hang(s, kind) PROVE IInv'
  BY <1>7, HangKeeps
<1>8. ASSUME NEW s \in States, ThenUnwrap(s) \/ Cancel(s) PROVE IInv'
  BY <1>8, ThenUnwrapKeeps, CancelKeeps
<1>9. ASSUME NEW s \in States, FireThen(s) \/ FireFail(s) \/ FireUnwrap(s) PROVE IInv'
  BY <1>9, FireThenKeeps, FireFailKeeps, FireUnwrapKeeps
<1>10. CASE UNCHANGED vars
  BY <1>10 DEF vars, IInv, TypeOK, Blank, OwedOnce, Owed, OneFuture, Owes, Calls, Gives, Used
<1> QED BY <1>1, <1>2, <1>3, <1>4, <1>5, <1>6, <1>7, <1>8, <1>9, <1>10 DEF Next

\* Who owes a state is what resolves it.
LEMMA OneOwes == ASSUME IInv PROVE OneResolver
<1> USE DEF IInv, Resolvers
<1> SUFFICES ASSUME NEW s \in Used
             PROVE  IF result[s] = "pending" THEN \E r \in Resolvers(s) : Resolvers(s) = {r}
                    ELSE Resolvers(s) = {}
  BY DEF OneResolver
<1>0. s # 0
  BY DEF Used
<1>1. CASE result[s] # "pending"
  BY <1>0, <1>1 DEF OwedOnce, Owes, Calls
<1>2. CASE result[s] = "pending" /\ \E p \in Slots : Owes(p) /\ promise[p].state = s
  <2> PICK p \in Slots : Owes(p) /\ promise[p].state = s
    BY <1>2
  <2>1. \A o \in Slots : Owes(o) /\ promise[o].state = s => o = p
    BY DEF OwedOnce
  <2>2. \A c \in States : ~(c \notin fired /\ callback[c].next = s)
    BY <1>0 DEF OwedOnce, Calls
  <2>3. Resolvers(s) = {<<"promise", p>>}
    BY <2>1, <2>2 DEF Owes
  <2> QED BY <1>2, <2>3
<1>3. CASE result[s] = "pending" /\ \E c \in States : Calls(c) /\ callback[c].next = s
  <2> PICK c \in States : Calls(c) /\ callback[c].next = s
    BY <1>3
  <2>1. \A d \in States : d \notin fired /\ callback[d].next = s => d = c
    BY <1>0 DEF OwedOnce, Calls
  <2>2. \A p \in Slots : ~(Owes(p) /\ promise[p].state = s)
    BY DEF OwedOnce
  <2>3. Resolvers(s) = {<<"callback", c>>}
    BY <2>1, <2>2 DEF Owes, Calls
  <2> QED BY <1>3, <2>3
<1> QED BY <1>1, <1>2, <1>3 DEF Owed

\* However promises are made, moved, satisfied, dropped and chained, and futures
\* unwrapped: a state that waits for its result has one that will bring it
\* (Promise::setValue, the callbacks of future-state.h), and no other has any.
THEOREM EveryStateHasOneResolver == Spec => []OneResolver
<1>1. IInv /\ [Next]_vars => IInv'
  BY NextPreservesIInv
<1>2. IInv => OneResolver
  BY OneOwes
<1> QED BY <1>1, <1>2, InitEstablishesIInv, PTL DEF Spec

-----------------------------------------------------------------------------
\* A nested state is unwrapped from the start, and so its future is never the value
\* of another one.
Flagged ==
  /\ token \in [States -> States]
  /\ \A n \in nested : callback[n].kind = "unwrap"

\* CancelReaches, of all states: one that is not made has no callback.
Shares(s) ==
  callback[s].kind # "none" /\ s \notin fired /\ ~Given(callback[s].next) =>
    token[s] = token[callback[s].next]
CancelInv == Flagged /\ \A s \in States : Shares(s)

LEMMA InitFlags == Init => CancelInv
BY DEF Init, CancelInv, Flagged, Shares, NoCallback

\* Nothing that a chain is made of changes but that callbacks are used up.
LEMMA ChainsStay ==
  ASSUME CancelInv, UNCHANGED <<nested, callback, token>>, fired \subseteq fired'
  PROVE  CancelInv'
BY DEF CancelInv, Flagged, Shares, Given

LEMMA HangShares ==
  ASSUME IInv, CancelInv, NEW s \in States, NEW kind \in {"then", "fail"}, Hang(s, kind)
  PROVE  CancelInv'
<1>1. /\ s \in Used /\ callback[s].next = 0 /\ callback[s].kind = "none" /\ s # First
      /\ First \in States /\ First \notin Used /\ callback[First].kind = "none"
  BY UsedAreStates, MaxStatesAssumption
     DEF Hang, IInv, TypeOK, OneFuture, Blank, First, Used, States
<1>2. /\ callback'[s].kind = kind /\ callback'[s].next = First
      /\ \A t \in States \ {s} : callback'[t] = callback[t]
      /\ token'[First] = token[s] /\ \A t \in States \ {First} : token'[t] = token[t]
      /\ token' \in [States -> States] /\ UNCHANGED <<nested, fired>>
  BY <1>1 DEF Hang, IInv, TypeOK, CancelInv, Flagged
<1>3. Flagged'
  <2> SUFFICES ASSUME NEW n \in nested' PROVE callback'[n].kind = "unwrap"
    BY <1>2 DEF Flagged, States
  <2>1. nested \subseteq States
    BY DEF IInv, TypeOK
  <2> QED BY <1>1, <1>2, <2>1 DEF CancelInv, Flagged
<1>4. ASSUME NEW t \in States PROVE Shares(t)'
  <2>1. CASE t = s
    BY <1>1, <1>2, <2>1 DEF Shares
  <2>2. CASE t # s /\ callback[t].kind = "none"
    BY <1>2, <2>2 DEF Shares
  <2>3. CASE t # s /\ callback[t].kind # "none"
    <3>1. callback[t].next \in Used /\ t # First
      BY <1>1, <2>3 DEF IInv, TypeOK, Blank
    <3>2. callback[t].next \in States /\ callback[t].next # First
      BY <1>1, <3>1, UsedAreStates DEF IInv
    <3>3. Given(callback[t].next) => Given(callback[t].next)'
      BY <1>1, <1>2, <2>3, <3>2 DEF Given
    <3>4. Shares(t)
      BY DEF CancelInv
    <3> QED BY <1>2, <2>3, <3>1, <3>2, <3>3, <3>4 DEF Shares
  <2> QED BY <2>1, <2>2, <2>3
<1> QED BY <1>3, <1>4 DEF CancelInv, States

LEMMA ThenUnwrapShares ==
  ASSUME IInv, CancelInv, NEW s \in States, ThenUnwrap(s) PROVE CancelInv'
<1> DEFINE last == First + 1
<1>1. /\ s \in Used /\ callback[s].next = 0 /\ callback[s].kind = "none" /\ s # First /\ s # last
      /\ First \in States /\ First \notin Used /\ callback[First].kind = "none"
      /\ last \in States /\ last \notin Used /\ First # last /\ First \notin nested
  BY UsedAreStates, MaxStatesAssumption
     DEF ThenUnwrap, IInv, TypeOK, OneFuture, Blank, First, Used, States, CancelInv, Flagged
<1>2. /\ callback'[s].kind = "then" /\ callback'[s].next = First
      /\ callback'[First].kind = "unwrap" /\ callback'[First].next = last
      /\ \A t \in States \ {s, First} : callback'[t] = callback[t]
      /\ token'[First] = token[s] /\ token'[last] = token[s]
      /\ \A t \in States \ {First, last} : token'[t] = token[t]
      /\ token' \in [States -> States] /\ nested' = nested \cup {First} /\ fired' = fired
  BY <1>1 DEF ThenUnwrap, IInv, TypeOK, CancelInv, Flagged
<1> HIDE DEF last
<1>3. Flagged'
  <2> SUFFICES ASSUME NEW n \in nested' PROVE callback'[n].kind = "unwrap"
    BY <1>2 DEF Flagged, States
  <2>1. nested \subseteq States
    BY DEF IInv, TypeOK
  <2> QED BY <1>1, <1>2, <2>1 DEF CancelInv, Flagged
<1>4. ASSUME NEW t \in States PROVE Shares(t)'
  <2>1. CASE t = s
    BY <1>1, <1>2, <2>1 DEF Shares, Given
  <2>2. CASE t = First
    BY <1>1, <1>2, <2>2 DEF Shares
  <2>3. CASE t \notin {s, First} /\ callback[t].kind = "none"
    BY <1>2, <2>3 DEF Shares
  <2>4. CASE t \notin {s, First} /\ callback[t].kind # "none"
    <3>1. callback[t].next \in Used /\ t # last
      BY <1>1, <2>4 DEF IInv, TypeOK, Blank
    <3>2. callback[t].next \in States /\ callback[t].next # First /\ callback[t].next # last
      BY <1>1, <3>1, UsedAreStates DEF IInv
    <3>3. Given(callback[t].next) => Given(callback[t].next)'
      BY <1>1, <1>2, <2>4, <3>2 DEF Given
    <3>4. Shares(t)
      BY DEF CancelInv
    <3> QED BY <1>2, <2>4, <3>1, <3>2, <3>3, <3>4 DEF Shares
  <2> QED BY <2>1, <2>2, <2>3, <2>4
<1> QED BY <1>3, <1>4 DEF CancelInv, States

\* The future inside gets the flag of the last state, and what is in front of it
\* is where the cancellation ends.
LEMMA FollowShares ==
  ASSUME IInv, CancelInv, NEW s \in States, FireUnwrap(s), result[s] = "future"
  PROVE  CancelInv'
<1> DEFINE last == callback[s].next
           i == inside[s]
<1>1. Gives(s) /\ last \in Used /\ i \in Used /\ callback[i].next = 0 /\ callback[i].kind = "none"
  BY UsedAreStates DEF FireUnwrap, Fires, Gives, IInv, TypeOK, OneFuture, Blank
<1>2. i \in States /\ last \in States /\ i # 0
  BY <1>1, UsedAreStates DEF IInv
<1>3. i \notin nested
  BY <1>1 DEF CancelInv, Flagged
<1>4. /\ callback'[i].kind = "unwrap" /\ callback'[i].next = last
      /\ \A t \in States \ {i} : callback'[t] = callback[t]
      /\ token'[i] = token[last] /\ \A t \in States \ {i} : token'[t] = token[t]
      /\ token' \in [States -> States] /\ nested' = nested /\ fired' = fired \cup {s}
  <2>1. DOMAIN callback = States /\ token \in [States -> States]
    BY DEF IInv, TypeOK, CancelInv, Flagged
  <2>2. /\ callback' = [callback EXCEPT ![i] = [kind |-> "unwrap", next |-> last]]
        /\ token' = [token EXCEPT ![i] = token[last]]
        /\ nested' = nested /\ fired' = fired \cup {s}
    BY DEF FireUnwrap, Fires
  <2> HIDE DEF last, i
  <2> QED BY <1>2, <2>1, <2>2
<1> HIDE DEF last, i
<1>5. Flagged'
  BY <1>3, <1>4 DEF CancelInv, Flagged, IInv, TypeOK, States
<1>6. ASSUME NEW t \in States PROVE Shares(t)'
  <2>1. CASE t = i
    <3>1. last # i => token'[last] = token[last]
      BY <1>2, <1>4
    <3> QED BY <1>4, <2>1, <3>1 DEF Shares
  <2>2. CASE t # i /\ callback[t].kind = "none"
    BY <1>4, <2>2 DEF Shares
  <2>3. CASE t # i /\ callback[t].kind # "none"
    <3>1. callback[t].next \in States
      BY <2>3, UsedAreStates DEF IInv, TypeOK, Blank
    <3>2. CASE callback[t].next = i
      BY <1>3, <1>4, <2>3, <3>2 DEF Shares, Given
    <3>3. CASE callback[t].next # i
      <4>1. Given(callback[t].next) => Given(callback[t].next)'
        BY <1>4, <2>3, <3>1, <3>3 DEF Given
      <4>2. Shares(t)
        BY DEF CancelInv
      <4> QED BY <1>4, <2>3, <3>1, <3>3, <4>1, <4>2 DEF Shares
    <3> QED BY <3>2, <3>3
  <2> QED BY <2>1, <2>2, <2>3
<1> QED BY <1>5, <1>6 DEF CancelInv, States

LEMMA NextKeepsFlags == ASSUME IInv, CancelInv, [Next]_vars PROVE CancelInv'
<1>1. ASSUME NEW s \in States, NEW kind \in {"then", "fail"}, Hang(s, kind) PROVE CancelInv'
  BY <1>1, HangShares
<1>2. ASSUME NEW s \in States, ThenUnwrap(s) PROVE CancelInv'
  BY <1>2, ThenUnwrapShares
<1>3. ASSUME NEW s \in States, FireUnwrap(s) PROVE CancelInv'
  <2>1. CASE result[s] = "future"
    BY <1>3, <2>1, FollowShares
  <2>2. CASE result[s] # "future"
    BY <1>3, <2>2, ChainsStay DEF FireUnwrap, Fires
  <2> QED BY <2>1, <2>2
<1>4. ASSUME UNCHANGED <<nested, callback, token>>, fired \subseteq fired' PROVE CancelInv'
  BY <1>4, ChainsStay
<1>5. \/ \E s \in States : Hang(s, "then") \/ Hang(s, "fail") \/ ThenUnwrap(s) \/ FireUnwrap(s)
      \/ UNCHANGED <<nested, callback, token>> /\ fired \subseteq fired'
  BY DEF Next, vars, MakePromise, GetFuture, DestroyPromise, Satisfy, MovePromise, ResolvePromises,
         Cancel, FireThen, FireFail, Fires
<1> QED BY <1>1, <1>2, <1>3, <1>4, <1>5

\* Along a chain, over unwrapped futures too, all share one flag, so that cancelling
\* its last future reaches the promise it hangs on; but for what is in front of a
\* future that a function gave (Future::cancel, UnwrapperFutureCallback).
THEOREM CancelReachesTheRoot == Spec => []CancelReaches
<1>1. Init => IInv /\ CancelInv
  BY InitEstablishesIInv, InitFlags
<1>2. (IInv /\ CancelInv) /\ [Next]_vars => (IInv /\ CancelInv)'
  BY NextPreservesIInv, NextKeepsFlags
<1>3. IInv /\ CancelInv => CancelReaches
  BY UsedAreStates DEF IInv, CancelInv, Shares, CancelReaches
<1> QED BY <1>1, <1>2, <1>3, PTL DEF Spec

-----------------------------------------------------------------------------
\* The flags themselves.
Removing == {"remove", "sub", "forget", "removed"}
Using == {"load", "create", "use", "store"}

FlagTypeOK ==
  /\ alive \subseteq Objects /\ raised \subseteq Objects /\ heap \subseteq Flags
  /\ ptr \in [Objects -> Flags \cup {Null}]
  /\ refs \in [Flags -> Int] /\ isSet \in [Flags -> BOOLEAN]
  /\ seen \in [Users -> Flags \cup {Null}]
  /\ group \in [Objects -> SUBSET Objects]
  /\ call \in [Users -> [op : Ops \cup {"none"}, step : Removing \cup Using \cup {"none"},
                         on : Objects \cup {Null}, to : Objects \cup {Null}]]

\* The steps and the objects that an operation has.
Shape ==
  \A u \in Users :
    /\ call[u].op = "none" => call[u] = Idle
    /\ call[u].op = "isSet" => call[u].step \in {"load", "use"}
    /\ call[u].op = "set" => call[u].step \in {"load", "create", "use"}
    /\ call[u].op = "copy" => call[u].step \in Using
    /\ call[u].op = "destroy" => call[u].step \in Removing
    /\ call[u].op = "assign" => call[u].step \in Removing \cup Using
    /\ call[u].op # "none" => call[u].on \in alive
    /\ IF call[u].op \in {"copy", "assign"}
       THEN call[u].to \in Objects \ {call[u].on} ELSE call[u].to = Null
    /\ call[u].op = "copy" => call[u].to \notin alive
    /\ call[u].op = "assign" => call[u].to \in alive

\* Who destroys an object, or gives it a flag, is alone with it, but for those that
\* ask an object without a flag whether it is set.
Apart ==
  \A u, v \in Users : u # v =>
    /\ call[u].op = "destroy" => call[u].on \notin {call[v].on, call[v].to}
    /\ call[u].to # Null => call[u].to # call[v].to
    /\ call[u].op = "assign" /\ call[v].on = call[u].to =>
         /\ call[v].op = "isSet" /\ call[v].step = "load"
         /\ ptr[call[u].to] = Null /\ call[u].step \notin {"sub", "forget"}

\* What a thread has loaded is still there.
SeenIsTrue ==
  \A u \in Users :
    /\ call[u].step \in {"use", "store"} => seen[u] \in Flags /\ seen[u] = ptr[call[u].on]
    /\ call[u].step = "sub" => seen[u] \in Flags /\ seen[u] = ptr[Loser(u)]
    /\ call[u].step = "forget" => ptr[Loser(u)] # Null

\* What is not alive, or is about to lose its flag, belongs to nobody.
Leaves(o) == \E u \in Users : call[u].op \in {"destroy", "assign"} /\ Loser(u) = o
GoneIsAlone ==
  /\ \A o \in Objects \ alive : ptr[o] = Null
  /\ \A o \in Objects : o \notin alive \/ Leaves(o) =>
       group[o] = {} /\ o \notin raised /\ \A x \in Objects : o \notin group[x]

Counted ==
  /\ \A f \in Flags \ heap : Owners(f) = {} /\ Taken(f) = {}
  /\ \A f \in heap : /\ Owners(f) # {} \/ Taken(f) # {}
                     /\ refs[f] = Cardinality(Owners(f)) + Cardinality(Taken(f))

Grouped ==
  /\ \A o \in Objects : \A x \in group[o] \ {o} : ptr[x] = ptr[o] /\ ptr[o] # Null
  /\ \A o \in raised : ptr[o] # Null /\ isSet[ptr[o]]

FlagInv == FlagTypeOK /\ Shape /\ Apart /\ SeenIsTrue /\ GoneIsAlone /\ Counted /\ Grouped

-----------------------------------------------------------------------------
\* How an operation begins, goes on and ends.
CallType ==
  [op : Ops \cup {"none"}, step : Removing \cup Using \cup {"none"},
   on : Objects \cup {Null}, to : Objects \cup {Null}]

LEMMA BeginCalls ==
  ASSUME FlagTypeOK, NEW u \in Users, NEW op \in Ops, NEW o \in Objects, NEW n \in Objects \cup {Null},
         Begin(u, op, o, n)
  PROVE  /\ call[u] = Idle
         /\ call'[u].op = op /\ call'[u].on = o /\ call'[u].to = n
         /\ call'[u].step = IF op \in {"destroy", "assign"} THEN "remove" ELSE "load"
         /\ \A v \in Users \ {u} : call'[v] = call[v]
         /\ call' \in [Users -> CallType]
BY DEF FlagTypeOK, Begin, CallType, Removing, Using

LEMMA GoToMoves ==
  ASSUME FlagTypeOK, NEW u \in Users, NEW s \in Removing \cup Using, GoTo(u, s)
  PROVE  /\ call'[u].op = call[u].op /\ call'[u].on = call[u].on /\ call'[u].to = call[u].to
         /\ call'[u].step = s
         /\ \A v \in Users \ {u} : call'[v] = call[v]
         /\ call' \in [Users -> CallType]
BY DEF FlagTypeOK, GoTo, CallType

LEMMA ReturnEnds ==
  ASSUME FlagTypeOK, NEW u \in Users, Return(u)
  PROVE  /\ call'[u] = Idle /\ seen'[u] = Null
         /\ call'[u].op = "none" /\ call'[u].step = "none" /\ call'[u].on = Null /\ call'[u].to = Null
         /\ \A v \in Users \ {u} : call'[v] = call[v] /\ seen'[v] = seen[v]
         /\ call' \in [Users -> CallType] /\ seen' \in [Users -> Flags \cup {Null}]
BY DEF FlagTypeOK, Return, CallType, Idle

-----------------------------------------------------------------------------
\* The sets of owners and takers are finite; a step that leaves them, the heap and
\* the references alone keeps the count.
LEMMA CountsAreNumbers ==
  \A f \in Flags : /\ IsFiniteSet(Owners(f)) /\ Cardinality(Owners(f)) \in Nat
                   /\ IsFiniteSet(Taken(f)) /\ Cardinality(Taken(f)) \in Nat
<1>1. \A f \in Flags : Owners(f) \in SUBSET Objects /\ Taken(f) \in SUBSET Users
  BY DEF Owners, Taken
<1>2. IsFiniteSet(Objects) /\ IsFiniteSet(Users)
  BY FlagAssumption
<1>3. \A f \in Flags : IsFiniteSet(Owners(f)) /\ IsFiniteSet(Taken(f))
  BY <1>1, <1>2, FS_Subset
<1> QED BY <1>3, FS_CardinalityType

LEMMA CountedKept ==
  ASSUME Counted, heap' = heap, refs' = refs,
         \A f \in Flags : Owners(f)' = Owners(f) /\ Taken(f)' = Taken(f), heap \subseteq Flags
  PROVE  Counted'
<1>1. \A f \in Flags \ heap' : Owners(f)' = {} /\ Taken(f)' = {}
  BY DEF Counted
<1>2. ASSUME NEW f \in heap'
      PROVE /\ Owners(f)' # {} \/ Taken(f)' # {}
            /\ refs'[f] = Cardinality(Owners(f)') + Cardinality(Taken(f)')
  <2>1. f \in Flags /\ f \in heap
    BY <1>2
  <2>2. Owners(f)' = Owners(f) /\ Taken(f)' = Taken(f)
    BY <2>1
  <2> QED BY <2>1, <2>2 DEF Counted
<1> QED BY <1>1, <1>2 DEF Counted

\* u has given up the reference of o.
GivesUp(u, o) ==
  call[u].op \in {"destroy", "assign"} /\ Loser(u) = o /\ ~At(u, "remove") /\ ~At(u, "sub")

LEMMA GivenUpMeans == \A o : GivenUp(o) <=> \E u \in Users : GivesUp(u, o)
BY DEF GivenUp, GivesUp

LEMMA GivenUpKept ==
  ASSUME NEW u \in Users, NEW o,
         \A v \in Users \ {u} : call'[v] = call[v], GivesUp(u, o)' <=> GivesUp(u, o)
  PROVE  GivenUp(o)' <=> GivenUp(o)
<1>1. \A v \in Users : GivesUp(v, o)' <=> GivesUp(v, o)
  BY DEF GivesUp, Loser, At
<1> QED BY <1>1 DEF GivenUp, GivesUp

\* A step of u that neither gives a reference up nor takes or stores one.
LEMMA OwnersKept ==
  ASSUME NEW u \in Users,
         \A v \in Users \ {u} : call'[v] = call[v] /\ seen'[v] = seen[v],
         \A o \in Objects : GivesUp(u, o)' <=> GivesUp(u, o),
         ptr' = ptr, call[u].step # "store", call'[u].step # "store"
  PROVE  \A f \in Flags : Owners(f)' = Owners(f) /\ Taken(f)' = Taken(f)
<1>1. \A o \in Objects : GivenUp(o)' <=> GivenUp(o)
  BY GivenUpKept
<1>2. \A f \in Flags : Owners(f)' = Owners(f)
  BY <1>1 DEF Owners
<1>3. \A f \in Flags : Taken(f)' = Taken(f)
  BY DEF Taken
<1> QED BY <1>2, <1>3

\* Nobody gives up the flag of an object that is being used.
LEMMA UsedIsKept ==
  ASSUME FlagInv, NEW u \in Users, call[u].op \notin {"none", "destroy"},
         call[u].op # "isSet" \/ call[u].step = "use"
  PROVE  call[u].on \in alive /\ ~Leaves(call[u].on) /\ ~GivenUp(call[u].on)
<1>1. call[u].on \in alive
  BY DEF FlagInv, Shape
<1>2. ~Leaves(call[u].on)
  <2> SUFFICES ASSUME NEW v \in Users, call[v].op \in {"destroy", "assign"}, Loser(v) = call[u].on
               PROVE FALSE
    BY DEF Leaves
  <2>1. v # u
    BY DEF Loser, FlagInv, Shape
  <2> QED BY <2>1 DEF Loser, FlagInv, Apart
<1>3. ~GivenUp(call[u].on)
  BY <1>2 DEF Leaves, GivenUp
<1> QED BY <1>1, <1>2, <1>3

\* Who is about to give up a reference is the only one to do so.
LEMMA LoserIsAlone ==
  ASSUME FlagInv, NEW u \in Users, NEW v \in Users, u # v,
         call[u].op \in {"destroy", "assign"}, call[v].op \in {"destroy", "assign"}
  PROVE  Loser(u) # Loser(v) /\ Loser(u) \in Objects
BY FlagAssumption DEF FlagInv, FlagTypeOK, Shape, Apart, Loser

LEMMA LoserOwns ==
  ASSUME FlagInv, NEW u \in Users, call[u].step = "sub"
  PROVE  /\ call[u].op \in {"destroy", "assign"} /\ Loser(u) \in Objects
         /\ seen[u] \in Flags /\ Loser(u) \in Owners(seen[u])
<1>1. call[u].op \in {"destroy", "assign"}
  BY DEF FlagInv, Shape, Idle, Using, FlagTypeOK, Ops
<1>2. Loser(u) \in Objects
  BY <1>1, FlagAssumption DEF FlagInv, FlagTypeOK, Shape, Loser
<1>3. ~GivenUp(Loser(u))
  <2> SUFFICES ASSUME NEW v \in Users, GivesUp(v, Loser(u)) PROVE FALSE
    BY GivenUpMeans
  <2>1. v # u
    BY DEF GivesUp, At
  <2> QED BY <1>1, <2>1, LoserIsAlone DEF GivesUp
<1>4. seen[u] \in Flags /\ seen[u] = ptr[Loser(u)]
  BY DEF FlagInv, SeenIsTrue
<1> QED BY <1>1, <1>2, <1>3, <1>4 DEF Owners

LEMMA SeenIsThere ==
  ASSUME FlagInv, NEW u \in Users, call[u].step \in {"use", "store", "sub"}
  PROVE  seen[u] \in heap
<1>1. CASE call[u].step \in {"use", "store"}
  <2>1. call[u].op \notin {"none", "destroy"} /\ (call[u].op # "isSet" \/ call[u].step = "use")
    BY <1>1 DEF FlagInv, Shape, Idle, Removing
  <2>2. call[u].on \in Objects /\ ~GivenUp(call[u].on)
    BY <2>1, UsedIsKept DEF FlagInv, FlagTypeOK
  <2>3. seen[u] \in Flags /\ call[u].on \in Owners(seen[u])
    BY <1>1, <2>2 DEF FlagInv, SeenIsTrue, Owners
  <2> QED BY <2>3 DEF FlagInv, Counted
<1>2. CASE call[u].step = "sub"
  <2>1. seen[u] \in Flags /\ Loser(u) \in Owners(seen[u])
    BY <1>2, LoserOwns
  <2> QED BY <2>1 DEF FlagInv, Counted
<1> QED BY <1>1, <1>2

-----------------------------------------------------------------------------
\* Every action keeps the invariant.
LEMMA ConstructKeeps == ASSUME FlagInv, NEW o \in Objects, Construct(o) PROVE FlagInv'
<1> USE DEF FlagInv
<1>1. ptr' = ptr /\ o \notin alive /\ UNCHANGED <<refs, isSet, heap, call, seen, raised>>
  BY DEF Construct, GoneIsAlone, FlagTypeOK
<1>2. \A u \in Users : call[u].on # o /\ call[u].to # o
  BY FlagAssumption DEF Construct, Unused, Uses
<1>3. ~Leaves(o)
  BY <1>2 DEF Leaves, Loser
<1>4. FlagTypeOK'
  BY <1>1 DEF FlagTypeOK, Construct
<1>5. Shape'
  BY <1>1, <1>2 DEF Shape, Construct
<1>6. Apart'
  BY <1>1 DEF Apart
<1>7. SeenIsTrue'
  BY <1>1 DEF SeenIsTrue, Loser
<1>8. GoneIsAlone'
  <2>1. \A x \in Objects : Leaves(x)' <=> Leaves(x)
    BY <1>1 DEF Leaves, Loser
  <2>2. \A x \in Objects : group'[x] = IF x = o THEN {o} ELSE group[x]
    BY DEF Construct, FlagTypeOK
  <2>3. alive' = alive \cup {o}
    BY DEF Construct
  <2> QED BY <1>1, <1>3, <2>1, <2>2, <2>3 DEF GoneIsAlone
<1>9. Counted'
  BY <1>1, CountedKept DEF Owners, Taken, GivenUp, At, Loser, FlagTypeOK
<1>10. Grouped'
  <2>1. \A x \in Objects : group'[x] = IF x = o THEN {o} ELSE group[x]
    BY DEF Construct, FlagTypeOK
  <2> QED BY <1>1, <2>1 DEF Grouped
<1> QED BY <1>4, <1>5, <1>6, <1>7, <1>8, <1>9, <1>10

\* What begins has loaded nothing and given up nothing.
LEMMA BeginCounts ==
  ASSUME FlagInv, NEW u \in Users, NEW op \in Ops, NEW o \in Objects, NEW n \in Objects \cup {Null},
         Begin(u, op, o, n), UNCHANGED <<refs, heap, seen, ptr>>
  PROVE  SeenIsTrue' /\ Counted'
<1> USE DEF FlagInv
<1>1. /\ call'[u].step \in {"remove", "load"}
      /\ call'[u].op \in {"destroy", "assign"} => call'[u].step = "remove"
      /\ \A v \in Users \ {u} : call'[v] = call[v]
      /\ call[u].op = "none" /\ call[u].step = "none"
  BY BeginCalls DEF Idle
<1>2. SeenIsTrue'
  BY <1>1 DEF SeenIsTrue, Loser
<1>3. \A x \in Objects : GivesUp(u, x)' <=> GivesUp(u, x)
  BY <1>1 DEF GivesUp, At
<1>4. \A f \in Flags : Owners(f)' = Owners(f) /\ Taken(f)' = Taken(f)
  BY <1>1, <1>3, OwnersKept
<1>5. Counted'
  BY <1>4, CountedKept DEF FlagTypeOK
<1> QED BY <1>2, <1>5

LEMMA AskKeeps == ASSUME FlagInv, NEW u \in Users, NEW o \in Objects, Ask(u, o) PROVE FlagInv'
<1> USE DEF FlagInv
<1>1. Begin(u, "isSet", o, Null) /\ UNCHANGED <<alive, ptr, refs, isSet, heap, seen, group, raised>>
  BY DEF Ask
<1>2. /\ call'[u].op = "isSet" /\ call'[u].on = o /\ call'[u].to = Null /\ call'[u].step = "load"
      /\ \A v \in Users \ {u} : call'[v] = call[v]
      /\ call' \in [Users -> CallType] /\ call[u] = Idle
  BY <1>1, BeginCalls DEF Ops
<1>3. FlagTypeOK'
  BY <1>1, <1>2 DEF FlagTypeOK, CallType
<1>4. Shape'
  BY <1>1, <1>2 DEF Shape, Ask
<1>5. \A v \in Users : call[v].op = "destroy" => call[v].on # o
  BY FlagAssumption DEF Ask, Exclusive, Uses, FlagTypeOK
<1>6. ASSUME NEW v \in Users, v # u, call[v].to = o
      PROVE call[v].op = "assign" => ptr[o] = Null /\ call[v].step \notin {"sub", "forget"}
  <2>1. call[v].op = "assign" => ptr[o] = Null
    BY <1>6 DEF Ask, Exclusive
  <2> QED BY <1>6, <2>1, FlagAssumption DEF SeenIsTrue, Loser
<1>7. Apart'
  BY <1>1, <1>2, <1>5, <1>6, FlagAssumption DEF Apart, FlagTypeOK, Shape, Idle
<1>8. SeenIsTrue' /\ Counted'
  BY <1>1, BeginCounts DEF Ops
<1>9. GoneIsAlone'
  BY <1>1, <1>2 DEF GoneIsAlone, Leaves, Loser
<1>10. Grouped'
  BY <1>1 DEF Grouped
<1> QED BY <1>3, <1>4, <1>7, <1>8, <1>9, <1>10

LEMMA SetKeeps == ASSUME FlagInv, NEW u \in Users, NEW o \in Objects, Set(u, o) PROVE FlagInv'
<1> USE DEF FlagInv
<1>1. Begin(u, "set", o, Null) /\ UNCHANGED <<alive, ptr, refs, isSet, heap, seen, group, raised>>
  BY DEF Set
<1>2. /\ call'[u].op = "set" /\ call'[u].on = o /\ call'[u].to = Null /\ call'[u].step = "load"
      /\ \A v \in Users \ {u} : call'[v] = call[v]
      /\ call' \in [Users -> CallType] /\ call[u] = Idle
  BY <1>1, BeginCalls DEF Ops
<1>3. FlagTypeOK'
  BY <1>1, <1>2 DEF FlagTypeOK, CallType
<1>4. Shape'
  BY <1>1, <1>2 DEF Shape, Set
<1>5. \A v \in Users : call[v].to # o /\ (call[v].op = "destroy" => call[v].on # o)
  BY DEF Set, Exclusive
<1>6. Apart'
  BY <1>1, <1>2, <1>5, FlagAssumption DEF Apart, FlagTypeOK, Shape, Idle
<1>7. SeenIsTrue' /\ Counted'
  BY <1>1, BeginCounts DEF Ops
<1>8. GoneIsAlone'
  BY <1>1, <1>2 DEF GoneIsAlone, Leaves, Loser
<1>9. Grouped'
  BY <1>1 DEF Grouped
<1> QED BY <1>3, <1>4, <1>6, <1>7, <1>8, <1>9

LEMMA CopyKeeps ==
  ASSUME FlagInv, NEW u \in Users, NEW o \in Objects, NEW n \in Objects, Copy(u, o, n) PROVE FlagInv'
<1> USE DEF FlagInv
<1>1. /\ Begin(u, "copy", o, n) /\ o \in alive /\ n \notin alive
      /\ ptr' = ptr /\ UNCHANGED <<alive, refs, isSet, heap, seen, group, raised>>
  BY DEF Copy, GoneIsAlone, FlagTypeOK
<1>2. /\ call'[u].op = "copy" /\ call'[u].on = o /\ call'[u].to = n /\ call'[u].step = "load"
      /\ \A v \in Users \ {u} : call'[v] = call[v]
      /\ call' \in [Users -> CallType] /\ call[u] = Idle
  BY <1>1, BeginCalls DEF Ops
<1>3. FlagTypeOK'
  BY <1>1, <1>2 DEF FlagTypeOK, CallType
<1>4. Shape'
  BY <1>1, <1>2 DEF Shape, Using
<1>5. \A v \in Users : /\ call[v].to # o /\ (call[v].op = "destroy" => call[v].on # o)
                       /\ call[v].to # n /\ call[v].on # n
  BY FlagAssumption DEF Copy, Exclusive, Unused, Uses
<1>6. Apart'
  BY <1>1, <1>2, <1>5, FlagAssumption DEF Apart, FlagTypeOK, Shape, Idle
<1>7. SeenIsTrue' /\ Counted'
  BY <1>1, BeginCounts DEF Ops
<1>8. GoneIsAlone'
  BY <1>1, <1>2 DEF GoneIsAlone, Leaves, Loser
<1>9. Grouped'
  BY <1>1 DEF Grouped
<1> QED BY <1>3, <1>4, <1>6, <1>7, <1>8, <1>9

LEMMA AssignKeeps ==
  ASSUME FlagInv, NEW u \in Users, NEW o \in Objects, NEW n \in Objects, Assign(u, o, n) PROVE FlagInv'
<1> USE DEF FlagInv
<1>1. /\ Begin(u, "assign", o, n) /\ o \in alive /\ n \in alive /\ n # o
      /\ UNCHANGED <<alive, ptr, refs, isSet, heap, seen>>
      /\ \A x \in Objects : group'[x] = IF x = n THEN {} ELSE group[x] \ {n}
      /\ raised' = raised \ {n}
  BY DEF Assign
<1>2. /\ call'[u].op = "assign" /\ call'[u].on = o /\ call'[u].to = n /\ call'[u].step = "remove"
      /\ \A v \in Users \ {u} : call'[v] = call[v]
      /\ call' \in [Users -> CallType] /\ call[u] = Idle
  BY <1>1, BeginCalls DEF Ops
<1>3. FlagTypeOK'
  BY <1>1, <1>2 DEF FlagTypeOK, CallType, Assign
<1>4. Shape'
  BY <1>1, <1>2 DEF Shape, Removing
<1>5. \A v \in Users : call[v].to # o /\ (call[v].op = "destroy" => call[v].on # o)
  BY DEF Assign, Exclusive
<1>6. ASSUME NEW v \in Users
      PROVE  /\ call[v].to # n /\ (call[v].op = "destroy" => call[v].on # n)
             /\ call[v].on = n => call[v].op = "isSet" /\ call[v].step = "load" /\ ptr[n] = Null
  <2>1. CASE Unused(n)
    BY <2>1, FlagAssumption DEF Unused, Uses
  <2>2. CASE OnlyAsked(n)
    <3>1. ptr[n] = Null /\ (call[v].on = n \/ call[v].to = n => call[v].op = "isSet")
      BY <2>2, FlagAssumption DEF OnlyAsked, Uses
    <3>2. call[v].op = "isSet" => call[v].to = Null /\ call[v].step \in {"load", "use"}
      BY DEF Shape
    <3>3. call[v].on = n => call[v].step # "use"
      BY <3>1, FlagAssumption DEF SeenIsTrue
    <3> QED BY <3>1, <3>2, <3>3, FlagAssumption
  <2> QED BY <2>1, <2>2 DEF Assign
<1>7. Apart'
  BY <1>1, <1>2, <1>5, <1>6, FlagAssumption DEF Apart, FlagTypeOK, Shape, Idle
<1>8. SeenIsTrue' /\ Counted'
  BY <1>1, BeginCounts DEF Ops
<1>9. \A x \in Objects : Leaves(x)' <=> Leaves(x) \/ x = n
  BY <1>2 DEF Leaves, Loser, Idle
<1>10. GoneIsAlone'
  BY <1>1, <1>9 DEF GoneIsAlone
<1>11. Grouped'
  <2>1. \A x \in Objects : group'[x] \subseteq group[x]
    BY <1>1
  <2>2. raised' \subseteq raised /\ raised \subseteq Objects /\ ptr' = ptr /\ isSet' = isSet
    BY <1>1 DEF FlagTypeOK
  <2> QED BY <2>1, <2>2 DEF Grouped
<1> QED BY <1>3, <1>4, <1>7, <1>8, <1>10, <1>11

LEMMA DestroyKeeps == ASSUME FlagInv, NEW u \in Users, NEW o \in Objects, Destroy(u, o) PROVE FlagInv'
<1> USE DEF FlagInv
<1>1. /\ Begin(u, "destroy", o, Null) /\ o \in alive
      /\ UNCHANGED <<alive, ptr, refs, isSet, heap, seen>>
      /\ \A x \in Objects : group'[x] = IF x = o THEN {} ELSE group[x] \ {o}
      /\ raised' = raised \ {o}
  BY DEF Destroy
<1>2. /\ call'[u].op = "destroy" /\ call'[u].on = o /\ call'[u].to = Null /\ call'[u].step = "remove"
      /\ \A v \in Users \ {u} : call'[v] = call[v]
      /\ call' \in [Users -> CallType] /\ call[u] = Idle
  BY <1>1, BeginCalls DEF Ops
<1>3. FlagTypeOK'
  BY <1>1, <1>2 DEF FlagTypeOK, CallType, Destroy
<1>4. Shape'
  BY <1>1, <1>2 DEF Shape, Removing
<1>5. \A v \in Users : call[v].to # o /\ call[v].on # o
  BY FlagAssumption DEF Destroy, Unused, Uses
<1>6. Apart'
  BY <1>1, <1>2, <1>5, FlagAssumption DEF Apart, FlagTypeOK, Shape, Idle
<1>7. SeenIsTrue' /\ Counted'
  BY <1>1, BeginCounts DEF Ops
<1>8. \A x \in Objects : Leaves(x)' <=> Leaves(x) \/ x = o
  BY <1>2 DEF Leaves, Loser, Idle
<1>9. GoneIsAlone'
  BY <1>1, <1>8 DEF GoneIsAlone
<1>10. Grouped'
  <2>1. \A x \in Objects : group'[x] \subseteq group[x]
    BY <1>1
  <2>2. raised' \subseteq raised /\ raised \subseteq Objects /\ ptr' = ptr /\ isSet' = isSet
    BY <1>1 DEF FlagTypeOK
  <2> QED BY <2>1, <2>2 DEF Grouped
<1> QED BY <1>3, <1>4, <1>6, <1>7, <1>9, <1>10

LEMMA LoadToRemoveKeeps == ASSUME FlagInv, NEW u \in Users, LoadToRemove(u) PROVE FlagInv'
<1> USE DEF FlagInv
<1>1. /\ call[u].step = "remove" /\ UNCHANGED <<alive, ptr, refs, isSet, heap, group, raised>>
      /\ seen' = [seen EXCEPT ![u] = ptr[Loser(u)]]
  BY DEF LoadToRemove, At
<1>2. call[u].op \in {"destroy", "assign"} /\ Loser(u) \in Objects
  BY <1>1, FlagAssumption DEF Shape, FlagTypeOK, Idle, Using, Ops, Loser
<1> DEFINE s == IF ptr[Loser(u)] = Null THEN "removed" ELSE "sub"
<1>3. s \in Removing \cup Using /\ GoTo(u, s)
  BY DEF LoadToRemove, Removing
<1>4. /\ call'[u].op = call[u].op /\ call'[u].on = call[u].on /\ call'[u].to = call[u].to
      /\ call'[u].step = s /\ \A v \in Users \ {u} : call'[v] = call[v]
      /\ call' \in [Users -> CallType]
  BY <1>3, GoToMoves
<1>5. /\ seen'[u] = ptr[Loser(u)] /\ \A v \in Users \ {u} : seen'[v] = seen[v]
      /\ seen' \in [Users -> Flags \cup {Null}] /\ ptr[Loser(u)] \in Flags \cup {Null}
  BY <1>1, <1>2 DEF FlagTypeOK
<1>6. FlagTypeOK'
  BY <1>1, <1>4, <1>5 DEF FlagTypeOK, CallType
<1>7. Shape'
  BY <1>1, <1>2, <1>4 DEF Shape, Removing, Using
<1>8. Apart'
  BY <1>1, <1>4 DEF Apart, Loser
<1>9. SeenIsTrue'
  BY <1>1, <1>4, <1>5 DEF SeenIsTrue, Loser
<1>10. GoneIsAlone'
  BY <1>1, <1>4 DEF GoneIsAlone, Leaves, Loser
<1>11. Counted'
  <2>1. \A o \in Objects : ptr[o] # Null => (GivenUp(o)' <=> GivenUp(o))
    <3> SUFFICES ASSUME NEW o \in Objects, ptr[o] # Null PROVE GivenUp(o)' <=> GivenUp(o)
      OBVIOUS
    <3>1. GivesUp(u, o)' <=> GivesUp(u, o)
      BY <1>1, <1>4 DEF GivesUp, Loser, At
    <3> QED BY <1>4, <3>1, GivenUpKept
  <2>2. \A f \in Flags : Owners(f)' = Owners(f)
    BY <1>1, <2>1, FlagAssumption DEF Owners
  <2>3. \A f \in Flags : Taken(f)' = Taken(f)
    BY <1>1, <1>4, <1>5 DEF Taken
  <2> QED BY <1>1, <2>2, <2>3, CountedKept DEF FlagTypeOK
<1>12. Grouped'
  BY <1>1 DEF Grouped
<1> QED BY <1>6, <1>7, <1>8, <1>9, <1>10, <1>11, <1>12

\* The last reference goes with the flag, and no other object had it.
LEMMA SubtractKeeps == ASSUME FlagInv, NEW u \in Users, Subtract(u) PROVE FlagInv'
<1> USE DEF FlagInv
<1>0. PICK f \in Flags : f = seen[u]
  BY LoserOwns DEF Subtract, At
<1> DEFINE last == refs[f] = 1
           s == IF last THEN "forget" ELSE "removed"
<1>1. /\ call[u].step = "sub" /\ UNCHANGED <<alive, ptr, group, raised>>
      /\ refs' = [refs EXCEPT ![f] = @ - 1]
      /\ heap' = IF last THEN heap \ {f} ELSE heap
      /\ isSet' = [isSet EXCEPT ![f] = @ /\ ~last]
      /\ seen' = [seen EXCEPT ![u] = Null] /\ GoTo(u, s)
  BY <1>0 DEF Subtract, At
<1>2. /\ call[u].op \in {"destroy", "assign"} /\ Loser(u) \in Objects
      /\ Loser(u) \in Owners(f) /\ f = ptr[Loser(u)]
  BY <1>0, <1>1, LoserOwns DEF SeenIsTrue
<1>3. f \in heap
  BY <1>0, <1>1, SeenIsThere
<1>4. /\ call'[u].op = call[u].op /\ call'[u].on = call[u].on /\ call'[u].to = call[u].to
      /\ call'[u].step = s /\ \A v \in Users \ {u} : call'[v] = call[v]
      /\ call' \in [Users -> CallType]
  BY <1>1, GoToMoves DEF Removing
<1>5. /\ seen'[u] = Null /\ \A v \in Users \ {u} : seen'[v] = seen[v]
      /\ seen' \in [Users -> Flags \cup {Null}]
  BY <1>1 DEF FlagTypeOK
<1>6. /\ refs'[f] = refs[f] - 1 /\ \A g \in Flags \ {f} : refs'[g] = refs[g] /\ isSet'[g] = isSet[g]
      /\ refs' \in [Flags -> Int] /\ isSet' \in [Flags -> BOOLEAN]
      /\ ~last => isSet' = isSet
  BY <1>1, <1>2 DEF FlagTypeOK
<1>7. \A o \in Objects : GivenUp(o)' <=> GivenUp(o) \/ o = Loser(u)
  <2> SUFFICES ASSUME NEW o \in Objects PROVE GivenUp(o)' <=> GivenUp(o) \/ o = Loser(u)
    OBVIOUS
  <2>1. CASE o = Loser(u)
    <3>1. GivesUp(u, o)'
      BY <1>2, <1>4, <2>1 DEF GivesUp, Loser, At
    <3> QED BY <2>1, <3>1 DEF GivenUp, GivesUp
  <2>2. CASE o # Loser(u)
    <3>1. GivesUp(u, o)' <=> GivesUp(u, o)
      BY <1>4, <2>2 DEF GivesUp, Loser
    <3> QED BY <1>4, <2>2, <3>1, GivenUpKept
  <2> QED BY <2>1, <2>2
<1>8. Owners(f)' = Owners(f) \ {Loser(u)}
  BY <1>1, <1>7 DEF Owners
<1>9. \A g \in Flags \ {f} : Owners(g)' = Owners(g)
  BY <1>1, <1>2, <1>7 DEF Owners
<1>10. \A g \in Flags : Taken(g)' = Taken(g)
  BY <1>0, <1>1, <1>4, <1>5 DEF Taken
<1>11. Cardinality(Owners(f)') = Cardinality(Owners(f)) - 1 /\ Cardinality(Owners(f)) # 0
  BY <1>2, <1>8, CountsAreNumbers, FS_RemoveElement, FS_EmptySet
<1>12. refs[f] = Cardinality(Owners(f)) + Cardinality(Taken(f))
  BY <1>3 DEF Counted
<1>13. IsFiniteSet(Owners(f)') /\ (Cardinality(Owners(f)') = 0 <=> Owners(f)' = {})
  BY <1>2, <1>8, CountsAreNumbers, FS_RemoveElement, FS_EmptySet
<1>14. Cardinality(Taken(f)) = 0 <=> Taken(f) = {}
  BY <1>2, CountsAreNumbers, FS_EmptySet
<1>15. last <=> Owners(f)' = {} /\ Taken(f)' = {}
  <2>1. Cardinality(Owners(f)) \in Nat /\ Cardinality(Taken(f)) \in Nat
    BY CountsAreNumbers
  <2>2. last <=> Cardinality(Owners(f)) - 1 = 0 /\ Cardinality(Taken(f)) = 0
    BY <1>11, <1>12, <2>1
  <2>3. Taken(f)' = Taken(f)
    BY <1>10
  <2> QED BY <1>11, <1>13, <1>14, <2>2, <2>3
<1>16. FlagTypeOK'
  BY <1>1, <1>4, <1>5, <1>6 DEF FlagTypeOK, CallType
<1>17. Shape'
  BY <1>1, <1>2, <1>4 DEF Shape, Removing, Using
<1>18. Apart'
  BY <1>1, <1>4 DEF Apart, Loser
<1>19. SeenIsTrue'
  <2> SUFFICES ASSUME NEW v \in Users
               PROVE  /\ call'[v].step \in {"use", "store"} =>
                           seen'[v] \in Flags /\ seen'[v] = ptr'[call'[v].on]
                      /\ call'[v].step = "sub" => seen'[v] \in Flags /\ seen'[v] = ptr'[Loser(v)']
                      /\ call'[v].step = "forget" => ptr'[Loser(v)'] # Null
    BY DEF SeenIsTrue
  <2>1. Loser(v)' = Loser(v) /\ ptr' = ptr
    BY <1>1, <1>4 DEF Loser
  <2>2. CASE v = u
    <3>1. call'[v].step \in {"forget", "removed"}
      BY <1>4, <2>2
    <3>2. ptr[Loser(u)] # Null
      BY <1>2, FlagAssumption
    <3> QED BY <2>1, <2>2, <3>1, <3>2
  <2>3. CASE v # u
    <3>1. call'[v] = call[v] /\ seen'[v] = seen[v]
      BY <1>4, <1>5, <2>3
    <3> QED BY <2>1, <3>1 DEF SeenIsTrue
  <2> QED BY <2>2, <2>3
<1>20. GoneIsAlone'
  BY <1>1, <1>4 DEF GoneIsAlone, Leaves, Loser
<1>21. Counted'
  <2>1. ASSUME NEW g \in Flags \ heap' PROVE Owners(g)' = {} /\ Taken(g)' = {}
    <3>1. CASE g = f
      BY <1>1, <1>3, <1>15, <2>1, <3>1
    <3>2. CASE g # f
      BY <1>1, <1>9, <1>10, <2>1, <3>2 DEF Counted
    <3> QED BY <3>1, <3>2
  <2>2. ASSUME NEW g \in heap'
        PROVE /\ Owners(g)' # {} \/ Taken(g)' # {}
              /\ refs'[g] = Cardinality(Owners(g)') + Cardinality(Taken(g)')
    <3>1. CASE g = f
      <4>1. ~last
        BY <1>1, <2>2, <3>1
      <4>2. Cardinality(Taken(f)') = Cardinality(Taken(f))
        BY <1>2, <1>10
      <4>3. refs'[f] = Cardinality(Owners(f)') + Cardinality(Taken(f)')
        BY <1>2, <1>6, <1>11, <1>12, <4>2, CountsAreNumbers
      <4> QED BY <1>15, <3>1, <4>1, <4>3
    <3>2. CASE g # f
      <4>1. g \in heap /\ g \in Flags \ {f}
        BY <1>1, <2>2, <3>2 DEF FlagTypeOK
      <4>2. Owners(g)' = Owners(g) /\ Taken(g)' = Taken(g) /\ refs'[g] = refs[g]
        BY <1>6, <1>9, <1>10, <4>1
      <4> QED BY <4>1, <4>2 DEF Counted
    <3> QED BY <3>1, <3>2
  <2> QED BY <2>1, <2>2 DEF Counted
<1>22. Grouped'
  <2>1. \A o \in Objects : \A x \in group'[o] \ {o} : ptr'[x] = ptr'[o] /\ ptr'[o] # Null
    BY <1>1 DEF Grouped
  <2>2. ASSUME NEW o \in raised' PROVE ptr'[o] # Null /\ isSet'[ptr'[o]]
    <3>1. o \in raised /\ o \in Objects /\ ptr'[o] = ptr[o] /\ ptr[o] \in Flags /\ isSet[ptr[o]]
      BY <1>1, <2>2 DEF Grouped, FlagTypeOK
    <3>2. CASE ptr[o] # f
      BY <1>6, <3>1, <3>2, FlagAssumption
    <3>3. CASE ptr[o] = f
      <4>1. ~Leaves(o)
        BY <3>1 DEF GoneIsAlone
      <4>2. o # Loser(u) /\ ~GivenUp(o)
        BY <1>2, <4>1 DEF Leaves, GivenUp
      <4>3. o \in Owners(f)'
        BY <1>8, <3>1, <3>3, <4>2 DEF Owners
      <4>4. ~last
        BY <1>15, <4>3
      <4> QED BY <1>6, <3>1, <4>4, FlagAssumption
    <3> QED BY <3>2, <3>3
  <2> QED BY <2>1, <2>2 DEF Grouped
<1> QED BY <1>16, <1>17, <1>18, <1>19, <1>20, <1>21, <1>22

LEMMA ForgetKeeps == ASSUME FlagInv, NEW u \in Users, Forget(u) PROVE FlagInv'
<1> USE DEF FlagInv
<1> DEFINE n == Loser(u)
<1>1. /\ call[u].step = "forget" /\ UNCHANGED <<alive, refs, isSet, heap, seen, group, raised>>
      /\ ptr' = [ptr EXCEPT ![n] = Null] /\ GoTo(u, "removed")
  BY DEF Forget, At
<1>2. call[u].op \in {"destroy", "assign"} /\ n \in Objects
  BY <1>1, FlagAssumption DEF Shape, FlagTypeOK, Idle, Using, Ops, Loser
<1>3. /\ call'[u].op = call[u].op /\ call'[u].on = call[u].on /\ call'[u].to = call[u].to
      /\ call'[u].step = "removed" /\ \A v \in Users \ {u} : call'[v] = call[v]
      /\ call' \in [Users -> CallType]
  BY <1>1, GoToMoves DEF Removing
<1>4. \A o \in Objects : ptr'[o] = IF o = n THEN Null ELSE ptr[o]
  BY <1>1 DEF FlagTypeOK
<1>5. FlagTypeOK'
  BY <1>1, <1>3 DEF FlagTypeOK, CallType
<1>6. Shape'
  BY <1>1, <1>2, <1>3 DEF Shape, Removing
<1>7. Apart'
  BY <1>1, <1>2, <1>3, <1>4, FlagAssumption DEF Apart, Shape, FlagTypeOK
<1>8. \A v \in Users \ {u} : call[v].op \in {"destroy", "assign"} => Loser(v) # n /\ Loser(v) \in Objects
  BY <1>2, LoserIsAlone
<1>9. \A v \in Users \ {u} : call[v].step \in {"use", "store"} => call[v].on # n /\ call[v].on \in Objects
  BY <1>1, <1>2 DEF Apart, Shape, Loser, FlagTypeOK, Idle
<1>10. SeenIsTrue'
  BY <1>1, <1>3, <1>4, <1>8, <1>9 DEF SeenIsTrue, Shape, FlagTypeOK, Loser, Idle, Using, Ops
<1>11. \A o \in Objects : Leaves(o)' <=> Leaves(o)
  BY <1>3 DEF Leaves, Loser
<1>12. GoneIsAlone'
  BY <1>1, <1>4, <1>11 DEF GoneIsAlone
<1>13. Counted'
  <2>1. \A o \in Objects : GivesUp(u, o)' <=> GivesUp(u, o)
    BY <1>1, <1>3 DEF GivesUp, Loser, At
  <2>2. \A o \in Objects : GivenUp(o)' <=> GivenUp(o)
    BY <1>3, <2>1, GivenUpKept
  <2>3. GivenUp(n)
    BY <1>1, <1>2 DEF GivenUp, At
  <2>4. \A f \in Flags : Owners(f)' = Owners(f)
    BY <1>4, <2>2, <2>3, FlagAssumption DEF Owners
  <2>5. \A f \in Flags : Taken(f)' = Taken(f)
    BY <1>1, <1>3 DEF Taken
  <2> QED BY <1>1, <2>4, <2>5, CountedKept DEF FlagTypeOK
<1>14. Leaves(n)
  BY <1>2 DEF Leaves
<1>15. Grouped'
  BY <1>1, <1>2, <1>4, <1>14 DEF Grouped, GoneIsAlone, FlagTypeOK
<1> QED BY <1>5, <1>6, <1>7, <1>10, <1>12, <1>13, <1>15

\* A set or isSet that ends leaves everything as it is.
LEMMA EndsQuietly ==
  ASSUME FlagInv, NEW u \in Users, call[u].op \in {"set", "isSet"}, call[u].step # "store", Return(u),
         UNCHANGED <<alive, ptr, refs, heap>>
  PROVE  Shape' /\ Apart' /\ SeenIsTrue' /\ Counted'
<1> USE DEF FlagInv
<1>1. /\ call'[u] = Idle /\ seen'[u] = Null
      /\ call'[u].op = "none" /\ call'[u].step = "none" /\ call'[u].on = Null /\ call'[u].to = Null
      /\ \A v \in Users \ {u} : call'[v] = call[v] /\ seen'[v] = seen[v]
      /\ call' \in [Users -> CallType] /\ seen' \in [Users -> Flags \cup {Null}]
  BY ReturnEnds
<1>2. Shape'
  BY <1>1 DEF Shape
<1>3. Apart'
  BY <1>1, FlagAssumption DEF Apart, Shape, FlagTypeOK
<1>4. SeenIsTrue'
  BY <1>1 DEF SeenIsTrue, Loser
<1>5. \A o \in Objects : GivesUp(u, o)' <=> GivesUp(u, o)
  BY <1>1 DEF GivesUp
<1>6. \A f \in Flags : Owners(f)' = Owners(f) /\ Taken(f)' = Taken(f)
  BY <1>1, <1>5, OwnersKept
<1>7. Counted'
  BY <1>6, CountedKept DEF FlagTypeOK
<1> QED BY <1>2, <1>3, <1>4, <1>7

LEMMA AskEnds ==
  ASSUME FlagInv, NEW u \in Users, call[u].op = "isSet", Return(u),
         UNCHANGED <<alive, ptr, refs, isSet, heap, group, raised>>
  PROVE  FlagInv'
<1> USE DEF FlagInv
<1>1. /\ call'[u] = Idle /\ call'[u].op = "none"
      /\ \A v \in Users \ {u} : call'[v] = call[v] /\ seen'[v] = seen[v]
      /\ call' \in [Users -> CallType] /\ seen' \in [Users -> Flags \cup {Null}]
  BY ReturnEnds
<1>2. call[u].step # "store"
  BY DEF Shape
<1>3. Shape' /\ Apart' /\ SeenIsTrue' /\ Counted'
  BY <1>2, EndsQuietly
<1>4. FlagTypeOK'
  BY <1>1 DEF FlagTypeOK, CallType
<1>5. GoneIsAlone'
  BY <1>1 DEF GoneIsAlone, Leaves, Loser
<1>6. Grouped'
  BY DEF Grouped
<1> QED BY <1>3, <1>4, <1>5, <1>6

LEMMA RemovedKeeps == ASSUME FlagInv, NEW u \in Users, Removed(u) PROVE FlagInv'
<1> USE DEF FlagInv
<1>1. call[u].step = "removed" /\ UNCHANGED <<refs, isSet, heap, group, raised>>
  BY DEF Removed, At
<1>2. CASE call[u].op = "assign" /\ GoTo(u, "load") /\ UNCHANGED <<alive, ptr, seen>>
  <2>1. /\ call'[u].op = call[u].op /\ call'[u].on = call[u].on /\ call'[u].to = call[u].to
        /\ call'[u].step = "load" /\ \A v \in Users \ {u} : call'[v] = call[v]
        /\ call' \in [Users -> CallType]
    BY <1>2, GoToMoves DEF Using
  <2>2. FlagTypeOK'
    BY <1>1, <1>2, <2>1 DEF FlagTypeOK, CallType
  <2>3. Shape'
    BY <1>1, <1>2, <2>1 DEF Shape, Using
  <2>4. Apart'
    BY <1>1, <1>2, <2>1 DEF Apart
  <2>5. SeenIsTrue'
    BY <1>1, <1>2, <2>1 DEF SeenIsTrue, Loser
  <2>6. GoneIsAlone'
    BY <1>1, <1>2, <2>1 DEF GoneIsAlone, Leaves, Loser
  <2>7. \A o \in Objects : GivesUp(u, o)' <=> GivesUp(u, o)
    BY <1>1, <2>1 DEF GivesUp, Loser, At
  <2>8. \A f \in Flags : Owners(f)' = Owners(f) /\ Taken(f)' = Taken(f)
    BY <1>1, <1>2, <2>1, <2>7, OwnersKept
  <2>9. Counted'
    BY <1>1, <2>8, CountedKept DEF FlagTypeOK
  <2>10. Grouped'
    BY <1>1, <1>2 DEF Grouped
  <2> QED BY <2>2, <2>3, <2>4, <2>5, <2>6, <2>9, <2>10
<1>3. CASE /\ call[u].op = "destroy" /\ alive' = alive \ {call[u].on}
           /\ ptr' = [ptr EXCEPT ![call[u].on] = Null] /\ Return(u)
  <2>0. PICK n \in Objects : n = call[u].on
    BY <1>3 DEF Shape, FlagTypeOK
  <2>1. /\ call'[u] = Idle /\ seen'[u] = Null
        /\ call'[u].op = "none" /\ call'[u].step = "none" /\ call'[u].on = Null /\ call'[u].to = Null
        /\ \A v \in Users \ {u} : call'[v] = call[v] /\ seen'[v] = seen[v]
        /\ call' \in [Users -> CallType] /\ seen' \in [Users -> Flags \cup {Null}]
    BY <1>3, ReturnEnds
  <2>2. \A o \in Objects : ptr'[o] = IF o = n THEN Null ELSE ptr[o]
    BY <1>3, <2>0 DEF FlagTypeOK
  <2>3. FlagTypeOK'
    BY <1>1, <1>3, <2>1 DEF FlagTypeOK, CallType
  <2>4. \A v \in Users \ {u} : call[v].on # n /\ call[v].to # n
    BY <1>3, <2>0 DEF Apart
  <2>5. Shape'
    BY <1>3, <2>0, <2>1, <2>4 DEF Shape
  <2>6. Apart'
    BY <2>1, <2>2, <2>4, FlagAssumption DEF Apart, Shape, FlagTypeOK
  <2>7. SeenIsTrue'
    BY <2>1, <2>2, <2>4 DEF SeenIsTrue, Shape, FlagTypeOK, Loser, Idle, Using, Removing, Ops
  <2>8. Leaves(n) /\ \A o \in Objects : o # n => (Leaves(o)' <=> Leaves(o))
    BY <1>3, <2>0, <2>1 DEF Leaves, Loser
  <2>9. GoneIsAlone'
    BY <1>1, <1>3, <2>0, <2>2, <2>8 DEF GoneIsAlone
  <2>10. Counted'
    <3>1. \A o \in Objects \ {n} : GivesUp(u, o)' <=> GivesUp(u, o)
      BY <1>3, <2>0, <2>1 DEF GivesUp, Loser
    <3>2. \A o \in Objects \ {n} : GivenUp(o)' <=> GivenUp(o)
      BY <2>1, <3>1, GivenUpKept
    <3>3. GivenUp(n)
      BY <1>1, <1>3, <2>0 DEF GivenUp, Loser, At
    <3>4. \A f \in Flags : Owners(f)' = Owners(f)
      BY <2>2, <3>2, <3>3, FlagAssumption DEF Owners
    <3>5. \A f \in Flags : Taken(f)' = Taken(f)
      BY <1>1, <2>1 DEF Taken
    <3> QED BY <1>1, <3>4, <3>5, CountedKept DEF FlagTypeOK
  <2>11. Grouped'
    BY <1>1, <2>2, <2>8 DEF Grouped, GoneIsAlone, FlagTypeOK
  <2> QED BY <2>3, <2>5, <2>6, <2>7, <2>9, <2>10, <2>11
<1> QED BY <1>2, <1>3 DEF Removed

LEMMA LoadKeeps == ASSUME FlagInv, NEW u \in Users, Load(u) PROVE FlagInv'
<1> USE DEF FlagInv
<1>0. /\ call[u].step = "load" /\ UNCHANGED <<alive, ptr, refs, isSet, heap, group, raised>>
      /\ call[u].op \in {"isSet", "set", "copy", "assign"}
  BY DEF Load, At, Shape, FlagTypeOK, Idle, Removing, Ops
<1>1. CASE call[u].op = "isSet" /\ Return(u)
  BY <1>0, <1>1, AskEnds
<1>2. CASE /\ call[u].op # "isSet" \/ ptr[call[u].on] # Null
           /\ seen' = [seen EXCEPT ![u] = ptr[call[u].on]]
           /\ GoTo(u, IF ptr[call[u].on] = Null THEN "create" ELSE "use")
  <2> DEFINE s == IF ptr[call[u].on] = Null THEN "create" ELSE "use"
  <2>1. /\ call'[u].op = call[u].op /\ call'[u].on = call[u].on /\ call'[u].to = call[u].to
        /\ call'[u].step = s /\ \A v \in Users \ {u} : call'[v] = call[v]
        /\ call' \in [Users -> CallType]
    BY <1>2, GoToMoves DEF Using
  <2>2. call[u].on \in Objects /\ ptr[call[u].on] \in Flags \cup {Null}
    BY <1>0 DEF Shape, FlagTypeOK
  <2>3. /\ seen'[u] = ptr[call[u].on] /\ \A v \in Users \ {u} : seen'[v] = seen[v]
        /\ seen' \in [Users -> Flags \cup {Null}]
    BY <1>2, <2>2 DEF FlagTypeOK
  <2>4. FlagTypeOK'
    BY <1>0, <2>1, <2>3 DEF FlagTypeOK, CallType
  <2>5. Shape'
    BY <1>0, <1>2, <2>1 DEF Shape, Using
  <2>6. Apart'
    BY <1>0, <1>2, <2>1 DEF Apart
  <2>7. SeenIsTrue'
    BY <1>0, <2>1, <2>2, <2>3 DEF SeenIsTrue, Loser
  <2>8. GoneIsAlone'
    BY <1>0, <2>1 DEF GoneIsAlone, Leaves, Loser
  <2>9. \A o \in Objects : GivesUp(u, o)' <=> GivesUp(u, o)
    BY <1>0, <2>1 DEF GivesUp, Loser, At
  <2>10. \A f \in Flags : Owners(f)' = Owners(f) /\ Taken(f)' = Taken(f)
    BY <1>0, <2>1, <2>3, <2>9, OwnersKept
  <2>11. Counted'
    BY <1>0, <2>10, CountedKept DEF FlagTypeOK
  <2>12. Grouped'
    BY <1>0 DEF Grouped
  <2> QED BY <2>4, <2>5, <2>6, <2>7, <2>8, <2>11, <2>12
<1> QED BY <1>1, <1>2 DEF Load

LEMMA GetBitKeeps == ASSUME FlagInv, NEW u \in Users, GetBit(u) PROVE FlagInv'
<1>1. /\ call[u].op = "isSet" /\ Return(u)
      /\ UNCHANGED <<alive, ptr, refs, isSet, heap, group, raised>>
  BY DEF GetBit
<1> QED BY <1>1, AskEnds

LEMMA SetBitKeeps == ASSUME FlagInv, NEW u \in Users, SetBit(u) PROVE FlagInv'
<1> USE DEF FlagInv
<1>0. PICK f \in Flags, o \in Objects : f = seen[u] /\ o = call[u].on /\ f = ptr[o] /\ o \in alive
  BY DEF SetBit, At, SeenIsTrue, Shape, FlagTypeOK
<1>1. /\ call[u].op = "set" /\ call[u].step = "use" /\ Return(u)
      /\ UNCHANGED <<alive, ptr, refs, heap, group>>
      /\ isSet' = [isSet EXCEPT ![f] = TRUE] /\ raised' = raised \cup group[o]
  BY <1>0 DEF SetBit, At
<1>2. /\ call'[u] = Idle /\ seen'[u] = Null
      /\ call'[u].op = "none" /\ call'[u].step = "none" /\ call'[u].on = Null /\ call'[u].to = Null
      /\ \A v \in Users \ {u} : call'[v] = call[v] /\ seen'[v] = seen[v]
      /\ call' \in [Users -> CallType] /\ seen' \in [Users -> Flags \cup {Null}]
  BY <1>1, ReturnEnds
<1>3. isSet' \in [Flags -> BOOLEAN] /\ isSet'[f] /\ \A g \in Flags : isSet[g] => isSet'[g]
  BY <1>1 DEF FlagTypeOK
<1>4. FlagTypeOK'
  BY <1>1, <1>2, <1>3 DEF FlagTypeOK, CallType
<1>5. Shape' /\ Apart' /\ SeenIsTrue' /\ Counted'
  BY <1>1, <1>2, EndsQuietly
<1>6. \A x \in Objects : Leaves(x)' <=> Leaves(x)
  BY <1>1, <1>2 DEF Leaves, Loser
<1>7. GoneIsAlone'
  BY <1>1, <1>6 DEF GoneIsAlone
<1>8. Grouped'
  <2>1. \A x \in group[o] : x \in Objects /\ ptr[x] = f
    BY <1>0 DEF Grouped, FlagTypeOK
  <2>2. \A x \in raised : x \in Objects /\ ptr[x] \in Flags /\ isSet[ptr[x]]
    BY DEF Grouped, FlagTypeOK
  <2>3. \A x \in raised' : ptr'[x] # Null /\ isSet'[ptr'[x]]
    BY <1>1, <1>3, <2>1, <2>2, FlagAssumption
  <2> QED BY <1>1, <2>3 DEF Grouped
<1> QED BY <1>4, <1>5, <1>7, <1>8

LEMMA CreateKeeps == ASSUME FlagInv, NEW u \in Users, Create(u) PROVE FlagInv'
<1> USE DEF FlagInv
<1>1. /\ call[u].step = "create" /\ GoTo(u, "use") /\ UNCHANGED <<alive, group, raised>>
  BY DEF Create, At
<1>2. call[u].op \in {"set", "copy", "assign"}
  BY <1>1 DEF Shape, FlagTypeOK, Idle, Removing, Ops
<1>3. PICK o \in Objects : o = call[u].on /\ o \in alive /\ ~Leaves(o) /\ ~GivenUp(o)
  BY <1>2, UsedIsKept DEF FlagTypeOK
<1>4. /\ call'[u].op = call[u].op /\ call'[u].on = call[u].on /\ call'[u].to = call[u].to
      /\ call'[u].step = "use" /\ \A v \in Users \ {u} : call'[v] = call[v]
      /\ call' \in [Users -> CallType]
  BY <1>1, GoToMoves DEF Using
<1>5. Shape'
  BY <1>1, <1>2, <1>4 DEF Shape, Using
<1>6. \A x \in Objects : /\ GivesUp(u, x)' <=> GivesUp(u, x)
                         /\ GivenUp(x)' <=> GivenUp(x)
                         /\ Leaves(x)' <=> Leaves(x)
  <2>1. \A x \in Objects : GivesUp(u, x)' <=> GivesUp(u, x)
    BY <1>1, <1>4 DEF GivesUp, Loser, At
  <2>2. \A x \in Objects : GivenUp(x)' <=> GivenUp(x)
    BY <1>4, <2>1, GivenUpKept
  <2>3. \A x \in Objects : Leaves(x)' <=> Leaves(x)
    BY <1>4 DEF Leaves, Loser
  <2> QED BY <2>1, <2>2, <2>3
<1>7. CASE /\ ptr[o] # Null /\ seen' = [seen EXCEPT ![u] = ptr[o]]
           /\ UNCHANGED <<heap, refs, isSet, ptr>>
  <2>1. /\ seen'[u] = ptr[o] /\ ptr[o] \in Flags /\ \A v \in Users \ {u} : seen'[v] = seen[v]
        /\ seen' \in [Users -> Flags \cup {Null}]
    BY <1>7 DEF FlagTypeOK
  <2>2. FlagTypeOK'
    BY <1>1, <1>4, <1>7, <2>1 DEF FlagTypeOK, CallType
  <2>3. Apart'
    BY <1>2, <1>4, <1>7 DEF Apart
  <2>4. SeenIsTrue'
    BY <1>3, <1>4, <1>7, <2>1 DEF SeenIsTrue, Loser
  <2>5. GoneIsAlone'
    BY <1>1, <1>6, <1>7 DEF GoneIsAlone
  <2>6. \A f \in Flags : Owners(f)' = Owners(f) /\ Taken(f)' = Taken(f)
    BY <1>1, <1>4, <1>6, <1>7, <2>1, OwnersKept
  <2>7. Counted'
    BY <1>7, <2>6, CountedKept DEF FlagTypeOK
  <2>8. Grouped'
    BY <1>1, <1>7 DEF Grouped
  <2> QED BY <1>5, <2>2, <2>3, <2>4, <2>5, <2>7, <2>8
<1>8. CASE ptr[o] = Null /\ Install(u)
  <2>0. PICK f \in Flags : f = NewFlag /\ f \notin heap
    BY <1>8 DEF Install, NewFlag
  <2>1. /\ heap' = heap \cup {f} /\ refs' = [refs EXCEPT ![f] = 1]
        /\ isSet' = [isSet EXCEPT ![f] = FALSE]
        /\ ptr' = [ptr EXCEPT ![o] = f] /\ seen' = [seen EXCEPT ![u] = f]
    BY <1>3, <1>8, <2>0 DEF Install
  <2>2. /\ \A x \in Objects : ptr'[x] = IF x = o THEN f ELSE ptr[x]
        /\ seen'[u] = f /\ \A v \in Users \ {u} : seen'[v] = seen[v]
        /\ refs'[f] = 1 /\ \A g \in Flags \ {f} : refs'[g] = refs[g] /\ isSet'[g] = isSet[g]
    BY <2>1 DEF FlagTypeOK
  <2>3. FlagTypeOK'
    BY <1>1, <1>4, <2>1 DEF FlagTypeOK, CallType
  <2>4. \A v \in Users \ {u} : /\ call[v].op = "assign" => call[v].to # o
                               /\ call[v].op = "destroy" => call[v].on # o
    BY <1>2, <1>3 DEF Apart
  <2>5. call[u].op = "assign" => call[u].to # o
    BY <1>3 DEF Shape
  <2>6. Apart'
    BY <1>2, <1>4, <2>2, <2>4, <2>5, FlagAssumption DEF Apart, Shape, FlagTypeOK
  <2>7. \A v \in Users \ {u} : call[v].step \in {"use", "store"} => call[v].on # o
    BY <1>8, FlagAssumption DEF SeenIsTrue
  <2>8. SeenIsTrue'
    BY <1>2, <1>3, <1>4, <2>0, <2>2, <2>4, <2>7
       DEF SeenIsTrue, Shape, FlagTypeOK, Loser, Idle, Using, Ops
  <2>9. GoneIsAlone'
    BY <1>1, <1>3, <1>6, <2>2 DEF GoneIsAlone
  <2>10. Owners(f) = {} /\ Taken(f) = {}
    BY <2>0 DEF Counted
  <2>11. Owners(f)' = {o}
    BY <1>3, <1>6, <2>2, <2>10 DEF Owners
  <2>12. \A g \in Flags \ {f} : Owners(g)' = Owners(g)
    BY <1>6, <1>8, <2>2, FlagAssumption DEF Owners
  <2>13. \A g \in Flags : Taken(g)' = Taken(g)
    BY <1>1, <1>4, <2>2 DEF Taken
  <2>14. Counted'
    <3>1. \A g \in Flags \ heap' : Owners(g)' = {} /\ Taken(g)' = {}
      BY <2>0, <2>1, <2>12, <2>13 DEF Counted
    <3>2. ASSUME NEW g \in heap'
          PROVE /\ Owners(g)' # {} \/ Taken(g)' # {}
                /\ refs'[g] = Cardinality(Owners(g)') + Cardinality(Taken(g)')
      <4>1. CASE g = f
        <5>1. Cardinality(Owners(f)') = 1 /\ Cardinality(Taken(f)') = 0
          BY <2>10, <2>11, <2>13, FS_EmptySet, FS_Singleton
        <5> QED BY <2>2, <2>11, <4>1, <5>1
      <4>2. CASE g # f
        <5>1. g \in heap /\ g \in Flags \ {f}
          BY <2>1, <3>2, <4>2 DEF FlagTypeOK
        <5>2. Owners(g)' = Owners(g) /\ Taken(g)' = Taken(g) /\ refs'[g] = refs[g]
          BY <2>2, <2>12, <2>13, <5>1
        <5> QED BY <5>1, <5>2 DEF Counted
      <4> QED BY <4>1, <4>2
    <3> QED BY <3>1, <3>2 DEF Counted
  <2>15. Grouped'
    <3>1. ASSUME NEW y \in Objects, NEW x \in group[y] \ {y}
          PROVE ptr'[x] = ptr'[y] /\ ptr'[y] # Null
      <4>1. x \in Objects /\ ptr[x] = ptr[y] /\ ptr[y] # Null
        BY <3>1 DEF Grouped, FlagTypeOK
      <4>2. x # o /\ y # o
        BY <1>8, <4>1
      <4> QED BY <2>2, <4>1, <4>2
    <3>2. ASSUME NEW x \in raised PROVE ptr'[x] # Null /\ isSet'[ptr'[x]]
      <4>1. x \in Objects /\ ptr[x] \in Flags /\ isSet[ptr[x]] /\ ptr[x] # Null
        BY <3>2 DEF Grouped, FlagTypeOK
      <4>2. x # o
        BY <1>8, <4>1
      <4>3. ~GivenUp(x)
        BY <3>2, <4>1 DEF GoneIsAlone, Leaves, GivenUp
      <4>4. ptr[x] # f
        BY <2>10, <4>1, <4>3 DEF Owners
      <4> QED BY <2>2, <4>1, <4>2, <4>4
    <3> QED BY <1>1, <3>1, <3>2 DEF Grouped
  <2> QED BY <1>5, <2>3, <2>6, <2>8, <2>9, <2>14, <2>15
<1> QED BY <1>3, <1>7, <1>8 DEF Create

LEMMA AddRefKeeps == ASSUME FlagInv, NEW u \in Users, AddRef(u) PROVE FlagInv'
<1> USE DEF FlagInv
<1>0. PICK f \in Flags : f = seen[u] /\ f = ptr[call[u].on]
  BY DEF AddRef, At, SeenIsTrue
<1>1. /\ call[u].step = "use" /\ call[u].op \in {"copy", "assign"} /\ GoTo(u, "store")
      /\ UNCHANGED <<alive, ptr, isSet, heap, seen, group, raised>>
      /\ refs' = [refs EXCEPT ![f] = @ + 1]
  BY <1>0 DEF AddRef, At
<1>2. f \in heap
  BY <1>0, <1>1, SeenIsThere
<1>3. /\ call'[u].op = call[u].op /\ call'[u].on = call[u].on /\ call'[u].to = call[u].to
      /\ call'[u].step = "store" /\ \A v \in Users \ {u} : call'[v] = call[v]
      /\ call' \in [Users -> CallType]
  BY <1>1, GoToMoves DEF Using
<1>4. refs'[f] = refs[f] + 1 /\ \A g \in Flags \ {f} : refs'[g] = refs[g]
  BY <1>1 DEF FlagTypeOK
<1>5. FlagTypeOK'
  BY <1>1, <1>3 DEF FlagTypeOK, CallType
<1>6. Shape'
  BY <1>1, <1>3 DEF Shape, Using
<1>7. Apart'
  BY <1>1, <1>3 DEF Apart
<1>8. SeenIsTrue'
  BY <1>0, <1>1, <1>3 DEF SeenIsTrue, Loser
<1>9. GoneIsAlone'
  BY <1>1, <1>3 DEF GoneIsAlone, Leaves, Loser
<1>10. \A x \in Objects : GivesUp(u, x)' <=> GivesUp(u, x)
  BY <1>1, <1>3 DEF GivesUp, Loser, At
<1>11. \A g \in Flags : Owners(g)' = Owners(g)
  <2>1. \A x \in Objects : GivenUp(x)' <=> GivenUp(x)
    BY <1>3, <1>10, GivenUpKept
  <2> QED BY <1>1, <2>1 DEF Owners
<1>12. Taken(f)' = Taken(f) \cup {u} /\ u \notin Taken(f)
  BY <1>0, <1>1, <1>3 DEF Taken
<1>13. \A g \in Flags \ {f} : Taken(g)' = Taken(g)
  BY <1>0, <1>1, <1>3 DEF Taken
<1>14. Counted'
  <2>1. \A g \in Flags \ heap' : Owners(g)' = {} /\ Taken(g)' = {}
    BY <1>1, <1>2, <1>11, <1>13 DEF Counted
  <2>2. ASSUME NEW g \in heap'
        PROVE /\ Owners(g)' # {} \/ Taken(g)' # {}
              /\ refs'[g] = Cardinality(Owners(g)') + Cardinality(Taken(g)')
    <3>1. CASE g = f
      <4>1. Cardinality(Taken(f)') = Cardinality(Taken(f)) + 1
        BY <1>12, CountsAreNumbers, FS_AddElement
      <4>2. Cardinality(Owners(f)') = Cardinality(Owners(f))
        BY <1>11
      <4>3. Cardinality(Owners(f)) \in Nat /\ Cardinality(Taken(f)) \in Nat
        BY CountsAreNumbers
      <4>4. refs[f] = Cardinality(Owners(f)) + Cardinality(Taken(f))
        BY <1>2 DEF Counted
      <4>5. refs'[f] = Cardinality(Owners(f)') + Cardinality(Taken(f)')
        BY <1>4, <4>1, <4>2, <4>3, <4>4
      <4> QED BY <1>12, <3>1, <4>5
    <3>2. CASE g # f
      <4>1. g \in heap /\ g \in Flags \ {f}
        BY <1>1, <2>2, <3>2 DEF FlagTypeOK
      <4>2. Owners(g)' = Owners(g) /\ Taken(g)' = Taken(g) /\ refs'[g] = refs[g]
        BY <1>4, <1>11, <1>13, <4>1
      <4> QED BY <4>1, <4>2 DEF Counted
    <3> QED BY <3>1, <3>2
  <2> QED BY <2>1, <2>2 DEF Counted
<1>15. Grouped'
  BY <1>1 DEF Grouped
<1> QED BY <1>5, <1>6, <1>7, <1>8, <1>9, <1>14, <1>15

\* The reference that was taken becomes that of the object; the count stays.
LEMMA StoreRefKeeps == ASSUME FlagInv, NEW u \in Users, StoreRef(u) PROVE FlagInv'
<1> USE DEF FlagInv
<1>1. call[u].step = "store" /\ call[u].op \in {"copy", "assign"}
  BY DEF StoreRef, At, Shape, FlagTypeOK, Idle, Removing, Ops
<1>2. PICK f \in Flags, o \in Objects, n \in Objects :
        f = seen[u] /\ o = call[u].on /\ n = call[u].to /\ f = ptr[o] /\ n # o
  BY <1>1 DEF SeenIsTrue, Shape, FlagTypeOK
<1>3. o \in alive /\ ~Leaves(o) /\ ~GivenUp(o)
  BY <1>1, <1>2, UsedIsKept
<1>4. f \in heap
  BY <1>1, <1>2, SeenIsThere
<1>5. /\ ptr' = [ptr EXCEPT ![n] = f] /\ alive' = alive \cup {n} /\ Return(u)
      /\ raised' = IF o \in raised THEN raised \cup {n} ELSE raised
      /\ UNCHANGED <<refs, isSet, heap>>
      /\ group' = [x \in Objects |-> IF x = n \/ x \in group[o] THEN group[o] \cup {n} ELSE group[x]]
  BY <1>2 DEF StoreRef
<1>6. /\ call'[u] = Idle /\ seen'[u] = Null
      /\ call'[u].op = "none" /\ call'[u].step = "none" /\ call'[u].on = Null /\ call'[u].to = Null
      /\ \A v \in Users \ {u} : call'[v] = call[v] /\ seen'[v] = seen[v]
      /\ call' \in [Users -> CallType] /\ seen' \in [Users -> Flags \cup {Null}]
  BY <1>5, ReturnEnds
<1>7. \A x \in Objects : ptr'[x] = IF x = n THEN f ELSE ptr[x]
  BY <1>5 DEF FlagTypeOK
<1>8. \A x \in Objects :
        group'[x] = IF x = n \/ x \in group[o] THEN group[o] \cup {n} ELSE group[x]
  BY <1>5
<1>9. FlagTypeOK'
  BY <1>5, <1>6, <1>8 DEF FlagTypeOK, CallType
\* Nobody else has n for its own, or looks at what it points to.
<1>10. \A v \in Users \ {u} :
         /\ call[v].to # n /\ (call[v].op = "destroy" => call[v].on # n)
         /\ call[v].on = n => call[v].step = "load"
  BY <1>1, <1>2, FlagAssumption DEF Apart, Shape, FlagTypeOK, Idle
<1>11. Shape'
  BY <1>5, <1>6, <1>10 DEF Shape
<1>12. Apart'
  BY <1>6, <1>7, <1>10, FlagAssumption DEF Apart, Shape, FlagTypeOK
<1>13. SeenIsTrue'
  BY <1>6, <1>7, <1>10 DEF SeenIsTrue, Shape, FlagTypeOK, Loser, Idle, Using, Ops
<1>14. \A x \in Objects \ {n} : Leaves(x)' <=> Leaves(x)
  BY <1>1, <1>2, <1>6 DEF Leaves, Loser
<1>15. ~Leaves(n)' /\ ~GivenUp(n)'
  BY <1>6, <1>10 DEF Leaves, GivenUp, Loser, At
<1>16. n \notin alive \/ Leaves(n)
  BY <1>1, <1>2 DEF Leaves, Loser, Shape
<1>17. n \notin group[o] /\ n \notin raised /\ \A x \in Objects : n \notin group[x]
  BY <1>16 DEF GoneIsAlone
<1>18. GoneIsAlone'
  <2> SUFFICES ASSUME NEW x \in Objects, x \notin alive' \/ Leaves(x)'
               PROVE  /\ x \notin alive' => ptr'[x] = Null
                      /\ group'[x] = {} /\ x \notin raised' /\ \A y \in Objects : x \notin group'[y]
    BY DEF GoneIsAlone
  <2>1. x # n
    BY <1>5, <1>15
  <2>2. /\ x \notin alive \/ Leaves(x)
        /\ x \notin alive' => x \notin alive
    BY <1>5, <1>14, <2>1
  <2>3. group[x] = {} /\ x \notin raised /\ \A y \in Objects : x \notin group[y]
    BY <2>2 DEF GoneIsAlone
  <2> QED BY <1>5, <1>7, <1>8, <2>1, <2>2, <2>3 DEF GoneIsAlone
<1>19. \A x \in Objects \ {n} : GivenUp(x)' <=> GivenUp(x)
  <2>1. \A x \in Objects \ {n} : GivesUp(u, x)' <=> GivesUp(u, x)
    BY <1>1, <1>2, <1>6 DEF GivesUp, Loser
  <2> QED BY <1>6, <2>1, GivenUpKept
<1>20. ptr[n] = Null \/ GivenUp(n)
  BY <1>1, <1>2 DEF GoneIsAlone, Shape, GivenUp, Loser, At
<1>21. Owners(f)' = Owners(f) \cup {n} /\ n \notin Owners(f)
  BY <1>7, <1>15, <1>19, <1>20, FlagAssumption DEF Owners
<1>22. \A g \in Flags \ {f} : Owners(g)' = Owners(g)
  BY <1>7, <1>19, <1>20, FlagAssumption DEF Owners
<1>23. Taken(f)' = Taken(f) \ {u} /\ u \in Taken(f)
  BY <1>1, <1>2, <1>6 DEF Taken
<1>24. \A g \in Flags \ {f} : Taken(g)' = Taken(g)
  BY <1>1, <1>2, <1>6 DEF Taken
<1>25. Counted'
  <2>1. \A g \in Flags \ heap' : Owners(g)' = {} /\ Taken(g)' = {}
    BY <1>4, <1>5, <1>22, <1>24 DEF Counted
  <2>2. ASSUME NEW g \in heap'
        PROVE /\ Owners(g)' # {} \/ Taken(g)' # {}
              /\ refs'[g] = Cardinality(Owners(g)') + Cardinality(Taken(g)')
    <3>1. CASE g = f
      <4>1. Cardinality(Owners(f)') = Cardinality(Owners(f)) + 1
        BY <1>21, CountsAreNumbers, FS_AddElement
      <4>2. Cardinality(Taken(f)') = Cardinality(Taken(f)) - 1
        BY <1>23, CountsAreNumbers, FS_RemoveElement
      <4>3. Cardinality(Owners(f)) \in Nat /\ Cardinality(Taken(f)) \in Nat
        BY CountsAreNumbers
      <4>4. refs'[f] = Cardinality(Owners(f)) + Cardinality(Taken(f))
        BY <1>4, <1>5 DEF Counted
      <4>5. refs'[f] = Cardinality(Owners(f)') + Cardinality(Taken(f)')
        BY <4>1, <4>2, <4>3, <4>4
      <4> QED BY <1>21, <3>1, <4>5
    <3>2. CASE g # f
      <4>1. g \in heap /\ g \in Flags \ {f}
        BY <1>5, <2>2, <3>2 DEF FlagTypeOK
      <4>2. Owners(g)' = Owners(g) /\ Taken(g)' = Taken(g) /\ refs'[g] = refs[g]
        BY <1>5, <1>22, <1>24, <4>1
      <4> QED BY <4>1, <4>2 DEF Counted
    <3> QED BY <3>1, <3>2
  <2> QED BY <2>1, <2>2 DEF Counted
<1>26. Grouped'
  <2>1. \A x \in group[o] : x \in Objects /\ x # n /\ ptr'[x] = f
    BY <1>2, <1>7, <1>17 DEF Grouped, FlagTypeOK
  <2>2. ASSUME NEW y \in Objects, NEW x \in group'[y] \ {y}
        PROVE ptr'[x] = ptr'[y] /\ ptr'[y] # Null
    <3>1. CASE y = n \/ y \in group[o]
      <4>1. x \in group[o] \/ x = n
        BY <1>8, <2>2, <3>1
      <4> QED BY <1>2, <1>7, <2>1, <3>1, <4>1, FlagAssumption
    <3>2. CASE ~(y = n \/ y \in group[o])
      <4>1. x \in group[y] \ {y} /\ x \in Objects
        BY <1>8, <2>2, <3>2 DEF FlagTypeOK
      <4>2. x # n /\ y # n
        BY <1>17, <3>2, <4>1
      <4> QED BY <1>7, <4>1, <4>2 DEF Grouped
    <3> QED BY <3>1, <3>2
  <2>3. ASSUME NEW x \in raised' PROVE ptr'[x] # Null /\ isSet'[ptr'[x]]
    <3>1. x \in Objects
      BY <1>9, <2>3 DEF FlagTypeOK
    <3>2. CASE x = n
      <4>1. o \in raised
        BY <1>5, <1>17, <2>3, <3>2
      <4> QED BY <1>2, <1>5, <1>7, <3>2, <4>1, FlagAssumption DEF Grouped
    <3>3. CASE x # n
      BY <1>5, <1>7, <2>3, <3>1, <3>3 DEF Grouped
    <3> QED BY <3>2, <3>3
  <2> QED BY <2>2, <2>3 DEF Grouped
<1> QED BY <1>9, <1>11, <1>12, <1>13, <1>18, <1>25, <1>26

-----------------------------------------------------------------------------
LEMMA InitEstablishesFlagInv == FlagInit => FlagInv
<1> SUFFICES ASSUME FlagInit PROVE FlagInv
  OBVIOUS
<1> USE DEF FlagInit
<1>1. FlagTypeOK
  BY DEF FlagTypeOK, Idle
<1>2. Shape /\ Apart /\ SeenIsTrue
  BY DEF Shape, Apart, SeenIsTrue, Idle
<1>3. GoneIsAlone /\ Grouped
  BY DEF GoneIsAlone, Grouped
<1>4. Counted
  BY FlagAssumption DEF Counted, Owners, Taken, Idle
<1> QED BY <1>1, <1>2, <1>3, <1>4 DEF FlagInv

LEMMA NextKeepsFlagInv == FlagInv /\ [FlagNext]_flagVars => FlagInv'
<1> SUFFICES ASSUME FlagInv, [FlagNext]_flagVars PROVE FlagInv'
  OBVIOUS
<1>1. ASSUME NEW o \in Objects, Construct(o) PROVE FlagInv'
  BY <1>1, ConstructKeeps
<1>2. ASSUME NEW u \in Users, NEW o \in Objects,
             \/ Ask(u, o) \/ Set(u, o) \/ Destroy(u, o)
             \/ \E n \in Objects : Copy(u, o, n) \/ Assign(u, o, n)
      PROVE FlagInv'
  BY <1>2, AskKeeps, SetKeeps, DestroyKeeps, CopyKeeps, AssignKeeps
<1>3. ASSUME NEW u \in Users, Remove(u) PROVE FlagInv'
  BY <1>3, LoadToRemoveKeeps, SubtractKeeps, ForgetKeeps, RemovedKeeps DEF Remove
<1>4. ASSUME NEW u \in Users, Use(u) PROVE FlagInv'
  BY <1>4, LoadKeeps, CreateKeeps, SetBitKeeps, GetBitKeeps, AddRefKeeps, StoreRefKeeps DEF Use
<1>5. CASE UNCHANGED flagVars
  <2> USE <1>5 DEF flagVars, FlagInv
  <2>1. FlagTypeOK' /\ Shape' /\ Apart'
    BY DEF FlagTypeOK, Shape, Apart
  <2>2. SeenIsTrue' /\ GoneIsAlone' /\ Grouped'
    BY DEF SeenIsTrue, GoneIsAlone, Grouped, Leaves, Loser
  <2>3. \A f \in Flags : Owners(f)' = Owners(f) /\ Taken(f)' = Taken(f)
    BY DEF Owners, Taken, GivenUp, Loser, At
  <2>4. Counted'
    BY <2>3, CountedKept DEF FlagTypeOK
  <2> QED BY <2>1, <2>2, <2>4
<1> QED BY <1>1, <1>2, <1>3, <1>4, <1>5 DEF FlagNext

LEMMA FlagInvSuffices == FlagInv => FlagLivesAsLongAsItsOwners
<1> SUFFICES ASSUME FlagInv PROVE FlagLivesAsLongAsItsOwners
  OBVIOUS
<1>1. \A f \in Flags : f \in heap <=> Owners(f) # {} \/ Taken(f) # {}
  BY DEF FlagInv, Counted
<1>2. \A f \in Flags : f \in heap => refs[f] = Cardinality(Owners(f)) + Cardinality(Taken(f))
  BY DEF FlagInv, Counted
<1>3. \A u \in Users : call[u].step \in {"use", "sub"} => seen[u] \in heap
  BY SeenIsThere
<1> QED BY <1>1, <1>2, <1>3 DEF FlagInv, Grouped, FlagLivesAsLongAsItsOwners

\* For any number of objects, flags and threads: no flag is freed while an object
\* or a call under way counts on it, none is left over, nobody touches one that is
\* freed, and the objects copied from each other share one (ts-shared-flag.h).
THEOREM FlagHasItsOwners == FlagSpec => []FlagLivesAsLongAsItsOwners
<1>1. FlagSpec => []FlagInv
  BY InitEstablishesFlagInv, NextKeepsFlagInv, PTL DEF FlagSpec
<1> QED BY <1>1, FlagInvSuffices, PTL
-----------------------------------------------------------------------------
\* The works of contexts go through a strand, whatever the origin executor.

\* The history variable and the threads agree on which work is running.
RunningIsCurrent ==
  /\ \A t \in Threads : pc[t] = "run" => cur[t] \in Works /\ status[cur[t]] = "running"
  /\ \A w \in Works : status[w] = "running" => \E t \in Threads : pc[t] = "run" /\ cur[t] = w

\* IdleIsToken is what makes Sequential inductive: a second job is refused
\* because m_idle stays FALSE for as long as the first one exists.
StrandInv == StrandTypeOK /\ IdleIsToken /\ RunningIsCurrent

LEMMA StrandInitEstablishes == StrandInit => StrandInv
<1> SUFFICES ASSUME StrandInit PROVE StrandInv
  OBVIOUS
<1> USE DEF StrandInit
<1>1. StrandTypeOK
  <2>1. idle \in BOOLEAN /\ destroyed \in BOOLEAN
    BY Zenon
  <2> QED BY <2>1 DEF StrandTypeOK
<1>2. IdleIsToken
  BY DEF IdleIsToken, Busy
<1>3. RunningIsCurrent
  BY DEF RunningIsCurrent
<1> QED BY <1>1, <1>2, <1>3 DEF StrandInv

LEMMA StrandNextPreservesTypeOK == StrandInv /\ [StrandNext]_strandVars => StrandTypeOK'
<1> SUFFICES ASSUME StrandInv, [StrandNext]_strandVars PROVE StrandTypeOK'
  OBVIOUS
<1> USE DEF StrandInv, StrandTypeOK
<1>1. ASSUME NEW w \in Works, Exec(w) PROVE StrandTypeOK'
  <2>1. idle => jobs = 0
    BY DEF IdleIsToken
  <2>2. jobs' \in {0, 1}
    BY <1>1, <2>1 DEF Exec
  <2>3. idle' \in BOOLEAN
    BY <1>1, Zenon DEF Exec
  <2> QED BY <1>1, <2>2, <2>3 DEF Exec
<1>2. ASSUME Clear PROVE StrandTypeOK'
  BY <1>2 DEF Clear
<1>3. ASSUME NEW t \in Threads, StartJob(t) PROVE StrandTypeOK'
  BY <1>3 DEF StartJob
<1>4. ASSUME NEW t \in Threads, FindNothing(t) PROVE StrandTypeOK'
  BY <1>4 DEF FindNothing
<1>5. ASSUME NEW t \in Threads, TakeWork(t) PROVE StrandTypeOK'
  <2>1. Head(queue) \in Works /\ Tail(queue) \in Seq(Works)
    BY <1>5 DEF TakeWork
  <2> QED BY <1>5, <2>1 DEF TakeWork
<1>6. ASSUME NEW t \in Threads, FinishWork(t) PROVE StrandTypeOK'
  BY <1>6 DEF FinishWork
<1>7. ASSUME NEW t \in Threads, ScheduleNextWork(t) PROVE StrandTypeOK'
  <2>1. jobs = 0
    BY <1>7 DEF ScheduleNextWork, IdleIsToken, Busy
  <2>2. jobs' \in {0, 1}
    BY <1>7, <2>1 DEF ScheduleNextWork
  <2>3. idle' \in BOOLEAN
    BY <1>7, Zenon DEF ScheduleNextWork
  <2> QED BY <1>7, <2>2, <2>3 DEF ScheduleNextWork
<1>8. CASE UNCHANGED strandVars
  BY <1>8 DEF strandVars
<1> QED
  BY <1>1, <1>2, <1>3, <1>4, <1>5, <1>6, <1>7, <1>8 DEF StrandNext, JobStep, Quiescent

LEMMA NextPreservesIdleIsToken == StrandInv /\ [StrandNext]_strandVars => IdleIsToken'
<1> SUFFICES ASSUME StrandInv, [StrandNext]_strandVars PROVE IdleIsToken'
  OBVIOUS
<1> USE DEF StrandInv, StrandTypeOK, IdleIsToken, Busy
<1>1. ASSUME NEW w \in Works, Exec(w) PROVE IdleIsToken'
  BY <1>1 DEF Exec
<1>2. ASSUME Clear PROVE IdleIsToken'
  BY <1>2 DEF Clear
<1>3. ASSUME NEW t \in Threads, StartJob(t) PROVE IdleIsToken'
  BY <1>3 DEF StartJob
<1>4. ASSUME NEW t \in Threads, FindNothing(t) PROVE IdleIsToken'
  BY <1>4 DEF FindNothing
<1>5. ASSUME NEW t \in Threads, TakeWork(t) PROVE IdleIsToken'
  BY <1>5 DEF TakeWork
<1>6. ASSUME NEW t \in Threads, FinishWork(t) PROVE IdleIsToken'
  BY <1>6 DEF FinishWork
<1>7. ASSUME NEW t \in Threads, ScheduleNextWork(t) PROVE IdleIsToken'
  BY <1>7 DEF ScheduleNextWork
<1>8. CASE UNCHANGED strandVars
  BY <1>8 DEF strandVars
<1> QED
  BY <1>1, <1>2, <1>3, <1>4, <1>5, <1>6, <1>7, <1>8 DEF StrandNext, JobStep, Quiescent

LEMMA NextPreservesRunningIsCurrent == StrandInv /\ [StrandNext]_strandVars => RunningIsCurrent'
<1> SUFFICES ASSUME StrandInv, [StrandNext]_strandVars PROVE RunningIsCurrent'
  OBVIOUS
<1> USE DEF StrandInv, StrandTypeOK, RunningIsCurrent
<1>1. ASSUME NEW w \in Works, Exec(w) PROVE RunningIsCurrent'
  BY <1>1 DEF Exec
<1>2. ASSUME Clear PROVE RunningIsCurrent'
  BY <1>2 DEF Clear
<1>3. ASSUME NEW t \in Threads, StartJob(t) PROVE RunningIsCurrent'
  BY <1>3 DEF StartJob
<1>4. ASSUME NEW t \in Threads, FindNothing(t) PROVE RunningIsCurrent'
  BY <1>4 DEF FindNothing
<1>5. ASSUME NEW t \in Threads, TakeWork(t) PROVE RunningIsCurrent'
  BY <1>5 DEF TakeWork
<1>6. ASSUME NEW t \in Threads, FinishWork(t) PROVE RunningIsCurrent'
  BY <1>6 DEF FinishWork, IdleIsToken, Busy
<1>7. ASSUME NEW t \in Threads, ScheduleNextWork(t) PROVE RunningIsCurrent'
  BY <1>7 DEF ScheduleNextWork
<1>8. CASE UNCHANGED strandVars
  BY <1>8 DEF strandVars
<1> QED
  BY <1>1, <1>2, <1>3, <1>4, <1>5, <1>6, <1>7, <1>8 DEF StrandNext, JobStep, Quiescent

LEMMA StrandInvHolds == StrandSpec => []StrandInv
<1>1. StrandInv /\ [StrandNext]_strandVars => StrandInv'
  BY StrandNextPreservesTypeOK, NextPreservesIdleIsToken, NextPreservesRunningIsCurrent DEF StrandInv
<1> QED
  BY StrandInitEstablishes, <1>1, PTL DEF StrandSpec

\* The variables stay in their ranges, with at most one job in the origin
\* executor (StrandExecutor::Impl::scheduleNextWork).
THEOREM StrandTypeCorrect == StrandSpec => []StrandTypeOK
<1>1. StrandInv => StrandTypeOK
  BY DEF StrandInv
<1> QED BY StrandInvHolds, <1>1, PTL

\* m_idle is FALSE exactly while one job of the strand exists.
THEOREM IdleIsTheToken == StrandSpec => []IdleIsToken
<1>1. StrandInv => IdleIsToken
  BY DEF StrandInv
<1> QED BY StrandInvHolds, <1>1, PTL

\* The works of a strand never overlap.
THEOREM WorksNeverOverlap == StrandSpec => []Sequential
<1>1. StrandInv => Sequential
  BY DEF StrandInv, IdleIsToken, Sequential, Busy
<1> QED BY StrandInvHolds, <1>1, PTL

\* Every step of the strand is a step of the abstract sequence executor or
\* leaves its queue and the fate of every work as they were.
LEMMA StrandStepImplementsStep == StrandInv /\ [StrandNext]_strandVars => [Abstract!Next]_(Abstract!vars)
<1> SUFFICES ASSUME StrandInv, [StrandNext]_strandVars PROVE [Abstract!Next]_(Abstract!vars)
  OBVIOUS
<1> USE DEF StrandInv, StrandTypeOK, Abstract!Next, Abstract!vars
<1>1. ASSUME NEW w \in Works, Exec(w) PROVE Abstract!Submit(w)
  BY <1>1 DEF Exec, Abstract!Submit
<1>2. ASSUME Clear PROVE Abstract!Discard
  BY <1>2 DEF Clear, Abstract!Discard
<1>3. ASSUME NEW t \in Threads, TakeWork(t) PROVE Abstract!Start
  <2>1. \A w \in Works : status[w] # "running"
    BY <1>3 DEF TakeWork, RunningIsCurrent, IdleIsToken, Busy
  <2> QED BY <1>3, <2>1 DEF TakeWork, Abstract!Start
<1>4. ASSUME NEW t \in Threads, FinishWork(t)
      PROVE  cur[t] \in Works /\ Abstract!Finish(cur[t])
  BY <1>4 DEF FinishWork, Abstract!Finish, RunningIsCurrent
<1>5. ASSUME NEW t \in Threads, StartJob(t) \/ FindNothing(t) \/ ScheduleNextWork(t)
      PROVE  UNCHANGED Abstract!vars
  BY <1>5 DEF StartJob, FindNothing, ScheduleNextWork
<1>6. CASE UNCHANGED strandVars
  BY <1>6 DEF strandVars
<1> QED
  BY <1>1, <1>2, <1>3, <1>4, <1>5, <1>6 DEF StrandNext, JobStep, Quiescent

\* StrandExecutor is a SequenceExecutor: works start in the order of their
\* submission, one at a time, and only the destructor discards them.
THEOREM StrandIsSequenceExecutor == StrandSpec => ImplementsSequenceExecutor
<1>1. StrandInit => Abstract!Init
  BY DEF StrandInit, Abstract!Init
<1> QED
  BY <1>1, StrandInvHolds, StrandStepImplementsStep, PTL
     DEF StrandSpec, ImplementsSequenceExecutor, Abstract!Spec
=============================================================================
