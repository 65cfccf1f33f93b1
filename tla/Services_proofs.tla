---------------------------- MODULE Services_proofs ----------------------------
(***************************************************************************)
(* What is built on contexts, for any number of timers, items, calls,      *)
(* connections, assignments and states: each service has an invariant of   *)
(* its own, about the works that it has in the executor and what they will *)
(* find, and the works of the services on one executor tell themselves     *)
(* apart.                                                                  *)
(***************************************************************************)
EXTENDS Services, FiniteSetTheorems, TLAPS

\* InOrder lists every number of the set, and the smaller ones first.
LEMMA InOrderLists ==
  ASSUME NEW S, \A i \in S : i \in Int, IsFiniteSet(S)
  PROVE  /\ Cardinality(S) \in Nat
         /\ InOrder(S) \in [1..Cardinality(S) -> S]
         /\ \A m, n \in 1..Cardinality(S) : m < n => InOrder(S)[m] < InOrder(S)[n]
         /\ \A i \in S : \E n \in 1..Cardinality(S) : InOrder(S)[n] = i
<1> DEFINE N == Cardinality(S)
           upTo(i) == {j \in S : j <= i}
           rank == [i \in S |-> Cardinality(upTo(i))]
<1>1. N \in Nat /\ IsFiniteSet(1..N) /\ Cardinality(1..N) = N
  BY FS_CardinalityType, FS_Interval
<1>2. ASSUME NEW i \in S PROVE IsFiniteSet(upTo(i)) /\ rank[i] \in 1..N
  <2>1. upTo(i) \in SUBSET S
    OBVIOUS
  <2>2. IsFiniteSet(upTo(i)) /\ Cardinality(upTo(i)) <= N
    BY <2>1, FS_Subset
  <2>3. i \in upTo(i)
    OBVIOUS
  <2>4. Cardinality(upTo(i)) \in Nat /\ Cardinality(upTo(i)) # 0
    BY <2>2, <2>3, FS_CardinalityType, FS_EmptySet
  <2> QED BY <1>1, <2>2, <2>4
<1>3. ASSUME NEW i \in S, NEW k \in S, i < k PROVE rank[i] < rank[k]
  <2>1. upTo(i) \in SUBSET upTo(k) /\ k \in upTo(k) /\ k \notin upTo(i)
    <3>1. i \in Int /\ k \in Int /\ i <= k /\ k <= k /\ ~(k <= i)
      BY <1>3
    <3>2. \A j \in S : j <= i => j <= k
      BY <1>3, <3>1
    <3> QED BY <3>1, <3>2
  <2>2. Cardinality(upTo(i)) <= Cardinality(upTo(k)) /\ Cardinality(upTo(i)) # Cardinality(upTo(k))
    BY <1>2, <2>1, FS_Subset
  <2> QED BY <1>2, <2>2
<1> HIDE DEF rank, N
<1>4. rank \in [S -> 1..N] /\ \A i, k \in S : rank[i] = rank[k] => i = k
  <2>1. rank \in [S -> 1..N]
    BY <1>2 DEF rank
  <2>2. ASSUME NEW i \in S, NEW k \in S, rank[i] = rank[k] PROVE i = k
    <3>1. \A j \in S : rank[j] \in 1..N
      BY <1>2
    <3>2. rank[i] \in Int /\ rank[k] \in Int /\ i \in Int /\ k \in Int
      BY <1>1, <3>1
    <3> QED BY <1>3, <2>2, <3>2
  <2> QED BY <2>1, <2>2
<1>5. rank \in Surjection(S, 1..N)
  <2>1. rank \in Injection(S, 1..N)
    BY <1>4 DEF Injection, IsInjective
  <2> QED BY <1>1, <2>1, FS_Injection DEF N
<1>6. ASSUME NEW n \in 1..N PROVE InOrder(S)[n] \in S /\ rank[InOrder(S)[n]] = n
  <2>1. \E i \in S : Cardinality(upTo(i)) = n
    BY <1>5 DEF Surjection, rank
  <2>2. InOrder(S)[n] = CHOOSE i \in S : Cardinality(upTo(i)) = n
    BY DEF InOrder, N
  <2>3. InOrder(S)[n] \in S /\ Cardinality(upTo(InOrder(S)[n])) = n
    BY <2>1, <2>2
  <2> QED BY <2>3 DEF rank
<1>7. DOMAIN InOrder(S) = 1..N /\ InOrder(S) = [n \in 1..N |-> InOrder(S)[n]]
  <2> DEFINE G(n) == CHOOSE i \in S : Cardinality({j \in S : j <= i}) = n
  <2>1. InOrder(S) = [n \in 1..N |-> G(n)]
    BY DEF InOrder, N
  <2> HIDE DEF G
  <2>2. DOMAIN [n \in 1..N |-> G(n)] = 1..N
    OBVIOUS
  <2>3. [n \in 1..N |-> G(n)] = [n \in 1..N |-> [m \in 1..N |-> G(m)][n]]
    OBVIOUS
  <2> QED BY <2>1, <2>2, <2>3
<1>8. ASSUME NEW m \in 1..N, NEW n \in 1..N, m < n PROVE InOrder(S)[m] < InOrder(S)[n]
  <2>1. InOrder(S)[m] \in S /\ InOrder(S)[n] \in S
    BY <1>6
  <2>2. \A j \in S : j \in Int
    OBVIOUS
  <2>3. m \in Int /\ n \in Int
    BY <1>1
  <2>4. ~(InOrder(S)[n] < InOrder(S)[m]) /\ InOrder(S)[n] # InOrder(S)[m]
    BY <1>3, <1>6, <1>8, <2>1, <2>3
  <2> QED BY <2>1, <2>2, <2>4
<1>9. ASSUME NEW i \in S PROVE \E n \in 1..N : InOrder(S)[n] = i
  BY <1>4, <1>6
<1>10. InOrder(S) \in [1..N -> S]
  BY <1>6, <1>7
<1> QED BY <1>1, <1>8, <1>9, <1>10 DEF N

\* r is what is left of q without the closures of the contexts cs, in its order.
KeepsOthers(r, q, cs) ==
  \E at \in [DOMAIN r -> DOMAIN q] :
    /\ \A n \in DOMAIN r : r[n] = q[at[n]] /\ q[at[n]].ctx \notin cs
    /\ \A m, n \in DOMAIN r : m < n => at[m] < at[n]
    /\ \A i \in DOMAIN q : q[i].ctx \notin cs => \E n \in DOMAIN at : at[n] = i

\* What contexts leave in the executor when they close: the works of others, all
\* of them, in their order.
LEMMA WithoutKeepsOthers ==
  ASSUME NEW W, NEW q \in Seq(W), NEW cs
  PROVE  /\ Without(q, cs) \in Seq(W)
         /\ KeepsOthers(Without(q, cs), q, cs)
<1> DEFINE kept == {i \in DOMAIN q : q[i].ctx \notin cs}
           at == InOrder(kept)
<1>1. (\A i \in kept : i \in Int) /\ IsFiniteSet(kept)
  <2>1. kept \in SUBSET (1..Len(q)) /\ IsFiniteSet(1..Len(q))
    BY FS_Interval
  <2> QED BY <2>1, FS_Subset
<1> HIDE DEF kept
<1>2. /\ Cardinality(kept) \in Nat /\ at \in [1..Cardinality(kept) -> kept]
      /\ \A m, n \in 1..Cardinality(kept) : m < n => at[m] < at[n]
      /\ \A i \in kept : \E n \in 1..Cardinality(kept) : at[n] = i
  BY <1>1, InOrderLists
<1>3. Without(q, cs) = [n \in 1..Cardinality(kept) |-> q[at[n]]]
  BY <1>2 DEF Without, kept
<1> HIDE DEF at
<1>4. \A n \in 1..Cardinality(kept) : at[n] \in DOMAIN q /\ q[at[n]] \in W /\ q[at[n]].ctx \notin cs
  BY <1>2 DEF kept
<1>5. Without(q, cs) \in Seq(W)
  BY <1>2, <1>3, <1>4
<1>6. DOMAIN Without(q, cs) = 1..Cardinality(kept) /\ at \in [DOMAIN Without(q, cs) -> DOMAIN q]
  BY <1>2, <1>3, <1>4
<1>7. \A i \in DOMAIN q : q[i].ctx \notin cs => \E n \in DOMAIN at : at[n] = i
  BY <1>2 DEF kept
<1>8. /\ \A n \in DOMAIN Without(q, cs) : Without(q, cs)[n] = q[at[n]] /\ q[at[n]].ctx \notin cs
      /\ \A m, n \in DOMAIN Without(q, cs) : m < n => at[m] < at[n]
  BY <1>2, <1>3, <1>4, <1>6
<1>9. KeepsOthers(Without(q, cs), q, cs)
  BY <1>6, <1>7, <1>8 DEF KeepsOthers
<1> QED BY <1>5, <1>9

LEMMA WithoutAll ==
  ASSUME NEW W, NEW q \in Seq(W), NEW cs, \A n \in DOMAIN q : q[n].ctx \in cs
  PROVE  Without(q, cs) = <<>>
<1> DEFINE w == Without(q, cs)
<1>1. w \in Seq(W) /\ \A n \in DOMAIN w : FALSE
  <2>1. PICK at \in [DOMAIN w -> DOMAIN q] : \A n \in DOMAIN w : q[at[n]].ctx \notin cs
    <3>1. KeepsOthers(w, q, cs)
      BY WithoutKeepsOthers
    <3> QED BY <3>1 DEF KeepsOthers
  <2>2. \A n \in DOMAIN w : at[n] \in DOMAIN q
    BY <2>1
  <2>3. w \in Seq(W)
    BY WithoutKeepsOthers
  <2> QED BY <2>1, <2>2, <2>3
<1> HIDE DEF w
<1>2. Len(w) \in Nat /\ DOMAIN w = 1..Len(w) /\ (Len(w) = 0 => w = <<>>)
  BY <1>1
<1>3. 1 \notin DOMAIN w
  BY <1>1
<1> QED BY <1>2, <1>3 DEF w

\* Executors as sets of closures: q holds works of W, each once.
LEMMA SubsetHolds ==
  ASSUME NEW W, NEW V, NEW q \in Seq(W), \A n \in DOMAIN q : q[n] \in V PROVE q \in Seq(V)
<1>1. Len(q) \in Nat /\ DOMAIN q = 1..Len(q) /\ q = [n \in 1..Len(q) |-> q[n]]
  OBVIOUS
<1> QED BY <1>1

LEMMA TailHolds ==
  ASSUME NEW W, NEW q \in Seq(W), q # <<>>
  PROVE  /\ Head(q) \in W /\ Tail(q) \in Seq(W)
         /\ IsInjective(q) => IsInjective(Tail(q)) /\ Tail(q) \in Seq(W \ {Head(q)})
<1>1. /\ Head(q) = q[1] /\ 1 \in DOMAIN q /\ Head(q) \in W /\ Tail(q) \in Seq(W)
      /\ \A n \in DOMAIN Tail(q) : n \in Int /\ n # 0 /\ n + 1 \in DOMAIN q /\ Tail(q)[n] = q[n + 1]
  OBVIOUS
<1>2. ASSUME IsInjective(q) PROVE IsInjective(Tail(q)) /\ Tail(q) \in Seq(W \ {Head(q)})
  <2>1. \A m, n \in DOMAIN Tail(q) : Tail(q)[m] = Tail(q)[n] => m + 1 = n + 1
    BY <1>1, <1>2 DEF IsInjective
  <2>2. \A n \in DOMAIN Tail(q) : q[n + 1] = q[1] => n + 1 = 1
    BY <1>1, <1>2 DEF IsInjective
  <2>3. \A n \in DOMAIN Tail(q) : Tail(q)[n] \in W \ {Head(q)}
    BY <1>1, <2>2
  <2>4. \A m, n \in DOMAIN Tail(q) : m + 1 = n + 1 => m = n
    BY <1>1
  <2>5. IsInjective(Tail(q))
    BY <2>1, <2>4 DEF IsInjective
  <2>6. Tail(q) \in Seq(W \ {Head(q)})
    BY <1>1, <2>3, SubsetHolds
  <2> QED BY <2>5, <2>6
<1> QED BY <1>1, <1>2

LEMMA AppendHolds ==
  ASSUME NEW W, NEW q \in Seq(W), NEW w \in W
  PROVE  /\ Append(q, w) \in Seq(W)
         /\ IsInjective(q) /\ (\A n \in DOMAIN q : q[n] # w) => IsInjective(Append(q, w))
<1>1. /\ Append(q, w) \in Seq(W) /\ \A n \in DOMAIN q : n \in Int /\ n # Len(q) + 1
      /\ \A n \in DOMAIN Append(q, w) :
            (n \in DOMAIN q /\ Append(q, w)[n] = q[n]) \/ (n = Len(q) + 1 /\ Append(q, w)[n] = w)
  OBVIOUS
<1> QED BY <1>1 DEF IsInjective

LEMMA WithoutHolds ==
  ASSUME NEW W, NEW q \in Seq(W), NEW cs
  PROVE  /\ Without(q, cs) \in Seq({w \in W : w.ctx \notin cs})
         /\ IsInjective(q) => IsInjective(Without(q, cs))
<1> DEFINE r == Without(q, cs)
<1>2. r \in Seq(W) /\ KeepsOthers(r, q, cs)
  BY WithoutKeepsOthers
<1> HIDE DEF r
<1>1. PICK at \in [DOMAIN r -> DOMAIN q] :
        /\ \A n \in DOMAIN r : r[n] = q[at[n]] /\ q[at[n]].ctx \notin cs
        /\ \A m, n \in DOMAIN r : m < n => at[m] < at[n]
  BY <1>2 DEF KeepsOthers
<1>3. \A n \in DOMAIN r : r[n] \in {w \in W : w.ctx \notin cs}
  BY <1>1, <1>2
<1>4. \A m, n \in DOMAIN r : m # n => at[m] # at[n]
  <2>1. \A n \in DOMAIN r : n \in Int /\ at[n] \in Int
    BY <1>1, <1>2
  <2> QED BY <1>1, <2>1
<1>5. IsInjective(q) => IsInjective(r)
  BY <1>1, <1>4 DEF IsInjective
<1> QED BY <1>2, <1>3, <1>5, SubsetHolds DEF r

-----------------------------------------------------------------------------
\* Timers.
TimersTypeOK ==
  /\ kind \in [AllTimers -> TimerKinds]
  /\ timer \in [AllTimers -> {"none", "refused", "waiting", "expired", "calling", "deleted"}]
  /\ error \in [AllTimers -> BOOLEAN]

\* The wakeup of a timer that expired, in its context, which is open.
Wakeups ==
  {[ctx |-> Own(t), work |-> [timer |-> t]] :
     t \in {u \in AllTimers : timer[u] = "expired" /\ Own(u) \in open}}

TimersInv ==
  /\ TimersTypeOK /\ ~misused
  /\ works \in Seq(Wakeups) /\ IsInjective(works)
  /\ \A t \in AllTimers : /\ Alive(t) => Own(t) \in open
                          /\ timer[t] = "calling" => kind[t] = "interval"
                          /\ t \in aborted => timer[t] = "deleted" /\ Own(t) \notin open

LEMMA WakeupFields ==
  \A w \in Wakeups : /\ w.work.timer \in AllTimers /\ w.work = [timer |-> w.work.timer]
                     /\ w.ctx = Own(w.work.timer) /\ w.ctx \in open
                     /\ timer[w.work.timer] = "expired"
                     /\ w = [ctx |-> Own(w.work.timer), work |-> [timer |-> w.work.timer]]
BY DEF Wakeups

LEMMA WakeupStays ==
  ASSUME NEW w \in Wakeups, timer'[w.work.timer] = "expired",
         Own(w.work.timer)' = Own(w.work.timer), Own(w.work.timer) \in open'
  PROVE  w \in Wakeups'
<1> DEFINE t == w.work.timer
<1>1. t \in AllTimers /\ w = [ctx |-> Own(t), work |-> [timer |-> t]]
  BY WakeupFields
<1>2. timer'[t] = "expired" /\ Own(t)' = Own(t) /\ Own(t) \in open'
  OBVIOUS
<1> HIDE DEF t
<1> QED BY <1>1, <1>2 DEF Wakeups

LEMMA TimersInitInv == open = {"root"} /\ works = <<>> /\ TimersInit(TRUE) => TimersInv
<1> SUFFICES ASSUME open = {"root"}, works = <<>>, TimersInit(TRUE) PROVE TimersInv
  OBVIOUS
<1>1. TimersTypeOK
  BY TimerPlansAssumption DEF TimersInit, TimersTypeOK
<1>2. works \in Seq(Wakeups) /\ IsInjective(works)
  BY DEF IsInjective
<1>3. \A t \in AllTimers : timer[t] = "none" /\ t \notin aborted
  BY DEF TimersInit
<1> QED BY <1>1, <1>2, <1>3 DEF TimersInit, TimersInv, Alive

\* Contexts close: every timer of theirs that lives is deleted, and no wakeup of
\* one is left.
LEMMA ClosedKeeps ==
  ASSUME TimersInv, NEW cs, NEW q \in Seq(Wakeups), IsInjective(q), NEW done \in SUBSET AllTimers,
         Closed(cs, q, done), \A n \in DOMAIN q : q[n].work.timer \notin done,
         ~misused', UNCHANGED <<kind, error>>
  PROVE  TimersInv'
<1> DEFINE gone == {t \in AllTimers \ done : Alive(t) /\ Own(t) \in cs}
<1>1. /\ open' = open \ cs /\ works' = Without(q, cs)
      /\ timer' = [t \in AllTimers |-> IF t \in gone \cup done THEN "deleted" ELSE timer[t]]
      /\ aborted' = aborted \cup {t \in gone : timer[t] = "waiting"}
  BY DEF Closed
<1>2. \A t \in AllTimers : Own(t)' = Own(t)
  BY DEF Own
<1>3. TimersTypeOK'
  BY <1>1 DEF TimersInv, TimersTypeOK
<1>4. \A n \in DOMAIN q : q[n] \in Wakeups
  OBVIOUS
<1>5. works' \in Seq({w \in {q[n] : n \in DOMAIN q} : w.ctx \notin cs}) /\ IsInjective(works')
  <2> DEFINE W == {q[n] : n \in DOMAIN q}
  <2>1. q \in Seq(W)
    BY SubsetHolds
  <2> HIDE DEF W
  <2> QED BY <1>1, <2>1, WithoutHolds DEF W
<1>6. \A n \in DOMAIN works' : works'[n] \in Wakeups'
  <2> SUFFICES ASSUME NEW n \in DOMAIN works', NEW w, w = works'[n] PROVE w \in Wakeups'
    OBVIOUS
  <2>1. w \in Wakeups /\ w.ctx \notin cs /\ w.work.timer \notin done
    BY <1>4, <1>5
  <2>2. PICK t : t = w.work.timer
    OBVIOUS
  <2>3. t \in AllTimers /\ timer[t] = "expired" /\ Own(t) \in open /\ Own(t) \notin cs /\ t \notin done
    BY <2>1, <2>2, WakeupFields
  <2>4. timer'[t] = "expired" /\ Own(t)' = Own(t) /\ Own(t) \in open'
    BY <1>1, <1>2, <2>3
  <2> QED BY <2>1, <2>2, <2>4, WakeupStays
<1>7. ASSUME NEW t \in AllTimers
      PROVE  /\ Alive(t)' => Own(t)' \in open'
             /\ timer'[t] = "calling" => kind'[t] = "interval"
             /\ t \in aborted' => timer'[t] = "deleted" /\ Own(t)' \notin open'
  <2> HIDE DEF gone
  <2>1. timer'[t] = IF t \in gone \/ t \in done THEN "deleted" ELSE timer[t]
    BY <1>1
  <2>2. t \in gone <=> t \notin done /\ Alive(t) /\ Own(t) \in cs
    BY DEF gone
  <2>3. Alive(t)' => Alive(t) /\ t \notin gone /\ t \notin done
    BY <2>1 DEF Alive
  <2> QED BY <1>1, <1>2, <2>1, <2>2, <2>3 DEF TimersInv
<1>8. works' \in Seq(Wakeups')
  BY <1>5, <1>6, SubsetHolds
<1> QED BY <1>3, <1>5, <1>7, <1>8 DEF TimersInv

LEMMA SetTimerKeeps == ASSUME TimersInv, NEW t \in AllTimers, SetTimer(t) PROVE TimersInv'
<1>1. /\ timer[t] = "none" /\ UNCHANGED <<works, kind, error, aborted, misused>>
      /\ timer' = [timer EXCEPT ![t] = IF "root" \in open THEN "waiting" ELSE "refused"]
      /\ open' = IF kind[t] = "interval" /\ "root" \in open THEN open \cup {t} ELSE open
  BY DEF SetTimer
<1>2. \A u \in AllTimers : Own(u)' = Own(u)
  BY <1>1 DEF Own
<1>3. TimersTypeOK' /\ \A u \in AllTimers : u # t => timer'[u] = timer[u]
  BY <1>1 DEF TimersInv, TimersTypeOK
<1>4. ASSUME NEW n \in DOMAIN works PROVE works[n] \in Wakeups'
  <2>1. works[n] \in Wakeups
    BY DEF TimersInv
  <2>2. works[n].work.timer # t
    BY <1>1, <2>1, WakeupFields
  <2> QED BY <1>1, <1>2, <1>3, <2>1, <2>2, WakeupFields DEF Wakeups
<1>5. works' \in Seq(Wakeups') /\ IsInjective(works')
  BY <1>1, <1>4, SubsetHolds DEF TimersInv
<1>6. ASSUME NEW u \in AllTimers
      PROVE  /\ Alive(u)' => Own(u)' \in open'
             /\ timer'[u] = "calling" => kind'[u] = "interval"
             /\ u \in aborted' => timer'[u] = "deleted" /\ Own(u)' \notin open'
  <2>1. CASE u = t
    BY <1>1, <1>2, <2>1 DEF TimersInv, TimersTypeOK, Alive, Own
  <2>2. CASE u # t
    <3>1. Own(u) # t
      BY <2>2, RootAssumption DEF Own
    <3> QED BY <1>1, <1>2, <1>3, <2>2, <3>1 DEF TimersInv, Alive
  <2> QED BY <2>1, <2>2
<1> QED BY <1>1, <1>3, <1>5, <1>6 DEF TimersInv

LEMMA ExpireKeeps == ASSUME TimersInv, NEW t \in AllTimers, Expire(t) PROVE TimersInv'
<1> DEFINE r == [ctx |-> Own(t), work |-> [timer |-> t]]
<1>1. /\ UNCHANGED <<open, kind, misused>>
      /\ works' = IF Own(t) \in open THEN Append(works, r) ELSE works
  BY DEF Expire, Exec
<1>2. \A u \in AllTimers : Own(u)' = Own(u)
  BY <1>1 DEF Own
<1>3. CASE timer[t] = "waiting" /\ timer' = [timer EXCEPT ![t] = "expired"]
            /\ (\E e \in BOOLEAN : error' = [error EXCEPT ![t] = e]) /\ UNCHANGED aborted
  <2>1. TimersTypeOK' /\ timer'[t] = "expired" /\ \A u \in AllTimers : u # t => timer'[u] = timer[u]
    BY <1>1, <1>3 DEF TimersInv, TimersTypeOK
  <2>2. Own(t) \in open
    BY <1>3 DEF TimersInv, Alive
  <2>3. r \in Wakeups'
    BY <1>1, <1>2, <2>1, <2>2 DEF Wakeups
  <2>4. ASSUME NEW n \in DOMAIN works PROVE works[n] \in Wakeups' /\ works[n] # r
    <3>1. works[n] \in Wakeups
      BY DEF TimersInv
    <3>2. works[n].work.timer # t
      BY <1>3, <3>1, WakeupFields
    <3> QED BY <1>1, <1>2, <2>1, <3>1, <3>2, WakeupFields DEF Wakeups
  <2>5. works \in Seq(Wakeups')
    BY <2>4, SubsetHolds DEF TimersInv
  <2> HIDE DEF r
  <2>6. works' \in Seq(Wakeups') /\ IsInjective(works')
    BY <1>1, <2>2, <2>3, <2>4, <2>5, AppendHolds DEF TimersInv
  <2>7. ASSUME NEW u \in AllTimers
        PROVE  /\ Alive(u)' => Own(u)' \in open'
               /\ timer'[u] = "calling" => kind'[u] = "interval"
               /\ u \in aborted' => timer'[u] = "deleted" /\ Own(u)' \notin open'
    <3>1. CASE u = t
      BY <1>1, <1>2, <1>3, <2>1, <2>2, <3>1 DEF TimersInv
    <3>2. CASE u # t
      BY <1>1, <1>2, <1>3, <2>1, <3>2 DEF TimersInv, Alive
    <3> QED BY <3>1, <3>2
  <2> QED BY <1>1, <2>1, <2>6, <2>7 DEF TimersInv
<1>4. CASE t \in aborted /\ aborted' = aborted \ {t} /\ UNCHANGED <<timer, error>>
  <2>1. works' = works
    BY <1>1, <1>4 DEF TimersInv
  <2>2. Wakeups' = Wakeups
    BY <1>1, <1>2, <1>4 DEF Wakeups
  <2> QED BY <1>1, <1>2, <1>4, <2>1, <2>2 DEF TimersInv, TimersTypeOK, Alive
<1> QED BY <1>3, <1>4 DEF Expire, Reported

\* The timer that a wakeup belongs to is there, and no other wakeup is its own.
LEMMA WakesOne ==
  ASSUME TimersInv, NEW t \in AllTimers, Runs(Own(t), [timer |-> t])
  PROVE  /\ timer[t] = "expired" /\ Own(t) \in open
         /\ Tail(works) \in Seq(Wakeups) /\ IsInjective(Tail(works))
         /\ \A n \in DOMAIN Tail(works) : Tail(works)[n] \in Wakeups /\ Tail(works)[n].work.timer # t
<1>1. works \in Seq(Wakeups) /\ works # <<>> /\ IsInjective(works)
  BY DEF Runs, TimersInv
<1>2. /\ Head(works) \in Wakeups /\ Tail(works) \in Seq(Wakeups) /\ IsInjective(Tail(works))
      /\ Tail(works) \in Seq(Wakeups \ {Head(works)})
  BY <1>1, TailHolds
<1>3. Head(works).work.timer = t
  BY DEF Runs
<1>4. \A n \in DOMAIN Tail(works) : Tail(works)[n] \in Wakeups /\ Tail(works)[n].work.timer # t
  <2> SUFFICES ASSUME NEW n \in DOMAIN Tail(works), Tail(works)[n].work.timer = t PROVE FALSE
    BY <1>2
  <2>1. Tail(works)[n] \in Wakeups /\ Tail(works)[n] # Head(works)
    BY <1>2
  <2> QED BY <1>2, <1>3, <2>1, WakeupFields
<1> QED BY <1>2, <1>3, <1>4, WakeupFields

LEMMA WakeSingleKeeps == ASSUME TimersInv, NEW t \in AllTimers, WakeSingle(t) PROVE TimersInv'
<1>1. PICK cs : Closed(cs, Tail(works), {t})
  BY DEF WakeSingle
<1>2. /\ timer[t] = "expired" /\ Tail(works) \in Seq(Wakeups) /\ IsInjective(Tail(works))
      /\ \A n \in DOMAIN Tail(works) : Tail(works)[n].work.timer \notin {t}
  BY WakesOne DEF WakeSingle, Wakes
<1>3. ~misused' /\ UNCHANGED <<kind, error>>
  BY <1>2 DEF WakeSingle, Wakes, Alive, TimersInv
<1> QED BY <1>1, <1>2, <1>3, ClosedKeeps

\* The wakeup of a timer runs, and nothing closes.
LEMMA WakeKeeps ==
  ASSUME TimersInv, NEW t \in AllTimers, NEW s \in {"deleted", "calling"},
         Runs(Own(t), [timer |-> t]), s = "calling" => kind[t] = "interval",
         misused' = (misused \/ ~Alive(t)), timer' = [timer EXCEPT ![t] = s],
         works' = Tail(works), UNCHANGED <<open, kind, error, aborted>>
  PROVE  TimersInv'
<1>1. /\ timer[t] = "expired" /\ Own(t) \in open
      /\ Tail(works) \in Seq(Wakeups) /\ IsInjective(Tail(works))
      /\ \A n \in DOMAIN Tail(works) : Tail(works)[n] \in Wakeups /\ Tail(works)[n].work.timer # t
  BY WakesOne
<1>2. \A u \in AllTimers : Own(u)' = Own(u)
  BY DEF Own
<1>3. TimersTypeOK' /\ timer'[t] = s /\ \A u \in AllTimers : u # t => timer'[u] = timer[u]
  BY DEF TimersInv, TimersTypeOK
<1>4. \A n \in DOMAIN Tail(works) : Tail(works)[n] \in Wakeups'
  <2> SUFFICES ASSUME NEW n \in DOMAIN Tail(works) PROVE Tail(works)[n] \in Wakeups'
    OBVIOUS
  <2>1. /\ Tail(works)[n] \in Wakeups /\ Tail(works)[n].work.timer # t
        /\ Tail(works)[n].work.timer \in AllTimers
        /\ timer[Tail(works)[n].work.timer] = "expired" /\ Own(Tail(works)[n].work.timer) \in open
    BY <1>1, WakeupFields
  <2> QED BY <1>2, <1>3, <2>1, WakeupStays
<1>5. works' \in Seq(Wakeups')
  BY <1>1, <1>4, SubsetHolds
<1>6. ASSUME NEW u \in AllTimers
      PROVE  /\ Alive(u)' => Own(u)' \in open'
             /\ timer'[u] = "calling" => kind'[u] = "interval"
             /\ u \in aborted' => timer'[u] = "deleted" /\ Own(u)' \notin open'
  <2>1. CASE u = t
    BY <1>1, <1>2, <1>3, <2>1 DEF TimersInv, Alive
  <2>2. CASE u # t
    BY <1>1, <1>2, <1>3, <2>2 DEF TimersInv, Alive
  <2> QED BY <2>1, <2>2
<1> QED BY <1>1, <1>3, <1>5, <1>6 DEF TimersInv, Alive

LEMMA HandlerReturnsKeeps == ASSUME TimersInv, NEW t \in AllTimers, HandlerReturns(t) PROVE TimersInv'
<1>1. UNCHANGED <<kind, error>> /\ timer[t] = "calling" /\ kind[t] = "interval" /\ t \in open
  BY DEF HandlerReturns, TimersInv, Alive, Own
<1>2. CASE \E cs : Closed(cs, works, {}) /\ UNCHANGED misused
  BY <1>1, <1>2, ClosedKeeps DEF TimersInv
<1>3. CASE /\ timer' = [timer EXCEPT ![t] = "waiting"] /\ misused' = (misused \/ t \notin open)
           /\ UNCHANGED <<open, works, aborted>>
  <2>1. \A u \in AllTimers : Own(u)' = Own(u)
    BY <1>1 DEF Own
  <2>2. TimersTypeOK' /\ timer'[t] = "waiting" /\ \A u \in AllTimers : u # t => timer'[u] = timer[u]
    BY <1>1, <1>3 DEF TimersInv, TimersTypeOK
  <2>3. ASSUME NEW n \in DOMAIN works PROVE works[n] \in Wakeups'
    <3>1. works[n] \in Wakeups
      BY DEF TimersInv
    <3>2. works[n].work.timer # t
      BY <1>1, <3>1, WakeupFields
    <3> QED BY <1>1, <1>3, <2>1, <2>2, <3>1, <3>2, WakeupFields DEF Wakeups
  <2>4. works' \in Seq(Wakeups') /\ IsInjective(works')
    BY <1>3, <2>3, SubsetHolds DEF TimersInv
  <2>5. ASSUME NEW u \in AllTimers
        PROVE  /\ Alive(u)' => Own(u)' \in open'
               /\ timer'[u] = "calling" => kind'[u] = "interval"
               /\ u \in aborted' => timer'[u] = "deleted" /\ Own(u)' \notin open'
    <3>1. CASE u = t
      BY <1>1, <1>3, <2>1, <2>2, <3>1 DEF TimersInv, Own
    <3>2. CASE u # t
      BY <1>1, <1>3, <2>1, <2>2, <3>2 DEF TimersInv, Alive
    <3> QED BY <3>1, <3>2
  <2> QED BY <1>1, <1>3, <2>2, <2>4, <2>5 DEF TimersInv
<1> QED BY <1>2, <1>3 DEF HandlerReturns

LEMMA TimersNextKeeps == TimersInv /\ [TimersNext]_<<contextVars, timerVars>> => TimersInv'
<1> SUFFICES ASSUME TimersInv, [TimersNext]_<<contextVars, timerVars>> PROVE TimersInv'
  OBVIOUS
<1>1. CASE CloseRoot
  <2>1. Closed(AllContexts, works, {}) /\ UNCHANGED <<kind, error, misused>>
    BY <1>1 DEF CloseRoot
  <2> QED BY <2>1, ClosedKeeps DEF TimersInv
<1>2. ASSUME NEW t \in AllTimers, WakePromise(t) \/ WakeInterval(t) PROVE TimersInv'
  BY <1>2, WakeKeeps DEF WakePromise, WakeInterval, Wakes
<1>3. ASSUME NEW t \in AllTimers, SourceEnds(t) PROVE TimersInv'
  BY <1>3 DEF SourceEnds, contextVars, TimersInv, TimersTypeOK, Wakeups, Own, Alive
<1>4. CASE UNCHANGED <<contextVars, timerVars>>
  BY <1>4 DEF contextVars, timerVars, TimersInv, TimersTypeOK, Wakeups, Own, Alive
<1> QED BY <1>1, <1>2, <1>3, <1>4, SetTimerKeeps, ExpireKeeps, WakeSingleKeeps, HandlerReturnsKeeps
        DEF TimersNext, Wake
-----------------------------------------------------------------------------
\* all() and run().
AllWorks == [ctx : {"all"}, work : [item : Items, step : {"then", "fail"}]]

AllTypeOK ==
  /\ item \in [Items -> {"none", "pending", "value", "error", "used"}] /\ hooked \subseteq Items
  /\ starting \in 0..(ItemCount + 1) /\ finished \in Nat
  /\ promise \in {"pending", "values", "error", "broken"}
  /\ returned \in {"none", "future", "exception"}
  /\ works \in Seq(AllWorks)

\* A work in the executor is the only one of its item, whose result it brings.
WorksBringResults ==
  /\ "all" \notin open => works = <<>>
  /\ \A n \in DOMAIN works :
       /\ item[works[n].work.item] \in {"value", "error"}
       /\ works[n].work.step = "fail" => item[works[n].work.item] = "error"
       /\ \A m \in DOMAIN works : works[m].work.item = works[n].work.item => m = n

\* Who is still to answer, and how far start has come.
AnswersAwaited ==
  hooked = {i \in Items : item[i] \in IF "all" \in open THEN {"pending", "value", "error"}
                                                        ELSE {"pending"}}
StartedInOrder ==
  /\ starting = 0 <=> returned # "none"
  /\ starting # 0 => \A i \in Items : item[i] = "none" <=> i >= starting
  /\ returned = "future" => \A i \in Items : item[i] # "none"

UsedItems == {i \in Items : item[i] = "used"}
FinishedCounts ==
  "all" \in open => /\ finished = Cardinality(UsedItems)
                    /\ finished = ItemCount =>
                         promise = "values" \/ (ItemCount = 0 /\ returned # "future")
BrokenIsLast == promise = "broken" => hooked = {} /\ starting = 0

AllInv ==
  /\ AllTypeOK /\ WorksBringResults /\ AnswersAwaited /\ StartedInOrder /\ FinishedCounts
  /\ BrokenIsLast /\ AllIsAnsweredOnce

LEMMA AllWorksFields ==
  /\ \A w \in AllWorks : w.ctx = "all" /\ w.work.item \in Items /\ w.work.step \in {"then", "fail"}
  /\ \A i \in Items, s \in {"then", "fail"} :
       [ctx |-> "all", work |-> [item |-> i, step |-> s]] \in AllWorks
BY DEF AllWorks

\* A work of item i that runs is the only one of i; the others stay.
LEMMA RunsItem ==
  ASSUME AllInv, NEW i \in Items, NEW s \in {"then", "fail"}, Runs("all", [item |-> i, step |-> s])
  PROVE  /\ "all" \in open /\ works # <<>> /\ i \in hooked /\ item[i] \in {"value", "error"}
         /\ s = "fail" => item[i] = "error"
         /\ Tail(works) \in Seq(AllWorks)
         /\ \A n \in DOMAIN Tail(works) :
              /\ n + 1 \in DOMAIN works /\ Tail(works)[n] = works[n + 1]
              /\ Tail(works)[n].work.item # i
<1> USE DEF AllInv, AllTypeOK, WorksBringResults
<1>1. /\ works # <<>> /\ 1 \in DOMAIN works /\ works[1].work = [item |-> i, step |-> s]
      /\ works[1].work.item = i /\ works[1].work.step = s
  BY DEF Runs
<1>2. "all" \in open /\ item[i] \in {"value", "error"} /\ (s = "fail" => item[i] = "error")
  BY <1>1
<1>3. /\ Tail(works) \in Seq(AllWorks)
      /\ \A n \in DOMAIN Tail(works) : n + 1 \in DOMAIN works /\ Tail(works)[n] = works[n + 1]
  BY <1>1
<1>4. \A n \in DOMAIN Tail(works) : Tail(works)[n].work.item # i
  <2> SUFFICES ASSUME NEW n \in DOMAIN Tail(works), Tail(works)[n].work.item = i PROVE FALSE
    OBVIOUS
  <2>1. n + 1 \in DOMAIN works /\ works[n + 1].work.item = i /\ n + 1 # 1
    BY <1>1, <1>3
  <2> QED BY <1>1, <2>1
<1> QED BY <1>1, <1>2, <1>3, <1>4 DEF AnswersAwaited

LEMMA AllInitInv == open = {"all"} /\ works = <<>> /\ AllInit(TRUE) => AllInv
<1> SUFFICES ASSUME open = {"all"}, works = <<>>, AllInit(TRUE) PROVE AllInv
  OBVIOUS
<1> USE ItemCountAssumption
<1>1. UsedItems = {} /\ Cardinality(UsedItems) = 0
  BY FS_EmptySet DEF AllInit, UsedItems
<1>2. AllTypeOK /\ WorksBringResults
  BY DEF AllInit, AllTypeOK, WorksBringResults, Items
<1>3. AnswersAwaited /\ StartedInOrder /\ BrokenIsLast /\ AllIsAnsweredOnce
  BY DEF AllInit, AnswersAwaited, StartedInOrder, BrokenIsLast, AllIsAnsweredOnce, Items
<1> QED BY <1>1, <1>2, <1>3 DEF AllInit, AllInv, FinishedCounts

\* How a set of items counts: all of them, or room for one more.
LEMMA ItemsCounted ==
  ASSUME NEW S \in SUBSET Items
  PROVE  /\ IsFiniteSet(S) /\ Cardinality(S) \in 0..ItemCount
         /\ Cardinality(S) = ItemCount <=> S = Items
         /\ \A i \in Items : i \notin S => Cardinality(S \cup {i}) = Cardinality(S) + 1
<1>1. IsFiniteSet(Items) /\ Cardinality(Items) = ItemCount
  BY ItemCountAssumption, FS_Interval DEF Items
<1>2. IsFiniteSet(S) /\ Cardinality(S) <= ItemCount /\ Cardinality(S) \in Nat
      /\ (Cardinality(S) = ItemCount <=> S = Items)
  BY <1>1, FS_Subset, FS_CardinalityType
<1>3. \A i \in Items : i \notin S => Cardinality(S \cup {i}) = Cardinality(S) + 1
  BY <1>2, FS_AddElement
<1> QED BY <1>2, <1>3, ItemCountAssumption

LEMMA StartItemKeeps == ASSUME AllInv, StartItem PROVE AllInv'
<1> USE ItemCountAssumption DEF AllInv, StartItem
<1>1. item[starting] = "none" /\ starting \in Items /\ item' = [item EXCEPT ![starting] = "pending"]
      /\ UNCHANGED <<open, works, finished, promise, returned, form>>
  BY DEF StartedInOrder, contextVars, Items
<1>2. UsedItems' = UsedItems
  BY <1>1 DEF UsedItems, AllTypeOK
<1>3. AllTypeOK'
  BY <1>1 DEF AllTypeOK, Items
<1>4. WorksBringResults'
  BY <1>1 DEF WorksBringResults, AllTypeOK
<1>5. AnswersAwaited' /\ StartedInOrder'
  <2>1. AnswersAwaited'
    BY <1>1 DEF AllTypeOK, AnswersAwaited
  <2>2. StartedInOrder'
    BY <1>1 DEF AllTypeOK, StartedInOrder, Items
  <2> QED BY <2>1, <2>2
<1>6. FinishedCounts' /\ BrokenIsLast' /\ AllIsAnsweredOnce'
  <2>1. FinishedCounts'
    BY <1>1, <1>2 DEF FinishedCounts
  <2>2. BrokenIsLast'
    BY <1>1 DEF BrokenIsLast, AllTypeOK, Items
  <2>3. AllIsAnsweredOnce'
    BY <1>1 DEF AllIsAnsweredOnce, AllTypeOK
  <2> QED BY <2>1, <2>2, <2>3
<1> QED BY <1>3, <1>4, <1>5, <1>6

\* m_ctx closes: whatever q is, no work is left, and who is still to answer is pending.
LEMMA CloseAllEmpties ==
  ASSUME NEW q \in Seq(AllWorks), CloseAll(q)
  PROVE  works' = <<>> /\ "all" \notin open' /\ hooked' = {i \in hooked : item[i] = "pending"}
<1>1. \A n \in DOMAIN q : q[n].ctx \in {"all"}
  <2>1. \A n \in DOMAIN q : q[n] \in AllWorks
    OBVIOUS
  <2> QED BY <2>1, AllWorksFields
<1>2. Without(q, {"all"}) = <<>>
  BY <1>1, WithoutAll
<1> QED BY <1>2 DEF CloseAll

LEMMA CloseParentKeeps == ASSUME AllInv, CloseParent PROVE AllInv'
<1> USE ItemCountAssumption DEF AllInv, CloseParent
<1>1. /\ works' = <<>> /\ "all" \notin open' /\ hooked' = {i \in hooked : item[i] = "pending"}
      /\ UNCHANGED <<form, starting, item, finished, returned>>
  BY CloseAllEmpties DEF AllTypeOK
<1>2. \/ promise' = promise
      \/ promise = "pending" /\ promise' = "broken" /\ hooked' = {} /\ starting = 0
  BY <1>1 DEF Release
<1>3. AllTypeOK' /\ WorksBringResults'
  BY <1>1, <1>2 DEF AllTypeOK, WorksBringResults
<1>4. AnswersAwaited' /\ StartedInOrder' /\ FinishedCounts'
  <2>1. AnswersAwaited'
    BY <1>1 DEF AnswersAwaited
  <2>2. StartedInOrder' /\ FinishedCounts'
    BY <1>1 DEF StartedInOrder, FinishedCounts
  <2> QED BY <2>1, <2>2
<1>5. BrokenIsLast' /\ AllIsAnsweredOnce'
  <2>1. BrokenIsLast'
    BY <1>1, <1>2 DEF BrokenIsLast
  <2>2. AllIsAnsweredOnce'
    BY <1>1, <1>2 DEF AllIsAnsweredOnce, AllTypeOK
  <2> QED BY <2>1, <2>2
<1> QED BY <1>3, <1>4, <1>5

LEMMA StartThrowsKeeps == ASSUME AllInv, StartThrows PROVE AllInv'
<1> USE ItemCountAssumption DEF AllInv, StartThrows
<1>1. /\ starting' = 0 /\ returned' = "exception" /\ UNCHANGED <<form, item, finished>>
      /\ \/ works' = <<>> /\ "all" \notin open' /\ hooked' = {i \in hooked : item[i] = "pending"}
         \/ UNCHANGED <<open, works, hooked>>
  <2>1. form = "vector" => CloseAll(works) /\ works \in Seq(AllWorks)
    BY DEF AllTypeOK
  <2> QED BY <2>1, CloseAllEmpties DEF contextVars
<1>2. \/ promise' = promise
      \/ promise = "pending" /\ promise' = "broken" /\ hooked' = {}
  BY DEF Release
<1>3. AllTypeOK' /\ WorksBringResults'
  <2> HIDE DEF StartThrows
  <2>1. hooked' \subseteq Items /\ starting' \in 0..(ItemCount + 1)
    <3>1. hooked \subseteq Items
      BY DEF AllTypeOK
    <3> QED BY <1>1, <3>1
  <2>2. works' \in Seq(AllWorks)
    <3>1. works' = <<>> \/ works' = works
      BY <1>1
    <3>2. works \in Seq(AllWorks) /\ <<>> \in Seq(AllWorks)
      BY DEF AllTypeOK
    <3> QED BY <3>1, <3>2
  <2>3. AllTypeOK'
    BY <1>1, <1>2, <2>1, <2>2 DEF AllTypeOK
  <2>4. WorksBringResults'
    BY <1>1 DEF WorksBringResults
  <2> QED BY <2>3, <2>4
<1>4. AnswersAwaited'
  BY <1>1 DEF AnswersAwaited
<1>5. StartedInOrder' /\ BrokenIsLast'
  BY <1>1, <1>2 DEF StartedInOrder, BrokenIsLast, AllTypeOK, Items
<1>6. FinishedCounts'
  <2>1. item[starting] = "none" /\ starting \in Items
    BY DEF StartedInOrder, Items
  <2>2. UsedItems' = UsedItems /\ UsedItems # Items
    BY <1>1, <2>1 DEF UsedItems
  <2>3. UsedItems \in SUBSET Items
    BY DEF UsedItems
  <2> QED BY <1>1, <2>2, <2>3, ItemsCounted DEF FinishedCounts
<1>7. AllIsAnsweredOnce'
  BY <1>1, <1>2 DEF AllIsAnsweredOnce, AllTypeOK
<1> QED BY <1>3, <1>4, <1>5, <1>6, <1>7

LEMMA StartEndsKeeps == ASSUME AllInv, StartEnds PROVE AllInv'
<1> USE ItemCountAssumption DEF AllInv, StartEnds
<1>1. /\ starting = ItemCount + 1 /\ starting' = 0 /\ returned' = "future"
      /\ UNCHANGED <<open, works, form, item, hooked, finished>>
  BY DEF contextVars
<1> DEFINE p == IF ItemCount = 0 THEN "values" ELSE promise
<1>2. promise' = p \/ (p = "pending" /\ promise' = "broken" /\ hooked' = {})
  BY <1>1 DEF Release
<1>3. \A i \in Items : item[i] # "none"
  BY <1>1 DEF StartedInOrder, Items
<1>4. AllTypeOK'
  BY <1>1, <1>2 DEF AllTypeOK
<1>5. WorksBringResults' /\ AnswersAwaited'
  BY <1>1 DEF WorksBringResults, AnswersAwaited
<1>6. StartedInOrder'
  BY <1>1, <1>3 DEF StartedInOrder
<1>7. hooked = {} /\ "all" \in open /\ ItemCount # 0 => promise = "values"
  <2> SUFFICES ASSUME hooked = {}, "all" \in open, ItemCount # 0 PROVE promise = "values"
    OBVIOUS
  <2>1. UsedItems = Items
    BY <1>3 DEF UsedItems, AnswersAwaited, AllTypeOK
  <2>2. Cardinality(UsedItems) = ItemCount
    BY <2>1, ItemsCounted
  <2> QED BY <2>2 DEF FinishedCounts
<1>8. UsedItems' = UsedItems
  BY <1>1 DEF UsedItems
<1>9. FinishedCounts' /\ BrokenIsLast'
  <2>1. FinishedCounts'
    BY <1>1, <1>2, <1>7, <1>8 DEF FinishedCounts
  <2>2. BrokenIsLast'
    BY <1>1, <1>2 DEF BrokenIsLast
  <2> QED BY <2>1, <2>2
<1>10. AllIsAnsweredOnce'
  <2>1. promise' = "values" => \A i \in Items : item[i] = "used"
    BY <1>1, <1>2 DEF AllIsAnsweredOnce, Items
  <2>2. promise' = "broken" => "all" \notin open
    <3>1. CASE promise = "broken"
      BY <3>1, <1>1 DEF BrokenIsLast
    <3>2. CASE promise # "broken"
      BY <3>2, <1>1, <1>2, <1>7
    <3> QED BY <3>1, <3>2
  <2>3. promise' = "error" => promise = "error"
    BY <1>2
  <2> QED BY <1>1, <1>4, <2>1, <2>2, <2>3 DEF AllIsAnsweredOnce, AllTypeOK
<1> QED BY <1>4, <1>5, <1>6, <1>9, <1>10

LEMMA ItemEndsKeeps == ASSUME AllInv, NEW i \in Items, ItemEnds(i) PROVE AllInv'
<1> USE DEF AllInv
<1>1. PICK o \in {"value", "error"} : item' = [item EXCEPT ![i] = o]
  BY DEF ItemEnds
<1>2. /\ item[i] = "pending" /\ UNCHANGED <<open, form, starting, finished, returned>>
      /\ works' = IF "all" \in open
                  THEN Append(works, [ctx |-> "all", work |-> [item |-> i, step |-> "then"]]) ELSE works
      /\ hooked' = IF "all" \in open THEN hooked ELSE hooked \ {i}
  BY DEF ItemEnds, Exec
<1>3. \/ promise' = promise
      \/ promise = "pending" /\ promise' = "broken" /\ hooked' = {} /\ starting' = 0
  BY DEF ItemEnds, Release
<1>4. item' \in [Items -> {"none", "pending", "value", "error", "used"}] /\ item'[i] = o
      /\ \A k \in Items : k # i => item'[k] = item[k]
  BY <1>1 DEF AllTypeOK
<1>5. AllTypeOK'
  <2>1. works' \in Seq(AllWorks)
    <3>1. [ctx |-> "all", work |-> [item |-> i, step |-> "then"]] \in AllWorks
      BY AllWorksFields
    <3> QED BY <1>2, <3>1 DEF AllTypeOK
  <2>2. hooked' \subseteq Items
    BY <1>2 DEF AllTypeOK
  <2>3. promise' \in {"pending", "values", "error", "broken"}
    BY <1>3 DEF AllTypeOK
  <2> QED BY <1>2, <1>4, <2>1, <2>2, <2>3 DEF AllTypeOK
<1>6. WorksBringResults'
  <2>1. CASE "all" \notin open
    BY <1>2, <2>1 DEF WorksBringResults
  <2>2. CASE "all" \in open
    <3>1. \A n \in DOMAIN works : works[n].work.item # i
      BY <1>2 DEF WorksBringResults
    <3>2. \A n \in DOMAIN works' :
            \/ n \in DOMAIN works /\ works'[n] = works[n]
            \/ n = Len(works) + 1 /\ works'[n] = [ctx |-> "all", work |-> [item |-> i, step |-> "then"]]
      BY <1>2, <2>2 DEF AllTypeOK
    <3>3. \A n \in DOMAIN works : works[n].work.item \in Items
      <4>1. \A n \in DOMAIN works : works[n] \in AllWorks
        BY DEF AllTypeOK
      <4> QED BY <4>1, AllWorksFields
    <3> QED BY <1>2, <1>4, <2>2, <3>1, <3>2, <3>3 DEF WorksBringResults
  <2> QED BY <2>1, <2>2
<1>7. AnswersAwaited'
  BY <1>2, <1>4 DEF AnswersAwaited
<1>8. StartedInOrder'
  BY <1>2, <1>4 DEF StartedInOrder
<1>9. UsedItems' = UsedItems
  BY <1>2, <1>4 DEF UsedItems
<1>10. FinishedCounts'
  BY <1>2, <1>3, <1>9 DEF FinishedCounts
<1>11. BrokenIsLast'
  BY <1>2, <1>3 DEF BrokenIsLast
<1>12. AllIsAnsweredOnce'
  <2>1. promise' = "broken" => promise = "broken" \/ "all" \notin open
    <3>1. i \in hooked
      BY <1>2 DEF AnswersAwaited
    <3> QED BY <1>2, <1>3, <3>1
  <2>2. promise = "values" => FALSE
    BY <1>2 DEF AllIsAnsweredOnce
  <2>3. \A k \in Items : item[k] = "used" => item'[k] = "used"
    BY <1>2, <1>4
  <2>4. promise' = "error" => promise = "error"
    BY <1>3
  <2>5. promise' = "values" => promise = "values"
    BY <1>3
  <2> QED BY <1>2, <1>3, <2>1, <2>2, <2>3, <2>4, <2>5 DEF AllIsAnsweredOnce
<1> QED BY <1>5, <1>6, <1>7, <1>8, <1>10, <1>11, <1>12

\* The work of item i has run, and i has another state: the other works still
\* bring results, one per item.
LEMMA OthersBringResults ==
  ASSUME AllTypeOK, WorksBringResults, NEW i \in Items, "all" \in open',
         Tail(works) \in Seq(AllWorks),
         works' = Tail(works), \A k \in Items : k # i => item'[k] = item[k],
         \A n \in DOMAIN Tail(works) : /\ n + 1 \in DOMAIN works /\ Tail(works)[n] = works[n + 1]
                                       /\ Tail(works)[n].work.item # i
  PROVE  WorksBringResults'
<1>1. works' \in Seq(AllWorks) /\ \A n \in DOMAIN works' : n \in Int /\ works'[n] \in AllWorks
  OBVIOUS
<1>2. \A n \in DOMAIN works' : works'[n].work.item \in Items
  BY <1>1, AllWorksFields
<1>3. \A n \in DOMAIN works' :
        /\ item'[works'[n].work.item] = item[works'[n].work.item]
        /\ n + 1 \in DOMAIN works /\ works'[n] = works[n + 1]
  BY <1>2
<1>4. \A m, n \in DOMAIN works' : works'[m].work.item = works'[n].work.item => m + 1 = n + 1
  BY <1>3 DEF WorksBringResults
<1>5. \A m, n \in DOMAIN works' : works'[m].work.item = works'[n].work.item => m = n
  BY <1>1, <1>4
<1> QED BY <1>3, <1>5 DEF WorksBringResults

LEMMA TaskFinishedKeeps == ASSUME AllInv, NEW i \in Items, TaskFinished(i) PROVE AllInv'
<1> USE DEF AllInv
<1>1. /\ "all" \in open /\ i \in hooked /\ item[i] = "value"
      /\ Tail(works) \in Seq(AllWorks)
      /\ \A n \in DOMAIN Tail(works) : /\ n + 1 \in DOMAIN works /\ Tail(works)[n] = works[n + 1]
                                       /\ Tail(works)[n].work.item # i
  BY RunsItem DEF TaskFinished
<1>2. /\ finished' = finished + 1 /\ hooked' = hooked \ {i} /\ works' = Tail(works)
      /\ item' = [item EXCEPT ![i] = "used"] /\ UNCHANGED <<open, form, starting, returned>>
  BY DEF TaskFinished
<1> DEFINE p == IF finished' = ItemCount THEN "values" ELSE promise
<1>3. promise' = p \/ (p = "pending" /\ promise' = "broken" /\ hooked' = {} /\ starting' = 0)
  BY DEF TaskFinished, Release
<1>4. item' \in [Items -> {"none", "pending", "value", "error", "used"}] /\ item'[i] = "used"
      /\ \A k \in Items : k # i => item'[k] = item[k]
  BY <1>2 DEF AllTypeOK
<1>5. AllTypeOK'
  BY <1>1, <1>2, <1>3, <1>4 DEF AllTypeOK
<1>6. WorksBringResults'
  BY <1>1, <1>2, <1>4, OthersBringResults
<1>7. AnswersAwaited'
  BY <1>1, <1>2, <1>4 DEF AnswersAwaited
<1>8. StartedInOrder'
  BY <1>1, <1>2, <1>4 DEF StartedInOrder
<1>9. UsedItems' = UsedItems \cup {i} /\ (finished' = ItemCount <=> UsedItems' = Items)
      /\ finished' = Cardinality(UsedItems)'
  <2>1. UsedItems' = UsedItems \cup {i} /\ UsedItems \in SUBSET Items /\ i \notin UsedItems
    BY <1>1, <1>4 DEF UsedItems
  <2>2. Cardinality(UsedItems \cup {i}) = finished'
    BY <1>1, <1>2, <2>1, ItemsCounted DEF FinishedCounts
  <2>3. Cardinality(UsedItems \cup {i}) = ItemCount <=> UsedItems \cup {i} = Items
    BY <2>1, ItemsCounted
  <2> QED BY <2>1, <2>2, <2>3
<1>10. FinishedCounts'
  BY <1>3, <1>9 DEF FinishedCounts
<1>11. BrokenIsLast'
  BY <1>2, <1>3 DEF BrokenIsLast
<1>12. (promise' = "broken" => returned = "exception") /\ promise' # "error"
  <2>1. promise # "broken" /\ promise # "error"
    BY <1>1 DEF BrokenIsLast, AllIsAnsweredOnce
  <2>2. promise' = "broken" => finished' # ItemCount /\ hooked' = {} /\ starting' = 0
    BY <1>3, <2>1
  <2>3. hooked' = {} /\ starting' = 0 => UsedItems' = Items \/ returned = "exception"
    <3>1. SUFFICES ASSUME hooked' = {}, starting' = 0, returned # "exception" PROVE UsedItems' = Items
      OBVIOUS
    <3>2. returned = "future"
      BY <1>2, <3>1 DEF StartedInOrder, AllTypeOK
    <3>3. \A k \in Items : k # i => item[k] = "used"
      BY <1>1, <1>2, <3>1, <3>2 DEF StartedInOrder, AnswersAwaited, AllTypeOK
    <3> QED BY <1>4, <3>3 DEF UsedItems
  <2>4. promise' # "error"
    BY <1>3, <2>1
  <2> QED BY <1>9, <2>2, <2>3, <2>4
<1>13. AllIsAnsweredOnce'
  <2>1. promise' = "values" => UsedItems' = Items
    <3>1. promise = "values" => FALSE
      BY <1>1 DEF AllIsAnsweredOnce
    <3> QED BY <1>3, <1>9, <3>1
  <2> QED BY <1>2, <1>5, <1>12, <2>1 DEF AllIsAnsweredOnce, AllTypeOK, UsedItems
<1> QED BY <1>5, <1>6, <1>7, <1>8, <1>10, <1>11, <1>13

LEMMA PassErrorKeeps == ASSUME AllInv, NEW i \in Items, PassError(i) PROVE AllInv'
<1> USE DEF AllInv
<1>1. /\ "all" \in open /\ item[i] = "error"
      /\ Tail(works) \in Seq(AllWorks)
      /\ \A n \in DOMAIN Tail(works) : /\ n + 1 \in DOMAIN works /\ Tail(works)[n] = works[n + 1]
                                       /\ Tail(works)[n].work.item # i
  BY RunsItem DEF PassError
<1>2. /\ works' = Append(Tail(works), [ctx |-> "all", work |-> [item |-> i, step |-> "fail"]])
      /\ UNCHANGED <<open, form, starting, item, hooked, finished, promise, returned>>
  BY DEF PassError, allVars
<1>3. works' \in Seq(AllWorks)
  <2>1. [ctx |-> "all", work |-> [item |-> i, step |-> "fail"]] \in AllWorks
    BY AllWorksFields
  <2> QED BY <1>1, <1>2, <2>1
<1>4. WorksBringResults'
  <2>1. \A n \in DOMAIN works' :
          \/ n \in DOMAIN Tail(works) /\ works'[n] = Tail(works)[n]
          \/ n = Len(Tail(works)) + 1 /\ works'[n] = [ctx |-> "all", work |-> [item |-> i, step |-> "fail"]]
    BY <1>1, <1>2
  <2>2. \A m, n \in DOMAIN works' : m \in Int /\ n \in Int
    BY <1>3
  <2>3. \A m, n \in DOMAIN Tail(works) :
           Tail(works)[m].work.item = Tail(works)[n].work.item => m = n
    <3>1. \A m, n \in DOMAIN Tail(works) :
             Tail(works)[m].work.item = Tail(works)[n].work.item => m + 1 = n + 1
      BY <1>1 DEF WorksBringResults
    <3>2. \A n \in DOMAIN Tail(works) : n \in Int
      BY <1>1
    <3> QED BY <3>1, <3>2
  <2>4. \A m, n \in DOMAIN works' : works'[m].work.item = works'[n].work.item => m = n
    BY <1>1, <2>1, <2>3
  <2>5. \A n \in DOMAIN works' : /\ item[works'[n].work.item] \in {"value", "error"}
                               /\ works'[n].work.step = "fail" => item[works'[n].work.item] = "error"
    BY <1>1, <2>1 DEF WorksBringResults
  <2> QED BY <1>1, <1>2, <2>4, <2>5 DEF WorksBringResults
<1>5. UsedItems' = UsedItems
  BY <1>2 DEF UsedItems
<1>6. AllTypeOK' /\ AnswersAwaited' /\ StartedInOrder'
  <2>1. AllTypeOK'
    BY <1>2, <1>3 DEF AllTypeOK
  <2>2. AnswersAwaited' /\ StartedInOrder'
    BY <1>2 DEF AnswersAwaited, StartedInOrder
  <2> QED BY <2>1, <2>2
<1>7. FinishedCounts' /\ BrokenIsLast' /\ AllIsAnsweredOnce'
  BY <1>2, <1>5 DEF FinishedCounts, BrokenIsLast, AllIsAnsweredOnce
<1> QED BY <1>4, <1>6, <1>7

LEMMA TaskFailedKeeps == ASSUME AllInv, NEW i \in Items, TaskFailed(i) PROVE AllInv'
<1> USE DEF AllInv
<1>1. /\ "all" \in open /\ i \in hooked /\ item[i] = "error"
      /\ Tail(works) \in Seq(AllWorks)
  BY RunsItem DEF TaskFailed
<1>2. /\ works' = <<>> /\ "all" \notin open' /\ hooked' = {k \in hooked : item[k] = "pending"}
      /\ promise' = IF promise = "pending" THEN "error" ELSE "twice"
      /\ item' = [item EXCEPT ![i] = "used"] /\ UNCHANGED <<form, starting, finished, returned>>
  BY <1>1, CloseAllEmpties DEF TaskFailed
<1>3. promise = "pending" /\ promise' = "error"
  BY <1>1, <1>2 DEF AllIsAnsweredOnce, BrokenIsLast, AllTypeOK
<1>4. item' \in [Items -> {"none", "pending", "value", "error", "used"}] /\ item'[i] = "used"
      /\ \A k \in Items : k # i => item'[k] = item[k]
  BY <1>2 DEF AllTypeOK
<1>5. AllTypeOK' /\ WorksBringResults'
  <2>1. works' \in Seq(AllWorks)
    BY <1>2
  <2>2. AllTypeOK'
    BY <1>2, <1>3, <1>4, <2>1 DEF AllTypeOK
  <2> QED BY <1>2, <2>2 DEF WorksBringResults
<1>6. AnswersAwaited' /\ StartedInOrder'
  <2>1. AnswersAwaited'
    BY <1>1, <1>2, <1>4 DEF AnswersAwaited
  <2>2. StartedInOrder'
    BY <1>1, <1>2, <1>4 DEF StartedInOrder
  <2> QED BY <2>1, <2>2
<1>7. FinishedCounts' /\ BrokenIsLast'
  BY <1>2, <1>3 DEF FinishedCounts, BrokenIsLast
<1>8. finished < ItemCount
  <2>1. UsedItems \in SUBSET Items /\ UsedItems # Items
    BY <1>1 DEF UsedItems
  <2> QED BY <1>1, <2>1, ItemsCounted, ItemCountAssumption DEF FinishedCounts
<1>9. AllIsAnsweredOnce'
  BY <1>2, <1>3, <1>4, <1>8 DEF AllIsAnsweredOnce
<1> QED BY <1>5, <1>6, <1>7, <1>9

LEMMA AllNextKeeps == AllInv /\ [AllNext]_<<contextVars, allVars>> => AllInv'
<1> SUFFICES ASSUME AllInv, [AllNext]_<<contextVars, allVars>> PROVE AllInv'
  OBVIOUS
<1>1. CASE AllStart
  BY <1>1, StartItemKeeps, StartThrowsKeeps, StartEndsKeeps DEF AllStart
<1>2. CASE CloseParent
  BY <1>2, CloseParentKeeps
<1>3. ASSUME NEW i \in Items, ItemEnds(i) \/ AllWork(i) PROVE AllInv'
  BY <1>3, ItemEndsKeeps, TaskFinishedKeeps, PassErrorKeeps, TaskFailedKeeps DEF AllWork
<1>4. CASE UNCHANGED <<contextVars, allVars>>
  BY <1>4 DEF contextVars, allVars, AllInv, AllTypeOK, WorksBringResults, AnswersAwaited,
              StartedInOrder, UsedItems, FinishedCounts, BrokenIsLast, AllIsAnsweredOnce
<1> QED BY <1>1, <1>2, <1>3, <1>4 DEF AllNext

\* all() and run() answer once and truly, whatever the number of items, the
\* results, and the moment at which the parent context closes.
THEOREM AllAnswers == AllSpec => []AllIsAnsweredOnce
<1>1. AllInv => AllIsAnsweredOnce
  BY DEF AllInv
<1> QED BY <1>1, AllInitInv, AllNextKeeps, PTL DEF AllSpec

-----------------------------------------------------------------------------
\* StateObserver.
ObserverClosures ==
  [ctx : Nat,
   work : [do : {"set", "setter"}, value : Results] \cup [do : {"update"}]
          \cup [do : {"applied"}, failed : BOOLEAN]
          \cup [do : {"answer"}, value : Results, at : Nat]]

\* A work of a context that is open, and of the polls' when it is an answer.
WorkOf(w, os) ==
  /\ w.ctx \in os
  /\ w.work.do = "answer" => w.ctx = w.work.at /\ w.ctx # 0
  /\ w.work.do = "applied" => w.ctx # 0

\* Only the context of the calls and the current one of the polls are open; what
\* was asked came from some context of the polls, and its answer goes there.
ObserverInv ==
  /\ works \in Seq(ObserverClosures)
  /\ generation \in Nat \ {0} /\ open \subseteq {0, generation} /\ sleeping \subseteq Nat
  /\ remote \in Results
  /\ \A q \in asked : q.at \in Nat \ {0} /\ (q.op = "set" => q.value \in Results)
  /\ \A i \in DOMAIN works : WorkOf(works[i], open)
  /\ observed.by # "nobody" => observed.at = generation

LEMMA ObserverClosuresShape ==
  /\ \A c \in Nat : [ctx |-> c, work |-> [do |-> "update"]] \in ObserverClosures
  /\ \A c \in Nat, s \in {"set", "setter"}, v \in Results :
       [ctx |-> c, work |-> [do |-> s, value |-> v]] \in ObserverClosures
  /\ \A c \in Nat, b \in BOOLEAN :
       [ctx |-> c, work |-> [do |-> "applied", failed |-> b]] \in ObserverClosures
  /\ \A c \in Nat, g \in Nat, v \in Results :
       [ctx |-> c, work |-> [do |-> "answer", value |-> v, at |-> g]] \in ObserverClosures
BY DEF ObserverClosures

LEMMA ExecKeepsWorks ==
  ASSUME NEW q \in Seq(ObserverClosures), NEW os, NEW c, NEW w,
         [ctx |-> c, work |-> w] \in ObserverClosures \/ c \notin os,
         \A i \in DOMAIN q : WorkOf(q[i], os), c \in os => WorkOf([ctx |-> c, work |-> w], os)
  PROVE  LET e == IF c \in os THEN Append(q, [ctx |-> c, work |-> w]) ELSE q
         IN  e \in Seq(ObserverClosures) /\ \A i \in DOMAIN e : WorkOf(e[i], os)
<1>1. CASE c \notin os
  BY <1>1
<1>2. CASE c \in os
  <2> DEFINE r == [ctx |-> c, work |-> w]
  <2>1. r \in ObserverClosures /\ WorkOf(r, os)
    BY <1>2
  <2> HIDE DEF r
  <2>2. Append(q, r) \in Seq(ObserverClosures)
        /\ \A i \in DOMAIN Append(q, r) : (i \in DOMAIN q /\ Append(q, r)[i] = q[i]) \/ Append(q, r)[i] = r
    BY <2>1
  <2>3. \A i \in DOMAIN Append(q, r) : WorkOf(Append(q, r)[i], os)
    BY <2>1, <2>2
  <2> QED BY <1>2, <2>2, <2>3 DEF r
<1> QED BY <1>1, <1>2

LEMMA TailKeepsWorks ==
  ASSUME NEW q \in Seq(ObserverClosures), q # <<>>, NEW os, \A i \in DOMAIN q : WorkOf(q[i], os)
  PROVE  Tail(q) \in Seq(ObserverClosures) /\ \A i \in DOMAIN Tail(q) : WorkOf(Tail(q)[i], os)
<1>1. Tail(q) \in Seq(ObserverClosures)
      /\ \A i \in DOMAIN Tail(q) : i + 1 \in DOMAIN q /\ Tail(q)[i] = q[i + 1]
  OBVIOUS
<1> QED BY <1>1

LEMMA CloseKeepsWorks ==
  ASSUME NEW q \in Seq(ObserverClosures), NEW os, NEW cs, \A i \in DOMAIN q : WorkOf(q[i], os)
  PROVE  /\ Without(q, cs) \in Seq(ObserverClosures)
         /\ \A i \in DOMAIN Without(q, cs) : WorkOf(Without(q, cs)[i], os \ cs)
<1> DEFINE w == Without(q, cs)
<1>1. PICK at \in [DOMAIN w -> DOMAIN q] :
        \A n \in DOMAIN w : w[n] = q[at[n]] /\ q[at[n]].ctx \notin cs
  <2>1. KeepsOthers(w, q, cs)
    BY WithoutKeepsOthers
  <2> QED BY <2>1 DEF KeepsOthers
<1>2. \A n \in DOMAIN w : WorkOf(w[n], os) /\ w[n].ctx \notin cs
  BY <1>1
<1> QED BY <1>2, WithoutKeepsOthers DEF WorkOf

LEMMA ObserverInitInv ==
  open = ObserverContexts /\ works = ObserverWorks /\ ObserverInit(TRUE) => ObserverInv
<1> SUFFICES ASSUME open = {0, 1}, works = <<[ctx |-> 1, work |-> [do |-> "update"]]>>, ObserverInit(TRUE)
             PROVE  ObserverInv
  BY DEF ObserverContexts, ObserverWorks
<1>1. [ctx |-> 1, work |-> [do |-> "update"]] \in ObserverClosures
  BY ObserverClosuresShape
<1>2. works \in Seq(ObserverClosures) /\ \A i \in DOMAIN works : WorkOf(works[i], open)
  <2> DEFINE r == [ctx |-> 1, work |-> [do |-> "update"]]
  <2>1. WorkOf(r, open)
    BY DEF WorkOf
  <2> HIDE DEF r
  <2>2. works = <<r>>
    BY DEF r
  <2> QED BY <1>1, <2>1, <2>2 DEF r
<1> QED BY <1>2 DEF ObserverInv, ObserverInit, Initial, Choice, Results

\* The work that runs is typed, of an open context, and leaves works as they were.
LEMMA DoingLeaves ==
  ASSUME ObserverInv, NEW w, Doing(w)
  PROVE  /\ Head(works) \in ObserverClosures /\ Head(works).work = w /\ WorkOf(Head(works), open)
         /\ Tail(works) \in Seq(ObserverClosures)
         /\ \A i \in DOMAIN Tail(works) : WorkOf(Tail(works)[i], open)
<1>1. works # <<>> /\ works \in Seq(ObserverClosures) /\ Head(works).work = w
  BY DEF Doing, ObserverInv
<1>2. Head(works) = works[1] /\ 1 \in DOMAIN works /\ Head(works) \in ObserverClosures
  BY <1>1
<1> QED BY <1>1, <1>2, TailKeepsWorks DEF ObserverInv

LEMMA SetStateKeeps == ASSUME ObserverInv, NEW v \in States, SetState(v) PROVE ObserverInv'
<1>1. works' = (IF 0 \in open THEN Append(works, [ctx |-> 0, work |-> [do |-> "set", value |-> v]]) ELSE works)
      /\ UNCHANGED <<open, generation, sleeping, asked, observed, remote>>
  BY DEF SetState, Exec
<1> DEFINE w == [do |-> "set", value |-> v]
<1>2. w.do = "set" /\ [ctx |-> 0, work |-> w] \in ObserverClosures
  BY ObserverClosuresShape DEF Results
<1>3. 0 \in open => WorkOf([ctx |-> 0, work |-> w], open)
  BY <1>2 DEF WorkOf
<1>4. works' \in Seq(ObserverClosures) /\ \A i \in DOMAIN works' : WorkOf(works'[i], open)
  BY <1>1, <1>2, <1>3, ExecKeepsWorks DEF ObserverInv
<1> QED BY <1>1, <1>4 DEF ObserverInv

LEMMA DoSetKeeps == ASSUME ObserverInv, NEW v \in Results, DoSet(v) PROVE ObserverInv'
<1> DEFINE w == [do |-> "setter", value |-> v]
           q == Without(Tail(works), {generation})
           os == (open \ {generation}) \cup {generation + 1}
<1>1. /\ generation' = generation + 1 /\ open' = os /\ UNCHANGED <<asked, remote>>
      /\ works' = Append(q, [ctx |-> generation + 1, work |-> w])
      /\ sleeping' = sleeping \ {generation}
      /\ observed' = [value |-> v, by |-> "set", at |-> generation + 1]
  BY DEF DoSet, SetNewState
<1>2. /\ Tail(works) \in Seq(ObserverClosures)
      /\ \A i \in DOMAIN Tail(works) : WorkOf(Tail(works)[i], open)
  BY DoingLeaves DEF DoSet
<1>3. q \in Seq(ObserverClosures) /\ \A i \in DOMAIN q : WorkOf(q[i], open \ {generation})
  BY <1>2, CloseKeepsWorks
<1>4. \A i \in DOMAIN q : WorkOf(q[i], os)
  BY <1>3 DEF WorkOf
<1>5. generation + 1 \in Nat \ {0} /\ [ctx |-> generation + 1, work |-> w] \in ObserverClosures
  <2>1. generation + 1 \in Nat /\ generation + 1 # 0
    BY DEF ObserverInv
  <2> QED BY <2>1, ObserverClosuresShape
<1>6. generation + 1 \in os /\ WorkOf([ctx |-> generation + 1, work |-> w], os)
  BY DEF WorkOf
<1> HIDE DEF q, os
<1>7. works' = IF generation + 1 \in os THEN Append(q, [ctx |-> generation + 1, work |-> w]) ELSE q
  BY <1>1, <1>6
<1>8. works' \in Seq(ObserverClosures) /\ \A i \in DOMAIN works' : WorkOf(works'[i], os)
  BY <1>3, <1>4, <1>5, <1>6, <1>7, ExecKeepsWorks
<1> QED BY <1>1, <1>5, <1>8 DEF ObserverInv, os

LEMMA CallsKeep ==
  ASSUME ObserverInv, Update \/ \E v \in Results : CallSetter(v) PROVE ObserverInv'
<1>1. /\ works' = Tail(works) /\ UNCHANGED <<open, generation, remote>>
      /\ \/ asked' = asked
         \/ \E v \in Results : asked' = asked \cup {[op |-> "set", value |-> v, at |-> generation]}
         \/ asked' = asked \cup {[op |-> "get", at |-> generation]}
      /\ sleeping' = sleeping \/ sleeping' = sleeping \cup {generation}
      /\ observed' = observed \/ observed'.at = generation
      /\ \E w : Doing(w)
  <2>1. CASE Update
    BY <2>1 DEF Update, UpdateState, SetNewState
  <2>2. CASE \E v \in Results : CallSetter(v)
    BY <2>2 DEF CallSetter
  <2> QED BY <2>1, <2>2
<1>2. works' \in Seq(ObserverClosures) /\ \A i \in DOMAIN works' : WorkOf(works'[i], open')
  BY <1>1, DoingLeaves
<1>3. \A q \in asked' : q.at \in Nat \ {0} /\ (q.op = "set" => q.value \in Results)
  BY <1>1 DEF ObserverInv
<1> QED BY <1>1, <1>2, <1>3 DEF ObserverInv

LEMMA SetterAnswersKeeps == ASSUME ObserverInv, SetterAnswers PROVE ObserverInv'
<1>1. PICK q \in asked, failed \in BOOLEAN :
        /\ asked' = asked \ {q} /\ UNCHANGED <<open, observed, generation, sleeping>>
        /\ remote' = IF failed THEN remote ELSE q.value
        /\ q.op = "set"
        /\ works' = IF q.at \in open
                    THEN Append(works, [ctx |-> q.at, work |-> [do |-> "applied", failed |-> failed]]) ELSE works
  BY DEF SetterAnswers, Exec
<1> DEFINE w == [do |-> "applied", failed |-> failed]
<1>2. q.at \in Nat \ {0} /\ [ctx |-> q.at, work |-> w] \in ObserverClosures
  BY ObserverClosuresShape DEF ObserverInv
<1>3. q.at \in open => WorkOf([ctx |-> q.at, work |-> w], open)
  BY <1>2 DEF WorkOf
<1>4. works' \in Seq(ObserverClosures) /\ \A i \in DOMAIN works' : WorkOf(works'[i], open)
  BY <1>1, <1>2, <1>3, ExecKeepsWorks DEF ObserverInv
<1> QED BY <1>1, <1>4 DEF ObserverInv

LEMMA GetterAnswersKeeps == ASSUME ObserverInv, GetterAnswers PROVE ObserverInv'
<1>1. PICK q \in asked, v \in {remote, "failure"} :
        /\ asked' = asked \ {q} /\ UNCHANGED <<open, observed, generation, sleeping, remote>>
        /\ works' = IF q.at \in open
                    THEN Append(works, [ctx |-> q.at, work |-> [do |-> "answer", value |-> v, at |-> q.at]])
                    ELSE works
  BY DEF GetterAnswers, Exec
<1> DEFINE w == [do |-> "answer", value |-> v, at |-> q.at]
<1>2. q.at \in Nat \ {0} /\ [ctx |-> q.at, work |-> w] \in ObserverClosures
  BY ObserverClosuresShape DEF ObserverInv, Results
<1>3. q.at \in open => WorkOf([ctx |-> q.at, work |-> w], open)
  BY <1>2 DEF WorkOf
<1>4. works' \in Seq(ObserverClosures) /\ \A i \in DOMAIN works' : WorkOf(works'[i], open)
  BY <1>1, <1>2, <1>3, ExecKeepsWorks DEF ObserverInv
<1> QED BY <1>1, <1>4 DEF ObserverInv

LEMMA AppliedKeeps == ASSUME ObserverInv, NEW failed \in BOOLEAN, Applied(failed) PROVE ObserverInv'
<1>1. /\ works' = Append(Tail(works), [ctx |-> generation, work |-> [do |-> "update"]])
      /\ UNCHANGED <<open, generation, asked, sleeping, remote>>
      /\ observed' = observed \/ observed'.at = generation
      /\ Doing([do |-> "applied", failed |-> failed])
  BY DEF Applied, SetNewState
<1> DEFINE w == [do |-> "update"]
<1>2. /\ Tail(works) \in Seq(ObserverClosures)
      /\ \A i \in DOMAIN Tail(works) : WorkOf(Tail(works)[i], open)
      /\ generation \in open /\ generation \in Nat
  <2>1. Head(works).work = [do |-> "applied", failed |-> failed] /\ WorkOf(Head(works), open)
    BY <1>1, DoingLeaves
  <2>2. Head(works).ctx \in open /\ Head(works).ctx # 0
    BY <2>1 DEF WorkOf
  <2> QED BY <1>1, <2>2, DoingLeaves DEF ObserverInv
<1>3. [ctx |-> generation, work |-> w] \in ObserverClosures /\ WorkOf([ctx |-> generation, work |-> w], open)
  BY <1>2, ObserverClosuresShape DEF WorkOf
<1>4. works' \in Seq(ObserverClosures) /\ \A i \in DOMAIN works' : WorkOf(works'[i], open)
  BY <1>1, <1>2, <1>3, ExecKeepsWorks
<1> QED BY <1>1, <1>4 DEF ObserverInv

\* An answer that runs came through the current context: it is of its time.
LEMMA AnsweredKeeps ==
  ASSUME ObserverInv, NEW v \in Results, NEW at \in Gens, Answered(v, at) PROVE ObserverInv'
<1>1. /\ works' = Tail(works) /\ UNCHANGED <<open, generation, asked, remote>>
      /\ sleeping' = sleeping \cup {generation}
      /\ observed' = [value |-> v, by |-> "get", at |-> at]
      /\ Doing([do |-> "answer", value |-> v, at |-> at])
  BY DEF Answered, SetNewState
<1>2. at = generation
  <2>1. WorkOf(Head(works), open) /\ Head(works).work = [do |-> "answer", value |-> v, at |-> at]
    BY <1>1, DoingLeaves
  <2>2. at \in open /\ at # 0
    BY <2>1 DEF WorkOf
  <2> QED BY <2>2 DEF ObserverInv
<1>3. works' \in Seq(ObserverClosures) /\ \A i \in DOMAIN works' : WorkOf(works'[i], open)
  BY <1>1, DoingLeaves
<1> QED BY <1>1, <1>2, <1>3 DEF ObserverInv

LEMMA PollTimerKeeps == ASSUME ObserverInv, NEW g \in Gens, PollTimer(g) PROVE ObserverInv'
<1>1. /\ works' = IF g \in open THEN Append(works, [ctx |-> g, work |-> [do |-> "update"]]) ELSE works
      /\ UNCHANGED <<open, generation, observed, asked, remote>> /\ sleeping' = sleeping \ {g} /\ g \in sleeping
  BY DEF PollTimer, Exec
<1> DEFINE w == [do |-> "update"]
<1>2. [ctx |-> g, work |-> w] \in ObserverClosures /\ (g \in open => WorkOf([ctx |-> g, work |-> w], open))
  BY <1>1, ObserverClosuresShape DEF ObserverInv, WorkOf
<1>3. works' \in Seq(ObserverClosures) /\ \A i \in DOMAIN works' : WorkOf(works'[i], open)
  BY <1>1, <1>2, ExecKeepsWorks DEF ObserverInv
<1> QED BY <1>1, <1>3 DEF ObserverInv

LEMMA DestroyObserverKeeps == ASSUME ObserverInv, DestroyObserver PROVE ObserverInv'
<1>1. /\ works' = Without(works, {0, generation}) /\ open' = open \ {0, generation}
      /\ sleeping' = {} /\ UNCHANGED <<generation, observed, asked, remote>>
  BY DEF DestroyObserver
<1>2. works' \in Seq(ObserverClosures) /\ \A i \in DOMAIN works' : WorkOf(works'[i], open')
  BY <1>1, CloseKeepsWorks DEF ObserverInv
<1> QED BY <1>1, <1>2 DEF ObserverInv

LEMMA ObserverNextKeeps == ObserverInv /\ [ObserverNext]_<<contextVars, observerVars>> => ObserverInv'
<1> SUFFICES ASSUME ObserverInv, [ObserverNext]_<<contextVars, observerVars>> PROVE ObserverInv'
  OBVIOUS
<1>1. CASE ObserverWork
  BY <1>1, DoSetKeeps, CallsKeep, AppliedKeeps, AnsweredKeeps DEF ObserverWork
<1>2. CASE Answers
  BY <1>2, SetterAnswersKeeps, GetterAnswersKeeps DEF Answers
<1>3. CASE RemoteChanges
  BY <1>3 DEF RemoteChanges, ObserverInv, Results
<1>4. CASE UNCHANGED <<contextVars, observerVars>>
  BY <1>4 DEF contextVars, observerVars, ObserverInv
<1> QED BY <1>1, <1>2, <1>3, <1>4, SetStateKeeps, DestroyObserverKeeps, PollTimerKeeps
        DEF ObserverNext

\* However late the answers come, and however often the state is set: none from
\* before the last setState comes through.
THEOREM LateAnswers == ObserverSpec => []LateAnswerIgnored
<1>1. ObserverInv => LateAnswerIgnored
  BY DEF ObserverInv, LateAnswerIgnored, WorkOf
<1> QED BY <1>1, ObserverInitInv, ObserverNextKeeps, PTL DEF ObserverSpec

-----------------------------------------------------------------------------
\* DelayedProperty.
PropertyTypeOK ==
  /\ pending \in Assignments \cup {NoAssignment}
  /\ applying \in [Appliers -> Assignments \cup {NoAssignment}]
  /\ assignment \in [Assignments -> {"none", "pending", "value", "failed", "cancelled", "broken"}]
  /\ DOMAIN waiter = Waiters

\* AssignmentsAreKept, an assignment at a time: it waits for its answer exactly
\* while it is the pending one or an applier has it.
KeptSomewhere ==
  \A a \in Assignments :
    assignment[a] = "pending" <=> a = pending \/ \E p \in Appliers : applying[p] = a

KeptOnce ==
  \A p, q \in Appliers : applying[p] # NoAssignment =>
    applying[p] # pending /\ (applying[p] = applying[q] => p = q)

WaitersAwake == pending # NoAssignment => \A w \in Waiters : waiter[w] # "waiting"

PropertyInv == PropertyTypeOK /\ KeptSomewhere /\ KeptOnce /\ WaitersAwake

LEMMA PropertyInitInv == PropertyInit(TRUE) => PropertyInv
BY NoAssignmentAssumption
   DEF PropertyInit, PropertyInv, PropertyTypeOK, KeptSomewhere, KeptOnce, WaitersAwake

LEMMA AssignKeeps == ASSUME PropertyInv, NEW a \in Assignments, Assign(a) PROVE PropertyInv'
<1> USE NoAssignmentAssumption DEF PropertyInv, Assign, SetNewValue
<1>1. CASE assigned[a] = current
  <2>1. a # pending /\ ~\E p \in Appliers : applying[p] = a
    BY DEF KeptSomewhere
  <2>2. KeptSomewhere'
    BY <1>1, <2>1 DEF PropertyTypeOK, KeptSomewhere
  <2> QED BY <1>1, <2>2 DEF PropertyTypeOK, KeptOnce, WaitersAwake
<1>2. CASE assigned[a] # current
  <2>1. a # pending /\ ~\E p \in Appliers : applying[p] = a
    BY DEF KeptSomewhere
  <2>2. pending' = a /\ applying' = applying
        /\ assignment' = [b \in Assignments |-> CASE b = a -> "pending"
                                                 [] b = pending -> "cancelled"
                                                 [] OTHER -> assignment[b]]
    BY <1>2
  <2>3. \A b \in Assignments : assignment'[b] =
          IF b = a THEN "pending" ELSE IF b = pending THEN "cancelled" ELSE assignment[b]
    BY <2>1, <2>2
  <2>4. KeptSomewhere'
    BY <2>1, <2>2, <2>3 DEF KeptSomewhere, KeptOnce
  <2>5. PropertyTypeOK' /\ WaitersAwake'
    BY <1>2, <2>2 DEF PropertyTypeOK, WaitersAwake
  <2>6. KeptOnce'
    BY <2>1, <2>2 DEF KeptOnce
  <2> QED BY <2>4, <2>5, <2>6
<1> QED BY <1>1, <1>2

LEMMA TakeNewValueKeeps == ASSUME PropertyInv, NEW p \in Appliers, TakeNewValue(p) PROVE PropertyInv'
<1> USE NoAssignmentAssumption DEF PropertyInv, TakeNewValue
<1>1. PropertyTypeOK'
  BY DEF PropertyTypeOK
<1>2. KeptSomewhere'
  BY DEF PropertyTypeOK, KeptSomewhere
<1>3. KeptOnce'
  BY DEF PropertyTypeOK, KeptOnce
<1>4. WaitersAwake'
  BY DEF WaitersAwake
<1> QED BY <1>1, <1>2, <1>3, <1>4

LEMMA HandlerEndsKeeps == ASSUME PropertyInv, NEW p \in Appliers, HandlerEnds(p) PROVE PropertyInv'
<1> DEFINE a == applying[p]
<1> USE NoAssignmentAssumption DEF PropertyInv, HandlerEnds
<1>1. a \in Assignments /\ a # pending
  BY DEF PropertyTypeOK, KeptOnce
<1>2. /\ applying' = [applying EXCEPT ![p] = NoAssignment] /\ UNCHANGED <<pending, waiter>>
      /\ \E r \in {"value", "failed"} : assignment' = [assignment EXCEPT ![a] = r]
  OBVIOUS
<1> HIDE DEF HandlerEnds
<1>3. PropertyTypeOK'
  BY <1>2 DEF PropertyTypeOK
<1>4. KeptSomewhere'
  <2>1. \A q \in Appliers \ {p} : applying[q] # a
    BY <1>1 DEF KeptOnce
  <2>2. \A b \in Assignments \ {a} :
          (\E q \in Appliers : applying'[q] = b) <=> \E q \in Appliers : applying[q] = b
    BY <1>2 DEF PropertyTypeOK
  <2>3. ~\E q \in Appliers : applying'[q] = a
    BY <1>1, <1>2, <2>1 DEF PropertyTypeOK
  <2> HIDE DEF a
  <2>4. PICK r \in {"value", "failed"} : assignment' = [assignment EXCEPT ![a] = r]
    BY <1>2
  <2>5. assignment'[a] # "pending" /\ \A b \in Assignments \ {a} : assignment'[b] = assignment[b]
    BY <1>1, <2>4 DEF PropertyTypeOK, KeptSomewhere
  <2> QED BY <1>1, <1>2, <2>2, <2>3, <2>5 DEF KeptSomewhere
<1>5. KeptOnce' /\ WaitersAwake'
  BY <1>2 DEF PropertyTypeOK, KeptOnce, WaitersAwake
<1> QED BY <1>3, <1>4, <1>5

LEMMA PropertyWaitKeeps ==
  ASSUME PropertyInv, NEW w \in Waiters, WaitNewValue(w) \/ WaitTimeOut(w) PROVE PropertyInv'
<1> USE DEF PropertyInv, WaitNewValue, WaitTimeOut
<1>1. PropertyTypeOK' /\ KeptSomewhere' /\ KeptOnce'
  BY DEF PropertyTypeOK, KeptSomewhere, KeptOnce
<1>2. WaitersAwake'
  BY DEF PropertyTypeOK, WaitersAwake
<1> QED BY <1>1, <1>2

LEMMA PropertyEndKeeps == ASSUME PropertyInv, DestroyProperty \/ ReleaseProperty PROVE PropertyInv'
<1>1. CASE DestroyProperty
  BY <1>1 DEF DestroyProperty, PropertyInv, PropertyTypeOK, KeptSomewhere, KeptOnce, WaitersAwake
<1>2. CASE ReleaseProperty
  <2> USE <1>2, NoAssignmentAssumption DEF PropertyInv, ReleaseProperty
  <2>1. KeptSomewhere'
    BY DEF PropertyTypeOK, KeptSomewhere, KeptOnce
  <2>2. PropertyTypeOK' /\ KeptOnce' /\ WaitersAwake'
    BY DEF PropertyTypeOK, KeptOnce, WaitersAwake
  <2> QED BY <2>1, <2>2
<1> QED BY <1>1, <1>2

LEMMA PropertyNextKeeps == PropertyInv /\ [PropertyNext]_propertyVars => PropertyInv'
<1> SUFFICES ASSUME PropertyInv, [PropertyNext]_propertyVars PROVE PropertyInv'
  OBVIOUS
<1>1. CASE UNCHANGED propertyVars
  BY <1>1 DEF propertyVars, PropertyInv, PropertyTypeOK, KeptSomewhere, KeptOnce, WaitersAwake
<1> QED BY <1>1, AssignKeeps, TakeNewValueKeeps, HandlerEndsKeeps, PropertyWaitKeeps, PropertyEndKeeps
        DEF PropertyNext

LEMMA PropertyInvImplies == PropertyInv => AssignmentsAreKept
<1> SUFFICES ASSUME PropertyInv PROVE AssignmentsAreKept
  OBVIOUS
<1>1. {a \in Assignments : assignment[a] = "pending"}
        = ({pending} \cup {applying[p] : p \in Appliers}) \ {NoAssignment}
  <2>1. ASSUME NEW x
        PROVE  x \in {a \in Assignments : assignment[a] = "pending"} <=>
                 (x = pending \/ \E p \in Appliers : applying[p] = x) /\ x # NoAssignment
    BY NoAssignmentAssumption DEF PropertyInv, PropertyTypeOK, KeptSomewhere
  <2> QED BY <2>1
<1> QED BY <1>1 DEF PropertyInv, KeptOnce, WaitersAwake, AssignmentsAreKept

\* Through every overlap of new values with the one being applied, and with the
\* end of the property: who assigned a value is answered by exactly one that has it.
THEOREM NoAssignmentIsForgotten == PropertySpec => []AssignmentsAreKept
BY PropertyInitInv, PropertyNextKeeps, PropertyInvImplies, PTL DEF PropertySpec

-----------------------------------------------------------------------------
\* CallQueue.
CallsTypeOK ==
  /\ pushed \in 0..MaxPushes /\ called \subseteq QueuedCalls
  /\ callCtx \in [QueuedCalls -> CallContexts]
  /\ stage \in [QueuedCalls -> {"none", "waiting", "running", "ended", "done"}]
  /\ link \in [QueuedCalls -> {"none", "pending", "ready", "cancelled"}]

\* It is the turn of d: the calls that it is chained to are done.
Turn(d) ==
  \A c \in QueuedCalls : c < d /\ (\A b \in c..(d - 1) : callCtx[b] \in open) => stage[c] = "done"

\* The chain breaks only with a context, and who waits for it is not through.
LinksTellStages ==
  \A c \in QueuedCalls :
    /\ stage[c] = "none" <=> c > pushed
    /\ link[c] = "none" <=> c > pushed
    /\ link[c] = "pending" => callCtx[c] \in open
    /\ link[c] = "cancelled" => callCtx[c] \notin open
    /\ link[c] = "ready" => stage[c] = "done"
    /\ stage[c] = "waiting" => link[c] = "pending"
    /\ stage[c] \in {"running", "ended"} /\ callCtx[c] \in open => link[c] = "pending"
    /\ stage[c] \in {"running", "ended", "done"} /\ callCtx[c] \in open => Turn(c)

\* A call whose work is in the executor is at the step that it makes.
CallWorks ==
  {w \in [ctx : CallContexts, work : [call : QueuedCalls, step : {"start", "finish"}]] :
     /\ w.ctx = callCtx[w.work.call] /\ w.ctx \in open
     /\ w.work.step = "start" => /\ stage[w.work.call] = "waiting" /\ Turn(w.work.call)
                                 /\ Before(w.work.call) # "pending"
     /\ w.work.step = "finish" => stage[w.work.call] = "ended"}

CallsInv ==
  /\ CallsTypeOK /\ LinksTellStages
  /\ works \in Seq(CallWorks) /\ IsInjective(works)
  /\ \A d \in called : Turn(d)

LEMMA CallWorkFields ==
  \A w \in CallWorks :
    /\ w.work.call \in QueuedCalls /\ w.work.step \in {"start", "finish"}
    /\ w = [ctx |-> callCtx[w.work.call], work |-> [call |-> w.work.call, step |-> w.work.step]]
    /\ w.ctx = callCtx[w.work.call] /\ w.ctx \in open
    /\ w.work.step = "start" => /\ stage[w.work.call] = "waiting" /\ Turn(w.work.call)
                                /\ Before(w.work.call) # "pending"
    /\ w.work.step = "finish" => stage[w.work.call] = "ended"
<1> SUFFICES ASSUME NEW w \in CallWorks
             PROVE  /\ w.work.call \in QueuedCalls /\ w.work.step \in {"start", "finish"}
                    /\ w = [ctx |-> callCtx[w.work.call], work |-> [call |-> w.work.call, step |-> w.work.step]]
  BY DEF CallWorks
<1>1. w \in [ctx : CallContexts, work : [call : QueuedCalls, step : {"start", "finish"}]]
      /\ w.ctx = callCtx[w.work.call]
  BY DEF CallWorks
<1>2. w.work \in [call : QueuedCalls, step : {"start", "finish"}]
  BY <1>1
<1>3. w = [ctx |-> w.ctx, work |-> w.work] /\ w.work = [call |-> w.work.call, step |-> w.work.step]
  BY <1>1, <1>2
<1> QED BY <1>1, <1>2, <1>3

LEMMA StartIsWork ==
  ASSUME CallsTypeOK, NEW c \in QueuedCalls, callCtx[c] \in open, stage[c] = "waiting", Turn(c),
         Before(c) # "pending"
  PROVE  [ctx |-> callCtx[c], work |-> [call |-> c, step |-> "start"]] \in CallWorks
BY DEF CallWorks, CallsTypeOK

LEMMA FinishIsWork ==
  ASSUME CallsTypeOK, NEW c \in QueuedCalls, callCtx[c] \in open, stage[c] = "ended"
  PROVE  [ctx |-> callCtx[c], work |-> [call |-> c, step |-> "finish"]] \in CallWorks
BY DEF CallWorks, CallsTypeOK

\* What every step keeps: no context opens, no call that is done starts again.
LEMMA TurnStays ==
  ASSUME callCtx' = callCtx, open' \subseteq open, NEW d \in QueuedCalls, Turn(d),
         \A c \in QueuedCalls : stage[c] = "done" => stage'[c] = "done"
  PROVE  Turn(d)'
BY DEF Turn

LEMMA CallWorkStays ==
  ASSUME callCtx' = callCtx, open' \subseteq open, NEW w \in CallWorks, w.ctx \in open',
         \A c \in QueuedCalls : stage[c] = "done" => stage'[c] = "done",
         stage'[w.work.call] = stage[w.work.call],
         Before(w.work.call) # "pending" => Before(w.work.call)' # "pending"
  PROVE  w \in CallWorks'
<1>1. PICK c : c = w.work.call
  OBVIOUS
<1>2. /\ c \in QueuedCalls /\ w.ctx = callCtx[c] /\ w.work.step \in {"start", "finish"}
      /\ w.work.step = "start" => stage[c] = "waiting" /\ Turn(c) /\ Before(c) # "pending"
      /\ w.work.step = "finish" => stage[c] = "ended"
      /\ w \in [ctx : CallContexts, work : [call : QueuedCalls, step : {"start", "finish"}]]
  BY <1>1, CallWorkFields DEF CallWorks
<1>3. /\ w.work.step = "start" => stage'[c] = "waiting" /\ Turn(c)' /\ Before(c)' # "pending"
      /\ w.work.step = "finish" => stage'[c] = "ended"
  BY <1>1, <1>2, TurnStays
<1> QED BY <1>1, <1>2, <1>3 DEF CallWorks

\* The call behind one that is through, or that lost its context, has its turn.
LEMMA TurnComes ==
  ASSUME CallsInv, NEW d \in QueuedCalls, Before(d) # "pending", d <= pushed + 1
  PROVE  Turn(d)
<1>1. CASE d = 1
  BY <1>1 DEF Turn, QueuedCalls
<1>2. CASE d # 1
  <2>1. d - 1 \in QueuedCalls /\ link[d - 1] # "pending" /\ d - 1 <= pushed
    BY <1>2, MaxPushesAssumption DEF QueuedCalls, Before, CallsInv, CallsTypeOK
  <2>2. link[d - 1] \in {"ready", "cancelled"}
    BY <2>1 DEF CallsInv, CallsTypeOK, LinksTellStages, QueuedCalls
  <2>3. SUFFICES ASSUME NEW c \in QueuedCalls, c < d, \A b \in c..(d - 1) : callCtx[b] \in open
                 PROVE  stage[c] = "done"
    BY DEF Turn
  <2>4. callCtx[d - 1] \in open /\ stage[d - 1] = "done"
    BY <2>1, <2>2, <2>3 DEF CallsInv, LinksTellStages, QueuedCalls
  <2>5. CASE c = d - 1
    BY <2>4, <2>5
  <2>6. CASE c # d - 1
    <3>1. Turn(d - 1)
      BY <2>1, <2>4 DEF CallsInv, LinksTellStages
    <3>2. c < d - 1 /\ \A b \in c..((d - 1) - 1) : callCtx[b] \in open
      BY <2>3, <2>6 DEF QueuedCalls
    <3> QED BY <3>1, <3>2 DEF Turn
  <2> QED BY <2>5, <2>6
<1> QED BY <1>1, <1>2

LEMMA CallsInitInv == open = CallContexts /\ works = <<>> /\ CallQueueInit(TRUE) => CallsInv
<1> SUFFICES ASSUME open = CallContexts, works = <<>>, CallQueueInit(TRUE) PROVE CallsInv
  OBVIOUS
<1>1. CallsTypeOK
  BY MaxPushesAssumption DEF CallQueueInit, CallsTypeOK, Choice
<1>2. LinksTellStages
  BY MaxPushesAssumption DEF CallQueueInit, LinksTellStages, QueuedCalls
<1>3. works \in Seq(CallWorks) /\ IsInjective(works) /\ called = {}
  BY DEF IsInjective, CallQueueInit
<1> QED BY <1>1, <1>2, <1>3 DEF CallsInv

\* A call is run by its one work in the executor; the others are of other calls.
LEMMA RunsCall ==
  ASSUME CallsInv, NEW c \in QueuedCalls, NEW s \in {"start", "finish"},
         Runs(callCtx[c], [call |-> c, step |-> s])
  PROVE  /\ callCtx[c] \in open
         /\ s = "start" => stage[c] = "waiting" /\ Turn(c) /\ Before(c) # "pending"
         /\ s = "finish" => stage[c] = "ended"
         /\ Tail(works) \in Seq(CallWorks) /\ IsInjective(Tail(works))
         /\ \A n \in DOMAIN Tail(works) : Tail(works)[n] \in CallWorks /\ Tail(works)[n].work.call # c
<1>1. works \in Seq(CallWorks) /\ works # <<>> /\ IsInjective(works) /\ Head(works).work = [call |-> c, step |-> s]
  BY DEF Runs, CallsInv
<1>2. /\ Head(works) \in CallWorks /\ Tail(works) \in Seq(CallWorks) /\ IsInjective(Tail(works))
      /\ Tail(works) \in Seq(CallWorks \ {Head(works)})
  BY <1>1, TailHolds
<1>3. Head(works).work.call = c /\ Head(works).work.step = s
  BY <1>1
<1>4. /\ callCtx[c] \in open
      /\ s = "start" => stage[c] = "waiting" /\ Turn(c) /\ Before(c) # "pending"
      /\ s = "finish" => stage[c] = "ended"
  BY <1>2, <1>3, CallWorkFields
<1>5. \A w \in CallWorks \ {Head(works)} : w.work.call # c
  <2> SUFFICES ASSUME NEW w \in CallWorks, w # Head(works), w.work.call = c PROVE FALSE
    OBVIOUS
  <2>1. w.work.step # s
    BY <1>2, <1>3, CallWorkFields
  <2>2. stage[c] = IF w.work.step = "start" THEN "waiting" ELSE "ended"
    BY CallWorkFields
  <2> QED BY <1>4, <2>1, <2>2, CallWorkFields
<1>6. \A n \in DOMAIN Tail(works) : Tail(works)[n] \in CallWorks \ {Head(works)}
  BY <1>2
<1> QED BY <1>2, <1>4, <1>5, <1>6

\* The works q go on, with at most one more behind them, of a call that has none.
LEMMA WorksGoOn ==
  ASSUME NEW q \in Seq(CallWorks'), IsInjective(q), NEW w, NEW b,
         b => w \in CallWorks' /\ \A n \in DOMAIN q : q[n].work.call # w.work.call,
         works' = IF b THEN Append(q, w) ELSE q
  PROVE  works' \in Seq(CallWorks') /\ IsInjective(works')
<1>1. b => \A n \in DOMAIN q : q[n] # w
  OBVIOUS
<1>2. PICK W : W = CallWorks'
  OBVIOUS
<1> QED BY <1>1, <1>2, AppendHolds

LEMMA PushKeeps == ASSUME CallsInv, NEW c \in QueuedCalls, Push(c) PROVE CallsInv'
<1> DEFINE w == [ctx |-> callCtx[c], work |-> [call |-> c, step |-> "start"]]
<1>1. /\ c = pushed + 1 /\ callCtx[c] \in open /\ pushed' = c
      /\ stage' = [stage EXCEPT ![c] = "waiting"] /\ link' = [link EXCEPT ![c] = "pending"]
      /\ UNCHANGED <<open, callCtx, called>>
  BY DEF Push
<1>2. CallsTypeOK' /\ stage'[c] = "waiting" /\ link'[c] = "pending"
      /\ \A d \in QueuedCalls : d # c => stage'[d] = stage[d] /\ link'[d] = link[d]
  BY <1>1, MaxPushesAssumption DEF CallsInv, CallsTypeOK, QueuedCalls
<1>3. works' = IF Before(c) # "pending" THEN Append(works, w) ELSE works
  BY <1>1, <1>2, MaxPushesAssumption DEF Push, Follow, Exec, QueuedCalls
<1>4. stage[c] = "none" /\ \A d \in QueuedCalls : stage[d] = "done" => stage'[d] = "done"
  <2>1. pushed \in Int /\ c > pushed
    BY <1>1 DEF CallsInv, CallsTypeOK
  <2>2. stage[c] = "none"
    BY <2>1 DEF CallsInv, LinksTellStages
  <2> QED BY <1>2, <2>2
<1>5. Before(c)' = Before(c)
  BY <1>1, <1>2, MaxPushesAssumption DEF Before, QueuedCalls
<1>6. \A d \in QueuedCalls : Turn(d) => Turn(d)'
  BY <1>1, <1>4, TurnStays
<1>7. \A n \in DOMAIN works : works[n] \in CallWorks' /\ works[n].work.call # c
  <2> SUFFICES ASSUME NEW n \in DOMAIN works
               PROVE  works[n] \in CallWorks' /\ works[n].work.call # c
    OBVIOUS
  <2>1. PICK v : v = works[n]
    OBVIOUS
  <2>2. v \in CallWorks
    BY <2>1 DEF CallsInv
  <2>3. PICK d : d = v.work.call
    OBVIOUS
  <2>4. d \in QueuedCalls /\ stage[d] # "none" /\ v.ctx \in open
    BY <2>2, <2>3, CallWorkFields
  <2>5. d # c /\ d < c
    BY <1>1, <1>4, <2>4, MaxPushesAssumption DEF CallsInv, LinksTellStages, QueuedCalls, CallsTypeOK
  <2>6. Before(d)' = Before(d)
    BY <1>2, <2>4, <2>5, MaxPushesAssumption DEF Before, QueuedCalls
  <2> QED BY <1>1, <1>2, <1>4, <2>1, <2>2, <2>3, <2>4, <2>5, <2>6, CallWorkStays
<1>8. Before(c) # "pending" => w \in CallWorks'
  <2> SUFFICES ASSUME Before(c) # "pending" PROVE w \in CallWorks'
    OBVIOUS
  <2>1. Turn(c)'
    BY <1>1, <1>6, TurnComes DEF CallsInv, CallsTypeOK
  <2> QED BY <1>1, <1>2, <1>5, <2>1 DEF CallWorks, CallsTypeOK
<1>9. works' \in Seq(CallWorks') /\ IsInjective(works')
  <2>1. works \in Seq(CallWorks')
    BY <1>7, SubsetHolds DEF CallsInv
  <2>2. w.work.call = c
    OBVIOUS
  <2> QED BY <1>3, <1>7, <1>8, <2>1, <2>2, WorksGoOn DEF CallsInv
<1>10. LinksTellStages'
  <2> SUFFICES ASSUME NEW d \in QueuedCalls
               PROVE  /\ stage'[d] = "none" <=> d > pushed'
                      /\ link'[d] = "none" <=> d > pushed'
                      /\ link'[d] = "pending" => callCtx'[d] \in open'
                      /\ link'[d] = "cancelled" => callCtx'[d] \notin open'
                      /\ link'[d] = "ready" => stage'[d] = "done"
                      /\ stage'[d] = "waiting" => link'[d] = "pending"
                      /\ stage'[d] \in {"running", "ended"} /\ callCtx'[d] \in open' => link'[d] = "pending"
                      /\ stage'[d] \in {"running", "ended", "done"} /\ callCtx'[d] \in open' => Turn(d)'
    BY DEF LinksTellStages
  <2>1. CASE d = c
    BY <1>1, <1>2, <2>1, MaxPushesAssumption DEF QueuedCalls
  <2>2. CASE d # c
    <3>1. d > pushed' <=> d > pushed
      BY <1>1, <2>2, MaxPushesAssumption DEF QueuedCalls, CallsInv, CallsTypeOK
    <3> QED BY <1>1, <1>2, <1>6, <2>2, <3>1 DEF CallsInv, LinksTellStages
  <2> QED BY <2>1, <2>2
<1> QED BY <1>1, <1>2, <1>6, <1>9, <1>10 DEF CallsInv, CallsTypeOK

LEMMA StartCallKeeps == ASSUME CallsInv, NEW c \in QueuedCalls, StartCall(c) PROVE CallsInv'
<1> DEFINE go == Before(c) = "ready" /\ ~cancelled
           s == IF go THEN "running" ELSE "ended"
           w == [ctx |-> callCtx[c], work |-> [call |-> c, step |-> "finish"]]
<1>1. /\ stage' = [stage EXCEPT ![c] = s] /\ UNCHANGED <<open, pushed, callCtx, link>>
      /\ called' = IF go THEN called \cup {c} ELSE called
      /\ works' = IF ~go /\ callCtx[c] \in open THEN Append(Tail(works), w) ELSE Tail(works)
  BY DEF StartCall, Exec
<1>2. /\ callCtx[c] \in open /\ stage[c] = "waiting" /\ Turn(c)
      /\ Tail(works) \in Seq(CallWorks) /\ IsInjective(Tail(works))
      /\ \A n \in DOMAIN Tail(works) : Tail(works)[n] \in CallWorks /\ Tail(works)[n].work.call # c
  BY RunsCall DEF StartCall
<1>3. s \in {"running", "ended"} /\ (~go => s = "ended")
  OBVIOUS
<1> HIDE DEF s, go
<1>4. CallsTypeOK' /\ stage'[c] = s /\ \A d \in QueuedCalls : d # c => stage'[d] = stage[d]
  BY <1>1, <1>3 DEF CallsInv, CallsTypeOK
<1>5. \A d \in QueuedCalls : Turn(d) => Turn(d)'
  <2>1. \A d \in QueuedCalls : stage[d] = "done" => stage'[d] = "done"
    BY <1>2, <1>4
  <2> QED BY <1>1, <2>1, TurnStays
<1>6. \A v \in CallWorks : v.work.call # c => v \in CallWorks'
  <2> SUFFICES ASSUME NEW v \in CallWorks, v.work.call # c PROVE v \in CallWorks'
    OBVIOUS
  <2>1. v.work.call \in QueuedCalls /\ v.ctx \in open
    BY CallWorkFields
  <2>2. \A d : Before(d)' = Before(d)
    BY <1>1 DEF Before
  <2>3. \A d \in QueuedCalls : stage[d] = "done" => stage'[d] = "done"
    BY <1>2, <1>4
  <2> QED BY <1>1, <1>4, <2>1, <2>2, <2>3, CallWorkStays
<1>7. works' \in Seq(CallWorks') /\ IsInjective(works')
  <2>1. Tail(works) \in Seq(CallWorks')
    BY <1>2, <1>6, SubsetHolds
  <2>2. ~go => w \in CallWorks'
    BY <1>1, <1>2, <1>3, <1>4 DEF CallWorks, CallsTypeOK
  <2>3. w.work.call = c
    OBVIOUS
  <2> HIDE DEF w
  <2>4. works' = IF ~go THEN Append(Tail(works), w) ELSE Tail(works)
    BY <1>1, <1>2
  <2> QED BY <1>2, <2>1, <2>2, <2>3, <2>4, WorksGoOn
<1>8. LinksTellStages'
  BY <1>1, <1>2, <1>3, <1>4, <1>5 DEF CallsInv, LinksTellStages
<1>9. \A d \in called' : d \in QueuedCalls /\ Turn(d)'
  BY <1>1, <1>2, <1>5 DEF CallsInv, CallsTypeOK
<1> QED BY <1>4, <1>7, <1>8, <1>9 DEF CallsInv, CallsTypeOK

LEMMA CallEndsKeeps == ASSUME CallsInv, NEW c \in QueuedCalls, CallEnds(c) PROVE CallsInv'
<1> DEFINE w == [ctx |-> callCtx[c], work |-> [call |-> c, step |-> "finish"]]
<1>1. /\ stage[c] = "running" /\ stage' = [stage EXCEPT ![c] = "ended"]
      /\ UNCHANGED <<open, pushed, callCtx, called, link>>
      /\ works' = IF callCtx[c] \in open THEN Append(works, w) ELSE works
  BY DEF CallEnds, Exec
<1>2. CallsTypeOK' /\ stage'[c] = "ended" /\ \A d \in QueuedCalls : d # c => stage'[d] = stage[d]
  BY <1>1 DEF CallsInv, CallsTypeOK
<1>3. \A d \in QueuedCalls : stage[d] = "done" => stage'[d] = "done"
  BY <1>1, <1>2
<1>4. \A d \in QueuedCalls : Turn(d) => Turn(d)'
  BY <1>1, <1>3, TurnStays
<1>5. \A v \in CallWorks : v \in CallWorks' /\ v.work.call # c
  <2> SUFFICES ASSUME NEW v \in CallWorks PROVE v \in CallWorks' /\ v.work.call # c
    OBVIOUS
  <2>1. v.work.call \in QueuedCalls /\ v.ctx \in open /\ v.work.call # c
    BY <1>1, CallWorkFields
  <2>2. \A d : Before(d)' = Before(d)
    BY <1>1 DEF Before
  <2> QED BY <1>1, <1>2, <1>3, <2>1, <2>2, CallWorkStays
<1>6. works' \in Seq(CallWorks') /\ IsInjective(works')
  <2>1. works \in Seq(CallWorks') /\ \A n \in DOMAIN works : works[n].work.call # c
    BY <1>5, SubsetHolds DEF CallsInv
  <2>2. callCtx[c] \in open => w \in CallWorks'
    BY <1>1, <1>2 DEF CallWorks, CallsTypeOK
  <2>3. w.work.call = c
    OBVIOUS
  <2> HIDE DEF w
  <2> QED BY <1>1, <2>1, <2>2, <2>3, WorksGoOn DEF CallsInv
<1>7. LinksTellStages'
  BY <1>1, <1>2, <1>4 DEF CallsInv, LinksTellStages
<1> QED BY <1>1, <1>2, <1>4, <1>6, <1>7 DEF CallsInv, CallsTypeOK

LEMMA FinishCallKeeps == ASSUME CallsInv, NEW c \in QueuedCalls, FinishCall(c) PROVE CallsInv'
<1> DEFINE b == c + 1 <= MaxPushes /\ stage'[c + 1] = "waiting" /\ callCtx[c + 1] \in open
           w == [ctx |-> callCtx[c + 1], work |-> [call |-> c + 1, step |-> "start"]]
<1>1. /\ stage' = [stage EXCEPT ![c] = "done"] /\ link' = [link EXCEPT ![c] = "ready"]
      /\ UNCHANGED <<open, pushed, callCtx, called>>
      /\ works' = IF b THEN Append(Tail(works), w) ELSE Tail(works)
  BY DEF FinishCall, Follow, Exec
<1>2. /\ callCtx[c] \in open /\ stage[c] = "ended"
      /\ Tail(works) \in Seq(CallWorks) /\ IsInjective(Tail(works))
      /\ \A n \in DOMAIN Tail(works) : Tail(works)[n] \in CallWorks /\ Tail(works)[n].work.call # c
  BY RunsCall DEF FinishCall
<1>3. CallsTypeOK' /\ stage'[c] = "done" /\ link'[c] = "ready"
      /\ \A d \in QueuedCalls : d # c => stage'[d] = stage[d] /\ link'[d] = link[d]
  BY <1>1 DEF CallsInv, CallsTypeOK
<1>4. \A d \in QueuedCalls : stage[d] = "done" => stage'[d] = "done"
  BY <1>3
<1>5. \A d \in QueuedCalls : Turn(d) => Turn(d)'
  BY <1>1, <1>4, TurnStays
<1>6. link[c] = "pending" /\ Turn(c)
  BY <1>2 DEF CallsInv, LinksTellStages
<1>7. \A v \in CallWorks : v.work.call # c => v \in CallWorks'
  <2> SUFFICES ASSUME NEW v \in CallWorks, v.work.call # c PROVE v \in CallWorks'
    OBVIOUS
  <2>1. PICK d : d = v.work.call
    OBVIOUS
  <2>2. d \in QueuedCalls /\ v.ctx \in open /\ stage'[d] = stage[d]
    BY <1>3, <2>1, CallWorkFields
  <2>3. Before(d) # "pending" => Before(d)' # "pending"
    BY <1>3, <2>2, MaxPushesAssumption DEF Before, QueuedCalls
  <2> QED BY <1>1, <1>4, <2>1, <2>2, <2>3, CallWorkStays
<1>8. \A n \in DOMAIN Tail(works) : b => Tail(works)[n].work.call # c + 1
  <2> SUFFICES ASSUME NEW n \in DOMAIN Tail(works), b, Tail(works)[n].work.call = c + 1 PROVE FALSE
    OBVIOUS
  <2>1. PICK v : v = Tail(works)[n]
    OBVIOUS
  <2>2. v \in CallWorks /\ v.work.call = c + 1 /\ c + 1 \in QueuedCalls
    BY <1>2, <2>1, CallWorkFields
  <2>3. stage[c + 1] = "waiting"
    BY <1>3, <2>2, MaxPushesAssumption DEF QueuedCalls
  <2>4. Before(c + 1) # "pending"
    BY <2>2, <2>3, CallWorkFields
  <2> QED BY <1>6, <2>4, MaxPushesAssumption DEF Before, QueuedCalls
<1>9. b => w \in CallWorks'
  <2> SUFFICES ASSUME b PROVE w \in CallWorks'
    OBVIOUS
  <2>1. c + 1 \in QueuedCalls
    BY MaxPushesAssumption DEF QueuedCalls
  <2>2. Turn(c + 1)'
    <3> SUFFICES ASSUME NEW d \in QueuedCalls, d < c + 1, \A e \in d..((c + 1) - 1) : callCtx[e] \in open
                 PROVE  stage'[d] = "done"
      BY <1>1 DEF Turn
    <3>1. CASE d = c
      BY <1>3, <3>1
    <3>2. CASE d # c
      <4>1. d < c /\ \A e \in d..(c - 1) : callCtx[e] \in open
        BY <3>2, MaxPushesAssumption DEF QueuedCalls
      <4> QED BY <1>4, <1>6, <4>1 DEF Turn
    <3> QED BY <3>1, <3>2
  <2>3. Before(c + 1)' = "ready"
    BY <1>3, MaxPushesAssumption DEF Before, QueuedCalls
  <2> QED BY <1>1, <1>3, <2>1, <2>2, <2>3 DEF CallWorks, CallsTypeOK
<1>10. works' \in Seq(CallWorks') /\ IsInjective(works')
  <2>1. Tail(works) \in Seq(CallWorks')
    BY <1>2, <1>7, SubsetHolds
  <2>2. w.work.call = c + 1
    OBVIOUS
  <2> HIDE DEF w, b
  <2> QED BY <1>1, <1>2, <1>8, <1>9, <2>1, <2>2, WorksGoOn
<1>11. LinksTellStages'
  BY <1>1, <1>2, <1>3, <1>5, <1>6 DEF CallsInv, LinksTellStages
<1> QED BY <1>1, <1>3, <1>5, <1>10, <1>11 DEF CallsInv, CallsTypeOK

LEMMA ConcatHolds ==
  ASSUME NEW W, NEW p \in Seq(W), NEW q \in Seq(W), IsInjective(p), IsInjective(q),
         \A m \in DOMAIN p, n \in DOMAIN q : p[m] # q[n]
  PROVE  p \o q \in Seq(W) /\ IsInjective(p \o q)
<1>1. /\ p \o q \in Seq(W) /\ Len(p) \in Nat /\ DOMAIN p = 1..Len(p)
      /\ \A n \in DOMAIN (p \o q) :
           /\ n \in Int
           /\ \/ n \in DOMAIN p /\ (p \o q)[n] = p[n]
              \/ n - Len(p) \in DOMAIN q /\ (p \o q)[n] = q[n - Len(p)] /\ n \notin DOMAIN p
  OBVIOUS
<1>2. \A m, n \in DOMAIN (p \o q) : (p \o q)[m] = (p \o q)[n] => m = n
  <2> SUFFICES ASSUME NEW m \in DOMAIN (p \o q), NEW n \in DOMAIN (p \o q), (p \o q)[m] = (p \o q)[n]
               PROVE  m = n
    OBVIOUS
  <2>1. CASE m \in DOMAIN p
    BY <1>1, <2>1 DEF IsInjective
  <2>2. CASE m \notin DOMAIN p
    <3>1. m - Len(p) = n - Len(p)
      BY <1>1, <2>2 DEF IsInjective
    <3> QED BY <1>1, <3>1
  <2> QED BY <2>1, <2>2
<1> QED BY <1>1, <1>2 DEF IsInjective

LEMMA CloseCallsKeeps == ASSUME CallsInv, NEW x \in CallContexts, CloseCalls(x) PROVE CallsInv'
<1> DEFINE gone == {c \in QueuedCalls : callCtx[c] = x /\ link[c] = "pending"}
           next == {c \in QueuedCalls : c - 1 \in gone /\ stage'[c] = "waiting"}
           start(c) == [ctx |-> callCtx[c], work |-> [call |-> c, step |-> "start"]]
           left == Without(works, {x})
           more == [i \in DOMAIN InOrder(next) |-> start(InOrder(next)[i])]
<1>1. /\ open' = open \ {x} /\ UNCHANGED <<pushed, callCtx, called>>
      /\ link' = [c \in QueuedCalls |-> IF c \in gone THEN "cancelled" ELSE link[c]]
      /\ stage' = [c \in QueuedCalls |-> IF c \in gone /\ stage[c] # "running" THEN "done" ELSE stage[c]]
      /\ works' = left \o more
  BY DEF CloseCalls
<1> HIDE DEF left
<1>2. CallsTypeOK'
  BY <1>1 DEF CallsInv, CallsTypeOK
<1>3. \A c \in QueuedCalls : stage[c] = "done" => stage'[c] = "done"
  BY <1>1
<1>4. \A d \in QueuedCalls : Turn(d) => Turn(d)'
  BY <1>1, <1>3, TurnStays
<1>5. \A c \in QueuedCalls : /\ callCtx[c] # x => stage'[c] = stage[c] /\ link'[c] = link[c]
                             /\ link'[c] = "pending" => link[c] = "pending"
  BY <1>1
<1>6. LinksTellStages'
  <2> SUFFICES ASSUME NEW d \in QueuedCalls
               PROVE  /\ stage'[d] = "none" <=> d > pushed'
                      /\ link'[d] = "none" <=> d > pushed'
                      /\ link'[d] = "pending" => callCtx'[d] \in open'
                      /\ link'[d] = "cancelled" => callCtx'[d] \notin open'
                      /\ link'[d] = "ready" => stage'[d] = "done"
                      /\ stage'[d] = "waiting" => link'[d] = "pending"
                      /\ stage'[d] \in {"running", "ended"} /\ callCtx'[d] \in open' => link'[d] = "pending"
                      /\ stage'[d] \in {"running", "ended", "done"} /\ callCtx'[d] \in open' => Turn(d)'
    BY DEF LinksTellStages
  <2>1. CASE callCtx[d] # x
    BY <1>1, <1>4, <1>5, <2>1 DEF CallsInv, LinksTellStages
  <2>2. CASE callCtx[d] = x
    <3> HIDE DEF next, more, start
    <3>1. d \in gone <=> link[d] = "pending"
      BY <2>2
    <3> HIDE DEF gone
    <3>2. stage'[d] = IF link[d] = "pending" /\ stage[d] # "running" THEN "done" ELSE stage[d]
      BY <1>1, <3>1
    <3>3. link'[d] = IF link[d] = "pending" THEN "cancelled" ELSE link[d]
      BY <1>1, <3>1
    <3> QED BY <1>1, <2>2, <3>2, <3>3 DEF CallsInv, LinksTellStages
  <2> QED BY <2>1, <2>2
<1>7. left \in Seq(CallWorks') /\ IsInjective(left)
      /\ \A n \in DOMAIN left : \E v \in CallWorks : left[n] = v
  <2>1. left \in Seq({v \in CallWorks : v.ctx \notin {x}}) /\ IsInjective(left)
    BY WithoutHolds DEF CallsInv, left
  <2>2. \A v \in CallWorks : v.ctx # x => v \in CallWorks'
    <3> SUFFICES ASSUME NEW v \in CallWorks, v.ctx # x PROVE v \in CallWorks'
      OBVIOUS
    <3>1. PICK d : d = v.work.call
      OBVIOUS
    <3>2. d \in QueuedCalls /\ v.ctx \in open' /\ stage'[d] = stage[d]
      BY <1>1, <1>5, <3>1, CallWorkFields
    <3>3. Before(d) # "pending" => Before(d)' # "pending"
      BY <1>5, <3>2, MaxPushesAssumption DEF Before, QueuedCalls
    <3> QED BY <1>1, <1>3, <3>1, <3>2, <3>3, CallWorkStays
  <2> QED BY <2>1, <2>2, SubsetHolds
<1>8. more \in Seq({start(c) : c \in next}) /\ IsInjective(more)
  <2>1. (\A c \in next : c \in Int) /\ IsFiniteSet(next)
    <3>1. next \in SUBSET QueuedCalls /\ IsFiniteSet(QueuedCalls)
      BY MaxPushesAssumption, FS_Interval DEF QueuedCalls
    <3> QED BY <3>1, FS_Subset, MaxPushesAssumption DEF QueuedCalls
  <2> DEFINE at == InOrder(next)
             N == Cardinality(next)
  <2> HIDE DEF next
  <2>2. /\ N \in Nat /\ at \in [1..N -> next]
        /\ \A m, n \in 1..N : m < n => at[m] < at[n]
    BY <2>1, InOrderLists
  <2>3. \A c, d : start(c) = start(d) => c = d
    OBVIOUS
  <2> HIDE DEF start, at, N
  <2>4. more = [i \in 1..N |-> start(at[i])]
    BY <2>2 DEF at
  <2>5. \A m, n \in 1..N : at[m] = at[n] => m = n
    BY <2>1, <2>2
  <2>6. more \in Seq({start(c) : c \in next})
    BY <2>2, <2>4
  <2>7. IsInjective(more)
    BY <2>2, <2>3, <2>4, <2>5 DEF IsInjective
  <2> QED BY <2>6, <2>7
<1>9. \A c \in next : start(c) \in CallWorks' /\ start(c) \notin CallWorks
  <2> SUFFICES ASSUME NEW c \in next PROVE start(c) \in CallWorks' /\ start(c) \notin CallWorks
    OBVIOUS
  <2>1. c \in QueuedCalls /\ c - 1 \in QueuedCalls /\ c # 1 /\ callCtx[c - 1] = x /\ link[c - 1] = "pending"
        /\ stage'[c] = "waiting"
    BY MaxPushesAssumption DEF QueuedCalls
  <2>2. link'[c - 1] = "cancelled" /\ Before(c) = "pending" /\ Before(c)' = "cancelled"
    BY <1>1, <2>1 DEF Before
  <2>3. callCtx[c] \in open'
    BY <1>1, <1>6, <2>1 DEF LinksTellStages
  <2>4. Turn(c)'
    <3> SUFFICES ASSUME NEW d \in QueuedCalls, d < c, \A e \in d..(c - 1) : callCtx[e] \in open' PROVE FALSE
      BY <1>1 DEF Turn
    <3>1. c - 1 \in d..(c - 1)
      BY MaxPushesAssumption DEF QueuedCalls
    <3> QED BY <1>1, <2>1, <3>1
  <2>5. start(c) \in CallWorks'
    BY <1>1, <1>2, <2>1, <2>2, <2>3, <2>4 DEF CallWorks, CallsTypeOK
  <2>6. start(c) \notin CallWorks
    BY <2>2 DEF CallWorks
  <2> QED BY <2>5, <2>6
<1>10. works' \in Seq(CallWorks') /\ IsInjective(works')
  <2> HIDE DEF start, next, more
  <2>1. \A n \in DOMAIN more : more[n] \in CallWorks' /\ more[n] \notin CallWorks
    BY <1>8, <1>9
  <2>2. PICK W : W = CallWorks'
    OBVIOUS
  <2>3. left \in Seq(W) /\ more \in Seq(W)
    BY <1>7, <1>8, <2>1, <2>2, SubsetHolds
  <2>4. \A m \in DOMAIN left, n \in DOMAIN more : left[m] # more[n]
    BY <1>7, <2>1
  <2> QED BY <1>1, <1>7, <1>8, <2>2, <2>3, <2>4, ConcatHolds
<1> QED BY <1>1, <1>2, <1>4, <1>6, <1>10 DEF CallsInv, CallsTypeOK

LEMMA CallsNextKeeps == CallsInv /\ [CallQueueNext]_<<contextVars, callVars>> => CallsInv'
<1> SUFFICES ASSUME CallsInv, [CallQueueNext]_<<contextVars, callVars>> PROVE CallsInv'
  OBVIOUS
<1>1. CASE DestroyQueue \/ UNCHANGED <<contextVars, callVars>>
  <2>1. UNCHANGED <<contextVars, pushed, callCtx, stage, called, link>>
    BY <1>1 DEF DestroyQueue, callVars
  <2>2. LinksTellStages' /\ CallsTypeOK'
    BY <2>1 DEF CallsInv, CallsTypeOK, LinksTellStages, Turn, contextVars
  <2>3. CallWorks' = CallWorks
    BY <2>1 DEF CallWorks, Turn, Before, contextVars
  <2> QED BY <2>1, <2>2, <2>3 DEF CallsInv, Turn, contextVars
<1> QED BY <1>1, PushKeeps, StartCallKeeps, CallEndsKeeps, FinishCallKeeps, CloseCallsKeeps
        DEF CallQueueNext, CallStep

\* Whatever contexts close, and whether the queue is destroyed or not: a call is
\* made when those that it is chained to are through.
THEOREM CallsInOrder == CallQueueSpec => []CallsDoNotOverlap
<1>1. CallsInv => CallsDoNotOverlap
  BY DEF CallsInv, CallsDoNotOverlap, Turn
<1> QED BY <1>1, CallsInitInv, CallsNextKeeps, PTL DEF CallQueueSpec

-----------------------------------------------------------------------------
\* Connections.
ConnectSteps == {"resolving", "connecting"}

\* The answers in the executor: each to the step its operation is at, which asio
\* is not asked for any more.
NetAnswers ==
  {w \in [ctx : {"net"}, work : [connect : Connects, step : ConnectSteps, ok : BOOLEAN]] :
     /\ connectOp[w.work.connect] = w.work.step
     /\ \A s \in ConnectSteps : [connect |-> w.work.connect, step |-> s] \notin networking}

NetInv ==
  /\ connectOp \in [Connects -> {"none", "resolving", "connecting", "deleted"}]
  /\ \A c \in Connects : connected[c] = "none" => connectOp[c] = "none"
  /\ DOMAIN connected = Connects
  /\ "net" \in open => \A c \in Connects, s \in ConnectSteps :
                         [connect |-> c, step |-> s] \in networking => connectOp[c] = s
  /\ "net" \notin open => works = <<>>
  /\ works \in Seq(NetAnswers)
  /\ \A m, n \in DOMAIN works : works[m].work.connect = works[n].work.connect => m = n

LEMMA NetAnswerFields ==
  \A w \in NetAnswers : /\ w.ctx = "net" /\ w.work.connect \in Connects /\ w.work.step \in ConnectSteps
                        /\ connectOp[w.work.connect] = w.work.step
                        /\ \A s \in ConnectSteps : [connect |-> w.work.connect, step |-> s] \notin networking
<1> SUFFICES ASSUME NEW w \in NetAnswers
             PROVE  w.ctx = "net" /\ w.work.connect \in Connects /\ w.work.step \in ConnectSteps
  BY DEF NetAnswers
<1>1. w \in [ctx : {"net"}, work : [connect : Connects, step : ConnectSteps, ok : BOOLEAN]]
  BY DEF NetAnswers
<1> QED BY <1>1

LEMMA NetAnswerStays ==
  ASSUME NEW w \in NetAnswers, NEW c, c = w.work.connect, connectOp'[c] = connectOp[c],
         \A s \in ConnectSteps : [connect |-> c, step |-> s] \in networking' =>
                                 [connect |-> c, step |-> s] \in networking
  PROVE  w \in NetAnswers'
<1>1. /\ w \in [ctx : {"net"}, work : [connect : Connects, step : ConnectSteps, ok : BOOLEAN]]
      /\ connectOp[c] = w.work.step /\ c = w.work.connect
      /\ \A s \in ConnectSteps : [connect |-> c, step |-> s] \notin networking
  BY DEF NetAnswers
<1>2. connectOp'[c] = w.work.step /\ \A s \in ConnectSteps : [connect |-> c, step |-> s] \notin networking'
  BY <1>1
<1> QED BY <1>1, <1>2 DEF NetAnswers

LEMMA AcceptIsNoConnect == \A a, c, s : [accept |-> a] # [connect |-> c, step |-> s]
<1> SUFFICES ASSUME NEW a, NEW c, NEW s, [accept |-> a] = [connect |-> c, step |-> s] PROVE FALSE
  OBVIOUS
<1>1. DOMAIN [accept |-> a] = {"accept"} /\ DOMAIN [connect |-> c, step |-> s] = {"connect", "step"}
  OBVIOUS
<1> QED BY <1>1

\* What asio is to answer for connections stays or shrinks, and works and
\* operations stay: as Accept and AcceptHandler have it.
LEMMA AcceptsKeep ==
  ASSUME NetInv, NEW a \in Accepts, Accept(a) \/ AcceptHandler(a) PROVE NetInv'
<1>1. /\ UNCHANGED <<open, works, connectOp, connected>>
      /\ \A c, s : [connect |-> c, step |-> s] \in networking' => [connect |-> c, step |-> s] \in networking
  BY AcceptIsNoConnect DEF Accept, AcceptHandler, contextVars
<1>2. \A n \in DOMAIN works : works[n] \in NetAnswers'
  BY <1>1, NetAnswerStays DEF NetInv
<1>3. works' \in Seq(NetAnswers')
  BY <1>1, <1>2, SubsetHolds DEF NetInv
<1> QED BY <1>1, <1>3 DEF NetInv

LEMMA ConnectKeeps == ASSUME NetInv, NEW c \in Connects, Connect(c) PROVE NetInv'
<1>1. UNCHANGED <<open, works>> /\ connected[c] = "none" /\ connectOp[c] = "none"
  BY DEF Connect, contextVars, NetInv
<1>2. CASE "net" \notin open
  <2>1. connected' = [connected EXCEPT ![c] = "thrown"] /\ UNCHANGED <<connectOp, networking>>
    BY <1>2 DEF Connect
  <2>2. \A d \in Connects : connected'[d] = "none" => connected[d] = "none"
    BY <2>1 DEF NetInv
  <2>3. NetAnswers' = NetAnswers /\ DOMAIN connected' = DOMAIN connected
    BY <2>1 DEF NetAnswers
  <2> QED BY <1>1, <2>1, <2>2, <2>3 DEF NetInv
<1>3. CASE "net" \in open
  <2>1. PICK first \in ConnectSteps :
          /\ connectOp' = [connectOp EXCEPT ![c] = first]
          /\ connected' = [connected EXCEPT ![c] = "pending"]
          /\ networking' = networking \cup {[connect |-> c, step |-> first]}
    BY <1>3 DEF Connect, ConnectSteps
  <2>2. /\ connectOp' \in [Connects -> {"none", "resolving", "connecting", "deleted"}]
        /\ connectOp'[c] = first /\ \A d \in Connects : d # c => connectOp'[d] = connectOp[d]
    BY <2>1 DEF NetInv, ConnectSteps
  <2>3. \A d \in Connects : d # c => connected'[d] = connected[d]
    BY <2>1 DEF NetInv
  <2>4. DOMAIN connected' = Connects /\ connected'[c] = "pending"
    BY <2>1 DEF NetInv
  <2>5. \A d, s : [connect |-> d, step |-> s] \in networking' =>
                    [connect |-> d, step |-> s] \in networking \/ (d = c /\ s = first)
    BY <2>1
  <2>6. \A s \in ConnectSteps : [connect |-> c, step |-> s] \notin networking
    <3>1. \A s \in ConnectSteps : [connect |-> c, step |-> s] \in networking => connectOp[c] = s
      BY <1>3 DEF NetInv
    <3> QED BY <1>1, <3>1 DEF ConnectSteps
  <2>7. \A n \in DOMAIN works : works[n] \in NetAnswers'
    <3> SUFFICES ASSUME NEW n \in DOMAIN works PROVE works[n] \in NetAnswers'
      OBVIOUS
    <3>1. /\ works[n] \in NetAnswers /\ works[n].work.connect \in Connects
          /\ works[n].work.connect # c
      <4>1. works[n] \in NetAnswers
        BY DEF NetInv
      <4>2. connectOp[works[n].work.connect] \in ConnectSteps /\ "none" \notin ConnectSteps
        BY <4>1, NetAnswerFields DEF ConnectSteps
      <4> QED BY <1>1, <4>1, <4>2, NetAnswerFields
    <3> QED BY <2>2, <2>5, <3>1, NetAnswerStays
  <2>8. works' \in Seq(NetAnswers')
    BY <1>1, <2>7, SubsetHolds DEF NetInv
  <2> QED BY <1>1, <1>3, <2>2, <2>3, <2>4, <2>5, <2>6, <2>8 DEF NetInv
<1> QED BY <1>2, <1>3

LEMMA AsioAnswersKeeps ==
  ASSUME NetInv, NEW c \in Connects, NEW s \in ConnectSteps, AsioAnswers([connect |-> c, step |-> s])
  PROVE  NetInv'
<1> DEFINE r == [connect |-> c, step |-> s]
<1>1. PICK ok \in BOOLEAN :
        /\ works' = IF "net" \in open
                    THEN Append(works, [ctx |-> "net", work |-> [connect |-> c, step |-> s, ok |-> ok]])
                    ELSE works
        /\ r \in networking /\ networking' = networking \ {r} /\ UNCHANGED <<open, connectOp, connected>>
  BY DEF AsioAnswers, Exec
<1>2. \A d, t : [connect |-> d, step |-> t] \in networking' => [connect |-> d, step |-> t] \in networking
  BY <1>1
<1>3. \A n \in DOMAIN works : works[n] \in NetAnswers' /\ works[n].work.connect # c
  <2> SUFFICES ASSUME NEW n \in DOMAIN works
               PROVE  works[n] \in NetAnswers' /\ works[n].work.connect # c
    OBVIOUS
  <2>1. works[n] \in NetAnswers
    BY DEF NetInv
  <2> QED BY <1>1, <1>2, <2>1, NetAnswerStays, NetAnswerFields
<1>4. works \in Seq(NetAnswers')
  BY <1>3, SubsetHolds DEF NetInv
<1>5. CASE "net" \notin open
  BY <1>1, <1>2, <1>4, <1>5 DEF NetInv
<1>6. CASE "net" \in open
  <2> DEFINE w == [ctx |-> "net", work |-> [connect |-> c, step |-> s, ok |-> ok]]
  <2>1. \A t \in ConnectSteps : [connect |-> c, step |-> t] \notin networking'
    <3> SUFFICES ASSUME NEW t \in ConnectSteps, [connect |-> c, step |-> t] \in networking' PROVE FALSE
      OBVIOUS
    <3>1. connectOp[c] = s /\ connectOp[c] = t
      BY <1>1, <1>2, <1>6 DEF NetInv
    <3> QED BY <1>1, <3>1
  <2>2. w.work.connect = c /\ w.work.step = s /\ connectOp'[c] = s
        /\ w \in [ctx : {"net"}, work : [connect : Connects, step : ConnectSteps, ok : BOOLEAN]]
    BY <1>1, <1>6 DEF NetInv
  <2> HIDE DEF w
  <2>3. w \in NetAnswers'
    BY <2>1, <2>2 DEF NetAnswers
  <2>4. works' = Append(works, w)
    BY <1>1, <1>6 DEF w
  <2>5. works' \in Seq(NetAnswers')
    BY <1>4, <2>3, <2>4, AppendHolds
  <2>6. \A n \in DOMAIN works' : \/ n \in DOMAIN works /\ works'[n] = works[n]
                                 \/ n = Len(works) + 1 /\ works'[n] = w
    BY <1>4, <2>3, <2>4
  <2>7. \A m, n \in DOMAIN works' : works'[m].work.connect = works'[n].work.connect => m = n
    BY <1>3, <2>2, <2>6 DEF NetInv
  <2> QED BY <1>1, <1>2, <1>6, <2>5, <2>7 DEF NetInv
<1> QED BY <1>5, <1>6

\* The answer that runs is to the operation of its connect, and there is no other.
LEMMA AnswerRuns ==
  ASSUME NetInv, NEW c, NEW s, NEW ok, AsioAnswered(c, s, ok)
  PROVE  /\ "net" \in open /\ connectOp[c] = s /\ works' = Tail(works)
         /\ \A t \in ConnectSteps : [connect |-> c, step |-> t] \notin networking
         /\ Tail(works) \in Seq(NetAnswers)
         /\ \A n \in DOMAIN Tail(works) : Tail(works)[n].work.connect # c
         /\ \A m, n \in DOMAIN Tail(works) : Tail(works)[m].work.connect = Tail(works)[n].work.connect => m = n
<1>1. /\ works # <<>> /\ works \in Seq(NetAnswers) /\ works' = Tail(works)
      /\ Head(works).work = [connect |-> c, step |-> s, ok |-> ok]
  BY DEF AsioAnswered, Runs, NetInv
<1>2. Head(works) = works[1] /\ 1 \in DOMAIN works /\ Head(works) \in NetAnswers /\ Tail(works) \in Seq(NetAnswers)
  BY <1>1
<1>3. works[1].work.connect = c /\ works[1].work.step = s
  BY <1>1, <1>2
<1>4. \A n \in DOMAIN Tail(works) : n \in Int /\ n # 0 /\ n + 1 \in DOMAIN works /\ Tail(works)[n] = works[n + 1]
  BY <1>1
<1>5. \A n \in DOMAIN Tail(works) : Tail(works)[n].work.connect # c
  <2> SUFFICES ASSUME NEW n \in DOMAIN Tail(works), Tail(works)[n].work.connect = c PROVE FALSE
    OBVIOUS
  <2>1. n + 1 = 1
    BY <1>2, <1>3, <1>4 DEF NetInv
  <2> QED BY <1>4, <2>1
<1>6. \A m, n \in DOMAIN Tail(works) : Tail(works)[m].work.connect = Tail(works)[n].work.connect => m = n
  <2>1. \A m, n \in DOMAIN Tail(works) : Tail(works)[m].work.connect = Tail(works)[n].work.connect => m + 1 = n + 1
    BY <1>4 DEF NetInv
  <2> QED BY <1>4, <2>1
<1>7. "net" \in open /\ connectOp[c] = s /\ \A t \in ConnectSteps : [connect |-> c, step |-> t] \notin networking
  BY <1>1, <1>2, <1>3, NetAnswerFields DEF NetInv
<1> QED BY <1>1, <1>2, <1>5, <1>6, <1>7

\* A handler has run: the operation of c is at t, for which asio may be asked.
LEMMA HandlersKeep ==
  ASSUME NetInv, NEW c \in Connects, ResolveHandler(c) \/ ConnectHandler(c) PROVE NetInv'
<1>1. PICK s \in ConnectSteps : \E ok : AsioAnswered(c, s, ok)
  BY DEF ResolveHandler, ConnectHandler, ConnectSteps
<1>2. PICK t \in {"connecting", "deleted"} :
        /\ UNCHANGED open /\ connectOp' = [connectOp EXCEPT ![c] = t]
        /\ connected' = connected \/ \E a \in {"socket", "error"} : connected' = [connected EXCEPT ![c] = a]
        /\ \/ networking' = networking
           \/ t = "connecting" /\ networking' = networking \cup {[connect |-> c, step |-> "connecting"]}
  BY DEF ResolveHandler, ConnectHandler, AnswerAndDelete
<1>3. /\ "net" \in open /\ connectOp[c] = s /\ works' = Tail(works)
      /\ \A u \in ConnectSteps : [connect |-> c, step |-> u] \notin networking
      /\ Tail(works) \in Seq(NetAnswers)
      /\ \A n \in DOMAIN Tail(works) : Tail(works)[n].work.connect # c
      /\ \A m, n \in DOMAIN Tail(works) : Tail(works)[m].work.connect = Tail(works)[n].work.connect => m = n
  BY <1>1, AnswerRuns
<1>4. connectOp[c] # "none"
  BY <1>3 DEF ConnectSteps
<1>5. /\ connectOp' \in [Connects -> {"none", "resolving", "connecting", "deleted"}]
      /\ connectOp'[c] = t /\ \A d \in Connects : d # c => connectOp'[d] = connectOp[d]
  BY <1>2 DEF NetInv
<1>6. DOMAIN connected' = Connects /\ \A d \in Connects : connected'[d] = "none" => connected[d] = "none" /\ d # c
  BY <1>2, <1>4 DEF NetInv
<1>7. \A d, u : [connect |-> d, step |-> u] \in networking' =>
                  [connect |-> d, step |-> u] \in networking \/ (d = c /\ u = t)
  BY <1>2
<1>8. \A n \in DOMAIN Tail(works) : Tail(works)[n] \in NetAnswers'
  <2> SUFFICES ASSUME NEW n \in DOMAIN Tail(works) PROVE Tail(works)[n] \in NetAnswers'
    OBVIOUS
  <2>1. /\ Tail(works)[n] \in NetAnswers /\ Tail(works)[n].work.connect # c
        /\ Tail(works)[n].work.connect \in Connects
    BY <1>3, NetAnswerFields
  <2> QED BY <1>5, <1>7, <2>1, NetAnswerStays
<1>9. works' \in Seq(NetAnswers')
  BY <1>3, <1>8, SubsetHolds
<1>10. \A d \in Connects, u \in ConnectSteps : [connect |-> d, step |-> u] \in networking' => connectOp'[d] = u
  BY <1>3, <1>5, <1>7 DEF NetInv
<1> QED BY <1>2, <1>3, <1>5, <1>6, <1>9, <1>10 DEF NetInv

LEMMA CloseNetKeeps == ASSUME NetInv, CloseNet PROVE NetInv'
<1>1. /\ open' = open \ {"net"} /\ works' = Without(works, {"net"}) /\ networking' = networking
      /\ connected' = [c \in Connects |-> IF c \in AliveOps THEN "cancelled" ELSE connected[c]]
      /\ connectOp' = [c \in Connects |-> IF c \in AliveOps THEN "deleted" ELSE connectOp[c]]
  BY DEF CloseNet
<1>2. works' = <<>>
  <2>1. \A n \in DOMAIN works : works[n].ctx \in {"net"}
    BY NetAnswerFields DEF NetInv
  <2> QED BY <1>1, <2>1, WithoutAll DEF NetInv
<1>3. connectOp' \in [Connects -> {"none", "resolving", "connecting", "deleted"}]
  BY <1>1 DEF NetInv
<1>4. DOMAIN connected' = Connects
      /\ \A c \in Connects : connected'[c] = "none" => connectOp'[c] = "none"
  BY <1>1 DEF NetInv
<1> QED BY <1>1, <1>2, <1>3, <1>4 DEF NetInv

LEMMA NetInitInv == open = {"net"} /\ works = <<>> /\ NetInit(TRUE) => NetInv
BY DEF NetInit, NetInv

LEMMA NetNextKeeps == NetInv /\ [NetNext]_<<contextVars, netVars>> => NetInv'
<1> SUFFICES ASSUME NetInv, [NetNext]_<<contextVars, netVars>> PROVE NetInv'
  OBVIOUS
<1>1. CASE AsioStep
  BY <1>1, AsioAnswersKeeps, HandlersKeep DEF AsioStep, ConnectSteps
<1>2. CASE DestroyServer
  BY <1>2 DEF DestroyServer, contextVars, NetInv, NetAnswers
<1>3. CASE UNCHANGED <<contextVars, netVars>>
  BY <1>3 DEF contextVars, netVars, NetInv, NetAnswers
<1> QED BY <1>1, <1>2, <1>3, ConnectKeeps, AcceptsKeep, CloseNetKeeps DEF NetNext

-----------------------------------------------------------------------------
\* The services on one executor: whose works are in it, and what the others are.
ServicesInv ==
  /\ service \in {"timers", "all", "observer", "property", "calls", "net"}
  /\ service = "timers" => TimersInv
  /\ service = "net" => NetInv
  /\ service = "all" => AllInv
  /\ service = "observer" => ObserverInv
  /\ service = "calls" => CallsInv
  /\ service = "property" => PropertyInv /\ works = <<>>
  /\ service # "timers" => ~misused

LEMMA ServicesInitInv == Init => ServicesInv
<1> SUFFICES ASSUME Init PROVE ServicesInv
  OBVIOUS
<1>1. service # "timers" => ~misused
  BY DEF Init, TimersInit
<1>2. service = "timers" => TimersInv
  BY TimersInitInv DEF Init
<1>3. service = "net" => NetInv
  BY NetInitInv DEF Init
<1>4. service = "all" => AllInv
  BY AllInitInv DEF Init
<1>5. service = "observer" => ObserverInv
  BY ObserverInitInv DEF Init
<1>6. service = "calls" => CallsInv
  BY CallsInitInv DEF Init
<1>7. service = "property" => PropertyInv /\ works = <<>>
  BY PropertyInitInv DEF Init
<1> QED BY <1>1, <1>2, <1>3, <1>4, <1>5, <1>6, <1>7 DEF ServicesInv, Init

LEMMA ServicesNextKeeps == ServicesInv /\ [Next]_serviceVars => ServicesInv'
<1> SUFFICES ASSUME ServicesInv, [Next]_serviceVars PROVE ServicesInv'
  OBVIOUS
<1>1. UNCHANGED service /\ (service # "timers" => UNCHANGED timerVars)
  BY DEF Next, serviceVars
<1>2. service = "timers" => TimersInv'
  BY TimersNextKeeps DEF ServicesInv, Next, serviceVars
<1>3. service = "net" => NetInv'
  BY NetNextKeeps DEF ServicesInv, Next, serviceVars
<1>4. service = "all" => AllInv'
  BY AllNextKeeps DEF ServicesInv, Next, serviceVars
<1>5. service = "observer" => ObserverInv'
  BY ObserverNextKeeps DEF ServicesInv, Next, serviceVars
<1>6. service = "calls" => CallsInv'
  BY CallsNextKeeps DEF ServicesInv, Next, serviceVars
<1>7. service = "property" => PropertyInv' /\ works' = <<>>
  BY PropertyNextKeeps DEF ServicesInv, Next, serviceVars, contextVars
<1> QED BY <1>1, <1>2, <1>3, <1>4, <1>5, <1>6, <1>7 DEF ServicesInv, timerVars

\* A work is a timer's wakeup or the answer to a connect only where timers or
\* connections are used: by what it says of itself.
LEMMA WorksTellServices ==
  ASSUME ServicesInv, NEW i \in DOMAIN works
  PROVE  /\ (\E t : works[i].work = [timer |-> t]) => service = "timers"
         /\ "connect" \in DOMAIN works[i].work => service = "net"
<1> DEFINE w == works[i].work
<1>1. CASE service = "timers"
  <2>1. works[i] \in Wakeups
    BY <1>1 DEF ServicesInv, TimersInv
  <2>2. PICK t : w = [timer |-> t]
    BY <2>1, WakeupFields
  <2>3. DOMAIN w = {"timer"}
    BY <2>2
  <2> QED BY <1>1, <2>3
<1>2. CASE service = "net"
  <2>1. works[i] \in NetAnswers
    BY <1>2 DEF ServicesInv, NetInv
  <2>2. works[i] \in [ctx : {"net"}, work : [connect : Connects, step : ConnectSteps, ok : BOOLEAN]]
    BY <2>1 DEF NetAnswers
  <2>3. DOMAIN w = {"connect", "step", "ok"}
    BY <2>2
  <2>4. \A t : DOMAIN [timer |-> t] = {"timer"}
    OBVIOUS
  <2> QED BY <1>2, <2>3, <2>4
<1>3. CASE service = "all"
  <2>1. works[i] \in AllWorks
    BY <1>3 DEF ServicesInv, AllInv, AllTypeOK
  <2>2. DOMAIN w = {"item", "step"}
    BY <2>1 DEF AllWorks
  <2>4. \A t : DOMAIN [timer |-> t] = {"timer"}
    OBVIOUS
  <2> QED BY <1>3, <2>2, <2>4
<1>4. CASE service = "calls"
  <2>1. works[i] \in CallWorks
    BY <1>4 DEF ServicesInv, CallsInv
  <2>2. works[i] \in [ctx : CallContexts, work : [call : QueuedCalls, step : {"start", "finish"}]]
    BY <2>1 DEF CallWorks
  <2>3. DOMAIN w = {"call", "step"}
    BY <2>2
  <2>4. \A t : DOMAIN [timer |-> t] = {"timer"}
    OBVIOUS
  <2> QED BY <1>4, <2>3, <2>4
<1>5. CASE service = "observer"
  <2>1. works[i] \in ObserverClosures
    BY <1>5 DEF ServicesInv, ObserverInv
  <2>2. "do" \in DOMAIN w /\ "connect" \notin DOMAIN w
    BY <2>1 DEF ObserverClosures
  <2>3. \A t : "do" \notin DOMAIN [timer |-> t]
    OBVIOUS
  <2> HIDE DEF w
  <2>4. \A t : w # [timer |-> t]
    BY <2>2, <2>3
  <2> QED BY <2>2, <2>4 DEF w
<1>6. CASE service = "property"
  BY <1>6 DEF ServicesInv
<1> QED BY <1>1, <1>2, <1>3, <1>4, <1>5, <1>6 DEF ServicesInv

\* No wakeup of a timer, and no answer for a connect, finds its operation deleted,
\* whatever the executor has been given by the other services.
THEOREM OperationsOutliveTheirWorks == Spec => []NoOperationUsedAfterDelete
<1>1. ServicesInv => NoOperationUsedAfterDelete
  <2> SUFFICES ASSUME ServicesInv PROVE NoOperationUsedAfterDelete
    OBVIOUS
  <2>1. NoTimerUsedAfterDelete
    <3>1. ~misused
      BY DEF ServicesInv, TimersInv
    <3>2. ASSUME NEW i \in DOMAIN works, NEW t \in AllTimers, works[i].work = [timer |-> t]
          PROVE  timer[t] = "expired"
      <4>1. works[i] \in Wakeups
        <5>1. service = "timers"
          BY <3>2, WorksTellServices
        <5> QED BY <5>1 DEF ServicesInv, TimersInv
      <4>2. works[i].work.timer = t
        BY <3>2
      <4> QED BY <4>1, <4>2, WakeupFields
    <3> QED BY <3>1, <3>2 DEF NoTimerUsedAfterDelete
  <2>2. NoConnectUsedAfterDelete
    <3> SUFFICES ASSUME NEW i \in DOMAIN works, "connect" \in DOMAIN works[i].work
                 PROVE  connectOp[works[i].work.connect] = works[i].work.step
      BY DEF NoConnectUsedAfterDelete
    <3>1. works[i] \in NetAnswers
      BY WorksTellServices DEF ServicesInv, NetInv
    <3> QED BY <3>1, NetAnswerFields
  <2> QED BY <2>1, <2>2 DEF NoOperationUsedAfterDelete
<1> QED BY <1>1, ServicesInitInv, ServicesNextKeeps, PTL DEF Spec
=============================================================================
