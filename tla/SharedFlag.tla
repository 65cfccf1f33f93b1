------------------------------ MODULE SharedFlag ------------------------------
(***************************************************************************)
(* detail::SharedFlag (ts-shared-flag.h): the cancellation flag that the   *)
(* states of a chain of futures share.  An object makes the flag when it   *)
(* is first copied or set; copies count as references of it, in one word   *)
(* with the flag's bit, and the last of them frees it.  Promises and       *)
(* futures use one object from several threads; each access to an atomic   *)
(* is a step here.                                                         *)
(***************************************************************************)
EXTENDS Integers, FiniteSets

CONSTANTS
  Objects,   \* addresses of SharedFlag objects
  Flags,     \* addresses of flags on the heap
  Users,     \* the threads
  Null

ASSUME FlagAssumption ==
  /\ Null \notin Flags /\ Null \notin Objects
  /\ IsFiniteSet(Objects) /\ IsFiniteSet(Users) /\ Cardinality(Flags) = Cardinality(Objects)

VARIABLES
  alive,     \* the objects that are constructed
  ptr,       \* m_ptr of each
  refs,      \* the references in each flag's word
  isSet,     \* the bit of the word
  heap,      \* the flags that are allocated
  call,      \* what each thread is doing
  seen,      \* the pointer that it loaded
  group,     \* the objects whose flag has to be one with an object's own
  raised     \* the objects for whose flag a set has been completed

flagVars == <<alive, ptr, refs, isSet, heap, call, seen, group, raised>>

Idle == [op |-> "none", step |-> "none", on |-> Null, to |-> Null]
Ops == {"set", "isSet", "copy", "destroy", "assign"}

FlagInit ==
  /\ alive = {} /\ ptr = [o \in Objects |-> Null]
  /\ refs = [f \in Flags |-> 0] /\ isSet = [f \in Flags |-> FALSE] /\ heap = {}
  /\ call = [u \in Users |-> Idle] /\ seen = [u \in Users |-> Null]
  /\ group = [o \in Objects |-> {}] /\ raised = {}

\* Copies from an object, set and isSet may run beside each other.  Nobody else
\* uses one that is constructed or destroyed, nor one that is assigned to (the
\* future inside another one, future-state.h:345), but for the promise of a
\* future without a flag, which may ask it all the time.
Uses(u) == {call[u].on, call[u].to} \ {Null}
Unused(o) == \A u \in Users : o \notin Uses(u)
OnlyAsked(o) ==
  ptr[o] = Null /\ \A u \in Users : o \in Uses(u) => call[u].op = "isSet"
Exclusive(o) ==
  \E u \in Users : \/ call[u].to = o
                   \/ call[u].op = "destroy" /\ call[u].on = o

Begin(u, op, o, n) ==
  /\ call[u] = Idle
  /\ call' = [call EXCEPT ![u] = [op |-> op, on |-> o, to |-> n,
                step |-> IF op \in {"destroy", "assign"} THEN "remove" ELSE "load"]]

Construct(o) ==
  /\ o \notin alive /\ Unused(o)
  /\ alive' = alive \cup {o} /\ ptr' = [ptr EXCEPT ![o] = Null]
  /\ group' = [group EXCEPT ![o] = {o}]
  /\ UNCHANGED <<refs, isSet, heap, call, seen, raised>>

\* set and isSet; the copy constructor of n, and operator= of n, which first
\* gives up what n had; the destructor.
Ask(u, o) ==
  /\ o \in alive
  /\ \/ ~Exclusive(o)
     \/ ptr[o] = Null /\ \A v \in Users : o \in Uses(v) => call[v].op \in {"isSet", "assign"}
  /\ Begin(u, "isSet", o, Null)
  /\ UNCHANGED <<alive, ptr, refs, isSet, heap, seen, group, raised>>
Set(u, o) ==
  /\ o \in alive /\ ~Exclusive(o) /\ Begin(u, "set", o, Null)
  /\ UNCHANGED <<alive, ptr, refs, isSet, heap, seen, group, raised>>
Copy(u, o, n) ==
  /\ o \in alive /\ ~Exclusive(o) /\ n \notin alive /\ Unused(n)
  /\ Begin(u, "copy", o, n) /\ ptr' = [ptr EXCEPT ![n] = Null]
  /\ UNCHANGED <<alive, refs, isSet, heap, seen, group, raised>>
Assign(u, o, n) ==
  /\ o \in alive /\ ~Exclusive(o) /\ n \in alive \ {o} /\ (Unused(n) \/ OnlyAsked(n))
  /\ Begin(u, "assign", o, n)
  /\ group' = [x \in Objects |-> IF x = n THEN {} ELSE group[x] \ {n}]
  /\ raised' = raised \ {n}
  /\ UNCHANGED <<alive, ptr, refs, isSet, heap, seen>>
Destroy(u, o) ==
  /\ o \in alive /\ Unused(o) /\ Begin(u, "destroy", o, Null)
  /\ group' = [x \in Objects |-> IF x = o THEN {} ELSE group[x] \ {o}]
  /\ raised' = raised \ {o}
  /\ UNCHANGED <<alive, ptr, refs, isSet, heap, seen>>

-----------------------------------------------------------------------------
At(u, step) == call[u].step = step
GoTo(u, step) == call' = [call EXCEPT ![u].step = step]
Return(u) == call' = [call EXCEPT ![u] = Idle] /\ seen' = [seen EXCEPT ![u] = Null]

\* The object whose reference removeRef gives up.
Loser(u) == IF call[u].op = "assign" THEN call[u].to ELSE call[u].on

\* removeRef.
LoadToRemove(u) ==
  /\ At(u, "remove") /\ seen' = [seen EXCEPT ![u] = ptr[Loser(u)]]
  /\ GoTo(u, IF ptr[Loser(u)] = Null THEN "removed" ELSE "sub")
  /\ UNCHANGED <<alive, ptr, refs, isSet, heap, group, raised>>

\* Mutant: the bit is counted with the references.
SubtractUnmasked(u) ==
  /\ At(u, "sub") /\ refs' = [refs EXCEPT ![seen[u]] = @ - 1]
  /\ heap' = IF refs[seen[u]] = 1 /\ ~isSet[seen[u]] THEN heap \ {seen[u]} ELSE heap
  /\ seen' = [seen EXCEPT ![u] = Null] /\ GoTo(u, "removed")
  /\ UNCHANGED <<alive, ptr, isSet, group, raised>>

\* fetch_sub, and the delete if that was the last reference.
Subtract(u) ==
  LET f == seen[u]  last == refs[f] = 1 IN
  /\ At(u, "sub") /\ refs' = [refs EXCEPT ![f] = @ - 1]
  /\ heap' = IF last THEN heap \ {f} ELSE heap
  /\ isSet' = [isSet EXCEPT ![f] = @ /\ ~last]
  /\ seen' = [seen EXCEPT ![u] = Null]
  /\ GoTo(u, IF last THEN "forget" ELSE "removed")
  /\ UNCHANGED <<alive, ptr, group, raised>>
Forget(u) ==
  /\ At(u, "forget") /\ ptr' = [ptr EXCEPT ![Loser(u)] = Null]
  /\ GoTo(u, "removed")
  /\ UNCHANGED <<alive, refs, isSet, heap, seen, group, raised>>

\* The destructor is done, operator= goes on with copyRef.
Removed(u) ==
  /\ At(u, "removed")
  /\ \/ /\ call[u].op = "destroy" /\ alive' = alive \ {call[u].on}
        /\ ptr' = [ptr EXCEPT ![call[u].on] = Null] /\ Return(u)
     \/ call[u].op = "assign" /\ GoTo(u, "load") /\ UNCHANGED <<alive, ptr, seen>>
  /\ UNCHANGED <<refs, isSet, heap, group, raised>>

\* The load of isSet and of lazyCreate.
Load(u) ==
  /\ At(u, "load")
  /\ LET p == ptr[call[u].on] IN
     \/ call[u].op = "isSet" /\ p = Null /\ Return(u)
     \/ /\ call[u].op # "isSet" \/ p # Null
        /\ seen' = [seen EXCEPT ![u] = p]
        /\ GoTo(u, IF p = Null THEN "create" ELSE "use")
  /\ UNCHANGED <<alive, ptr, refs, isSet, heap, group, raised>>

\* What new gives: any address that is free, and one that was freed before may
\* come again.  Addresses are compared only, so one of them stands for all; there
\* are as many as objects, which is enough.
NewFlag == CHOOSE f \in Flags : f \notin heap
Install(u) ==
  /\ ~(Flags \subseteq heap)
  /\ heap' = heap \cup {NewFlag} /\ refs' = [refs EXCEPT ![NewFlag] = 1]
  /\ isSet' = [isSet EXCEPT ![NewFlag] = FALSE]
  /\ ptr' = [ptr EXCEPT ![call[u].on] = NewFlag] /\ seen' = [seen EXCEPT ![u] = NewFlag]

\* Mutant: the new flag is stored whatever has come there since the load.
StoreFlag(u) ==
  /\ At(u, "create") /\ Install(u)
  /\ GoTo(u, "use") /\ UNCHANGED <<alive, group, raised>>

\* compare_exchange_strong; the loser deletes the flag that nobody saw.
Create(u) ==
  /\ At(u, "create")
  /\ \/ ptr[call[u].on] = Null /\ Install(u)
     \/ /\ ptr[call[u].on] # Null /\ seen' = [seen EXCEPT ![u] = ptr[call[u].on]]
        /\ UNCHANGED <<heap, refs, isSet, ptr>>
  /\ GoTo(u, "use") /\ UNCHANGED <<alive, group, raised>>

\* fetch_or of set, the load of isSet, fetch_add of copyRef.
SetBit(u) ==
  /\ At(u, "use") /\ call[u].op = "set"
  /\ isSet' = [isSet EXCEPT ![seen[u]] = TRUE]
  /\ raised' = raised \cup group[call[u].on]
  /\ Return(u) /\ UNCHANGED <<alive, ptr, refs, heap, group>>
GetBit(u) ==
  /\ At(u, "use") /\ call[u].op = "isSet"
  /\ Return(u) /\ UNCHANGED <<alive, ptr, refs, isSet, heap, group, raised>>
AddRef(u) ==
  /\ At(u, "use") /\ call[u].op \in {"copy", "assign"}
  /\ refs' = [refs EXCEPT ![seen[u]] = @ + 1]
  /\ GoTo(u, "store") /\ UNCHANGED <<alive, ptr, isSet, heap, seen, group, raised>>

\* copyRef stores the pointer: from now on the two share one flag.
StoreRef(u) ==
  LET o == call[u].on  n == call[u].to IN
  /\ At(u, "store")
  /\ ptr' = [ptr EXCEPT ![n] = seen[u]] /\ alive' = alive \cup {n}
  /\ group' = [x \in Objects |-> IF x = n \/ x \in group[o] THEN group[o] \cup {n} ELSE group[x]]
  /\ raised' = IF o \in raised THEN raised \cup {n} ELSE raised
  /\ Return(u) /\ UNCHANGED <<refs, isSet, heap>>

Remove(u) == LoadToRemove(u) \/ Subtract(u) \/ Forget(u) \/ Removed(u)
Use(u) == Load(u) \/ Create(u) \/ SetBit(u) \/ GetBit(u) \/ AddRef(u) \/ StoreRef(u)
FlagNext ==
  \/ \E o \in Objects : Construct(o)
  \/ \E u \in Users, o \in Objects :
       \/ Ask(u, o) \/ Set(u, o) \/ Destroy(u, o)
       \/ \E n \in Objects : Copy(u, o, n) \/ Assign(u, o, n)
  \/ \E u \in Users : Remove(u) \/ Use(u)

FlagSpec == FlagInit /\ [][FlagNext]_flagVars

-----------------------------------------------------------------------------
\* The references that the calls under way have taken, but not stored, or have
\* given up while their object still points at the flag.
Taken(f) == {u \in Users : call[u].step = "store" /\ seen[u] = f}
GivenUp(o) ==
  \E u \in Users : /\ call[u].op \in {"destroy", "assign"} /\ Loser(u) = o
                   /\ ~At(u, "remove") /\ ~At(u, "sub")
Owners(f) == {o \in Objects : ptr[o] = f /\ ~GivenUp(o)}

\* A flag lives exactly as long as somebody holds a reference of it, however
\* its makers, copies and destructions meet; who is about to touch it finds it
\* there; and objects copied from each other have one flag, which none of them
\* misses once it was set.
FlagLivesAsLongAsItsOwners ==
  /\ \A f \in Flags :
       /\ f \in heap <=> Owners(f) # {} \/ Taken(f) # {}
       /\ f \in heap => refs[f] = Cardinality(Owners(f)) + Cardinality(Taken(f))
  /\ \A u \in Users : call[u].step \in {"use", "sub"} => seen[u] \in heap
  /\ \A o \in Objects : \A x \in group[o] \ {o} : ptr[x] = ptr[o] /\ ptr[o] # Null
  /\ \A o \in raised : ptr[o] # Null /\ isSet[ptr[o]]
=============================================================================
