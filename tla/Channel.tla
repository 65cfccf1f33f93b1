------------------------------- MODULE Channel -------------------------------
(***************************************************************************)
(* The sequences of seq/: FuncProducer threads that hand the values of a   *)
(* function to the consumers in their ConsumerList, and the consumers: the *)
(* inputs of one Chan (a TSQueue that the last input closes), takeOne, and *)
(* Notifier, which calls its handler in an AOContext.                      *)
(*                                                                         *)
(* A consumer belongs to the list, or to the thread that calls it after it *)
(* took the list out.  The list is unlocked during the calls.              *)
(***************************************************************************)
EXTENDS TSQueue

CONSTANTS
  Producers,                    \* FuncProducers; each is the thread it starts
  Readers,                      \* threads that read the Chan until its end
  Clients,                      \* threads that use a TSQueue themselves
  Inputs, Takers, Notifiers,    \* the consumers
  Scenarios,                    \* who takes part: see InitWith
  MaxValues                     \* bound: values a function produces

Consumers == Inputs \cup Takers \cup Notifiers

ASSUME ThreadsAssumption ==
  Threads = Producers \cup Readers \cup Clients /\ IsFiniteSet(Threads)
ASSUME KindsAssumption ==
  Inputs \cap Takers = {} /\ Inputs \cap Notifiers = {} /\ Takers \cap Notifiers = {}
ASSUME ScenariosAssumption ==
  \A s \in Scenarios : /\ s.home \in [Consumers -> Producers \cup {"none"}]
                       /\ s.autoClose \in BOOLEAN
                       /\ s.readers \subseteq Readers /\ s.calls \in [Clients -> Nat]

VARIABLES
  state, pc,         \* m_state of a producer; where its thread is
  produced,          \* how many values, 1, 2, ..., the function has given
  list, listClosed,  \* m_list and m_closed of the ConsumerList
  calling, pos,      \* the list consume took out, the consumer it is at
  autoClose,         \* of the Chan
  home,              \* the producer a consumer is for; both stay as they are
  made, from, got,   \* the consumers that exist or existed; per consumer, the
                     \*   first value it is to get and those it was called with
  inputCount,        \* Prv::inputCount
  future,            \* the future of a taker
  ctxOpen, posted, handled,  \* the contexts of the notifiers and their closures
  reader, budget     \* readers that go on; calls the Clients have left

producerVars == <<state, pc, produced, list, listClosed, calling, pos>>
consumerVars == <<autoClose, home, made, from, got, inputCount, future>>
notifierVars == <<ctxOpen, posted, handled>>
userVars == <<reader, budget>>
vars == <<queueVars, producerVars, consumerVars, notifierVars, userVars>>

InitWith(s) ==
  /\ QueueInit
  /\ state = [p \in Producers |-> "ReadyToStart"] /\ pc = [p \in Producers |-> "none"]
  /\ produced = [p \in Producers |-> 0]
  /\ list = [p \in Producers |-> <<>>] /\ listClosed = [p \in Producers |-> FALSE]
  /\ calling = [p \in Producers |-> <<>>] /\ pos = [p \in Producers |-> 0]
  /\ made = {}
  /\ from = [c \in Consumers |-> 0] /\ got = [c \in Consumers |-> <<>>]
  /\ inputCount = 0
  /\ future = [c \in Takers |-> "none"]
  /\ ctxOpen = [c \in Notifiers |-> TRUE]
  /\ posted = [c \in Notifiers |-> <<>>] /\ handled = [c \in Notifiers |-> <<>>]
  /\ home = s.home /\ autoClose = s.autoClose
  /\ reader = s.readers /\ budget = s.calls
Init == \E s \in Scenarios : InitWith(s)

-----------------------------------------------------------------------------
\* Mutant: the last input does not close the queue.
DestroyQuietly(gone) ==
  /\ future' = [c \in Takers |-> IF c \in gone /\ future[c] = "pending"
                                 THEN "cancelled" ELSE future[c]]
  /\ inputCount' = inputCount - Cardinality(gone \cap Inputs)
  /\ UNCHANGED queueVars

\* Consumers are destroyed: a taker that got nothing cancels its future, the
\* last input closes the queue.
Destroy(gone) ==
  LET inputs == gone \cap Inputs IN
  /\ future' = [c \in Takers |-> IF c \in gone /\ future[c] = "pending"
                                 THEN "cancelled" ELSE future[c]]
  /\ inputCount' = inputCount - Cardinality(inputs)
  /\ IF inputs # {} /\ inputCount' = 0 /\ autoClose
     THEN Close ELSE UNCHANGED queueVars

\* attachToProducer and takeOne: the consumer is made, then handed over; a
\* closed list destroys it.
Make(c) ==
  /\ home[c] # "none" /\ c \notin made
  /\ made' = made \cup {c}
  /\ inputCount' = IF c \in Inputs THEN inputCount + 1 ELSE inputCount
  /\ future' = [t \in Takers |-> IF t = c THEN "pending" ELSE future[t]]
  /\ UNCHANGED <<queueVars, producerVars, autoClose, home, from, got, notifierVars, userVars>>

Attached(c) == from[c] > 0
AddConsumer(c) ==
  LET p == home[c] IN
  /\ c \in made /\ ~Attached(c)
  /\ from' = [from EXCEPT ![c] = produced[p] + 1]
  /\ IF listClosed[p]
     THEN Destroy({c}) /\ UNCHANGED list
     ELSE list' = [list EXCEPT ![p] = Append(@, c)] /\ UNCHANGED <<queueVars, inputCount, future>>
  /\ UNCHANGED <<state, pc, produced, listClosed, calling, pos, autoClose, home, made, got, notifierVars, userVars>>

Start(p) ==
  /\ state[p] = "ReadyToStart" /\ \E c \in Consumers : home[c] = p
  /\ state' = [state EXCEPT ![p] = "Running"] /\ pc' = [pc EXCEPT ![p] = "loop"]
  /\ UNCHANGED <<queueVars, produced, list, listClosed, calling, pos, consumerVars,
                 notifierVars, userVars>>

Stop(p) ==
  /\ state[p] = "Running"
  /\ state' = [state EXCEPT ![p] = "Stopping"]
  /\ UNCHANGED <<queueVars, pc, produced, list, listClosed, calling, pos, consumerVars,
                 notifierVars, userVars>>

\* The thread: the function gives a value, consume takes the list out.
Consume(p) ==
  /\ pc[p] = "loop" /\ state[p] = "Running" /\ produced[p] < MaxValues
  /\ produced' = [produced EXCEPT ![p] = @ + 1]
  /\ calling' = [calling EXCEPT ![p] = list[p]] /\ list' = [list EXCEPT ![p] = <<>>]
  /\ pos' = [pos EXCEPT ![p] = 1] /\ pc' = [pc EXCEPT ![p] = "call"]
  /\ UNCHANGED <<queueVars, state, listClosed, consumerVars, notifierVars, userVars>>

\* The producer is stopped, or its function is through: run closes the list.
FinishRun(p) ==
  /\ pc[p] = "loop"
  /\ pc' = [pc EXCEPT ![p] = "done"]
  /\ listClosed' = [listClosed EXCEPT ![p] = TRUE] /\ list' = [list EXCEPT ![p] = <<>>]
  /\ Destroy(ToSet(list[p]))
  /\ UNCHANGED <<state, produced, calling, pos, autoClose, home, made, from, got, notifierVars, userVars>>

Current(p) == calling[p][pos[p]]
AtConsumer(p, at, kind) == pc[p] = at /\ pos[p] <= Len(calling[p]) /\ Current(p) \in kind
Received(p) == got' = [got EXCEPT ![Current(p)] = Append(@, produced[p])]

\* Mutant: the place in the list moves on although the consumer there was erased.
EraseAndGoOn(p) ==
  /\ calling' = [calling EXCEPT ![p] = RemoveAt(@, pos[p])] /\ pc' = [pc EXCEPT ![p] = "call"]
  /\ pos' = [pos EXCEPT ![p] = @ + 1]

\* The consumer answered Ok, or Closed and is erased.
GoOn(p) ==
  /\ pos' = [pos EXCEPT ![p] = @ + 1] /\ pc' = [pc EXCEPT ![p] = "call"]
  /\ UNCHANGED calling
Erase(p) ==
  /\ calling' = [calling EXCEPT ![p] = RemoveAt(@, pos[p])] /\ pc' = [pc EXCEPT ![p] = "call"]
  /\ UNCHANGED pos

CallTaker(p) ==
  /\ AtConsumer(p, "call", Takers)
  /\ Erase(p) /\ Received(p)
  /\ future' = [future EXCEPT ![Current(p)] = "value"]
  /\ UNCHANGED <<queueVars, state, produced, list, listClosed, autoClose, home, made, from,
                 inputCount, notifierVars, userVars>>

\* Input::consume writes to the queue of the Chan.
CallInput(p) ==
  /\ AtConsumer(p, "call", Inputs)
  /\ Call(p, WriteCall(produced[p], FALSE)) /\ pc' = [pc EXCEPT ![p] = "write"]
  /\ Received(p)
  /\ UNCHANGED <<values, closed, waiting, accepted, taken, sawEnd, state, produced, list,
                 listClosed, calling, pos, autoClose, home, made, from, inputCount, future, notifierVars, userVars>>

InputAnswers(p) ==
  /\ pc[p] = "write"
  /\ \/ Write(p) /\ GoOn(p) /\ UNCHANGED <<inputCount, future>>
     \/ Block(p) /\ UNCHANGED <<pc, calling, pos, inputCount, future>>
     \/ /\ op[p].kind = "write" /\ closed    \* write answers false: Destroy closes again
        /\ Return(p) /\ Erase(p) /\ inputCount' = inputCount - 1
        /\ UNCHANGED <<values, closed, waiting, accepted, taken, sawEnd, future>>
  /\ UNCHANGED <<state, produced, list, listClosed, autoClose, home, made, from, got,
                 notifierVars, userVars>>

\* The safe callback of a Notifier: isOpen, and then exec, which a context that
\* closed in between refuses without a word.
CallNotifier(p) ==
  /\ AtConsumer(p, "call", Notifiers)
  /\ IF ctxOpen[Current(p)]
     THEN pc' = [pc EXCEPT ![p] = "exec"] /\ UNCHANGED <<calling, pos>>
     ELSE Erase(p)
  /\ UNCHANGED <<queueVars, state, produced, list, listClosed, consumerVars, notifierVars, userVars>>

ExecHandler(p) ==
  /\ AtConsumer(p, "exec", Notifiers)
  /\ GoOn(p)
  /\ IF ctxOpen[Current(p)]
     THEN Received(p) /\ posted' = [posted EXCEPT ![Current(p)] = Append(@, produced[p])]
     ELSE UNCHANGED <<got, posted>>
  /\ UNCHANGED <<queueVars, state, produced, list, listClosed, autoClose, home, made, from,
                 inputCount, future, ctxOpen, handled, userVars>>

\* Mutant: the list that was taken out replaces what has come in meanwhile.
PutBackOver(p) ==
  /\ pc[p] = "call" /\ pos[p] > Len(calling[p])
  /\ list' = [list EXCEPT ![p] = calling[p]] /\ calling' = [calling EXCEPT ![p] = <<>>]
  /\ pc' = [pc EXCEPT ![p] = "loop"] /\ pos' = [pos EXCEPT ![p] = 0]
  /\ UNCHANGED <<queueVars, state, produced, listClosed, consumerVars, notifierVars, userVars>>

\* All were called: those that are left go back to the front of the list.
PutBack(p) ==
  /\ pc[p] = "call" /\ pos[p] > Len(calling[p])
  /\ list' = [list EXCEPT ![p] = calling[p] \o @] /\ calling' = [calling EXCEPT ![p] = <<>>]
  /\ pc' = [pc EXCEPT ![p] = "loop"] /\ pos' = [pos EXCEPT ![p] = 0]
  /\ UNCHANGED <<queueVars, state, produced, listClosed, consumerVars, notifierVars, userVars>>

Run(p) ==
  \/ Consume(p) \/ FinishRun(p) \/ CallTaker(p) \/ CallInput(p) \/ InputAnswers(p)
  \/ CallNotifier(p) \/ ExecHandler(p) \/ PutBack(p)

-----------------------------------------------------------------------------
\* The context of a notifier runs a closure, or is closed by ~Notifier.
Handle(c) ==
  /\ ctxOpen[c] /\ posted[c] # <<>>
  /\ handled' = [handled EXCEPT ![c] = Append(@, Head(posted[c]))]
  /\ posted' = [posted EXCEPT ![c] = Tail(@)]
  /\ UNCHANGED <<queueVars, producerVars, consumerVars, ctxOpen, userVars>>

CloseNotifier(c) ==
  /\ ctxOpen[c]
  /\ ctxOpen' = [ctxOpen EXCEPT ![c] = FALSE] /\ posted' = [posted EXCEPT ![c] = <<>>]
  /\ UNCHANGED <<queueVars, producerVars, consumerVars, handled, userVars>>

\* ~Chan or Chan::close.
CloseChan ==
  /\ ~closed /\ Close
  /\ UNCHANGED <<producerVars, consumerVars, notifierVars, userVars>>

\* A reader gets values until it is told that there are no more.
Get(t) ==
  /\ t \in reader
  /\ \/ Call(t, ReadCall(FALSE)) /\ UNCHANGED <<values, closed, waiting, accepted, taken, sawEnd, reader>>
     \/ (Read(t) \/ Block(t)) /\ UNCHANGED reader
     \/ ReadEnd(t) /\ reader' = reader \ {t}
  /\ UNCHANGED <<producerVars, consumerVars, notifierVars, budget>>

\* A client of a TSQueue calls write and read, with a timeout or without.
ClientCall(t) ==
  /\ budget[t] > 0 /\ budget' = [budget EXCEPT ![t] = @ - 1]
  /\ \E call \in Calls \ {NoCall} : Call(t, call)
  /\ UNCHANGED <<values, closed, waiting, accepted, taken, sawEnd, reader,
                 producerVars, consumerVars, notifierVars>>
ClientStep(t) ==
  /\ Proceed(t) \/ Expire(t)
  /\ UNCHANGED <<producerVars, consumerVars, notifierVars, userVars>>

Next ==
  \/ \E c \in Consumers : Make(c) \/ AddConsumer(c)
  \/ \E p \in Producers : Start(p) \/ Stop(p) \/ Run(p)
  \/ \E c \in Notifiers : Handle(c) \/ CloseNotifier(c)
  \/ CloseChan
  \/ \E t \in Readers : Get(t)
  \/ \E t \in Clients : ClientCall(t) \/ ClientStep(t)

Spec == Init /\ [][Next]_vars

\* A consumer that was made is handed over; the threads of the producers and the
\* readers go on while they can.
Fairness ==
  /\ \A c \in Consumers : WF_vars(AddConsumer(c))
  /\ \A p \in Producers : WF_vars(Run(p))
  /\ \A t \in Readers : WF_vars(Get(t))
FairSpec == Spec /\ Fairness

-----------------------------------------------------------------------------
\* A consumer gets every value from the one after it was attached on, in order,
\* until it is erased or destroyed: none is skipped while the list is out of its
\* place during consume, and none comes twice.
SeesEveryValue ==
  \A c \in Consumers : Attached(c) =>
    LET p == home[c] IN
    /\ \A n \in DOMAIN got[c] : got[c][n] = from[c] + n - 1
    /\ c \in ToSet(list[p]) /\ pc[p] = "loop" /\ c \notin Notifiers =>
         Len(got[c]) = produced[p] + 1 - from[c]

\* The consumers that the list or the calling thread has.
Held(p) == ToSet(list[p]) \cup ToSet(calling[p])

\* The future of takeOne is resolved once, by the first value after it was
\* attached or by the end of the producer.
TakenOnce ==
  \A c \in Takers :
    /\ future[c] = "value" => got[c] = <<from[c]>>
    /\ future[c] = "cancelled" => got[c] = <<>>
    /\ future[c] = "pending" => ~Attached(c) \/ c \in Held(home[c])

\* Every reader of an AutoClose Chan is told of the end once the producers that
\* feed it are through, unless some input is never handed over.
ReadersEnd ==
  (\A c \in made \cap Inputs : Attached(c) /\ pc[home[c]] = "done")
    /\ made \cap Inputs # {} /\ autoClose ~> reader = {}

=============================================================================
