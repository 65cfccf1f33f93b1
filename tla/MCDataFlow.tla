------------------------------ MODULE MCDataFlow ------------------------------
(***************************************************************************)
(* Channel, ByteStreams and Fifo for TLC: every behaviour has threads that *)
(* hand values to consumers, or operations on devices, or a ring buffer.   *)
(*                                                                         *)
(* The scenarios of Channel keep apart what does not meet: two producers   *)
(* that feed one Chan; one that feeds it twice; one with a taker and a     *)
(* notifier that may or may not be attached in time; and threads that use  *)
(* a TSQueue themselves, with timeouts.                                    *)
(***************************************************************************)
EXTENDS Channel

CONSTANTS
  p1, p2, r1, r2, c1, c2, c3, i1, i2, k1, n1,
  StreamScenarios, Operations, Marker, PortionSize, Unreads, MaxCalls,
  RingSize, RingValues, MaxSpan

VARIABLES
  open, works, top, leaves, unreadBuf, dest, operation, promise, request, stream, calls,
  buffer, head, tail, count, answer,
  flow   \* what the behaviour is about; for good

Streams == INSTANCE ByteStreams WITH Scenarios <- StreamScenarios, op <- operation
Ring == INSTANCE Fifo WITH Size <- RingSize, Values <- RingValues, Fits <- TRUE

streamVars == <<open, works, top, leaves, unreadBuf, dest, operation, promise, request, stream, calls>>
ringVars == <<buffer, head, tail, count, answer>>
flowVars == <<vars, streamVars, ringVars, flow>>

-----------------------------------------------------------------------------
Scenario(homes, close, threads, n) ==
  [home |-> [c \in Consumers |-> IF c \in DOMAIN homes THEN homes[c] ELSE "none"],
   autoClose |-> close, readers |-> threads, calls |-> [t \in Clients |-> IF t = c3 THEN n \div 2 ELSE n]]

MCScenarios ==
  {Scenario((i1 :> p1) @@ (i2 :> p2), TRUE, {r1}, 0),
   Scenario((i1 :> p1) @@ (i2 :> p1), FALSE, {r1}, 0),
   Scenario((i1 :> p1) @@ (k1 :> p1), TRUE, {r1, r2}, 0),
   Scenario((k1 :> p1) @@ (n1 :> p1), TRUE, {}, 0),
   Scenario(<<>>, TRUE, {}, 2)}

Chain(datas, kind) == [i \in DOMAIN datas |-> [id |-> i, kind |-> kind[i], data |-> datas[i]]]

MCStreamScenarios ==
  {[top |-> t[1], leaves |-> Chain(<<d>>, <<k>>), dest |-> t[2]] :
     t \in ({"plain"} \X {"string", "asio", "file"}) \cup {<<"pushback", "string">>},
     d \in {<<>>, <<1, 1, 2, 1, 2>>}, k \in {"string", "asio", "file"}}
  \cup {[top |-> "concat", leaves |-> Chain(<<<<1>>, <<>>, <<2, 1>>>>, <<k, "null", l>>), dest |-> "asio"] :
          k \in {"string", "asio", "file"}, l \in {"string", "asio"}}
  \cup {[top |-> "concat", leaves |-> <<>>, dest |-> "string"]}

Wanted(kind, n, data) == [kind |-> kind, n |-> n, data |-> data]
MCOperations ==
  {Wanted(k, n, <<>>) : k \in {"read", "readExactly"}, n \in {0, 1, 3, 6}}
  \cup {Wanted(k, 0, <<>>) : k \in {"readUntil", "readAll", "copy"}}
  \cup {Wanted(k, 0, d) : k \in {"write", "writeExactly"}, d \in {<<>>, <<1, 2, 1>>}}

MCMarker == <<1, 2>>
MCUnreads == {<<1, 2>>, <<2, 1, 1>>}

-----------------------------------------------------------------------------
\* What a behaviour is not about has nobody to do anything.
NoThreads == InitWith(Scenario(<<>>, TRUE, {}, 0))
NoStreams == Streams!StreamInit([top |-> "plain", leaves |-> <<>>, dest |-> "string"])

FlowInit ==
  /\ Ring!FifoInit
  /\ \/ flow = "sequences" /\ Init /\ NoStreams
     \/ flow = "streams" /\ Streams!Init /\ NoThreads
     \/ flow = "ring" /\ NoThreads /\ NoStreams

FlowNext ==
  /\ UNCHANGED flow
  /\ \/ flow = "sequences" /\ Next /\ UNCHANGED <<streamVars, ringVars>>
     \/ flow = "streams" /\ Streams!Next /\ UNCHANGED <<vars, ringVars>>
     \/ flow = "ring" /\ Ring!FifoNext /\ UNCHANGED <<vars, streamVars>>

FlowSpec ==
  /\ FlowInit /\ [][FlowNext]_flowVars
  /\ Fairness /\ WF_streamVars(flow = "streams" /\ Streams!Devices)

AnswersAreExact == Streams!AnswersAreExact
OperationEnds == Streams!OperationEnds
RingIsAQueue == Ring!RingIsAQueue
=============================================================================
