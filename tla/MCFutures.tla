------------------------------ MODULE MCFutures ------------------------------
(***************************************************************************)
(* FutureState and FutureChain for TLC: every behaviour has a Promise and  *)
(* the thread that waits for its Future, or a chain.                       *)
(*                                                                         *)
(* Two waits before the get are enough for a waitFor that timed out, a     *)
(* later wait and a get to meet the promise in every order.  The chain is  *)
(* one then or fail, the executor's worker and a thread that closes the    *)
(* context.                                                                *)
(***************************************************************************)
EXTENDS FutureState

CONSTANT Owners

VARIABLES
  phase, inside, closer, op, owner, chainPc, holders, chainFlags, chainResult,
  handler, hasNext, alive, cancelled, closure, outcome,
  part   \* what the behaviour has; for good

Chain == INSTANCE FutureChain WITH
           pc <- chainPc, flags <- chainFlags, result <- chainResult

chainVars == <<phase, inside, closer, op, owner, chainPc, holders, chainFlags,
               chainResult, handler, hasNext, alive, cancelled, closure, outcome>>
futureVars == <<vars, chainVars, part>>

FuturesInit ==
  /\ Init /\ Chain!Init
  /\ part \in {"handshake", "chain"}
  /\ part = "handshake" => op = "then" /\ owner = CHOOSE o \in Owners : TRUE

FuturesNext ==
  /\ UNCHANGED part
  /\ \/ part = "handshake" /\ Next /\ UNCHANGED chainVars
     \/ part = "chain" /\ Chain!Next /\ UNCHANGED vars

\* The Fairness of FutureState and that of FutureChain, each for its part.
HandshakeFairness ==
  /\ WF_vars(part = "handshake" /\ \E kind \in Kinds : Satisfy(kind))
  /\ \A a \in Actors : WF_vars(part = "handshake" /\ SetFlag(a))
  /\ WF_vars(part = "handshake" /\ WakeUp) /\ WF_vars(part = "handshake" /\ Read)

InChain == part = "chain"
ChainFairness ==
  /\ WF_chainVars(InChain /\ \E kind \in {"Value", "Exception"} : Chain!SetResult(kind))
  /\ WF_chainVars(InChain /\ Chain!ThenStep) /\ WF_chainVars(InChain /\ Chain!WorkerStep)
  /\ WF_chainVars(InChain /\ Chain!CloserStep)
  /\ \A t \in Chain!Threads : WF_chainVars(InChain /\ Chain!ThreadStep(t))

FuturesSpec == FuturesInit /\ [][FuturesNext]_futureVars /\ HandshakeFairness /\ ChainFairness

CallbackServesOnce == Chain!CallbackServesOnce
ChainResolvesUnlessDropped == Chain!ChainResolvesUnlessDropped
=============================================================================
