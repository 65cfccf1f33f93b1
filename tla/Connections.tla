----------------------------- MODULE Connections -----------------------------
(***************************************************************************)
(* The sockets of tcp.cpp and local-socket.cpp: a ConnectOp deletes itself *)
(* when it has answered, or when the context it was started in closes      *)
(* while asio still works for it; a server's accept is answered by asio.   *)
(* All are in the context "net".                                           *)
(***************************************************************************)
EXTENDS WorkContext, Integers

CONSTANTS
  TcpConnects, LocalConnects,   \* calls of TcpSocket::connect, LocalSocket::connect
  Accepts                       \* calls of accept

Connects == TcpConnects \cup LocalConnects

VARIABLES
  connectOp,   \* per call, the ConnectOp: "none", "resolving", "connecting", "deleted"
  connected,   \* its future: "none", "pending", "socket", "error", "cancelled", "thrown"
  networking,       \* what asio is to answer: [connect, step] and [accept]
  acceptor,    \* of the server: "open", "closed", "destroyed" with it
  accepted     \* per accept, its future

netVars == <<connectOp, connected, networking, acceptor, accepted>>

NetInit(used) ==
  /\ connectOp = [c \in Connects |-> "none"] /\ connected = [c \in Connects |-> "none"]
  /\ networking = {} /\ acceptor = (IF used THEN "open" ELSE "destroyed")
  /\ accepted = [a \in Accepts |-> "none"]

\* connect makes the operation, unless the context is closed: then it throws.
Connect(c) ==
  LET first == IF c \in TcpConnects THEN "resolving" ELSE "connecting" IN
  /\ connected[c] = "none"
  /\ IF "net" \in open
     THEN /\ connectOp' = [connectOp EXCEPT ![c] = first]
          /\ connected' = [connected EXCEPT ![c] = "pending"]
          /\ networking' = networking \cup {[connect |-> c, step |-> first]}
     ELSE connected' = [connected EXCEPT ![c] = "thrown"] /\ UNCHANGED <<connectOp, networking>>
  /\ UNCHANGED <<contextVars, acceptor, accepted>>

\* Mutant: the answer is not sent through the context.
AsioAnswersUnguarded(r) ==
  /\ r \in networking /\ networking' = networking \ {r}
  /\ \E ok \in BOOLEAN :
       works' = Append(works, [ctx |-> "net", work |-> [connect |-> r.connect, step |-> r.step, ok |-> ok]])
  /\ UNCHANGED <<open, connectOp, connected, acceptor, accepted>>

\* asio has a result, or was cancelled; the closure holds the raw operation.
AsioAnswers(r) ==
  /\ r \in networking /\ networking' = networking \ {r}
  /\ \E ok \in BOOLEAN :
       works' = Exec(works, "net", [connect |-> r.connect, step |-> r.step, ok |-> ok])
  /\ UNCHANGED <<open, connectOp, connected, acceptor, accepted>>

AsioAnswered(c, step, ok) == Runs("net", [connect |-> c, step |-> step, ok |-> ok]) /\ works' = Tail(works)

\* The operation resolves its promise and deletes itself.
AnswerAndDelete(c, result) ==
  /\ connected' = [connected EXCEPT ![c] = result]
  /\ connectOp' = [connectOp EXCEPT ![c] = "deleted"]

ResolveHandler(c) ==
  \/ /\ AsioAnswered(c, "resolving", TRUE)
     /\ connectOp' = [connectOp EXCEPT ![c] = "connecting"]
     /\ networking' = networking \cup {[connect |-> c, step |-> "connecting"]}
     /\ UNCHANGED <<open, connected, acceptor, accepted>>
  \/ /\ AsioAnswered(c, "resolving", FALSE) /\ AnswerAndDelete(c, "error")
     /\ UNCHANGED <<open, networking, acceptor, accepted>>

ConnectHandler(c) ==
  /\ \E ok \in BOOLEAN : /\ AsioAnswered(c, "connecting", ok)
                         /\ AnswerAndDelete(c, IF ok THEN "socket" ELSE "error")
  /\ UNCHANGED <<open, networking, acceptor, accepted>>

\* accept makes the socket in the context, which throws when that is closed.
Accept(a) ==
  /\ acceptor # "destroyed" /\ accepted[a] = "none"
  /\ IF "net" \in open
     THEN accepted' = [accepted EXCEPT ![a] = "pending"] /\ networking' = networking \cup {[accept |-> a]}
     ELSE accepted' = [accepted EXCEPT ![a] = "thrown"] /\ UNCHANGED networking
  /\ UNCHANGED <<contextVars, connectOp, connected, acceptor>>

\* asio resolves the promise itself: with an error at any time, and nothing else
\* once the acceptor is closed.
AcceptHandler(a) ==
  /\ [accept |-> a] \in networking /\ networking' = networking \ {[accept |-> a]}
  /\ \E result \in IF acceptor = "open" THEN {"socket", "error"} ELSE {"error"} :
       accepted' = [accepted EXCEPT ![a] = result]
  /\ UNCHANGED <<contextVars, connectOp, connected, acceptor>>

AliveOps == {c \in Connects : connectOp[c] \in {"resolving", "connecting"}}

\* aoContextClose of the server.
CloseAcceptor == acceptor' = IF acceptor = "open" THEN "closed" ELSE acceptor

\* Mutant: the server's close handler leaves the acceptor open.
CloseNetOnly ==
  /\ "net" \in open /\ open' = open \ {"net"} /\ works' = Without(works, {"net"})
  /\ connected' = [c \in Connects |-> IF c \in AliveOps THEN "cancelled" ELSE connected[c]]
  /\ connectOp' = [c \in Connects |-> IF c \in AliveOps THEN "deleted" ELSE connectOp[c]]
  /\ UNCHANGED <<networking, acceptor, accepted>>

\* The context closes: aoContextClose of the operations and of the server.
CloseNet ==
  /\ "net" \in open /\ open' = open \ {"net"} /\ works' = Without(works, {"net"})
  /\ connected' = [c \in Connects |-> IF c \in AliveOps THEN "cancelled" ELSE connected[c]]
  /\ connectOp' = [c \in Connects |-> IF c \in AliveOps THEN "deleted" ELSE connectOp[c]]
  /\ CloseAcceptor
  /\ UNCHANGED <<networking, accepted>>

\* ~TcpServerImpl takes its handler away; the acceptor closes with it.
DestroyServer ==
  /\ acceptor # "destroyed" /\ acceptor' = "destroyed"
  /\ UNCHANGED <<contextVars, connectOp, connected, networking, accepted>>

AsioStep ==
  \/ \E c \in Connects, step \in {"resolving", "connecting"} :
       AsioAnswers([connect |-> c, step |-> step])
  \/ \E c \in Connects : ResolveHandler(c) \/ ConnectHandler(c)
NetNext ==
  \/ \E c \in Connects : Connect(c)
  \/ \E a \in Accepts : Accept(a) \/ AcceptHandler(a)
  \/ AsioStep \/ CloseNet \/ DestroyServer

NetSpec ==
  /\ open = {"net"} /\ works = <<>> /\ NetInit(TRUE)
  /\ [][NetNext]_<<contextVars, netVars>>

\* asio comes to an end with names and connections, and aborts what waits on a
\* closed acceptor; that a client comes is nothing to count on.
NetFairness ==
  LET v == <<contextVars, netVars>> IN
  /\ WF_v(AsioStep)
  /\ \A a \in Accepts : WF_v(acceptor # "open" /\ AcceptHandler(a))

-----------------------------------------------------------------------------
\* The handlers of asio's answers find the operation they belong to: one that was
\* cancelled is deleted while asio is still working for it.
NoConnectUsedAfterDelete ==
  \A i \in DOMAIN works : "connect" \in DOMAIN works[i].work =>
    connectOp[works[i].work.connect] = works[i].work.step

\* Whoever waits for a connection is answered, at the latest when the context
\* closes; so is who waits for a client, when the server goes or the context does.
ConnectionsEnd ==
  /\ \A c \in Connects : connected[c] = "pending" ~> connected[c] # "pending"
  /\ \A a \in Accepts :
       accepted[a] = "pending" /\ (acceptor = "destroyed" \/ "net" \notin open) ~> accepted[a] # "pending"
=============================================================================
