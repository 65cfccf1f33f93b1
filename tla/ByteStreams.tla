----------------------------- MODULE ByteStreams -----------------------------
(***************************************************************************)
(* The operations of io-device.cpp (read, readExactly, readUntil, readAll, *)
(* write, writeExactly, copy) on the devices they are used with: string    *)
(* and null devices, files, devices of asio, and the readers that wrap     *)
(* others: PushbackReader and ConcatReader.  A device answers in a context *)
(* of its own.  The handler that an operation leaves with a device holds   *)
(* the operation: when a context that closes drops it, the operation goes  *)
(* and cancels its promise.                                                *)
(***************************************************************************)
EXTENDS WorkContext, SequencesExt, Integers

CONSTANTS
  Scenarios,     \* the readers and writers that are there: see StreamInit
  Operations,    \* what is called: [kind, n, data]
  Marker,        \* what readUntil looks for
  PortionSize,   \* bound: the 4096 bytes that readAll and copy ask for
  Unreads,       \* byte sequences that are put back
  MaxCalls       \* bound: operations started, one after the other

VARIABLES
  top,       \* how the reader is wrapped: "plain", "pushback", "concat"; for good
  leaves,    \* the readers below: [id, kind, data], data being what is left
  unreadBuf, \* m_unreadBuf of the PushbackReader
  dest,      \* the writer: [kind, content]
  op,        \* the operation: see NoOp
  promise,   \* of the operation: "none", "pending", "value", "error", "cancelled"
  request,   \* what asio has been asked: NoRequest, or a read or write
  stream,    \* the bytes that were there for the operation to read when it began
  calls      \* how much of MaxCalls is used

streamVars == <<top, leaves, unreadBuf, dest, op, promise, request, stream, calls>>
vars == <<contextVars, streamVars>>

NoRequest == [kind |-> "none"]
\* buf: the bytes read, or being copied; rest: what of them, or of the data, is to
\* be written; count: the bytes written.
NoOp == [kind |-> "none", n |-> 0, buf |-> <<>>, rest |-> <<>>, count |-> 0, data |-> <<>>]
ReadKinds == {"read", "readExactly", "readUntil", "readAll"}
WriteKinds == {"write", "writeExactly"}

\* The contexts that the devices make in that of their owner, and close when they
\* are destroyed; a file has one of its own, in which its work is done.
Wrap == <<"wrap", 0>>
Dest == <<"dest", 0>>
Leaf(i) == <<"leaf", i>>
FileIO(i) == <<"io", i>>
Prefix(s, k) == SubSeq(s, 1, k)
After(s, k) == SubSeq(s, k + 1, Len(s))
Least(a, b) == IF a < b THEN a ELSE b

StreamInit(s) ==
  /\ top = s.top /\ leaves = s.leaves
  /\ dest = [kind |-> s.dest, content |-> <<>>]
  /\ unreadBuf = <<>> /\ op = NoOp /\ promise = "none" /\ request = NoRequest
  /\ stream = FlattenSeq([i \in DOMAIN s.leaves |-> s.leaves[i].data])
  /\ calls = 0
  /\ open = {Wrap, Dest} \cup UNION {{Leaf(l.id), FileIO(l.id)} : l \in ToSet(s.leaves)}
  /\ works = <<>>
Init == \E s \in Scenarios : StreamInit(s)

\* An operation whose handler is nowhere any more is gone: ~ReadOp, ~WriteOp and
\* ~CopyOp cancel the promise.
Settle(p) ==
  promise' = IF p = "pending" /\ works' = <<>> /\ request' = NoRequest THEN "cancelled" ELSE p

-----------------------------------------------------------------------------
\* Reading from a device: asio is asked, string, null device and file work in a
\* context.
ReadLeaf(q, l, n) ==
  IF l.kind = "asio"
  THEN request' = [kind |-> "read", n |-> n] /\ works' = q
  ELSE /\ works' = Exec(q, IF l.kind = "file" THEN FileIO(l.id) ELSE Leaf(l.id),
                        [do |-> "serve", n |-> n])
       /\ UNCHANGED request

\* PushbackReader::startRead with bytes put back: they are taken at once, the last
\* of the buffer first, and the handler is called in m_aoCtx.
ReadUnread(q, n) ==
  LET k == Least(n, Len(unreadBuf))
      kept == Len(unreadBuf) - k IN
  /\ works' = Exec(q, Wrap, [do |-> "deliver", bytes |-> Reverse(After(unreadBuf, kept)), err |-> FALSE])
  /\ unreadBuf' = Prefix(unreadBuf, kept) /\ UNCHANGED request

\* The reader that the operation knows is asked for n bytes.
ReadTop(q, n) ==
  CASE top = "pushback" /\ unreadBuf # <<>> -> ReadUnread(q, n)
    [] top = "concat" -> /\ works' = Exec(q, Wrap, [do |-> "front", n |-> n])
                         /\ UNCHANGED <<request, unreadBuf>>
    [] OTHER -> ReadLeaf(q, Head(leaves), n) /\ UNCHANGED unreadBuf

\* How many bytes the operation wants next, having buf.
Portion(o) ==
  CASE o.kind = "read" -> IF o.buf = <<>> THEN o.n ELSE 0
    [] o.kind = "readExactly" -> o.n - Len(o.buf)
    [] o.kind = "readUntil" -> IF IsSuffix(Marker, o.buf) THEN 0 ELSE 1
    [] OTHER -> PortionSize

\* ReadOp::readNextPortion and CopyOp::readNextPortion.
ReadNextPortion(q, o) ==
  /\ op' = o
  /\ IF Portion(o) = 0
     THEN promise' = "value" /\ works' = q /\ UNCHANGED <<request, unreadBuf>>
     ELSE ReadTop(q, Portion(o)) /\ Settle("pending")

\* The writer is asked: asio, or a device that works in its context.
WriteDest(q, n) ==
  IF dest.kind = "asio"
  THEN request' = [kind |-> "write", n |-> n] /\ works' = q
  ELSE works' = Exec(q, Dest, [do |-> "store", n |-> n]) /\ UNCHANGED request

\* It is to write the rest: WriteOp::writeNextPortion, CopyOp::writePortion.
WriteNextPortion(q, o) ==
  /\ op' = o /\ WriteDest(q, Len(o.rest))
  /\ UNCHANGED unreadBuf /\ Settle("pending")

\* The operation is over; its last handler goes.
Answer(q, r) ==
  promise' = r /\ works' = q /\ UNCHANGED <<op, request, unreadBuf>>

\* What is read is written next; k bytes of it are written.
WriteCopied(q, bytes) == WriteNextPortion(q, [op EXCEPT !.buf = @ \o bytes, !.rest = bytes])
Written(k) == [op EXCEPT !.rest = After(@, k), !.count = @ + k]

\* ReadOp::readPortionHandler, and the lambda that CopyOp reads with.
ReadHandler(q, bytes, err) ==
  \/ err /\ Answer(q, "error")
  \/ ~err /\ bytes = <<>> /\ Answer(q, "value")
  \/ /\ ~err /\ bytes # <<>>
     /\ IF op.kind = "copy" THEN WriteCopied(q, bytes)
        ELSE ReadNextPortion(q, [op EXCEPT !.buf = @ \o bytes])

\* WriteOp::writePortionHandler, which goes on only to write all.
WriteHandler(q, k, err) ==
  LET o == Written(k) IN
  \/ err /\ Answer(q, "error")
  \/ ~err /\ o.rest # <<>> /\ op.kind = "writeExactly" /\ WriteNextPortion(q, o)
  \/ /\ ~err /\ (o.rest = <<>> \/ op.kind = "write")
     /\ promise' = "value" /\ op' = o /\ works' = q /\ UNCHANGED <<request, unreadBuf>>

\* The lambda that CopyOp writes with.
CopyWritten(q, k, err) ==
  LET o == Written(k) IN
  \/ err /\ Answer(q, "error")
  \/ ~err /\ o.rest = <<>> /\ ReadNextPortion(q, o)
  \/ ~err /\ o.rest # <<>> /\ WriteNextPortion(q, o)

WriterAnswers(q, k, err) ==
  IF op.kind = "copy" THEN CopyWritten(q, k, err) ELSE WriteHandler(q, k, err)

\* The device answers in its context: a wrapped one to a callback that goes on in
\* the context of the wrapper.
LeafAnswers(q, bytes, err) ==
  IF top = "plain" THEN ReadHandler(q, bytes, err)
  ELSE /\ works' = Exec(q, Wrap, [do |-> "deliver", bytes |-> bytes, err |-> err])
       /\ UNCHANGED <<op, request, unreadBuf>> /\ Settle("pending")

-----------------------------------------------------------------------------
\* An operation begins; the one before it had been answered.
Start ==
  /\ calls < MaxCalls /\ calls' = calls + 1
  /\ promise \in {"none", "value"}
  /\ stream' = IF op.kind \in ReadKinds THEN After(stream, Len(op.buf)) ELSE stream
  /\ dest' = [dest EXCEPT !.content = <<>>]
  /\ \E o \in Operations :
       LET new == [kind |-> o.kind, n |-> o.n, data |-> o.data,
                   buf |-> <<>>, rest |-> o.data, count |-> 0] IN
       /\ calls > 0 => {o.kind, op.kind} \subseteq ReadKinds \cup {"none"}
       /\ IF o.kind \in WriteKinds
          THEN WriteNextPortion(works, new) ELSE ReadNextPortion(works, new)
  /\ UNCHANGED <<open, top, leaves>>

\* Mutant: the bytes are put back in the order in which they came.
UnreadInOrder(bytes) ==
  /\ top = "pushback" /\ promise = "value" /\ op.kind \in ReadKinds /\ calls < MaxCalls
  /\ unreadBuf' = unreadBuf \o bytes
  /\ stream' = bytes \o After(stream, Len(op.buf)) /\ op' = NoOp /\ promise' = "none"
  /\ UNCHANGED <<contextVars, top, leaves, dest, request, calls>>

\* PushbackReader::unread puts bytes in front of what is to come.
Unread(bytes) ==
  /\ top = "pushback" /\ promise = "value" /\ op.kind \in ReadKinds /\ calls < MaxCalls
  /\ unreadBuf' = unreadBuf \o Reverse(bytes)
  /\ stream' = bytes \o After(stream, Len(op.buf)) /\ op' = NoOp /\ promise' = "none"
  /\ UNCHANGED <<contextVars, top, leaves, dest, request, calls>>

Doing(what) == works # <<>> /\ Head(works).work.do = what
Work == Head(works).work

\* What a reader gives when n bytes are asked for: asio any part of it, a string
\* or a file all it has.
Gives(l, n) ==
  LET most == Least(n, Len(l.data)) IN
  IF l.kind = "asio" THEN IF most = 0 THEN {0} ELSE 1..most ELSE {most}
FrontLeft(k) == [leaves EXCEPT ![1].data = After(@, k)]

\* The work of a StringReader, NullDevice or FileImpl.  A file answers by way of a
\* future in m_resultCtx, and its fread may fail.
Serve ==
  /\ Doing("serve")
  /\ LET l == Head(leaves) IN
     \E k \in Gives(l, Work.n) : \E err \in (IF l.kind = "file" THEN BOOLEAN ELSE {FALSE}) :
       /\ leaves' = FrontLeft(k)
       /\ IF l.kind = "file"
          THEN /\ works' = Exec(Tail(works), Leaf(l.id),
                                [do |-> "result", bytes |-> Prefix(l.data, k), err |-> err])
               /\ UNCHANGED <<op, request, unreadBuf>> /\ Settle("pending")
          ELSE LeafAnswers(Tail(works), Prefix(l.data, k), FALSE)
  /\ UNCHANGED <<open, top, dest, stream, calls>>

\* The answer that asio or a file sent to the context of its reader.
Result ==
  /\ Doing("result")
  /\ LeafAnswers(Tail(works), Work.bytes, Work.err)
  /\ UNCHANGED <<open, top, leaves, dest, stream, calls>>

\* ConcatReader::startRead: the first reader is asked; without one it is the end.
StartRead ==
  /\ Doing("front")
  /\ IF leaves = <<>> THEN ReadHandler(Tail(works), <<>>, FALSE)
     ELSE ReadLeaf(Tail(works), Head(leaves), Work.n) /\ Settle("pending") /\ UNCHANGED <<op, unreadBuf>>
  /\ UNCHANGED <<open, top, leaves, dest, stream, calls>>

\* Mutant: the reader that is at its end stays the first one.
DeliverAgain ==
  /\ Doing("deliver")
  /\ IF top = "concat" /\ ~Work.err /\ Work.bytes = <<>>
     THEN /\ works' = Exec(Tail(works), Wrap, [do |-> "front", n |-> Portion(op)])
          /\ UNCHANGED <<op, request, unreadBuf, promise>>
     ELSE ReadHandler(Tail(works), Work.bytes, Work.err)
  /\ UNCHANGED <<open, leaves, top, dest, stream, calls>>

\* The wrapper's callback: a ConcatReader whose first reader is at its end destroys
\* it and asks the next one, PushbackReader passes all on.
Deliver ==
  /\ Doing("deliver")
  /\ IF top = "concat" /\ ~Work.err /\ Work.bytes = <<>>
     THEN /\ leaves' = Tail(leaves)
          /\ open' = open \ {Leaf(Head(leaves).id), FileIO(Head(leaves).id)}
          /\ works' = Exec(Tail(works), Wrap, [do |-> "front", n |-> Portion(op)])
          /\ UNCHANGED <<op, request, unreadBuf, promise>>
     ELSE ReadHandler(Tail(works), Work.bytes, Work.err) /\ UNCHANGED <<open, leaves>>
  /\ UNCHANGED <<top, dest, stream, calls>>

\* StringWritter, NullDevice and FileImpl write all; FileImpl may fail.
Store ==
  /\ Doing("store")
  /\ \E err \in (IF dest.kind = "file" THEN BOOLEAN ELSE {FALSE}) :
       /\ dest' = [dest EXCEPT !.content = @ \o op.rest]
       /\ WriterAnswers(Tail(works), Len(op.rest), err)
  /\ UNCHANGED <<open, top, leaves, stream, calls>>

\* asio answers a read or a write: with an error when it failed or was cancelled;
\* an end of file is no error, but no bytes.  The closure goes to the context.
AsioReads ==
  /\ request.kind = "read" /\ request' = NoRequest
  /\ LET l == Head(leaves) IN
     \E k \in Gives(l, request.n) : \E err \in BOOLEAN :
       LET taken == IF err THEN 0 ELSE k IN
       /\ leaves' = FrontLeft(taken)
       /\ works' = Exec(works, Leaf(l.id), [do |-> "result", bytes |-> Prefix(l.data, taken), err |-> err])
  /\ Settle(promise)
  /\ UNCHANGED <<open, top, unreadBuf, dest, op, stream, calls>>

AsioWrites ==
  /\ request.kind = "write" /\ request' = NoRequest
  /\ \E k \in Least(1, request.n)..request.n : \E err \in BOOLEAN :
       LET sent == IF err THEN 0 ELSE k IN
       /\ dest' = [dest EXCEPT !.content = @ \o Prefix(op.rest, sent)]
       /\ works' = Exec(works, Dest, [do |-> "wrote", k |-> sent, err |-> err])
  /\ Settle(promise)
  /\ UNCHANGED <<open, top, leaves, unreadBuf, op, stream, calls>>

Wrote ==
  /\ Doing("wrote")
  /\ WriterAnswers(Tail(works), Work.k, Work.err)
  /\ UNCHANGED <<open, top, leaves, dest, stream, calls>>

\* A device is destroyed, or the context it was made in closes: its own closes.
CloseDevice(c) ==
  /\ c \in open /\ promise # "none"
  /\ open' = open \ {c} /\ works' = Without(works, {c})
  /\ UNCHANGED request /\ Settle(promise)
  /\ UNCHANGED <<top, leaves, unreadBuf, dest, op, stream, calls>>

Devices == Serve \/ Result \/ StartRead \/ Deliver \/ Store \/ Wrote \/ AsioReads \/ AsioWrites
Next ==
  \/ Start \/ Devices
  \/ \E bytes \in Unreads : Unread(bytes)
  \/ \E c \in open : CloseDevice(c)

\* asio answers, and the executor runs its works.
Spec == Init /\ [][Next]_vars /\ WF_vars(Devices)

-----------------------------------------------------------------------------
\* What an operation answers is what it promises: the next bytes of the stream,
\* through PushbackReader and ConcatReader, whatever portions the devices take
\* and give: some (read), n of them (readExactly), up to the first marker
\* (readUntil) or all (readAll), or else what there is up to the end of the
\* stream; all of the stream or data in the writer (copy, writeExactly), or some
\* of the data (write).
EndsAt(s, k) == IsSuffix(Marker, Prefix(s, k))
AnswersAreExact ==
  promise = "value" =>
    LET got == op.buf
        written == dest.content IN
    /\ op.kind \in ReadKinds \cup {"copy"} => IsPrefix(got, stream)
    /\ op.kind = "read" => Len(got) <= op.n /\ (got = <<>> => op.n = 0 \/ stream = <<>>)
    /\ op.kind = "readExactly" => Len(got) = Least(op.n, Len(stream))
    /\ op.kind = "readUntil" => /\ EndsAt(stream, Len(got)) \/ got = stream
                                /\ \A k \in 0..(Len(got) - 1) : ~EndsAt(stream, k)
    /\ op.kind = "readAll" => got = stream
    /\ op.kind = "copy" => written = stream /\ op.count = Len(stream)
    /\ op.kind \in WriteKinds =>
         /\ IsPrefix(written, op.data) /\ op.count = Len(written)
         /\ op.data # <<>> => written # <<>>
    /\ op.kind = "writeExactly" => written = op.data

\* Every operation is answered, if only because a context has dropped its handler:
\* reading to an end through devices of which several are at theirs included.
OperationEnds == promise = "pending" ~> promise # "pending"
=============================================================================
