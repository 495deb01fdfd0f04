----------------------------- MODULE Connection -----------------------------
(***************************************************************************)
(* pine::connection (shared/include/connection.h,                          *)
(* shared/src/connection.cpp): messages sent and received over a stream    *)
(* socket, in one direction.  send_raw_message makes one call of send;     *)
(* receive_raw_message calls recv until it returns less than a chunk.      *)
(* close may be called at either end at any time, by any thread.           *)
(*                                                                         *)
(* The actions are the bodies of the coroutines; what a co_await makes of  *)
(* their results is the subject of AsyncOperation.                         *)
(***************************************************************************)
EXTENDS Naturals, Sequences

CONSTANTS Chunk,    \* chunk_size, the size of the buffer
          Ints,     \* how many values an int has
          Lengths,  \* the lengths of the messages passed to send_raw_message
          MaxSends  \* a bound: how often send_raw_message is called

ASSUME ConnectionAssumption ==
  /\ Chunk \in Nat \ {0}
  /\ Ints \in Nat \ {0}
  /\ Lengths \subseteq Nat
  /\ MaxSends \in Nat

VARIABLES
  socket,     \* of each end: "open", or "closed" by close
  line,       \* "up", or "reset" once the network or a peer has dropped it
  wire,       \* the bytes taken by the sender's send and not yet by recv
  receiving,  \* whether the receiver is in receive_raw_message
  message,    \* its local variable
  outcome,    \* how the last receive ended: "none", "message", "end", "error"
  sends,      \* history: the calls of send_raw_message
  stream,     \* history: every byte that a send has taken, in order
  received,   \* history: the messages returned by receive_raw_message
  delivered   \* history: their bytes, one message after the other

vars == <<socket, line, wire, receiving, message, outcome, sends, stream, received,
          delivered>>

sender == <<sends, stream>>
receiver == <<receiving, message, outcome, received, delivered>>

Ends == {"sender", "receiver"}

\* A byte is the call that sends it and its place in that call's message.
Byte(i, j) == [call |-> i, place |-> j]
Bytes == [call : Nat, place : Nat]

\* A call of send_raw_message: what it was given, what send took, its result.
Results == {"success", "message_size", "error"}
Calls == {c \in [length : Nat, taken : Nat, result : Results] : c.taken <= c.length}

Init ==
  /\ socket = [e \in Ends |-> "open"]
  /\ line = "up"
  /\ wire = <<>>
  /\ receiving = FALSE
  /\ message = <<>>
  /\ outcome = "none"
  /\ sends = <<>>
  /\ stream = <<>>
  /\ received = <<>>
  /\ delivered = <<>>

-----------------------------------------------------------------------------
(* send_raw_message, for a message of a given length.                      *)

Record(length, taken, result) ==
  /\ Len(sends) < MaxSends
  /\ sends' = Append(sends, [length |-> length, taken |-> taken, result |-> result])

SendNothing ==
  /\ 0 \in Lengths
  /\ Record(0, 0, "success")
  /\ UNCHANGED <<socket, line, wire, stream, receiver>>

\* static_cast<int>(raw_message.size()): the lower bits, and the upper half of
\* them stands for negative numbers.
Asked(length) == length % Ints
Negative(length) == 2 * Asked(length) >= Ints

\* Mutant: the size is compared as the int that was passed to send.
Send_ComparesInts(length, taken) ==
  /\ socket["sender"] = "open"
  /\ length > 0 /\ ~Negative(length)
  /\ taken <= Asked(length) /\ (taken = 0 => Asked(length) = 0)
  /\ Record(length, taken, IF taken = Asked(length) THEN "success" ELSE "message_size")
  /\ LET bytes == [j \in 1..taken |-> Byte(Len(sends) + 1, j)] IN
       /\ stream' = stream \o bytes
       /\ wire' = IF line = "up" THEN wire \o bytes ELSE wire
  /\ UNCHANGED <<socket, line, receiver>>

\* send takes all it was asked to or a part; the rest is not sent again.
Send(length, taken) ==
  /\ socket["sender"] = "open"
  /\ length > 0 /\ ~Negative(length)
  /\ taken <= Asked(length) /\ (taken = 0 => Asked(length) = 0)
  /\ Record(length, taken, IF taken = length THEN "success" ELSE "message_size")
  /\ LET bytes == [j \in 1..taken |-> Byte(Len(sends) + 1, j)] IN
       /\ stream' = stream \o bytes
       /\ wire' = IF line = "up" THEN wire \o bytes ELSE wire
  /\ UNCHANGED <<socket, line, receiver>>

\* Mutant: SOCKET_ERROR is not told from a size.
SendFails_NotChecked(length) ==
  /\ length > 0
  /\ \/ socket["sender"] = "closed" \/ socket["receiver"] = "closed" \/ line = "reset"
     \/ Negative(length)
  /\ Record(length, length + 1, "message_size")
  /\ UNCHANGED <<socket, line, wire, stream, receiver>>

\* send refuses: an end is closed, the line is gone, or the size is negative.
SendFails(length) ==
  /\ length > 0
  /\ \/ socket["sender"] = "closed" \/ socket["receiver"] = "closed" \/ line = "reset"
     \/ Negative(length)
  /\ Record(length, 0, "error")
  /\ UNCHANGED <<socket, line, wire, stream, receiver>>

-----------------------------------------------------------------------------
(* receive_raw_message, called in a loop that ends at the first failure.   *)

Receive ==
  /\ ~receiving
  /\ outcome \in {"none", "message"}
  /\ receiving' = TRUE
  /\ message' = <<>>
  /\ UNCHANGED <<socket, line, wire, outcome, sender, received, delivered>>

\* The first n bytes of the wire, which recv puts into the buffer.
Buffer(n) == SubSeq(wire, 1, n)

RecvReturns(n) ==
  /\ receiving /\ socket["receiver"] = "open" /\ line = "up"
  /\ n \in 1..Chunk /\ n <= Len(wire)
  /\ wire' = SubSeq(wire, n + 1, Len(wire))
  /\ UNCHANGED <<socket, line, sender>>

\* receive_raw_message returns what it has collected, or calls recv again.
Deliver(whole) ==
  /\ receiving' = FALSE
  /\ outcome' = "message"
  /\ received' = Append(received, whole)
  /\ delivered' = delivered \o whole

Continue == UNCHANGED <<receiving, outcome, received, delivered>>

\* Mutant: the loop goes on after a short read.
Recv_NoBreak(n) == RecvReturns(n) /\ message' = message \o Buffer(n) /\ Continue

\* Mutant: the test of a short read is <= instead of <.
Recv_FullEnds(n) ==
  RecvReturns(n) /\ message' = message \o Buffer(n) /\ Deliver(message \o Buffer(n))

\* Mutant: assign instead of append.
Recv_Assigns(n) ==
  /\ RecvReturns(n)
  /\ message' = Buffer(n)
  /\ IF n < Chunk THEN Deliver(Buffer(n)) ELSE Continue

\* recv returns n bytes: they are appended, and a short read ends the message.
Recv(n) ==
  /\ RecvReturns(n)
  /\ message' = message \o Buffer(n)
  /\ IF n < Chunk THEN Deliver(message \o Buffer(n)) ELSE Continue

\* A receive that fails returns nothing of what it has collected.
Fail(how) ==
  /\ receiving' = FALSE
  /\ outcome' = how
  /\ UNCHANGED <<socket, line, wire, sender, message, received, delivered>>

\* recv returns 0: the sender has closed and everything has been read.
RecvEnds ==
  /\ receiving /\ socket["receiver"] = "open" /\ line = "up"
  /\ wire = <<>> /\ socket["sender"] = "closed"
  /\ Fail("end")

\* recv returns SOCKET_ERROR: the socket was closed here or the line is gone.
RecvFails ==
  /\ receiving
  /\ socket["receiver"] = "closed" \/ line = "reset"
  /\ Fail("error")

-----------------------------------------------------------------------------
(* close, and the network.                                                 *)

Close(e) ==
  /\ socket' = [socket EXCEPT ![e] = "closed"]
  /\ UNCHANGED <<line, wire, sender, receiver>>

\* The connection is dropped, with what it held.
Reset ==
  /\ line = "up"
  /\ line' = "reset"
  /\ wire' = <<>>
  /\ UNCHANGED <<socket, sender, receiver>>

SendStep ==
  \/ SendNothing
  \/ \E length \in Lengths :
       SendFails(length) \/ \E taken \in 0..length : Send(length, taken)

RecvStep == (\E n \in 1..Chunk : Recv(n)) \/ RecvEnds \/ RecvFails

Next == SendStep \/ Receive \/ RecvStep \/ Reset \/ \E e \in Ends : Close(e)

\* recv returns when it can; nobody has to send, to receive or to close.
Spec == Init /\ [][Next]_vars /\ WF_vars(RecvStep)
-----------------------------------------------------------------------------
(* Properties.                                                             *)

\* The values of the variables; a send takes no more than it was given.
TypeOK ==
  /\ socket \in [Ends -> {"open", "closed"}]
  /\ line \in {"up", "reset"}
  /\ receiving \in BOOLEAN
  /\ outcome \in {"none", "message", "end", "error"}
  /\ {wire, message, stream, delivered} \subseteq Seq(Bytes)
  /\ received \in Seq(Seq(Bytes))
  /\ sends \in Seq(Calls)

\* Whatever the calls of recv return, the messages received, one after the other,
\* and the part in hand are the beginning of what the sends have taken, and while
\* the line is up the rest is on the wire: receive_raw_message loses, repeats and
\* reorders nothing inside the stream.
StreamInOrder ==
  LET taken == delivered \o message IN
    receiving =>
      /\ Len(taken) <= Len(stream)
      /\ taken = SubSeq(stream, 1, Len(taken))
      /\ line = "up" => taken \o wire = stream

WholeChunks(bytes) == \E q \in 0..Len(bytes) : Len(bytes) = q * Chunk

\* receive_raw_message never returns a message of a whole number of chunks: its last
\* recv was short.  A message of such a length is only ever received as part of a
\* longer one or in pieces.
NoWholeChunks == \A i \in 1..Len(received) : ~WholeChunks(received[i])

\* When the sender closes and the line holds, all it sent has been returned by
\* receive_raw_message, but for a tail of whole chunks: that tail, though all of it
\* has been received, is lost, and its receive reports a reset.
EndLosesWholeChunks ==
  outcome = "end" => stream = delivered \o message /\ WholeChunks(message)

\* A send that reports success has been read in full when the sender's orderly close
\* is, from its first byte to its last: message_size is told of every other that send
\* did not refuse, also when the size does not fit the int that send is given.
SuccessIsRead ==
  outcome = "end" =>
    \A i \in 1..Len(sends) :
      sends[i].result = "success" =>
        SelectSeq(delivered \o message, LAMBDA b : b.call = i)
          = [j \in 1..sends[i].length |-> Byte(i, j)]

\* The receiver waits, with whole chunks in hand, for a peer that is silent.
Stalled ==
  /\ receiving /\ line = "up" /\ wire = <<>> /\ \A e \in Ends : socket[e] = "open"
  /\ WholeChunks(message)

\* A receive that never returns has read all there is, a whole number of chunks, and
\* waits for a sender that stays connected and silent: the loop of
\* receive_raw_message goes on after a full buffer only.
ReceiveStallsOnlyAtChunk == <>[]receiving => <>[]Stalled
=============================================================================
