-------------------------- MODULE ConnectionProofs --------------------------
(***************************************************************************)
(* Theorems about Connection, for every chunk size, every set of lengths   *)
(* and every number of sends.                                              *)
(***************************************************************************)
EXTENDS Connection, TLAPS

\* A full chunk leaves a whole number of chunks.
LEMMA FullChunk ==
  ASSUME NEW c \in Nat \ {0}, NEW q \in Nat
  PROVE  q * c + c = (q + 1) * c
  OBVIOUS

\* A shorter one does not.
LEMMA ShortChunk ==
  ASSUME NEW c \in Nat \ {0}, NEW q \in Nat, NEW p \in Nat, NEW n \in 1..(c - 1)
  PROVE  q * c + n # p * c
<1>1. CASE p <= q
  <2>1. p * c <= q * c
    BY <1>1
  <2>2. q * c \in Nat /\ p * c \in Nat
    OBVIOUS
  <2>3. QED
    BY <2>1, <2>2
<1>2. CASE p > q
  <2>1. (q + 1) * c <= p * c
    BY <1>2
  <2>2. q * c \in Nat /\ p * c \in Nat /\ q * c + c = (q + 1) * c
    OBVIOUS
  <2>3. QED
    BY <2>1, <2>2
<1>3. QED
  BY <1>1, <1>2

\* What recv takes and what it leaves.
LEMMA Cut ==
  ASSUME NEW w \in Seq(Bytes), NEW n \in 1..Len(w)
  PROVE  /\ SubSeq(w, 1, n) \in Seq(Bytes) /\ SubSeq(w, n + 1, Len(w)) \in Seq(Bytes)
         /\ Len(SubSeq(w, 1, n)) = n
         /\ SubSeq(w, 1, n) \o SubSeq(w, n + 1, Len(w)) = w
  OBVIOUS

\* What the receiver has read: the messages it returned and the part in hand.
Hand == IF receiving THEN message ELSE <<>>
Read == delivered \o Hand

\* Until a receive fails, the stream is what was read and a rest, which is on the
\* wire as long as the line is up.
OrderInv ==
  outcome \in {"none", "message"} =>
    \E rest \in Seq(Bytes) : stream = Read \o rest /\ (line = "up" => rest = wire)

\* A receive goes on after whole chunks only; it ends when the sender has closed.
ChunkInv ==
  /\ receiving => outcome \in {"none", "message"} /\ WholeChunks(message)
  /\ outcome = "end" => socket["sender"] = "closed"

ConnectionInv ==
  TypeOK /\ OrderInv /\ ChunkInv /\ NoWholeChunks /\ EndLosesWholeChunks

-----------------------------------------------------------------------------

\* Nothing has been sent at first.
LEMMA ConnectionInit == Init => ConnectionInv
<1> SUFFICES ASSUME Init
             PROVE  ConnectionInv
  OBVIOUS
<1>1. TypeOK
  <2>1. {wire, message, stream, delivered} \subseteq Seq(Bytes)
    BY DEF Init
  <2>2. received \in Seq(Seq(Bytes)) /\ sends \in Seq(Calls)
    BY DEF Init
  <2>3. QED
    BY <2>1, <2>2 DEF Init, TypeOK, Ends
<1>2. OrderInv
  <2>1. <<>> \in Seq(Bytes) /\ <<>> = (<<>> \o <<>>) \o <<>>
    OBVIOUS
  <2>2. stream = Read \o wire
    BY <2>1 DEF Init, Read, Hand
  <2>3. QED
    BY <2>1, <2>2 DEF Init, OrderInv
<1>3. ChunkInv /\ NoWholeChunks /\ EndLosesWholeChunks
  BY DEF Init, ChunkInv, NoWholeChunks, EndLosesWholeChunks
<1>4. QED
  BY <1>1, <1>2, <1>3 DEF ConnectionInv

\* Every action keeps the values of the variables in their sets.
LEMMA TypeStep == TypeOK /\ [Next]_vars => TypeOK'
<1> SUFFICES ASSUME TypeOK, [Next]_vars
             PROVE  TypeOK'
  OBVIOUS
<1> USE ConnectionAssumption DEF TypeOK, Ends, sender, receiver
<1>1. CASE SendNothing
  <2>1. [length |-> 0, taken |-> 0, result |-> "success"] \in Calls
    BY DEF Calls, Results
  <2>2. QED
    BY <1>1, <2>1 DEF SendNothing, Record
<1>2. ASSUME NEW length \in Lengths, NEW taken \in 0..length, Send(length, taken)
      PROVE  TypeOK'
  <2> DEFINE bytes == [j \in 1..taken |-> Byte(Len(sends) + 1, j)]
  <2>1. bytes \in Seq(Bytes)
    BY DEF Byte, Bytes
  <2> HIDE DEF bytes
  <2>2. /\ stream' = stream \o bytes
        /\ wire' = IF line = "up" THEN wire \o bytes ELSE wire
        /\ UNCHANGED <<socket, line, receiving, message, outcome, received, delivered>>
    BY <1>2 DEF Send, bytes
  <2>3. stream' \in Seq(Bytes) /\ wire' \in Seq(Bytes)
    BY <2>1, <2>2
  <2>4. sends' \in Seq(Calls)
    <3> DEFINE result == IF taken = length THEN "success" ELSE "message_size"
               call == [length |-> length, taken |-> taken, result |-> result]
    <3>1. call \in Calls
      BY DEF Calls, Results
    <3>2. sends' = Append(sends, call)
      BY <1>2 DEF Send, Record
    <3> HIDE DEF call
    <3>3. QED
      BY <3>1, <3>2
  <2>5. QED
    BY <2>2, <2>3, <2>4
<1>3. ASSUME NEW length \in Lengths, SendFails(length)
      PROVE  TypeOK'
  <2>1. [length |-> length, taken |-> 0, result |-> "error"] \in Calls
    BY DEF Calls, Results
  <2>2. QED
    BY <1>3, <2>1 DEF SendFails, Record
<1>4. CASE Receive
  BY <1>4 DEF Receive
<1>5. ASSUME NEW n \in 1..Chunk, Recv(n)
      PROVE  TypeOK'
  <2>1. /\ n <= Len(wire)
        /\ wire' = SubSeq(wire, n + 1, Len(wire))
        /\ message' = message \o Buffer(n)
        /\ UNCHANGED <<socket, line, sends, stream>>
    BY <1>5 DEF Recv, RecvReturns
  <2>2. Buffer(n) \in Seq(Bytes) /\ wire' \in Seq(Bytes)
    BY <2>1 DEF Buffer
  <2>3. message \o Buffer(n) \in Seq(Bytes)
    BY <2>2
  <2>4. CASE n < Chunk
    <3>1. /\ receiving' = FALSE /\ outcome' = "message"
          /\ received' = Append(received, message \o Buffer(n))
          /\ delivered' = delivered \o (message \o Buffer(n))
      BY <1>5, <2>4 DEF Recv, Deliver
    <3>2. delivered' \in Seq(Bytes) /\ received' \in Seq(Seq(Bytes))
      BY <3>1, <2>3
    <3>3. QED
      BY <2>1, <2>2, <2>3, <3>1, <3>2
  <2>5. CASE ~(n < Chunk)
    BY <1>5, <2>1, <2>2, <2>3, <2>5 DEF Recv, Continue
  <2>6. QED
    BY <2>4, <2>5
<1>6. CASE RecvEnds
  BY <1>6 DEF RecvEnds, Fail
<1>7. CASE RecvFails
  BY <1>7 DEF RecvFails, Fail
<1>8. ASSUME NEW e \in Ends, Close(e)
      PROVE  TypeOK'
  BY <1>8 DEF Close
<1>9. CASE Reset
  BY <1>9 DEF Reset
<1>10. CASE UNCHANGED vars
  BY <1>10 DEF vars
<1>11. QED
  BY <1>1, <1>2, <1>3, <1>4, <1>5, <1>6, <1>7, <1>8, <1>9, <1>10
  DEF Next, SendStep, RecvStep

\* What was read, and the rest, are the stream again after every step.
LEMMA OrderStep == TypeOK /\ ChunkInv /\ OrderInv /\ [Next]_vars => OrderInv'
<1> SUFFICES ASSUME TypeOK, ChunkInv, OrderInv, [Next]_vars,
                    outcome' \in {"none", "message"}
             PROVE  \E rest \in Seq(Bytes) : /\ stream' = Read' \o rest
                                             /\ line' = "up" => rest = wire'
  BY DEF OrderInv
<1> DEFINE Goal == \E rest \in Seq(Bytes) : /\ stream' = Read' \o rest
                                            /\ line' = "up" => rest = wire'
<1>t. /\ wire \in Seq(Bytes) /\ message \in Seq(Bytes) /\ delivered \in Seq(Bytes)
      /\ Hand \in Seq(Bytes) /\ Read \in Seq(Bytes)
  <2>1. wire \in Seq(Bytes) /\ message \in Seq(Bytes) /\ delivered \in Seq(Bytes)
    BY DEF TypeOK
  <2>2. Hand \in Seq(Bytes)
    BY <2>1 DEF Hand
  <2>3. QED
    BY <2>1, <2>2 DEF Read
<1>a. ASSUME UNCHANGED <<line, wire, stream, receiver>>
      PROVE  Goal
  BY <1>a DEF OrderInv, Read, Hand, receiver
<1>1. CASE SendNothing
  BY <1>1, <1>a DEF SendNothing
<1>2. ASSUME NEW length \in Lengths, NEW taken \in 0..length, Send(length, taken)
      PROVE  Goal
  <2> DEFINE bytes == [j \in 1..taken |-> Byte(Len(sends) + 1, j)]
  <2>1. bytes \in Seq(Bytes)
    BY ConnectionAssumption DEF Byte, Bytes, TypeOK
  <2> HIDE DEF bytes
  <2>2. /\ stream' = stream \o bytes
        /\ wire' = IF line = "up" THEN wire \o bytes ELSE wire
        /\ UNCHANGED <<line, receiving, message, outcome, delivered>>
    BY <1>2 DEF Send, bytes, receiver
  <2>3. PICK rest \in Seq(Bytes) : stream = Read \o rest /\ (line = "up" => rest = wire)
    BY <2>2 DEF OrderInv
  <2>4. stream' = Read \o (rest \o bytes)
    <3>1. Read \in Seq(Bytes)
      BY <1>t DEF Read, Hand
    <3>2. \A r \in Seq(Bytes) : (r \o rest) \o bytes = r \o (rest \o bytes)
      BY <2>1
    <3>3. stream' = (Read \o rest) \o bytes
      BY <2>2, <2>3
    <3>4. QED
      BY <3>1, <3>2, <3>3
  <2>5. Read' = Read
    BY <2>2 DEF Read, Hand
  <2>6. rest \o bytes \in Seq(Bytes) /\ (line' = "up" => rest \o bytes = wire')
    BY <2>1, <2>2, <2>3
  <2>7. QED
    BY <2>4, <2>5, <2>6
<1>3. ASSUME NEW length \in Lengths, SendFails(length)
      PROVE  Goal
  BY <1>3, <1>a DEF SendFails
<1>4. CASE Receive
  <2>1. /\ ~receiving /\ receiving' /\ message' = <<>>
        /\ UNCHANGED <<line, wire, stream, delivered, outcome>>
    BY <1>4 DEF Receive, sender
  <2>2. Read' = Read
    BY <2>1 DEF Read, Hand
  <2>3. QED
    BY <2>1, <2>2 DEF OrderInv
<1>5. ASSUME NEW n \in 1..Chunk, Recv(n)
      PROVE  Goal
  <2>1. /\ receiving /\ line = "up" /\ n \in 1..Len(wire)
        /\ wire' = SubSeq(wire, n + 1, Len(wire))
        /\ message' = message \o SubSeq(wire, 1, n)
        /\ UNCHANGED <<line, stream>>
    BY <1>5, <1>t, ConnectionAssumption DEF Recv, RecvReturns, Buffer, sender
  <2>2. stream = (delivered \o message) \o wire
    BY <2>1 DEF OrderInv, ChunkInv, Read, Hand
  <2>3. /\ wire' \in Seq(Bytes) /\ SubSeq(wire, 1, n) \in Seq(Bytes)
        /\ stream = (delivered \o (message \o SubSeq(wire, 1, n))) \o wire'
    <3> DEFINE u == SubSeq(wire, 1, n)
               v == SubSeq(wire, n + 1, Len(wire))
    <3>1. u \in Seq(Bytes) /\ v \in Seq(Bytes) /\ u \o v = wire
      BY <1>t, <2>1, Cut
    <3>2. wire' = v
      BY <2>1
    <3> HIDE DEF u, v
    <3>3. (delivered \o (message \o u)) \o v = (delivered \o message) \o (u \o v)
      <4>1. /\ delivered \in Seq(Bytes) /\ message \in Seq(Bytes)
            /\ u \in Seq(Bytes) /\ v \in Seq(Bytes)
        BY <1>t, <3>1
      <4>2. QED
        BY <4>1
    <3>4. stream = (delivered \o (message \o u)) \o v
      BY <2>2, <3>1, <3>3
    <3>5. QED
      BY <3>1, <3>2, <3>4 DEF u
  <2>4. Read' = delivered \o (message \o SubSeq(wire, 1, n))
    <3>1. message \o SubSeq(wire, 1, n) \in Seq(Bytes)
      BY <1>t, <2>3
    <3>2. CASE n < Chunk
      <4>1. /\ receiving' = FALSE
            /\ delivered' = delivered \o (message \o SubSeq(wire, 1, n))
        BY <1>5, <3>2 DEF Recv, Deliver, Buffer
      <4>2. delivered' \in Seq(Bytes) /\ Read' = delivered' \o <<>>
        BY <1>t, <3>1, <4>1 DEF Read, Hand
      <4>3. QED
        BY <4>1, <4>2
    <3>3. CASE ~(n < Chunk)
      <4>1. UNCHANGED <<receiving, delivered>>
        BY <1>5, <3>3 DEF Recv, Continue
      <4>2. QED
        BY <2>1, <4>1 DEF Read, Hand
    <3>4. QED
      BY <3>2, <3>3
  <2>5. QED
    BY <2>1, <2>3, <2>4
<1>6. CASE RecvEnds
  BY <1>6 DEF RecvEnds, Fail
<1>7. CASE RecvFails
  BY <1>7 DEF RecvFails, Fail
<1>8. ASSUME NEW e \in Ends, Close(e)
      PROVE  Goal
  BY <1>8, <1>a DEF Close, sender
<1>9. CASE Reset
  <2>1. /\ line' = "reset" /\ UNCHANGED <<stream, receiver>>
    BY <1>9 DEF Reset, sender
  <2>2. Read' = Read /\ outcome' = outcome
    BY <2>1 DEF Read, Hand, receiver
  <2>3. QED
    BY <2>1, <2>2 DEF OrderInv
<1>10. CASE UNCHANGED vars
  BY <1>10, <1>a DEF vars, receiver
<1>11. QED
  BY <1>1, <1>2, <1>3, <1>4, <1>5, <1>6, <1>7, <1>8, <1>9, <1>10
  DEF Next, SendStep, RecvStep

\* A receive goes on only after a full buffer, and returns after a short one.
LEMMA ChunkStep ==
  TypeOK /\ ChunkInv /\ NoWholeChunks /\ [Next]_vars => ChunkInv' /\ NoWholeChunks'
<1> SUFFICES ASSUME TypeOK, ChunkInv, NoWholeChunks, [Next]_vars
             PROVE  ChunkInv' /\ NoWholeChunks'
  OBVIOUS
<1>t. message \in Seq(Bytes) /\ wire \in Seq(Bytes) /\ received \in Seq(Seq(Bytes))
  BY DEF TypeOK
<1>a. ASSUME UNCHANGED receiver,
             socket["sender"] = "closed" => socket'["sender"] = "closed"
      PROVE  ChunkInv' /\ NoWholeChunks'
  BY <1>a DEF ChunkInv, NoWholeChunks, WholeChunks, receiver
<1>1. CASE SendNothing
  BY <1>1, <1>a DEF SendNothing
<1>2. ASSUME NEW length \in Lengths, NEW taken \in 0..length, Send(length, taken)
      PROVE  ChunkInv' /\ NoWholeChunks'
  BY <1>2, <1>a DEF Send
<1>3. ASSUME NEW length \in Lengths, SendFails(length)
      PROVE  ChunkInv' /\ NoWholeChunks'
  BY <1>3, <1>a DEF SendFails
<1>4. CASE Receive
  <2>1. WholeChunks(message')
    BY <1>4, ConnectionAssumption DEF Receive, WholeChunks
  <2>2. QED
    BY <1>4, <2>1 DEF Receive, ChunkInv, NoWholeChunks, WholeChunks
<1>5. ASSUME NEW n \in 1..Chunk, Recv(n)
      PROVE  ChunkInv' /\ NoWholeChunks'
  <2>1. /\ receiving /\ n \in 1..Len(wire)
        /\ message' = message \o SubSeq(wire, 1, n)
        /\ UNCHANGED socket
    BY <1>5, <1>t, ConnectionAssumption DEF Recv, RecvReturns, Buffer
  <2>2. /\ message' \in Seq(Bytes)
        /\ Len(message') = Len(message) + n
    BY <1>t, <2>1, Cut
  <2>3. PICK q \in 0..Len(message) : Len(message) = q * Chunk
    BY <2>1 DEF ChunkInv, WholeChunks
  <2>4. CASE n < Chunk
    <3>1. /\ ~receiving' /\ outcome' = "message"
          /\ received' = Append(received, message')
      BY <1>5, <2>4, <2>1 DEF Recv, Deliver, Buffer
    <3>2. ~WholeChunks(message')
      <4>1. Chunk \in Nat \ {0} /\ q \in Nat /\ n \in 1..(Chunk - 1)
        BY <1>t, <2>3, <2>4, ConnectionAssumption
      <4>2. \A p \in Nat : q * Chunk + n # p * Chunk
        BY <4>1, ShortChunk
      <4>3. \A p \in Nat : Len(message') # p * Chunk
        BY <2>2, <2>3, <4>2
      <4>4. QED
        BY <2>2, <4>3 DEF WholeChunks
    <3>3. NoWholeChunks'
      <4>1. ASSUME NEW i \in 1..Len(received')
            PROVE  ~WholeChunks(received'[i])
        <5>1. Len(received') = Len(received) + 1
          BY <1>t, <3>1
        <5>2. CASE i = Len(received) + 1
          <6>1. received'[i] = message'
            BY <1>t, <2>2, <3>1, <5>2
          <6>2. QED
            BY <3>2, <6>1 DEF WholeChunks
        <5>3. CASE i \in 1..Len(received)
          <6>1. received'[i] = received[i]
            BY <1>t, <2>2, <3>1, <5>3
          <6>2. QED
            BY <5>3, <6>1 DEF NoWholeChunks, WholeChunks
        <5>4. QED
          BY <1>t, <5>1, <5>2, <5>3
      <4>2. QED
        BY <4>1 DEF NoWholeChunks, WholeChunks
    <3>4. QED
      BY <3>1, <3>3 DEF ChunkInv
  <2>5. CASE ~(n < Chunk)
    <3>1. UNCHANGED <<receiving, outcome, received>> /\ n = Chunk
      BY <1>5, <2>5, ConnectionAssumption DEF Recv, Continue
    <3>2. Len(message') = (q + 1) * Chunk
      BY <2>2, <2>3, <3>1, FullChunk, ConnectionAssumption
    <3>3. q + 1 \in 0..Len(message')
      <4>1. Len(message') = Len(message) + Chunk /\ Len(message) \in Nat
        BY <1>t, <2>2, <3>1
      <4>2. QED
        BY <4>1, ConnectionAssumption
    <3>4. WholeChunks(message')
      BY <3>2, <3>3 DEF WholeChunks
    <3>5. QED
      BY <2>1, <3>1, <3>4 DEF ChunkInv, NoWholeChunks, WholeChunks
  <2>6. QED
    BY <2>4, <2>5
<1>6. CASE RecvEnds
  BY <1>6 DEF RecvEnds, Fail, ChunkInv, NoWholeChunks, WholeChunks
<1>7. CASE RecvFails
  BY <1>7 DEF RecvFails, Fail, ChunkInv, NoWholeChunks, WholeChunks
<1>8. ASSUME NEW e \in Ends, Close(e)
      PROVE  ChunkInv' /\ NoWholeChunks'
  BY <1>8, <1>a DEF Close, TypeOK, Ends
<1>9. CASE Reset
  BY <1>9, <1>a DEF Reset
<1>10. CASE UNCHANGED vars
  BY <1>10, <1>a DEF vars, receiver
<1>11. QED
  BY <1>1, <1>2, <1>3, <1>4, <1>5, <1>6, <1>7, <1>8, <1>9, <1>10
  DEF Next, SendStep, RecvStep

\* An orderly end finds the wire empty and a part of whole chunks in hand; no byte
\* is sent after it.
LEMMA EndStep ==
  TypeOK /\ OrderInv /\ ChunkInv /\ EndLosesWholeChunks /\ [Next]_vars
    => EndLosesWholeChunks'
<1> SUFFICES ASSUME TypeOK, OrderInv, ChunkInv, EndLosesWholeChunks, [Next]_vars,
                    outcome' = "end"
             PROVE  stream' = delivered' \o message' /\ WholeChunks(message)'
  BY DEF EndLosesWholeChunks
<1> DEFINE Goal == stream' = delivered' \o message' /\ WholeChunks(message)'
<1>a. ASSUME UNCHANGED <<stream, receiver>>
      PROVE  Goal
  BY <1>a DEF EndLosesWholeChunks, WholeChunks, receiver
<1>1. CASE SendNothing
  BY <1>1, <1>a DEF SendNothing
<1>2. ASSUME NEW length \in Lengths, NEW taken \in 0..length, Send(length, taken)
      PROVE  Goal
  BY <1>2 DEF Send, receiver, ChunkInv
<1>3. ASSUME NEW length \in Lengths, SendFails(length)
      PROVE  Goal
  BY <1>3, <1>a DEF SendFails
<1>4. CASE Receive
  BY <1>4 DEF Receive
<1>5. ASSUME NEW n \in 1..Chunk, Recv(n)
      PROVE  Goal
  BY <1>5 DEF Recv, RecvReturns, Deliver, Continue, ChunkInv
<1>6. CASE RecvEnds
  <2>1. /\ receiving /\ line = "up" /\ wire = <<>>
        /\ UNCHANGED <<stream, message, delivered>>
    BY <1>6 DEF RecvEnds, Fail, sender
  <2>2. stream = (delivered \o message) \o <<>> /\ WholeChunks(message)
    BY <2>1 DEF OrderInv, ChunkInv, Read, Hand
  <2>3. delivered \in Seq(Bytes) /\ message \in Seq(Bytes)
    BY DEF TypeOK
  <2>4. stream = delivered \o message
    BY <2>2, <2>3
  <2>5. QED
    BY <2>1, <2>2, <2>4 DEF WholeChunks
<1>7. CASE RecvFails
  BY <1>7 DEF RecvFails, Fail
<1>8. ASSUME NEW e \in Ends, Close(e)
      PROVE  Goal
  BY <1>8, <1>a DEF Close, sender
<1>9. CASE Reset
  BY <1>9, <1>a DEF Reset, sender
<1>10. CASE UNCHANGED vars
  BY <1>10, <1>a DEF vars, receiver
<1>11. QED
  BY <1>1, <1>2, <1>3, <1>4, <1>5, <1>6, <1>7, <1>8, <1>9, <1>10
  DEF Next, SendStep, RecvStep

-----------------------------------------------------------------------------
(* The theorems.                                                           *)

\* The strengthened invariant holds in every state.
THEOREM ConnectionInvariant == Spec => []ConnectionInv
<1>1. ConnectionInv /\ [Next]_vars => ConnectionInv'
  BY TypeStep, OrderStep, ChunkStep, EndStep DEF ConnectionInv
<1>2. QED
  BY <1>1, ConnectionInit, PTL DEF Spec

\* Whatever recv and send return, and whenever an end closes or the line is lost,
\* the receiver has read a beginning of the stream of bytes the sends have taken.
THEOREM ConnectionStream == Spec => []StreamInOrder
<1>1. ConnectionInv => StreamInOrder
  <2> SUFFICES ASSUME ConnectionInv, receiving
               PROVE  LET taken == delivered \o message IN
                        /\ Len(taken) <= Len(stream)
                        /\ taken = SubSeq(stream, 1, Len(taken))
                        /\ line = "up" => taken \o wire = stream
    BY DEF StreamInOrder
  <2> DEFINE taken == delivered \o message
  <2>1. taken \in Seq(Bytes)
    BY DEF ConnectionInv, TypeOK
  <2>2. PICK rest \in Seq(Bytes) : /\ stream = taken \o rest
                                   /\ line = "up" => rest = wire
    BY DEF ConnectionInv, OrderInv, ChunkInv, Read, Hand
  <2> HIDE DEF taken
  <2>3. Len(taken) <= Len(taken \o rest) /\ taken = SubSeq(taken \o rest, 1, Len(taken))
    BY <2>1
  <2>4. QED
    BY <2>2, <2>3 DEF taken
<1>2. QED
  BY <1>1, ConnectionInvariant, PTL

\* The variables keep their types: no call returns another result, no receive
\* another outcome, than those the code has.
THEOREM ConnectionTypeCorrect == Spec => []TypeOK
<1>1. ConnectionInv => TypeOK
  BY DEF ConnectionInv
<1>2. QED
  BY <1>1, ConnectionInvariant, PTL

\* No call of receive_raw_message returns a whole number of chunks.
THEOREM ConnectionChunks == Spec => []NoWholeChunks
<1>1. ConnectionInv => NoWholeChunks
  BY DEF ConnectionInv
<1>2. QED
  BY <1>1, ConnectionInvariant, PTL

\* After an orderly end the receiver has returned all that was sent, but for a tail
\* of whole chunks.
THEOREM ConnectionEnd == Spec => []EndLosesWholeChunks
<1>1. ConnectionInv => EndLosesWholeChunks
  BY DEF ConnectionInv
<1>2. QED
  BY <1>1, ConnectionInvariant, PTL
=============================================================================
