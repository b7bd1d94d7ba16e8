--------------------------- MODULE TransportProofs ---------------------------
(***************************************************************************)
(* Proofs, for every set of channels and every value of the bounds, that   *)
(* IInv is an invariant of Transport and that the safety properties of     *)
(* Transport, and its refinement of FifoChannels, follow from it.          *)
(*                                                                         *)
(* There is one lemma per kind of step.  Steps of the IO threads and of    *)
(* the link change only the places a message can be in (WireStep); steps   *)
(* of the writer leave the reader's part alone (WriterFrame); steps of the *)
(* dispatcher and of read_bytes are treated one by one.                    *)
(***************************************************************************)
EXTENDS TransportInvariant, SequenceTheorems, TLAPS

(* Losing a message leaves a sequence over the same set (LoseBuffer,       *)
(* LoseAck).                                                               *)
LEMMA WithoutNthSeq ==
    ASSUME NEW S, NEW s \in Seq(S), NEW i \in 1 .. Len(s)
    PROVE  WithoutNth(s, i) \in Seq(S)
<1>1. SubSeq(s, 1, i - 1) \in Seq(S)
  BY SubSeqProperties, ElementOfSeq
<1>2. SubSeq(s, i + 1, Len(s)) \in Seq(S)
  BY SubSeqProperties, ElementOfSeq
<1>3. QED
  BY <1>1, <1>2, ConcatProperties DEF WithoutNth

(* Exchanging two neighbours leaves a sequence over the same set           *)
(* (ReorderBuffers).                                                       *)
LEMMA SwappedSeq ==
    ASSUME NEW S, NEW s \in Seq(S), NEW i \in 1 .. Len(s) - 1
    PROVE  Swapped(s, i) \in Seq(S)
<1>1. s[i] \in S /\ s[i + 1] \in S
  BY ElementOfSeq
<1>2. [s EXCEPT ![i] = s[i + 1]] \in Seq(S) /\ Len([s EXCEPT ![i] = s[i + 1]]) = Len(s)
  BY <1>1, ExceptSeq
<1>3. QED
  BY <1>1, <1>2, ExceptSeq DEF Swapped

(* Where the counters of a channel lie: the writer's, the reader's         *)
(* watermark, and Half, below which the reader's i32 cast keeps an id's    *)
(* value.                                                                  *)
LEMMA Bounds ==
    ASSUME IInv, NEW c \in Channels
    PROVE  /\ written[c] \in Nat /\ written[c] <= NumBuffers
           /\ Len(v[c]) \in Nat
           /\ index[c] \in Nat
           /\ Popped(c) \in Nat
           /\ Started(c) \in Nat
           /\ Started(c) <= written[c]
           /\ Started(c) <= Half
           /\ watermarks[c] \in Int /\ watermarks[c] >= -1
<1>1. written[c] \in 0 .. NumBuffers /\ watermarks[c] \in -1 .. Half - 1
  BY DEF IInv, TypeOK, WriterTypeOK, ReaderTypeOK
<1>2. v[c] \in Seq(BufferType)
  BY DEF IInv, TypeOK, WriterTypeOK, QueueTypeOK
<1>3. Len(v[c]) \in Nat
  BY <1>2, LenProperties
<1>4. Len(v[c]) <= written[c] /\ index[c] \in 0 .. Len(v[c])
  BY DEF IInv, QueueInv
<1>5. Popped(c) = written[c] - Len(v[c]) /\ Started(c) = Popped(c) + index[c]
  BY DEF Popped, Started
<1>6. written[c] \in Nat /\ index[c] \in Nat
  BY ONLY <1>1, <1>3, <1>4, NumBuffersAssumption
<1>7. Popped(c) \in Nat /\ Started(c) \in Nat
  BY ONLY <1>3, <1>4, <1>5, <1>6
<1>8. Started(c) <= written[c]
  BY ONLY <1>3, <1>4, <1>5, <1>6
<1>9. written[c] <= Half
  BY ONLY <1>1, NoWrapAssumption, NumBuffersAssumption, HalfAssumption
<1>10. Started(c) <= Half
  BY ONLY <1>6, <1>7, <1>8, <1>9, HalfAssumption
<1>11. watermarks[c] \in Int /\ watermarks[c] >= -1 /\ written[c] <= NumBuffers
  BY ONLY <1>1, HalfAssumption, NumBuffersAssumption
<1>12. QED
  BY ONLY <1>3, <1>6, <1>7, <1>8, <1>10, <1>11

(* A buffer that was sent is well typed, is determined by its id, and its  *)
(* id survives the reader's cast.                                          *)
LEMMA SentType ==
    ASSUME IInv, NEW c \in Channels
    PROVE  /\ Sent(c) \subseteq BufferType
           /\ Secured(c) \subseteq BufferIds
           /\ \A b \in Sent(c) : Key(b) = b.id /\ b = Numbered(b.id)
                                 /\ b.id \in 0 .. Started(c) - 1
BY Bounds, HalfAssumption
   DEF Sent, Secured, BufferType, BufferIds, Payloads, Numbered, NewBufferWithMeta,
       Key, AsI32

(* A freshly created writer and reader satisfy the invariant.              *)
LEMMA InitIInv == Init => IInv
<1> SUFFICES ASSUME Init PROVE IInv
  OBVIOUS
<1> USE DEF Init, WriterInit, ReaderInit, QueueInit
<1>1. TypeOK
  BY EmptySeq, HalfAssumption, NumBuffersAssumption, LinkAssumption
     DEF TypeOK, WriterTypeOK, QueueTypeOK, ReaderTypeOK, BufferIds
<1>2. ASSUME NEW c \in Channels
      PROVE  QueueInv(c) /\ ForwardInv(c) /\ ReaderInv(c) /\ AckInv(c) /\ DeliveryInv(c)
  <2>1. Popped(c) = 0 /\ Started(c) = 0
    BY DEF Popped, Started
  <2>2. QueueInv(c)
    BY <2>1, MaxBuffersAssumption DEF QueueInv
  <2>3. ForwardInv(c)
    BY EmptySeq DEF ForwardInv
  <2>4. ReaderInv(c)
    BY <2>1 DEF ReaderInv
  <2>5. AckInv(c)
    BY <2>1, EmptySeq DEF AckInv
  <2>6. DeliveryInv(c)
    BY DEF DeliveryInv, Holds
  <2>7. QED
    BY <2>2, <2>3, <2>4, <2>5, <2>6
<1>3. QED
  BY <1>1, <1>2 DEF IInv

------------------------------------------------------------------------------
(* What a step of the IO threads or of the link leaves unchanged.          *)
coreVars == <<queueVars, written, in_flight, out_queue, watermarks, out_of_order,
              consumed>>

(* A step that only moves messages between the handlers' channels and the  *)
(* sockets preserves the invariant, as long as every place still holds     *)
(* only sent buffers or acks of secured payloads.                          *)
LEMMA WireStep ==
    ASSUME IInv, UNCHANGED coreVars,
           writer_send' \in [Channels -> Seq(BufferType)],
           data_wire' \in [Channels -> Seq(BufferType)],
           reader_recv' \in [Channels -> Seq(BufferType)],
           reader_send' \in [Channels -> Seq(BufferIds)],
           ack_wire' \in [Channels -> Seq(BufferIds)],
           writer_recv' \in [Channels -> Seq(BufferIds)],
           faults' \in 0 .. MaxFaults,
           \A c \in Channels :
             /\ writer_send'[c] \in Seq(Sent(c))
             /\ data_wire'[c] \in Seq(Sent(c))
             /\ reader_recv'[c] \in Seq(Sent(c))
             /\ reader_send'[c] \in Seq(Secured(c))
             /\ ack_wire'[c] \in Seq(Secured(c))
             /\ writer_recv'[c] \in Seq(Secured(c))
    PROVE  IInv'
<1> USE DEF coreVars, queueVars
<1>1. TypeOK'
  BY DEF IInv, TypeOK, WriterTypeOK, QueueTypeOK, ReaderTypeOK
<1>2. ASSUME NEW c \in Channels
      PROVE  (QueueInv(c) /\ ForwardInv(c) /\ ReaderInv(c) /\ AckInv(c) /\ DeliveryInv(c))'
  <2>1. /\ Popped(c)' = Popped(c)
        /\ Started(c)' = Started(c)
        /\ Sent(c)' = Sent(c)
        /\ Secured(c)' = Secured(c)
    BY DEF Popped, Started, Sent, Secured
  <2>2. QueueInv(c)'
    BY <2>1 DEF IInv, QueueInv
  <2>3. ForwardInv(c)'
    BY <2>1 DEF ForwardInv
  <2>4. ReaderInv(c)'
    BY <2>1 DEF IInv, ReaderInv
  <2>5. AckInv(c)'
    BY <2>1 DEF IInv, AckInv
  <2>6. DeliveryInv(c)'
    BY Zenon DEF IInv, DeliveryInv
  <2>7. QED
    BY <2>2, <2>3, <2>4, <2>5, <2>6
<1>3. QED
  BY <1>1, <1>2 DEF IInv

(* Taking the head of one channel and appending it to another keeps both   *)
(* over the same set: the shape of every IO thread step.                   *)
LEMMA MoveSeq ==
    ASSUME NEW S, NEW s \in Seq(S), NEW t \in Seq(S), s # << >>
    PROVE  /\ Append(t, Head(s)) \in Seq(S)
           /\ Tail(s) \in Seq(S)
BY HeadTailProperties, AppendProperties

(* What the invariant says of the places a message can be in, gathered.    *)
LEMMA WireTypes ==
    ASSUME IInv
    PROVE  /\ writer_send \in [Channels -> Seq(BufferType)]
           /\ data_wire \in [Channels -> Seq(BufferType)]
           /\ reader_recv \in [Channels -> Seq(BufferType)]
           /\ reader_send \in [Channels -> Seq(BufferIds)]
           /\ ack_wire \in [Channels -> Seq(BufferIds)]
           /\ writer_recv \in [Channels -> Seq(BufferIds)]
           /\ faults \in 0 .. MaxFaults
           /\ \A c \in Channels :
                /\ writer_send[c] \in Seq(Sent(c))
                /\ data_wire[c] \in Seq(Sent(c))
                /\ reader_recv[c] \in Seq(Sent(c))
                /\ reader_send[c] \in Seq(Secured(c))
                /\ ack_wire[c] \in Seq(Secured(c))
                /\ writer_recv[c] \in Seq(Secured(c))
BY DEF IInv, TypeOK, WriterTypeOK, ReaderTypeOK, ForwardInv, AckInv

(* The poll loops of the IO threads preserve the invariant.                *)
LEMMA SocketsStep ==
    ASSUME IInv, NEW c \in Channels, Sockets(c)
    PROVE  IInv'
<1> USE DEF coreVars, queueVars, writerVars, readerVars, linkVars
<1>1. CASE WriterSocketSend(c)
  <2>1. /\ Append(data_wire[c], Head(writer_send[c])) \in Seq(Sent(c))
        /\ Tail(writer_send[c]) \in Seq(Sent(c))
        /\ Append(data_wire[c], Head(writer_send[c])) \in Seq(BufferType)
        /\ Tail(writer_send[c]) \in Seq(BufferType)
    BY <1>1, WireTypes, MoveSeq DEF WriterSocketSend
  <2>2. QED
    BY <1>1, <2>1, WireTypes, WireStep DEF WriterSocketSend
<1>2. CASE WriterSocketRecv(c)
  <2>1. /\ Append(writer_recv[c], Head(ack_wire[c])) \in Seq(Secured(c))
        /\ Tail(ack_wire[c]) \in Seq(Secured(c))
        /\ Append(writer_recv[c], Head(ack_wire[c])) \in Seq(BufferIds)
        /\ Tail(ack_wire[c]) \in Seq(BufferIds)
    BY <1>2, WireTypes, MoveSeq DEF WriterSocketRecv
  <2>2. QED
    BY <1>2, <2>1, WireTypes, WireStep DEF WriterSocketRecv
<1>3. CASE ReaderSocketSend(c)
  <2>1. /\ Append(ack_wire[c], Head(reader_send[c])) \in Seq(Secured(c))
        /\ Tail(reader_send[c]) \in Seq(Secured(c))
        /\ Append(ack_wire[c], Head(reader_send[c])) \in Seq(BufferIds)
        /\ Tail(reader_send[c]) \in Seq(BufferIds)
    BY <1>3, WireTypes, MoveSeq DEF ReaderSocketSend
  <2>2. QED
    BY <1>3, <2>1, WireTypes, WireStep DEF ReaderSocketSend
<1>4. CASE ReaderSocketRecv(c)
  <2>1. /\ Append(reader_recv[c], Head(data_wire[c])) \in Seq(Sent(c))
        /\ Tail(data_wire[c]) \in Seq(Sent(c))
        /\ Append(reader_recv[c], Head(data_wire[c])) \in Seq(BufferType)
        /\ Tail(data_wire[c]) \in Seq(BufferType)
    BY <1>4, WireTypes, MoveSeq DEF ReaderSocketRecv
  <2>2. QED
    BY <1>4, <2>1, WireTypes, WireStep DEF ReaderSocketRecv
<1>5. QED
  BY <1>1, <1>2, <1>3, <1>4 DEF Sockets

(* Losing, duplicating or reordering messages preserves the invariant.     *)
LEMMA LinkStep ==
    ASSUME IInv, NEW c \in Channels, Link(c)
    PROVE  IInv'
<1> USE DEF coreVars, queueVars, writerVars, readerVars, linkVars
<1>1. faults' \in 0 .. MaxFaults /\ UNCHANGED <<writerVars, readerVars>>
  BY LinkAssumption DEF Link, LoseBuffer, LoseAck, DuplicateBuffer, ReorderBuffers,
     Fault, IInv, TypeOK
<1>2. CASE LoseBuffer(c)
  <2>1. PICK i \in 1 .. Len(data_wire[c]) :
          data_wire' = [data_wire EXCEPT ![c] = WithoutNth(@, i)]
    BY Zenon, <1>2 DEF LoseBuffer
  <2>2. /\ WithoutNth(data_wire[c], i) \in Seq(Sent(c))
        /\ WithoutNth(data_wire[c], i) \in Seq(BufferType)
    BY WithoutNthSeq, WireTypes
  <2>3. QED
    BY <1>1, <1>2, <2>1, <2>2, WireTypes, WireStep DEF LoseBuffer
<1>3. CASE LoseAck(c)
  <2>1. PICK i \in 1 .. Len(ack_wire[c]) :
          ack_wire' = [ack_wire EXCEPT ![c] = WithoutNth(@, i)]
    BY Zenon, <1>3 DEF LoseAck
  <2>2. /\ WithoutNth(ack_wire[c], i) \in Seq(Secured(c))
        /\ WithoutNth(ack_wire[c], i) \in Seq(BufferIds)
    BY WithoutNthSeq, WireTypes
  <2>3. QED
    BY <1>1, <1>3, <2>1, <2>2, WireTypes, WireStep DEF LoseAck
<1>4. CASE DuplicateBuffer(c)
  <2>1. PICK i \in 1 .. Len(data_wire[c]) :
          data_wire' = [data_wire EXCEPT ![c] = Append(@, data_wire[c][i])]
    BY Zenon, <1>4 DEF DuplicateBuffer
  <2>2. /\ Append(data_wire[c], data_wire[c][i]) \in Seq(Sent(c))
        /\ Append(data_wire[c], data_wire[c][i]) \in Seq(BufferType)
    BY ElementOfSeq, AppendProperties, WireTypes
  <2>3. QED
    BY Zenon, <1>1, <1>4, <2>1, <2>2, WireTypes, WireStep DEF DuplicateBuffer
<1>5. CASE ReorderBuffers(c)
  <2>1. PICK i \in 1 .. Len(data_wire[c]) - 1 :
          data_wire' = [data_wire EXCEPT ![c] = Swapped(@, i)]
    BY Zenon, <1>5 DEF ReorderBuffers
  <2>2. /\ Swapped(data_wire[c], i) \in Seq(Sent(c))
        /\ Swapped(data_wire[c], i) \in Seq(BufferType)
    BY SwappedSeq, WireTypes
  <2>3. QED
    BY <1>1, <1>5, <2>1, <2>2, WireTypes, WireStep DEF ReorderBuffers
<1>6. QED
  BY <1>2, <1>3, <1>4, <1>5 DEF Link

------------------------------------------------------------------------------
(* The invariant of the reader and of the links survives a step of the     *)
(* writer that sends no unscheduled buffer and requests the pop of nothing *)
(* but secured payloads.                                                   *)
LEMMA WriterFrame ==
    ASSUME IInv, UNCHANGED <<readerVars, linkVars>>, NEW c \in Channels,
           Started(c)' \in Int, Started(c)' >= Started(c),
           writer_send'[c] \in Seq(Sent(c)'),
           writer_recv'[c] \in Seq(Secured(c)),
           pop_requests'[c] \subseteq Secured(c),
           0 .. Popped(c)' - 1 \subseteq Secured(c)
    PROVE  (ForwardInv(c) /\ ReaderInv(c) /\ AckInv(c) /\ DeliveryInv(c))'
<1> USE DEF readerVars, linkVars
<1>1. Sent(c) \subseteq Sent(c)' /\ Secured(c) \subseteq Secured(c)'
  BY Bounds DEF Sent, Secured
<1>2. ForwardInv(c)'
  BY <1>1, WireTypes, SeqMonotonic DEF ForwardInv
<1>3. ReaderInv(c)'
  BY <1>1, Bounds DEF IInv, ReaderInv
<1>4. AckInv(c)'
  <2>1. /\ reader_send[c] \in Seq(Secured(c)')
        /\ ack_wire[c] \in Seq(Secured(c)')
        /\ writer_recv'[c] \in Seq(Secured(c)')
    BY <1>1, WireTypes, SeqMonotonic
  <2>2. QED
    BY <1>1, <2>1 DEF AckInv
<1>5. DeliveryInv(c)'
  BY Zenon DEF IInv, DeliveryInv
<1>6. QED
  BY <1>2, <1>3, <1>4, <1>5

(* A writer step on one channel leaves the invariant of the others alone.  *)
LEMMA WriterIdle ==
    ASSUME IInv, UNCHANGED <<readerVars, linkVars>>, NEW c \in Channels,
           v'[c] = v[c], index'[c] = index[c], buffer_id_seq'[c] = buffer_id_seq[c],
           pop_requests'[c] = pop_requests[c], written'[c] = written[c],
           in_flight'[c] = in_flight[c], writer_send'[c] = writer_send[c],
           writer_recv'[c] = writer_recv[c]
    PROVE  (QueueInv(c) /\ ForwardInv(c) /\ ReaderInv(c) /\ AckInv(c) /\ DeliveryInv(c))'
<1>1. /\ Popped(c)' = Popped(c)
      /\ Started(c)' = Started(c)
      /\ Sent(c)' = Sent(c)
  BY DEF Popped, Started, Sent
<1>2. QueueInv(c)'
  BY <1>1 DEF IInv, QueueInv
<1>3. pop_requests[c] \subseteq Secured(c) /\ 0 .. Popped(c) - 1 \subseteq Secured(c)
  BY DEF IInv, AckInv
<1>4. /\ writer_send'[c] \in Seq(Sent(c)')
      /\ writer_recv'[c] \in Seq(Secured(c))
  BY <1>1, WireTypes
<1>5. Started(c)' \in Int /\ Started(c)' >= Started(c)
  BY <1>1, Bounds
<1>6. (ForwardInv(c) /\ ReaderInv(c) /\ AckInv(c) /\ DeliveryInv(c))'
  BY <1>1, <1>3, <1>4, <1>5, WriterFrame
<1>7. QED
  BY <1>2, <1>6

(* write_bytes preserves the invariant: try_push stamps the next id.       *)
LEMMA WriteBytesStep ==
    ASSUME IInv, NEW c \in Channels, WriteBytes(c), UNCHANGED <<readerVars, linkVars>>
    PROVE  IInv'
<1> DEFINE b == NewBufferWithMeta(buffer_id_seq[c], written[c])
<1>1. /\ written[c] < NumBuffers
      /\ Len(v[c]) # MaxBuffers
      /\ v' = [v EXCEPT ![c] = Append(@, b)]
      /\ buffer_id_seq' = [buffer_id_seq EXCEPT ![c] = NextBufferId(@)]
      /\ written' = [written EXCEPT ![c] = @ + 1]
      /\ UNCHANGED <<index, pop_requests, in_flight, writer_send, writer_recv>>
  BY DEF WriteBytes, TryPush
<1>0. /\ written[c] \in Nat /\ Len(v[c]) \in Nat /\ index[c] \in Nat
      /\ Started(c) \in Nat
  BY Bounds
<1>a. /\ Len(v[c]) <= MaxBuffers /\ Len(v[c]) <= written[c]
      /\ buffer_id_seq[c] = written[c]
      /\ index[c] \in 0 .. Len(v[c]) /\ in_flight[c] = {}
  BY Zenon DEF IInv, QueueInv
<1>2. b = Numbered(written[c]) /\ b \in BufferType
  <2>1. b = Numbered(written[c])
    BY Zenon, <1>a DEF Numbered
  <2>2. written[c] \in 0 .. 2 * Half - 1
    BY ONLY <1>0, <1>1, HalfAssumption, NoWrapAssumption, NumBuffersAssumption
  <2>3. QED
    BY <1>0, <2>1, <2>2 DEF Numbered, NewBufferWithMeta, BufferType, BufferIds, Payloads
<1>3. NextBufferId(buffer_id_seq[c]) = written[c] + 1 /\ written[c] + 1 \in BufferIds
  <2>1. written[c] + 1 # 2 * Half /\ written[c] + 1 \in 0 .. 2 * Half - 1
    BY ONLY <1>0, <1>1, HalfAssumption, NoWrapAssumption, NumBuffersAssumption
  <2>2. QED
    BY Zenon, <1>a, <2>1 DEF NextBufferId, BufferIds
<1>4. v[c] \in Seq(BufferType) /\ v \in [Channels -> Seq(BufferType)]
  BY DEF IInv, TypeOK, WriterTypeOK, QueueTypeOK
<1>5. /\ Append(v[c], b) \in Seq(BufferType)
      /\ Len(Append(v[c], b)) = Len(v[c]) + 1
      /\ \A i \in 1 .. Len(v[c]) : Append(v[c], b)[i] = v[c][i]
      /\ Append(v[c], b)[Len(v[c]) + 1] = b
  <2> HIDE DEF b
  <2>1. b \in BufferType
    BY <1>2
  <2>2. QED
    BY <1>4, <2>1, AppendProperties
<1> HIDE DEF b
<1>6. TypeOK'
  <2>1. v' \in [Channels -> Seq(BufferType)]
    BY <1>1, <1>4, <1>5
  <2>2. buffer_id_seq' \in [Channels -> BufferIds]
    BY <1>1, <1>3 DEF IInv, TypeOK, WriterTypeOK, QueueTypeOK
  <2>3. written' \in [Channels -> 0 .. NumBuffers]
    BY <1>1, NumBuffersAssumption DEF IInv, TypeOK, WriterTypeOK
  <2>4. QED
    BY Zenon, <1>1, <2>1, <2>2, <2>3 DEF IInv, TypeOK, WriterTypeOK, QueueTypeOK,
       ReaderTypeOK, readerVars, linkVars
<1>7. ASSUME NEW d \in Channels
      PROVE  (QueueInv(d) /\ ForwardInv(d) /\ ReaderInv(d) /\ AckInv(d) /\ DeliveryInv(d))'
  <2>1. CASE d # c
    BY Zenon, <1>1, <2>1, WriterIdle DEF IInv, TypeOK, WriterTypeOK, QueueTypeOK
  <2>2. CASE d = c
    <3>1. /\ v'[c] = Append(v[c], b)
          /\ written'[c] = written[c] + 1
          /\ buffer_id_seq'[c] = written[c] + 1
      BY <1>1, <1>3, <1>4 DEF IInv, TypeOK, WriterTypeOK, QueueTypeOK
    <3>2. Popped(c)' = Popped(c) /\ Started(c)' = Started(c) /\ Sent(c)' = Sent(c)
      BY SMTT(30), <1>1, <1>5, <3>1, Bounds DEF Popped, Started, Sent
    <3>3. QueueInv(c)'
      <4>0. Len(v'[c]) = Len(v[c]) + 1
        BY Zenon, <1>5, <3>1
      <4>1. Len(v'[c]) <= MaxBuffers /\ Len(v'[c]) <= written'[c]
        <5>1. Len(v[c]) # MaxBuffers /\ written'[c] = written[c] + 1
          BY Zenon, <1>1, <3>1
        <5>2. QED
          BY ONLY <1>0, <1>a, <4>0, <5>1, MaxBuffersAssumption
      <4>2. ASSUME NEW i \in 1 .. Len(v'[c])
            PROVE  v'[c][i] = Numbered(Popped(c) + i - 1)
        <5>1. CASE i \in 1 .. Len(v[c])
          BY <1>5, <3>1, <5>1 DEF IInv, QueueInv
        <5>2. CASE i = Len(v[c]) + 1
          BY <1>2, <1>5, <3>1, <5>2, Bounds DEF Popped
        <5>3. i \in 1 .. Len(v[c]) \/ i = Len(v[c]) + 1
          BY ONLY <1>0, <4>0, i \in 1 .. Len(v'[c])
        <5>4. QED
          BY <5>1, <5>2, <5>3
      <4>3. index'[c] \in 0 .. Len(v'[c]) /\ in_flight'[c] = {}
        <5>1. index'[c] = index[c] /\ in_flight'[c] = in_flight[c]
          BY Zenon, <1>1
        <5>2. QED
          BY ONLY <1>0, <1>a, <4>0, <5>1
      <4>4. QED
        BY Zenon, <3>1, <3>2, <4>1, <4>2, <4>3 DEF QueueInv
    <3>4. pop_requests[c] \subseteq Secured(c) /\ 0 .. Popped(c) - 1 \subseteq Secured(c)
      BY DEF IInv, AckInv
    <3>5. /\ writer_send'[c] \in Seq(Sent(c)')
          /\ writer_recv'[c] \in Seq(Secured(c))
          /\ Started(c)' \in Int /\ Started(c)' >= Started(c)
      <4>1. /\ writer_send'[c] \in Seq(Sent(c)')
            /\ writer_recv'[c] \in Seq(Secured(c))
        BY Zenon, <1>1, <3>2, WireTypes
      <4>2. Started(c)' \in Int /\ Started(c)' >= Started(c)
        BY ONLY <1>0, <3>2
      <4>3. QED
        BY <4>1, <4>2
    <3>6. (ForwardInv(c) /\ ReaderInv(c) /\ AckInv(c) /\ DeliveryInv(c))'
      BY <1>1, <3>2, <3>4, <3>5, WriterFrame
    <3>7. QED
      BY <2>2, <3>3, <3>6
  <2>3. QED
    BY <2>1, <2>2
<1>8. QED
  BY <1>6, <1>7 DEF IInv

(* The output loop never resends: the map of in-flight buffers it looks    *)
(* into stays empty, because insertions go to a clone of it.               *)
LEMMA NothingToResend ==
    ASSUME IInv, NEW c \in Channels
    PROVE  \A resent \in Resends(c) : writer_send[c] \o resent = writer_send[c]
<1> TAKE resent \in Resends(c)
<1>1. in_flight[c] = {}
  BY DEF IInv, QueueInv
<1>2. PICK n \in 0 .. MaxBuffers - Len(writer_send[c]) : resent \in [1 .. n -> {}]
  BY <1>1 DEF Resends, Injection
<1>3. n = 0
  <2>1. SUFFICES ASSUME n # 0 PROVE FALSE
    OBVIOUS
  <2>2. 1 \in 1 .. n
    BY <2>1
  <2>3. QED
    BY <1>2, <2>2
<1>4. resent = << >>
  BY <1>2, <1>3
<1>5. QED
  BY <1>4, WireTypes, ConcatEmptySeq

(* A pass of the output loop that sends the next scheduled buffer.         *)
SendsNext(c) ==
    /\ CanSchedule(c)
    /\ index' = [index EXCEPT ![c] = @ + 1]
    /\ writer_send' = [writer_send EXCEPT ![c] = Append(writer_send[c], Scheduled(c))]
    /\ in_flight' = [in_flight EXCEPT ![c] = in_flight[c]]
    /\ UNCHANGED <<v, buffer_id_seq, pop_requests, written, writer_recv>>

(* As there is nothing to resend, a pass of the output loop sends the next *)
(* scheduled buffer or nothing.                                            *)
LEMMA OutputLoopSends ==
    ASSUME IInv, NEW c \in Channels, OutputLoop(c)
    PROVE  SendsNext(c) \/ UNCHANGED <<queueVars, written, in_flight, writer_send, writer_recv>>
<1>1. \/ SendsNext(c)
      \/ /\ writer_send' = [writer_send EXCEPT ![c] = writer_send[c]]
         /\ UNCHANGED <<queueVars, written, in_flight, writer_recv>>
  BY NothingToResend DEF OutputLoop, ScheduleNext, InFlightInsert, SendsNext
<1>2. [writer_send EXCEPT ![c] = writer_send[c]] = writer_send
  BY WireTypes
<1>3. QED
  BY Zenon, <1>1, <1>2

(* The buffer that schedule_next hands out is the next to be started.      *)
LEMMA ScheduledFacts ==
    ASSUME IInv, NEW c \in Channels, CanSchedule(c)
    PROVE  /\ index[c] + 1 \in 1 .. Len(v[c])
           /\ Scheduled(c) = Numbered(Started(c))
           /\ Scheduled(c) \in BufferType
<1>1. /\ Len(v[c]) \in Nat /\ index[c] \in Nat /\ Popped(c) \in Nat
  BY Zenon, Bounds
<1>2. index[c] + 1 \in 1 .. Len(v[c])
  BY <1>1 DEF CanSchedule
<1>3. v[c][index[c] + 1] = Numbered(Popped(c) + (index[c] + 1) - 1)
  BY Zenon, <1>2 DEF IInv, QueueInv
<1>4. Popped(c) + (index[c] + 1) - 1 = Started(c)
  BY ONLY <1>1 DEF Started
<1>5. v[c] \in Seq(BufferType)
  BY Zenon DEF IInv, TypeOK, WriterTypeOK, QueueTypeOK
<1>6. v[c][index[c] + 1] \in BufferType
  BY Zenon, <1>2, <1>5, ElementOfSeq
<1>7. QED
  BY Zenon, <1>2, <1>3, <1>4, <1>6 DEF Scheduled

(* A pass of the output loop preserves the invariant.                      *)
LEMMA OutputLoopStep ==
    ASSUME IInv, NEW c \in Channels, OutputLoop(c), UNCHANGED <<readerVars, linkVars>>
    PROVE  IInv'
<1>1. CASE SendsNext(c)
  <2> USE DEF SendsNext
  <2>1. index[c] + 1 \in 1 .. Len(v[c])
    BY <1>1, ScheduledFacts
  <2>2. Scheduled(c) = Numbered(Started(c)) /\ Scheduled(c) \in BufferType
    BY <1>1, ScheduledFacts
  <2>3. in_flight' = in_flight
    BY <1>1 DEF IInv, TypeOK, WriterTypeOK
  <2>4. TypeOK'
    <3>1. index' \in [Channels -> Nat]
      BY <1>1 DEF IInv, TypeOK, WriterTypeOK, QueueTypeOK
    <3>2. writer_send' \in [Channels -> Seq(BufferType)]
      BY <1>1, <2>2, WireTypes, AppendProperties
    <3>3. QED
      BY Zenon, <1>1, <2>3, <3>1, <3>2 DEF IInv, TypeOK, WriterTypeOK, QueueTypeOK,
         ReaderTypeOK, readerVars, linkVars
  <2>5. ASSUME NEW d \in Channels
        PROVE  (QueueInv(d) /\ ForwardInv(d) /\ ReaderInv(d) /\ AckInv(d) /\ DeliveryInv(d))'
    <3>1. CASE d # c
      BY Zenon, <1>1, <2>3, <3>1, WriterIdle, WireTypes DEF IInv, TypeOK, WriterTypeOK, QueueTypeOK
    <3>2. CASE d = c
      <4>1. index'[c] = index[c] + 1 /\ writer_send'[c] = Append(writer_send[c], Scheduled(c))
        BY <1>1, WireTypes DEF IInv, TypeOK, WriterTypeOK, QueueTypeOK
      <4>2. Popped(c)' = Popped(c) /\ Started(c)' = Started(c) + 1
        BY <1>1, <4>1, Bounds DEF Popped, Started
      <4>3. QueueInv(c)'
        BY <1>1, <2>1, <2>3, <4>1, <4>2 DEF IInv, QueueInv
      <4>4. Sent(c) \subseteq Sent(c)' /\ Scheduled(c) \in Sent(c)'
        BY SMTT(30), <2>2, <4>2, Bounds DEF Sent
      <4>5. writer_send'[c] \in Seq(Sent(c)')
        <5>1. writer_send[c] \in Seq(Sent(c)')
          BY <4>4, WireTypes, SeqMonotonic
        <5>2. QED
          BY SMTT(20), <4>1, <4>4, <5>1, AppendProperties
      <4>6. /\ writer_recv'[c] \in Seq(Secured(c))
            /\ pop_requests'[c] \subseteq Secured(c)
            /\ 0 .. Popped(c)' - 1 \subseteq Secured(c)
        BY Zenon, <1>1, <4>2, WireTypes DEF IInv, AckInv
      <4>7. Started(c)' \in Int /\ Started(c)' >= Started(c)
        BY <4>2, Bounds
      <4>8. (ForwardInv(c) /\ ReaderInv(c) /\ AckInv(c) /\ DeliveryInv(c))'
        BY <4>5, <4>6, <4>7, WriterFrame
      <4>9. QED
        BY <3>2, <4>3, <4>8
    <3>3. QED
      BY <3>1, <3>2
  <2>6. QED
    BY <2>4, <2>5 DEF IInv
<1>2. CASE UNCHANGED <<queueVars, written, in_flight, writer_send, writer_recv>>
  BY <1>2, WireTypes, WireStep DEF coreVars, readerVars, linkVars
<1>3. QED
  BY Zenon, <1>1, <1>2, OutputLoopSends

(* A pass of the input loop preserves the invariant: request_pop pops only *)
(* buffers whose payloads the reader has secured, and moves the index with *)
(* them.                                                                   *)
LEMMA InputLoopStep ==
    ASSUME IInv, NEW c \in Channels, InputLoop(c), UNCHANGED <<readerVars, linkVars>>
    PROVE  IInv'
<1> DEFINE id == Head(writer_recv[c])
           requests == pop_requests[c] \cup {id}
<1>1. /\ writer_recv[c] # << >>
      /\ in_flight' = [in_flight EXCEPT ![c] = {b \in @ : b.id # id}]
      /\ RequestPop(c, id)
      /\ writer_recv' = [writer_recv EXCEPT ![c] = Tail(@)]
      /\ UNCHANGED <<written, writer_send>>
  BY DEF InputLoop
<1>2. PICK n \in 0 .. Len(v[c]) :
        /\ {v[c][i].id : i \in 1 .. n} \subseteq requests
        /\ v' = [v EXCEPT ![c] = SubSeq(@, n + 1, Len(@))]
        /\ index' = [index EXCEPT ![c] = @ - n]
        /\ pop_requests' = [pop_requests EXCEPT
             ![c] = requests \ {v[c][i].id : i \in 1 .. n}]
        /\ UNCHANGED buffer_id_seq
  BY ZenonT(30), <1>1 DEF RequestPop
<1>3. in_flight' = in_flight
  BY <1>1 DEF IInv, TypeOK, WriterTypeOK, QueueInv
<1>4. requests \subseteq Secured(c) /\ requests \subseteq BufferIds
  BY ZenonT(30), <1>1, HeadTailProperties, WireTypes, SentType DEF IInv, AckInv
<1>5. ASSUME NEW i \in 1 .. n PROVE Popped(c) + i - 1 \in requests
  <2>1. i \in 1 .. Len(v[c])
    BY Bounds
  <2>2. v[c][i] = Numbered(Popped(c) + i - 1)
    BY <2>1 DEF IInv, QueueInv
  <2>3. v[c][i].id = Popped(c) + i - 1
    BY <2>2 DEF Numbered, NewBufferWithMeta
  <2>4. QED
    BY <1>2, <2>3
<1>6. \A i \in 1 .. n : Popped(c) + i - 1 \in Secured(c)
  BY <1>4, <1>5
<1>7. n <= index[c]
  <2>1. CASE n = 0
    BY <2>1, Bounds
  <2>2. CASE n # 0
    <3>1. Popped(c) + n - 1 \in Secured(c)
      BY <1>6, <2>2
    <3>2. QED
      BY <3>1, Bounds DEF Secured, Started
  <2>3. QED
    BY <2>1, <2>2
<1>8. v[c] \in Seq(BufferType) /\ v \in [Channels -> Seq(BufferType)]
  BY DEF IInv, TypeOK, WriterTypeOK, QueueTypeOK
<1> DEFINE rest == SubSeq(v[c], n + 1, Len(v[c]))
<1>9. /\ rest \in Seq(BufferType)
      /\ Len(rest) = Len(v[c]) - n
      /\ \A i \in 1 .. Len(v[c]) - n : rest[i] = v[c][n + i]
  <2>1. \A i \in n + 1 .. Len(v[c]) : v[c][i] \in BufferType
    BY <1>8, Bounds, ElementOfSeq
  <2>2. QED
    <3>1. n + 1 \in Nat /\ Len(v[c]) \in Nat /\ Len(v[c]) <= Len(v[c])
      BY SMTT(20), Bounds
    <3> DEFINE L == Len(v[c])
    <3>2. n \in 0 .. L /\ L \in Nat
      BY <3>1
    <3>3. rest \in Seq(BufferType)
      BY <1>8, <2>1, <3>1, SubSeqProperties
    <3>4. Len(rest) = L - n
      BY <1>8, <2>1, <3>1, <3>2, SubSeqProperties
    <3>5. ASSUME NEW i \in 1 .. L - n PROVE rest[i] = v[c][n + i]
      <4>1. rest[i] = v[c][(n + 1) + i - 1]
        BY <1>8, <2>1, <3>1, <3>2, SubSeqProperties
      <4>2. (n + 1) + i - 1 = n + i
        BY ONLY <3>2, i \in 1 .. L - n
      <4>3. QED
        BY <4>1, <4>2
    <3>6. QED
      BY <3>3, <3>4, <3>5
<1>10. v' = [v EXCEPT ![c] = rest]
  BY <1>2
<1> HIDE DEF rest, requests, id
<1>11. TypeOK'
  <2>1. v' \in [Channels -> Seq(BufferType)]
    BY <1>8, <1>9, <1>10
  <2>2. index' \in [Channels -> Nat]
    <3>1. index \in [Channels -> Nat]
      BY DEF IInv, TypeOK, WriterTypeOK, QueueTypeOK
    <3>2. index[c] - n \in Nat
      <4>1. index[c] \in Nat /\ n \in Nat
        BY Bounds
      <4>2. QED
        BY <1>7, <4>1
    <3>3. index' = [index EXCEPT ![c] = index[c] - n]
      BY Zenon, <1>2
    <3>4. QED
      BY <3>1, <3>2, <3>3
  <2>3. pop_requests' \in [Channels -> SUBSET BufferIds]
    BY <1>2, <1>4 DEF IInv, TypeOK, WriterTypeOK, QueueTypeOK
  <2>4. writer_recv' \in [Channels -> Seq(BufferIds)]
    BY <1>1, WireTypes, HeadTailProperties
  <2>5. QED
    BY Zenon, <1>1, <1>2, <1>3, <2>1, <2>2, <2>3, <2>4 DEF IInv, TypeOK, WriterTypeOK,
       QueueTypeOK, ReaderTypeOK, readerVars, linkVars
<1>12. ASSUME NEW d \in Channels
       PROVE  (QueueInv(d) /\ ForwardInv(d) /\ ReaderInv(d) /\ AckInv(d) /\ DeliveryInv(d))'
  <2>1. CASE d # c
    BY Zenon, <1>1, <1>2, <1>3, <2>1, WriterIdle, WireTypes
       DEF IInv, TypeOK, WriterTypeOK, QueueTypeOK
  <2>2. CASE d = c
    <3>1. /\ v'[c] = rest
          /\ index'[c] = index[c] - n
          /\ pop_requests'[c] \subseteq requests
          /\ writer_recv'[c] = Tail(writer_recv[c])
      BY Zenon, <1>1, <1>2, <1>8, <1>10, WireTypes DEF IInv, TypeOK, WriterTypeOK, QueueTypeOK
    <3>2. /\ Popped(c)' = Popped(c) + n
          /\ Started(c)' = Started(c)
      <4>1. /\ written[c] \in Nat /\ Len(v[c]) \in Nat /\ index[c] \in Nat /\ n \in Nat
            /\ Popped(c) = written[c] - Len(v[c]) /\ Started(c) = Popped(c) + index[c]
        BY Bounds DEF Popped, Started
      <4>2. /\ written'[c] = written[c] /\ Len(v'[c]) = Len(v[c]) - n
            /\ index'[c] = index[c] - n
        BY Zenon, <1>1, <1>9, <3>1
      <4>3. Popped(c)' = written'[c] - Len(v'[c]) /\ Started(c)' = Popped(c)' + index'[c]
        BY Zenon DEF Popped, Started
      <4>4. Popped(c)' = Popped(c) + n
        BY ONLY <4>1, <4>2, <4>3
      <4>5. Started(c)' = Started(c)
        BY ONLY <4>1, <4>2, <4>3, <4>4
      <4>6. QED
        BY <4>4, <4>5
    <3>3. QueueInv(c)'
      <4>1. /\ Len(v'[c]) <= MaxBuffers /\ Len(v'[c]) <= written'[c]
            /\ buffer_id_seq'[c] = written'[c]
            /\ index'[c] \in 0 .. Len(v'[c])
            /\ in_flight'[c] = {}
        <5>1. /\ Len(v[c]) <= MaxBuffers /\ Len(v[c]) <= written[c]
              /\ buffer_id_seq[c] = written[c]
              /\ index[c] \in 0 .. Len(v[c])
              /\ in_flight[c] = {}
          BY DEF IInv, QueueInv
        <5>2. Len(v'[c]) = Len(v[c]) - n /\ n \in Nat
          BY <1>9, <3>1, Bounds
        <5>3. /\ buffer_id_seq'[c] = buffer_id_seq[c]
              /\ written'[c] = written[c]
              /\ in_flight'[c] = in_flight[c]
          BY Zenon, <1>1, <1>2, <1>3
        <5>4. Len(v[c]) \in Nat /\ index[c] \in Nat /\ written[c] \in Nat
          BY Bounds
        <5>5. index'[c] = index[c] - n
          BY <3>1
        <5>6. Len(v'[c]) <= MaxBuffers /\ Len(v'[c]) <= written'[c]
          BY <5>1, <5>2, <5>3, <5>4, MaxBuffersAssumption
        <5>7. index'[c] \in 0 .. Len(v'[c])
          BY <1>7, <5>1, <5>2, <5>4, <5>5
        <5>8. QED
          BY <5>1, <5>3, <5>6, <5>7
      <4>2. ASSUME NEW i \in 1 .. Len(v'[c])
            PROVE  v'[c][i] = Numbered(Popped(c)' + i - 1)
        <5>0. Len(v'[c]) = Len(v[c]) - n /\ Len(v[c]) \in Nat
          BY Zenon, <1>9, <3>1, Bounds
        <5>1. v'[c][i] = v[c][n + i] /\ n + i \in 1 .. Len(v[c])
          <6>1. i \in 1 .. Len(v[c]) - n /\ n + i \in 1 .. Len(v[c])
            BY ONLY <5>0, n \in 0 .. Len(v[c]), i \in 1 .. Len(v'[c])
          <6>2. QED
            BY Zenon, <1>9, <3>1, <6>1
        <5>2. v[c][n + i] = Numbered(Popped(c) + (n + i) - 1)
          BY <5>1 DEF IInv, QueueInv
        <5>3. QED
          BY <3>2, <5>1, <5>2, Bounds
      <4>3. QED
        BY <4>1, <4>2 DEF QueueInv
    <3>4. Sent(c)' = Sent(c)
      BY <3>2 DEF Sent
    <3>5. /\ writer_send'[c] \in Seq(Sent(c)')
          /\ writer_recv'[c] \in Seq(Secured(c))
          /\ pop_requests'[c] \subseteq Secured(c)
          /\ Started(c)' \in Int /\ Started(c)' >= Started(c)
      <4>1. writer_send'[c] \in Seq(Sent(c)')
        BY Zenon, <1>1, <3>4, WireTypes
      <4>2. writer_recv'[c] \in Seq(Secured(c))
        BY <1>1, <3>1, WireTypes, HeadTailProperties
      <4>3. pop_requests'[c] \subseteq Secured(c)
        BY <1>4, <3>1
      <4>4. Started(c) \in Nat
        BY Bounds
      <4>5. Started(c)' \in Int /\ Started(c)' >= Started(c)
        BY ONLY <3>2, <4>4
      <4>6. QED
        BY Zenon, <4>1, <4>2, <4>3, <4>5
    <3>6. ASSUME NEW k \in 0 .. Popped(c)' - 1 PROVE k \in Secured(c)
      <4>1. CASE k < Popped(c)
        <5>1. k \in 0 .. Popped(c) - 1
          BY <3>2, <4>1, Bounds
        <5>2. QED
          BY Zenon, <5>1 DEF IInv, AckInv
      <4>2. CASE k >= Popped(c)
        <5>1. k - Popped(c) + 1 \in 1 .. n
          BY <3>2, <4>2, Bounds
        <5>2. k = Popped(c) + (k - Popped(c) + 1) - 1
          BY SMTT(30), Bounds, <3>2
        <5>3. QED
          BY <1>6, <5>1, <5>2
      <4>3. QED
        BY SMTT(30), <3>2, <4>1, <4>2, Bounds
    <3>7. (ForwardInv(c) /\ ReaderInv(c) /\ AckInv(c) /\ DeliveryInv(c))'
      BY <3>5, <3>6, WriterFrame
    <3>8. QED
      BY <2>2, <3>3, <3>7
  <2>3. QED
    BY <2>1, <2>2
<1>13. QED
  BY <1>11, <1>12 DEF IInv

------------------------------------------------------------------------------
(* A function on 1 .. n is a sequence of length n.                         *)
LEMMA FunctionSeq ==
    ASSUME NEW S, NEW n \in Nat, NEW f \in [1 .. n -> S]
    PROVE  f \in Seq(S) /\ Len(f) = n
<1>1. f \in Seq(S)
  BY SeqDef
<1>2. Len(f) \in Nat /\ DOMAIN f = 1 .. Len(f)
  BY <1>1, LenProperties
<1>3. 1 .. n = 1 .. Len(f)
  BY <1>2
<1>4. Len(f) <= n /\ n <= Len(f)
  BY <1>2, <1>3
<1>5. QED
  BY <1>1, <1>2, <1>4

(* Appending the next n payloads of a channel extends its run.             *)
LEMMA HoldsNext ==
    ASSUME NEW c, NEW lo \in Nat, NEW hi \in Int, lo <= hi + 1, NEW n \in Nat,
           NEW q, NEW r, NEW L \in Nat, Len(q) = L, Len(r) = L + n,
           \A i \in 1 .. L : r[i] = q[i],
           \A i \in L + 1 .. L + n : r[i].channel = c /\ r[i].data = hi + (i - L),
           Holds(q, c, lo, hi)
    PROVE  Holds(r, c, lo, hi + n)
<1>1. ASSUME NEW i \in 1 .. L + n
      PROVE  i \in 1 .. L \/ i \in L + 1 .. L + n
  OBVIOUS
<1>2. /\ \A i \in 1 .. L : q[i].channel = c => q[i].data \in lo .. hi
      /\ \A i, j \in 1 .. L :
           i < j /\ q[i].channel = c /\ q[j].channel = c => q[i].data < q[j].data
      /\ \A k \in lo .. hi : \E i \in 1 .. L : q[i].channel = c /\ q[i].data = k
  BY Zenon DEF Holds
<1>3. ASSUME NEW i \in 1 .. L + n, r[i].channel = c
      PROVE  r[i].data \in lo .. hi + n
  <2>1. CASE i \in 1 .. L
    <3>1. r[i].data \in lo .. hi
      BY <1>2, <1>3, <2>1
    <3>2. QED
      BY ONLY <3>1, lo \in Nat, hi \in Int, n \in Nat
  <2>2. CASE i \in L + 1 .. L + n
    <3>1. r[i].data = hi + (i - L)
      BY <2>2
    <3>2. hi + (i - L) \in lo .. hi + n
      BY ONLY <2>2, L \in Nat, lo \in Nat, hi \in Int, n \in Nat, lo <= hi + 1
    <3>3. QED
      BY <3>1, <3>2
  <2>3. QED
    BY <1>1, <2>1, <2>2
<1>4. ASSUME NEW i \in 1 .. L + n, NEW j \in 1 .. L + n, i < j,
             r[i].channel = c, r[j].channel = c
      PROVE  r[i].data < r[j].data
  <2>1. CASE j \in 1 .. L
    <3>1. i \in 1 .. L
      BY ONLY <2>1, i \in 1 .. L + n, i < j, L \in Nat, n \in Nat
    <3>2. r[i] = q[i] /\ r[j] = q[j]
      BY <2>1, <3>1
    <3>3. q[i].data < q[j].data
      BY ZenonT(30), <1>2, <1>4, <2>1, <3>1, <3>2
    <3>4. QED
      BY Zenon, <3>2, <3>3
  <2>2. CASE j \in L + 1 .. L + n
    <3>1. r[j].data = hi + (j - L)
      BY <2>2
    <3>2. hi + (j - L) \in Int /\ hi + (j - L) > hi
      BY ONLY <2>2, L \in Nat, hi \in Int, n \in Nat
    <3>3. CASE i \in 1 .. L
      <4>1. r[i].data \in lo .. hi
        BY <1>2, <1>4, <3>3
      <4>2. QED
        BY ONLY SMTT(30), <3>1, <3>2, <4>1, lo \in Nat, hi \in Int
    <3>4. CASE i \in L + 1 .. L + n
      <4>1. r[i].data = hi + (i - L)
        BY <3>4
      <4>2. hi + (i - L) < hi + (j - L)
        BY ONLY SMTT(30), i \in 1 .. L + n, j \in 1 .. L + n, i < j, hi \in Int, L \in Nat, n \in Nat
      <4>3. QED
        BY <3>1, <4>1, <4>2
    <3>5. QED
      BY <1>1, <3>3, <3>4
  <2>3. QED
    BY <1>1, <2>1, <2>2
<1>5. ASSUME NEW k \in lo .. hi + n
      PROVE  \E i \in 1 .. L + n : r[i].channel = c /\ r[i].data = k
  <2>1. CASE k \in lo .. hi
    <3>1. PICK i \in 1 .. L : q[i].channel = c /\ q[i].data = k
      BY <1>2, <2>1
    <3>2. i \in 1 .. L + n
      BY ONLY i \in 1 .. L, L \in Nat, n \in Nat
    <3>3. QED
      BY <3>1, <3>2
  <2>2. CASE k \in hi + 1 .. hi + n
    <3> DEFINE i == L + (k - hi)
    <3>1. /\ i \in L + 1 .. L + n
          /\ i \in 1 .. L + n
          /\ hi + (i - L) = k
      BY ONLY <2>2, L \in Nat, n \in Nat, hi \in Int
    <3> HIDE DEF i
    <3>2. r[i].channel = c /\ r[i].data = k
      BY ZenonT(30), <3>1
    <3>3. QED
      BY Zenon, <3>1, <3>2
  <2>3. k \in lo .. hi \/ k \in hi + 1 .. hi + n
    BY ONLY k \in lo .. hi + n, lo \in Nat, hi \in Int, n \in Nat
  <2>4. QED
    BY <2>1, <2>2, <2>3
<1>6. QED
  BY Zenon, <1>3, <1>4, <1>5 DEF Holds

(* Appending payloads of other channels leaves the run of a channel alone. *)
LEMMA HoldsOther ==
    ASSUME NEW c, NEW lo \in Nat, NEW hi \in Int, NEW n \in Nat,
           NEW q, NEW r, NEW L \in Nat, Len(q) = L, Len(r) = L + n,
           \A i \in 1 .. L : r[i] = q[i],
           \A i \in L + 1 .. L + n : r[i].channel # c,
           Holds(q, c, lo, hi)
    PROVE  Holds(r, c, lo, hi)
<1>1. ASSUME NEW i \in 1 .. L + n, r[i].channel = c
      PROVE  i \in 1 .. L /\ r[i] = q[i]
  <2>1. i \in 1 .. L \/ i \in L + 1 .. L + n
    OBVIOUS
  <2>2. QED
    BY <1>1, <2>1
<1>2. /\ \A i \in 1 .. L : q[i].channel = c => q[i].data \in lo .. hi
      /\ \A i, j \in 1 .. L :
           i < j /\ q[i].channel = c /\ q[j].channel = c => q[i].data < q[j].data
      /\ \A k \in lo .. hi : \E i \in 1 .. L : q[i].channel = c /\ q[i].data = k
  BY Zenon DEF Holds
<1>3. ASSUME NEW i \in 1 .. L PROVE i \in 1 .. L + n /\ r[i] = q[i]
  OBVIOUS
<1>4. ASSUME NEW i \in 1 .. L + n, r[i].channel = c
      PROVE  r[i].data \in lo .. hi
  <2>1. i \in 1 .. L /\ r[i] = q[i]
    BY <1>1, <1>4
  <2>2. QED
    BY <1>2, <1>4, <2>1
<1>5. ASSUME NEW i \in 1 .. L + n, NEW j \in 1 .. L + n, i < j,
             r[i].channel = c, r[j].channel = c
      PROVE  r[i].data < r[j].data
  <2>1. i \in 1 .. L /\ r[i] = q[i] /\ j \in 1 .. L /\ r[j] = q[j]
    BY <1>1, <1>5
  <2>2. q[i].channel = c /\ q[j].channel = c /\ i < j
    BY Zenon, <1>5, <2>1
  <2>3. \A k, l \in 1 .. L :
          k < l /\ q[k].channel = c /\ q[l].channel = c => q[k].data < q[l].data
    BY Zenon, <1>2
  <2>4. q[i].data < q[j].data
    BY Zenon, <2>1, <2>2, <2>3
  <2>5. QED
    BY ZenonT(30), <2>1, <2>4
<1>6. ASSUME NEW k \in lo .. hi
      PROVE  \E i \in 1 .. L + n : r[i].channel = c /\ r[i].data = k
  <2>1. PICK i \in 1 .. L : q[i].channel = c /\ q[i].data = k
    BY Zenon, <1>2
  <2>2. i \in 1 .. L + n /\ r[i] = q[i]
    BY <1>3
  <2>3. QED
    BY Zenon, <2>1, <2>2
<1>7. QED
  BY Zenon, <1>4, <1>5, <1>6 DEF Holds

(* The payload at the head of the queue is the first of its channel's run. *)
LEMMA HoldsHead ==
    ASSUME NEW c, NEW lo \in Nat, NEW hi \in Int,
           NEW q, NEW L \in Nat \ {0}, Len(q) = L,
           q[1].channel = c, Holds(q, c, lo, hi)
    PROVE  q[1].data = lo /\ lo <= hi
<1>1. q[1].data \in lo .. hi
  BY DEF Holds
<1>2. lo \in lo .. hi
  BY ONLY <1>1, lo \in Nat, hi \in Int
<1>3. PICK i \in 1 .. L : q[i].channel = c /\ q[i].data = lo
  BY <1>2 DEF Holds
<1>4. CASE i # 1
  <2>1. 1 \in 1 .. L /\ 1 < i
    BY <1>4
  <2>2. q[1].data < lo
    BY <1>3, <2>1 DEF Holds
  <2>3. QED
    BY ONLY <1>1, <2>2, lo \in Nat, hi \in Int
<1>5. QED
  BY <1>1, <1>2, <1>3, <1>4

(* Taking a payload shortens the run of its channel by one.                *)
LEMMA HoldsTail ==
    ASSUME NEW c, NEW lo \in Nat, NEW hi \in Int,
           NEW q, NEW r, NEW L \in Nat, Len(q) = L + 1, Len(r) = L,
           \A i \in 1 .. L : r[i] = q[i + 1],
           Holds(q, c, lo, hi)
    PROVE  /\ q[1].channel # c => Holds(r, c, lo, hi)
           /\ q[1].channel = c => Holds(r, c, lo + 1, hi)
<1>1. /\ \A i \in 1 .. L + 1 : q[i].channel = c => q[i].data \in lo .. hi
      /\ \A i, j \in 1 .. L + 1 :
           i < j /\ q[i].channel = c /\ q[j].channel = c => q[i].data < q[j].data
      /\ \A k \in lo .. hi : \E i \in 1 .. L + 1 : q[i].channel = c /\ q[i].data = k
  BY Zenon DEF Holds
<1>2. ASSUME NEW i \in 1 .. L
      PROVE  /\ i + 1 \in 1 .. L + 1 /\ 1 \in 1 .. L + 1 /\ 1 < i + 1
             /\ r[i] = q[i + 1]
  OBVIOUS
<1>3. ASSUME NEW i \in 1 .. L, NEW j \in 1 .. L, i < j,
             r[i].channel = c, r[j].channel = c
      PROVE  r[i].data < r[j].data
  <2>1. i + 1 < j + 1
    BY <1>3
  <2>2. /\ i + 1 \in 1 .. L + 1 /\ r[i] = q[i + 1]
        /\ j + 1 \in 1 .. L + 1 /\ r[j] = q[j + 1]
    BY <1>2
  <2>3. q[i + 1].data < q[j + 1].data
    BY ZenonT(30), <1>1, <1>3, <2>1, <2>2
  <2>4. QED
    BY Zenon, <2>2, <2>3
<1>4. ASSUME NEW i \in 1 .. L + 1, i # 1
      PROVE  i - 1 \in 1 .. L /\ r[i - 1] = q[i]
  <2>1. i - 1 \in 1 .. L /\ (i - 1) + 1 = i
    BY <1>4
  <2>2. QED
    BY <2>1
<1>5. CASE q[1].channel # c
  <2>1. ASSUME NEW i \in 1 .. L, r[i].channel = c
        PROVE  r[i].data \in lo .. hi
    <3>1. i + 1 \in 1 .. L + 1 /\ r[i] = q[i + 1]
      BY <1>2
    <3>2. QED
      BY <1>1, <2>1, <3>1
  <2>2. \A k \in lo .. hi : \E i \in 1 .. L : r[i].channel = c /\ r[i].data = k
    <3> TAKE k \in lo .. hi
    <3>1. PICK i \in 1 .. L + 1 : q[i].channel = c /\ q[i].data = k
      BY Zenon, <1>1
    <3>2. i # 1
      BY Zenon, <1>5, <3>1
    <3>3. QED
      BY Zenon, <1>4, <3>1, <3>2
  <2>3. Holds(r, c, lo, hi)
    BY Zenon, <1>3, <2>1, <2>2 DEF Holds
  <2>4. QED
    BY <1>5, <2>3
<1>6. CASE q[1].channel = c
  <2>1. q[1].data = lo /\ lo <= hi
    <3>1. L + 1 \in Nat \ {0}
      OBVIOUS
    <3>2. QED
      BY Zenon, <1>6, <3>1, HoldsHead
  <2>2. ASSUME NEW i \in 1 .. L, r[i].channel = c
        PROVE  r[i].data \in lo + 1 .. hi
    <3>1. q[i + 1].data \in lo .. hi /\ lo < q[i + 1].data /\ r[i] = q[i + 1]
      BY Zenon, <1>1, <1>2, <1>6, <2>1, <2>2
    <3>2. QED
      BY ONLY <3>1, lo \in Nat, hi \in Int
  <2>3. ASSUME NEW k \in lo + 1 .. hi
        PROVE  \E i \in 1 .. L : r[i].channel = c /\ r[i].data = k
    <3>1. k \in lo .. hi /\ k # lo
      BY ONLY k \in lo + 1 .. hi, lo \in Nat, hi \in Int
    <3>2. PICK i \in 1 .. L + 1 : q[i].channel = c /\ q[i].data = k
      BY Zenon, <1>1, <3>1
    <3>3. i # 1
      BY Zenon, <2>1, <3>1, <3>2
    <3>4. QED
      BY Zenon, <1>4, <3>2, <3>3
  <2>4. Holds(r, c, lo + 1, hi)
    BY Zenon, <1>3, <2>2, <2>3 DEF Holds
  <2>5. QED
    BY <1>6, <2>4
<1>7. QED
  BY <1>5, <1>6

(* What the dispatcher knows of the buffer it takes.                       *)
LEMMA ReceivedFacts ==
    ASSUME IInv, NEW c \in Channels, CanDispatch(c)
    PROVE  /\ Received(c) \in Sent(c) /\ Received(c) \in BufferType
           /\ Received(c) = Numbered(Received(c).id)
           /\ Key(Received(c)) = Received(c).id
           /\ Received(c).id \in 0 .. Started(c) - 1
           /\ Tail(reader_recv[c]) \in Seq(Sent(c))
           /\ Tail(reader_recv[c]) \in Seq(BufferType)
<1>1. reader_recv[c] # << >>
  BY DEF CanDispatch
<1>2. Received(c) \in Sent(c) /\ Tail(reader_recv[c]) \in Seq(Sent(c))
  BY <1>1, WireTypes, HeadTailProperties DEF Received
<1>3. Tail(reader_recv[c]) \in Seq(BufferType)
  BY Zenon, <1>1, WireTypes, HeadTailProperties
<1>4. QED
  BY <1>2, <1>3, SentType

(* What the dispatcher knows of a buffer that waits out of order.          *)
LEMMA WaitingFacts ==
    ASSUME IInv, NEW c \in Channels, NEW b \in out_of_order[c]
    PROVE  /\ b \in Sent(c) /\ b = Numbered(b.id) /\ Key(b) = b.id
           /\ b.id \in 0 .. Started(c) - 1 /\ b.id > watermarks[c]
BY SentType DEF IInv, ReaderInv

(* Dropping a received buffer and acknowledging it preserves the invariant *)
(* if its payload is already secured.                                      *)
LEMMA DropAndAckStep ==
    ASSUME IInv, NEW c \in Channels, CanDispatch(c), DropAndAck(c),
           Received(c).id \in Secured(c), UNCHANGED <<writerVars, linkVars>>
    PROVE  IInv'
<1>1. /\ Append(reader_send[c], Received(c).id) \in Seq(Secured(c))
      /\ Append(reader_send[c], Received(c).id) \in Seq(BufferIds)
  BY Zenon, WireTypes, SentType, AppendProperties
<1>2. QED
  BY <1>1, ReceivedFacts, WireTypes, WireStep
     DEF DropAndAck, coreVars, queueVars, writerVars, linkVars

(* A buffer at or below the watermark is secured, so dropping it is safe.  *)
LEMMA DispatchStaleStep ==
    ASSUME IInv, NEW c \in Channels, DispatchStale(c), UNCHANGED <<writerVars, linkVars>>
    PROVE  IInv'
<1>1. CanDispatch(c) /\ Key(Received(c)) <= watermarks[c] /\ DropAndAck(c)
  BY Zenon DEF DispatchStale
<1>2. Received(c).id \in Secured(c)
  BY Zenon, <1>1, ReceivedFacts DEF Secured
<1>3. QED
  BY <1>1, <1>2, DropAndAckStep

(* A buffer that already waits out of order is secured, so its early       *)
(* acknowledgement is safe.                                                *)
LEMMA DispatchDuplicateStep ==
    ASSUME IInv, NEW c \in Channels, DispatchDuplicate(c), UNCHANGED <<writerVars, linkVars>>
    PROVE  IInv'
<1>1. /\ CanDispatch(c) /\ DropAndAck(c)
      /\ Key(Received(c)) \in Keys(out_of_order[c])
  BY DEF DispatchDuplicate
<1>2. PICK b \in out_of_order[c] : Key(b) = Key(Received(c))
  BY Zenon, <1>1 DEF Keys
<1>3. b = Numbered(Received(c).id)
  BY Zenon, <1>1, <1>2, ReceivedFacts, WaitingFacts
<1>4. Received(c).id \in Secured(c)
  BY <1>1, <1>2, <1>3, ReceivedFacts DEF Secured
<1>5. QED
  BY Zenon, <1>1, <1>4, DropAndAckStep

(* What the dispatcher finds stored once it has added the buffer it took.  *)
Waiting(c) == out_of_order[c] \cup {Received(c)}

(* What DispatchNew(c) does when its drain takes n steps: out_queue grows  *)
(* by exactly the n payloads after the watermark, in order, these are      *)
(* acknowledged, and the buffers with higher ids stay.  The drain stops at *)
(* a full out_queue or at the first payload that is missing.               *)
Drains(c, n) ==
    /\ Len(out_queue) # OutputQueueSize
    /\ Len(out_queue) + n <= OutputQueueSize
    /\ watermarks[c] + n < Started(c)
    /\ \A i \in 1 .. n : Numbered(watermarks[c] + i) \in Waiting(c)
    /\ \/ Len(out_queue) + n = OutputQueueSize
       \/ Numbered(watermarks[c] + n + 1) \notin Waiting(c)
    /\ out_queue' \in Seq(QueuedPayload)
    /\ Len(out_queue') = Len(out_queue) + n
    /\ \A i \in 1 .. Len(out_queue) : out_queue'[i] = out_queue[i]
    /\ \A i \in Len(out_queue) + 1 .. Len(out_queue) + n :
         /\ out_queue'[i].channel = c
         /\ out_queue'[i].data = watermarks[c] + (i - Len(out_queue))
    /\ reader_send' = [reader_send EXCEPT ![c] = @ \o [i \in 1 .. n |-> watermarks[c] + i]]
    /\ out_of_order' = [out_of_order EXCEPT
         ![c] = {b \in Waiting(c) : b.id > watermarks[c] + n}]
    /\ watermarks' = [watermarks EXCEPT ![c] = watermarks[c] + n]

(* Every buffer the dispatcher finds stored was sent and is above the      *)
(* watermark.                                                              *)
LEMMA StoredFacts ==
    ASSUME IInv, NEW c \in Channels, DispatchNew(c), NEW b \in Waiting(c)
    PROVE  /\ b \in Sent(c) /\ b = Numbered(b.id) /\ Key(b) = b.id
           /\ b.id \in 0 .. Started(c) - 1 /\ b.id > watermarks[c]
           /\ b.id \in Nat
<1>1. CanDispatch(c) /\ Key(Received(c)) > watermarks[c]
  BY Zenon DEF DispatchNew
<1>2. /\ b \in Sent(c) /\ b = Numbered(b.id) /\ Key(b) = b.id
      /\ b.id \in 0 .. Started(c) - 1 /\ b.id > watermarks[c]
  <2>1. CASE b = Received(c)
    BY Zenon, <1>1, <2>1, ReceivedFacts
  <2>2. CASE b \in out_of_order[c]
    BY Zenon, <2>2, WaitingFacts
  <2>3. QED
    BY Zenon, <2>1, <2>2 DEF Waiting
<1>3. Started(c) \in Nat
  BY Zenon, Bounds
<1>4. b.id \in Nat
  BY ONLY <1>2, <1>3
<1>5. QED
  BY Zenon, <1>2, <1>4

(* Storing a new buffer and draining the consecutive ones is such a drain. *)
LEMMA DispatchNewDrains ==
    ASSUME IInv, NEW c \in Channels, DispatchNew(c)
    PROVE  \E n \in Nat : Drains(c, n)
<1> DEFINE wm == watermarks[c]
           stored == Waiting(c)
<1>2. PICK n \in 0 .. OutputQueueSize - Len(out_queue) :
        /\ DrainLength(stored, wm, n)
        /\ out_queue' = out_queue \o
             [i \in 1 .. n |-> [channel |-> c, data |-> Run(stored, wm, n)[i].data]]
        /\ reader_send' = [reader_send EXCEPT
             ![c] = @ \o [i \in 1 .. n |-> Run(stored, wm, n)[i].id]]
        /\ out_of_order' = [out_of_order EXCEPT
             ![c] = {b \in stored : Key(b) \notin wm + 1 .. wm + n}]
        /\ watermarks' = [watermarks EXCEPT ![c] = NextWatermark(wm, n)]
  BY Zenon DEF DispatchNew, Waiting
<1>3. wm \in Int /\ n \in Nat
  BY Bounds
<1>4. ASSUME NEW b \in stored
      PROVE  /\ b \in Sent(c) /\ b = Numbered(b.id) /\ Key(b) = b.id
             /\ b.id \in 0 .. Started(c) - 1 /\ b.id > wm /\ b.id \in Nat
  BY Zenon, StoredFacts
<1>5. ASSUME NEW i \in 1 .. n
      PROVE  /\ Numbered(wm + i) \in stored
             /\ Run(stored, wm, n)[i] = Numbered(wm + i)
             /\ wm + i \in 0 .. Started(c) - 1
  <2>1. PICK b \in stored : Key(b) = wm + i
    BY ZenonT(30), <1>2 DEF DrainLength, Keys
  <2>2. b = Numbered(wm + i) /\ wm + i \in 0 .. Started(c) - 1
    BY <1>4, <2>1
  <2>3. Stored(stored, wm + i) \in stored /\ Key(Stored(stored, wm + i)) = wm + i
    BY Zenon, <2>1 DEF Stored
  <2>4. Stored(stored, wm + i) = Numbered(wm + i)
    BY <1>4, <2>3
  <2>5. QED
    BY <2>1, <2>2, <2>4 DEF Run
<1>6. wm + n < Started(c)
  <2>0. wm < Started(c) /\ Started(c) \in Nat
    BY Zenon, Bounds DEF IInv, ReaderInv
  <2> HIDE DEF wm, stored
  <2>1. CASE n = 0
    BY ONLY <1>3, <2>0, <2>1
  <2>2. CASE n # 0
    <3>1. n \in 1 .. n
      BY ONLY <1>3, <2>2
    <3>2. wm + n \in 0 .. Started(c) - 1
      BY <1>5, <3>1
    <3>3. QED
      BY ONLY <2>0, <3>2
  <2>3. QED
    BY Zenon, <2>1, <2>2
<1> DEFINE moved == [i \in 1 .. n |-> [channel |-> c, data |-> wm + i]]
           acks == [i \in 1 .. n |-> wm + i]
           left == {b \in stored : Key(b) \notin wm + 1 .. wm + n}
<1>7. /\ out_queue' = out_queue \o moved
      /\ reader_send' = [reader_send EXCEPT ![c] = @ \o acks]
      /\ out_of_order' = [out_of_order EXCEPT ![c] = left]
      /\ watermarks' = [watermarks EXCEPT ![c] = wm + n]
  <2>1. ASSUME NEW i \in 1 .. n
        PROVE  /\ Run(stored, wm, n)[i].data = wm + i
               /\ Run(stored, wm, n)[i].id = wm + i
    <3> HIDE DEF wm, stored
    <3>1. Run(stored, wm, n)[i] = [id |-> wm + i, data |-> wm + i]
      BY Zenon, <1>5 DEF Numbered, NewBufferWithMeta
    <3>2. QED
      BY ONLY SMTT(20), <3>1
  <2>2. /\ [i \in 1 .. n |-> [channel |-> c, data |-> Run(stored, wm, n)[i].data]] = moved
        /\ [i \in 1 .. n |-> Run(stored, wm, n)[i].id] = acks
    BY Zenon, <2>1
  <2>3. QED
    BY Zenon, <1>2, <2>2 DEF NextWatermark
<1>8. /\ moved \in Seq(QueuedPayload) /\ Len(moved) = n
      /\ \A i \in 1 .. n : moved[i] = [channel |-> c, data |-> wm + i]
  <2>1. moved \in [1 .. n -> QueuedPayload]
    BY <1>3, <1>5 DEF QueuedPayload, Payloads
  <2>2. QED
    BY Zenon, <1>3, <2>1, FunctionSeq
<1>9. /\ out_queue' \in Seq(QueuedPayload)
      /\ Len(out_queue) \in Nat
      /\ Len(out_queue') = Len(out_queue) + n
      /\ \A i \in 1 .. Len(out_queue) : out_queue'[i] = out_queue[i]
      /\ \A i \in Len(out_queue) + 1 .. Len(out_queue) + n :
           /\ out_queue'[i].channel = c
           /\ out_queue'[i].data = wm + (i - Len(out_queue))
  <2>1. out_queue \in Seq(QueuedPayload)
    BY DEF IInv, TypeOK, ReaderTypeOK
  <2>2. Len(out_queue) \in Nat
    BY <2>1, LenProperties
  <2>3. /\ out_queue \o moved \in Seq(QueuedPayload)
        /\ Len(out_queue \o moved) = Len(out_queue) + n
        /\ \A i \in 1 .. Len(out_queue) + n : (out_queue \o moved)[i] =
             IF i <= Len(out_queue) THEN out_queue[i] ELSE moved[i - Len(out_queue)]
    <3> HIDE DEF moved
    <3>1. moved \in Seq(QueuedPayload) /\ Len(moved) = n
      BY <1>8
    <3>2. QED
      BY ZenonT(30), <2>1, <3>1, ConcatProperties
  <2> HIDE DEF moved, wm
  <2>4. ASSUME NEW i \in Len(out_queue) + 1 .. Len(out_queue) + n
        PROVE  out_queue'[i].channel = c /\ out_queue'[i].data = wm + (i - Len(out_queue))
    <3>1. /\ i - Len(out_queue) \in 1 .. n /\ i \in 1 .. Len(out_queue) + n
          /\ ~(i <= Len(out_queue))
      BY <1>3, <2>2
    <3>2. out_queue'[i] = moved[i - Len(out_queue)]
      BY Zenon, <1>7, <2>3, <3>1
    <3>3. moved[i - Len(out_queue)] = [channel |-> c, data |-> wm + (i - Len(out_queue))]
      BY Zenon, <1>8, <3>1
    <3>4. QED
      BY ONLY <3>2, <3>3
  <2>5. ASSUME NEW i \in 1 .. Len(out_queue)
        PROVE  out_queue'[i] = out_queue[i]
    <3>1. i \in 1 .. Len(out_queue) + n /\ i <= Len(out_queue)
      BY <1>3, <2>2
    <3>2. QED
      BY Zenon, <1>7, <2>3, <3>1
  <2>6. QED
    BY Zenon, <1>7, <2>2, <2>3, <2>4, <2>5
<1> HIDE DEF moved, stored
<1>10. left = {b \in stored : b.id > wm + n}
  <2> HIDE DEF wm
  <2>1. ASSUME NEW b \in stored
        PROVE  Key(b) \notin wm + 1 .. wm + n <=> b.id > wm + n
    <3>1. Key(b) = b.id /\ b.id > wm /\ b.id \in Nat
      BY Zenon, <1>4
    <3>2. QED
      BY ONLY <1>3, <3>1
  <2>2. QED
    BY Zenon, <2>1
<1>11. \/ Len(out_queue) + n = OutputQueueSize
       \/ Numbered(wm + n + 1) \notin stored
  <2>1. \/ n = OutputQueueSize - Len(out_queue)
        \/ wm + n + 1 \notin Keys(stored)
    BY Zenon, <1>2 DEF DrainLength
  <2>2. ASSUME Numbered(wm + n + 1) \in stored PROVE wm + n + 1 \in Keys(stored)
    <3>1. Numbered(wm + n + 1).id = wm + n + 1
      BY ONLY TRUE DEF Numbered, NewBufferWithMeta
    <3>2. Key(Numbered(wm + n + 1)) = wm + n + 1
      BY Zenon, <1>4, <2>2, <3>1
    <3>3. QED
      BY Zenon, <2>2, <3>2 DEF Keys
  <2>3. n = OutputQueueSize - Len(out_queue) => Len(out_queue) + n = OutputQueueSize
    BY ONLY <1>3, <1>9, OutputQueueSizeAssumption
  <2>4. QED
    BY Zenon, <2>1, <2>2, <2>3
<1>12. Len(out_queue) # OutputQueueSize
  BY Zenon DEF DispatchNew, CanDispatch
<1>13. Len(out_queue) + n <= OutputQueueSize
  <2>1. n \in 0 .. OutputQueueSize - Len(out_queue) /\ Len(out_queue) \in Nat
    BY Zenon, <1>9
  <2>2. QED
    BY ONLY <2>1, OutputQueueSizeAssumption
<1>14. \A i \in 1 .. n : Numbered(wm + i) \in stored
  BY Zenon, <1>5
<1>15. Drains(c, n)
  <2> HIDE DEF left, acks
  <2>1. out_of_order' = [out_of_order EXCEPT ![c] = {b \in stored : b.id > wm + n}]
    BY Zenon, <1>7, <1>10
  <2>2. reader_send' = [reader_send EXCEPT ![c] = @ \o [i \in 1 .. n |-> wm + i]]
    BY Zenon, <1>7 DEF acks
  <2>3. QED
    BY Zenon, <1>6, <1>7, <1>9, <1>11, <1>12, <1>13, <1>14, <2>1, <2>2 DEF Drains, stored
<1>16. QED
  BY Zenon, <1>3, <1>15

(* Storing a new buffer and draining the consecutive ones preserves the    *)
(* invariant: the payloads it moves, and those it keeps, stay secured.     *)
LEMMA DispatchNewStep ==
    ASSUME IInv, NEW c \in Channels, DispatchNew(c), UNCHANGED <<writerVars, linkVars>>
    PROVE  IInv'
<1> DEFINE wm == watermarks[c]
           stored == Waiting(c)
<1>1. /\ CanDispatch(c)
      /\ reader_recv' = [reader_recv EXCEPT ![c] = Tail(@)]
      /\ UNCHANGED consumed
  BY Zenon DEF DispatchNew
<1>2. PICK n \in Nat : Drains(c, n)
  BY Zenon, DispatchNewDrains
<1>3. wm \in Int /\ n \in Nat
  BY Bounds
<1>4. ASSUME NEW b \in stored
      PROVE  /\ b \in Sent(c) /\ b = Numbered(b.id) /\ Key(b) = b.id
             /\ b.id \in 0 .. Started(c) - 1 /\ b.id > wm /\ b.id \in Nat
  BY Zenon, StoredFacts
<1> DEFINE acks == [i \in 1 .. n |-> wm + i]
           left == {b \in stored : b.id > wm + n}
<1>6. wm + n < Started(c)
  BY Zenon, <1>2 DEF Drains
<1>7. /\ reader_send' = [reader_send EXCEPT ![c] = @ \o acks]
      /\ out_of_order' = [out_of_order EXCEPT ![c] = left]
      /\ watermarks' = [watermarks EXCEPT ![c] = wm + n]
  BY Zenon, <1>2 DEF Drains
<1>9. /\ out_queue' \in Seq(QueuedPayload)
      /\ Len(out_queue) \in Nat
      /\ Len(out_queue') = Len(out_queue) + n
      /\ \A i \in 1 .. Len(out_queue) : out_queue'[i] = out_queue[i]
      /\ \A i \in Len(out_queue) + 1 .. Len(out_queue) + n :
           /\ out_queue'[i].channel = c
           /\ out_queue'[i].data = wm + (i - Len(out_queue))
  <2>1. Len(out_queue) \in Nat
    BY LenProperties DEF IInv, TypeOK, ReaderTypeOK
  <2>2. QED
    BY Zenon, <1>2, <2>1 DEF Drains
<1>5. ASSUME NEW i \in 1 .. n PROVE wm + i \in 0 .. Started(c) - 1
  <2>1. Numbered(wm + i) \in stored
    BY Zenon, <1>2 DEF Drains
  <2>2. Numbered(wm + i).id = wm + i
    BY ONLY TRUE DEF Numbered, NewBufferWithMeta
  <2>3. QED
    BY Zenon, <1>4, <2>1, <2>2
<1> HIDE DEF left, acks, stored
<1>10. /\ Started(c)' = Started(c) /\ Sent(c)' = Sent(c) /\ Popped(c)' = Popped(c)
       /\ watermarks'[c] = wm + n /\ out_of_order'[c] = left
  BY Zenon, <1>7 DEF IInv, TypeOK, ReaderTypeOK, Started, Sent, Popped, writerVars, queueVars
<1>11. /\ left \subseteq Sent(c)
       /\ \A b \in left : b.id > wm + n
       /\ \A b \in stored : b \in left \/ b.id <= wm + n
  <2> HIDE DEF wm
  <2>1. \A b \in left : b \in Sent(c) /\ b.id > wm + n
    BY Zenon, <1>4 DEF left
  <2>2. ASSUME NEW b \in stored PROVE b \in left \/ b.id <= wm + n
    <3>1. b.id \in Nat
      BY Zenon, <1>4
    <3>2. b.id > wm + n \/ b.id <= wm + n
      BY ONLY <1>3, <3>1
    <3>3. QED
      BY Zenon, <3>2 DEF left
  <2>3. QED
    BY Zenon, <2>1, <2>2
<1>12. Secured(c) \subseteq Secured(c)'
  <2> SUFFICES ASSUME NEW k \in Secured(c) PROVE k \in Secured(c)'
    OBVIOUS
  <2>1. k \in 0 .. Started(c) - 1 /\ (k <= wm \/ Numbered(k) \in stored)
    BY DEF Secured, stored, Waiting
  <2>2. k \in Int
    <3>1. Started(c) \in Nat
      BY Bounds
    <3>2. QED
      BY ONLY SMTT(30), <2>1, <3>1
  <2>3. k <= wm + n \/ Numbered(k) \in left
    <3> HIDE DEF wm
    <3>1. CASE k <= wm
      BY ONLY <1>3, <2>2, <3>1
    <3>2. CASE Numbered(k) \in stored
      <4>1. Numbered(k) \in left \/ Numbered(k).id <= wm + n
        BY Zenon, <1>11, <3>2
      <4>2. Numbered(k).id = k
        BY ONLY Zenon, TRUE DEF Numbered, NewBufferWithMeta
      <4>3. QED
        BY Zenon, <4>1, <4>2
    <3>3. QED
      BY <2>1, <3>1, <3>2
  <2>4. QED
    BY <1>10, <2>1, <2>3 DEF Secured
<1>13. reader_send'[c] \in Seq(Secured(c)')
  <2>1. acks \in [1 .. n -> Secured(c)']
    <3> HIDE DEF wm
    <3>1. ASSUME NEW i \in 1 .. n PROVE wm + i \in Secured(c)'
      <4>1. wm + i \in 0 .. Started(c)' - 1
        BY Zenon, <1>5, <1>10
      <4>2. wm + i <= wm + n
        BY ONLY <1>3, i \in 1 .. n
      <4>3. QED
        BY Zenon, <1>10, <4>1, <4>2 DEF Secured
    <3>2. QED
      BY Zenon, <3>1 DEF acks
  <2>2. acks \in Seq(Secured(c)')
    BY <1>3, <2>1, FunctionSeq
  <2>3. reader_send[c] \in Seq(Secured(c)')
    BY <1>12, WireTypes, SeqMonotonic
  <2>4. reader_send'[c] = reader_send[c] \o acks
    BY Zenon, <1>7, WireTypes
  <2>5. QED
    BY <2>2, <2>3, <2>4, ConcatProperties
<1>14. TypeOK'
  <2>1. reader_recv' \in [Channels -> Seq(BufferType)]
    BY <1>1, ReceivedFacts, WireTypes
  <2>2. reader_send' \in [Channels -> Seq(BufferIds)]
    <3>1. Secured(c)' \subseteq BufferIds
      <4>1. Started(c) \in Nat /\ Started(c) <= Half /\ Started(c)' = Started(c)
        BY <1>10, Bounds
      <4>2. 0 .. Started(c)' - 1 \subseteq 0 .. 2 * Half - 1
        BY ONLY <4>1, HalfAssumption
      <4>3. QED
        BY Zenon, <4>2 DEF Secured, BufferIds
    <3>2. reader_send'[c] \in Seq(BufferIds)
      BY <1>13, <3>1, SeqMonotonic
    <3>3. QED
      BY <1>7, <3>2, WireTypes
  <2>3. watermarks' \in [Channels -> -1 .. Half - 1]
    <3>1. wm + n \in -1 .. Half - 1
      <4>1. Started(c) \in Nat /\ Started(c) <= Half /\ wm >= -1
        BY Bounds
      <4>2. QED
        BY SMTT(30), <1>3, <1>6, <4>1, HalfAssumption
    <3>2. watermarks \in [Channels -> -1 .. Half - 1]
      BY Zenon DEF IInv, TypeOK, ReaderTypeOK
    <3>3. QED
      BY <1>7, <3>1, <3>2
  <2>4. out_of_order' \in [Channels -> SUBSET BufferType]
    BY Zenon, <1>7, <1>11, SentType DEF IInv, TypeOK, ReaderTypeOK
  <2>5. QED
    BY Zenon, <1>1, <1>9, <2>1, <2>2, <2>3, <2>4 DEF IInv, TypeOK, ReaderTypeOK, WriterTypeOK,
       QueueTypeOK, writerVars, queueVars, linkVars
<1>15. ASSUME NEW d \in Channels
       PROVE  (QueueInv(d) /\ ForwardInv(d) /\ ReaderInv(d) /\ AckInv(d))'
  <2>1. QueueInv(d)'
    BY DEF IInv, QueueInv, Popped, writerVars, queueVars
  <2>2. CASE d # c
    <3>1. /\ reader_recv'[d] = reader_recv[d] /\ reader_send'[d] = reader_send[d]
          /\ out_of_order'[d] = out_of_order[d] /\ watermarks'[d] = watermarks[d]
      BY Zenon, <1>1, <1>7, <2>2, WireTypes DEF IInv, TypeOK, ReaderTypeOK
    <3>2. /\ Started(d)' = Started(d) /\ Sent(d)' = Sent(d) /\ Popped(d)' = Popped(d)
          /\ Secured(d)' = Secured(d)
      BY <3>1 DEF Started, Sent, Popped, Secured, writerVars, queueVars
    <3>3. QED
      BY ZenonT(30), <2>1, <3>1, <3>2 DEF IInv, ForwardInv, ReaderInv, AckInv, writerVars, queueVars,
         linkVars
  <2>3. CASE d = c
    <3>1. ForwardInv(c)'
      BY ZenonT(30), <1>1, <1>10, ReceivedFacts, WireTypes DEF ForwardInv, writerVars, linkVars
    <3>2. ReaderInv(c)'
      <4>1. wm + n < Started(c)
        BY Zenon, <1>6
      <4>2. /\ watermarks'[c] < Started(c)' /\ out_of_order'[c] \subseteq Sent(c)'
            /\ \A b \in out_of_order'[c] : b.id > watermarks'[c]
        BY Zenon, <1>10, <1>11, <4>1
      <4>3. QED
        BY Zenon, <4>2 DEF ReaderInv
    <3>3. AckInv(c)'
      <4>1. ack_wire'[c] \in Seq(Secured(c)') /\ writer_recv'[c] \in Seq(Secured(c)')
        <5>1. ack_wire' = ack_wire /\ writer_recv' = writer_recv
          BY Zenon DEF writerVars, linkVars
        <5>2. ack_wire[c] \in Seq(Secured(c)) /\ writer_recv[c] \in Seq(Secured(c))
          BY Zenon DEF IInv, AckInv
        <5>3. QED
          BY ONLY <1>12, <5>1, <5>2, SeqMonotonic
      <4>2. /\ pop_requests'[c] \subseteq Secured(c)'
            /\ 0 .. Popped(c)' - 1 \subseteq Secured(c)'
        BY <1>10, <1>12 DEF IInv, AckInv, writerVars, queueVars
      <4>3. QED
        BY <1>13, <4>1, <4>2 DEF AckInv
    <3>4. QED
      BY <2>1, <2>3, <3>1, <3>2, <3>3
  <2>4. QED
    BY <2>2, <2>3
<1>16. ASSUME NEW d \in Channels PROVE DeliveryInv(d)'
  <2>1. /\ Len(consumed[d]) <= watermarks[d] + 1
        /\ \A i \in 1 .. Len(consumed[d]) : consumed[d][i] = i - 1
        /\ Holds(out_queue, d, Len(consumed[d]), watermarks[d])
    BY ZenonT(30) DEF IInv, DeliveryInv
  <2>2. Len(consumed[d]) \in Nat /\ watermarks[d] \in Int
    BY ZenonT(30), Bounds, LenProperties DEF IInv, TypeOK, ReaderTypeOK
  <2>3. consumed' = consumed
    BY <1>1
  <2>4. CASE d # c
    <3>1. watermarks'[d] = watermarks[d]
      BY Zenon, <1>7, <2>4 DEF IInv, TypeOK, ReaderTypeOK
    <3>2. \A i \in Len(out_queue) + 1 .. Len(out_queue) + n : out_queue'[i].channel # d
      BY Zenon, <1>9, <2>4
    <3>3. Holds(out_queue', d, Len(consumed[d]), watermarks[d])
      BY Zenon, <1>3, <1>9, <2>1, <2>2, <3>2, HoldsOther
    <3>4. QED
      BY Zenon, <2>1, <2>3, <3>1, <3>3 DEF DeliveryInv
  <2>5. CASE d = c
    <3>1. watermarks'[d] = watermarks[d] + n
      BY ZenonT(30), <1>10, <2>5
    <3>2. Len(consumed[d]) <= (watermarks[d] + n) + 1
      BY ONLY <1>3, <2>1, <2>2
    <3>3. \A i \in Len(out_queue) + 1 .. Len(out_queue) + n :
            /\ out_queue'[i].channel = d
            /\ out_queue'[i].data = watermarks[d] + (i - Len(out_queue))
      BY Zenon, <1>9, <2>5
    <3>4. Holds(out_queue', d, Len(consumed[d]), watermarks[d] + n)
      <4> DEFINE L == Len(out_queue)
                 lo == Len(consumed[d])
                 hi == watermarks[d]
      <4>1. L \in Nat /\ Len(out_queue) = L /\ Len(out_queue') = L + n
        BY <1>9
      <4>2. /\ \A i \in 1 .. L : out_queue'[i] = out_queue[i]
            /\ \A i \in L + 1 .. L + n :
                 out_queue'[i].channel = d /\ out_queue'[i].data = hi + (i - L)
        BY ZenonT(30), <1>9, <3>3
      <4>3. lo \in Nat /\ hi \in Int /\ lo <= hi + 1 /\ Holds(out_queue, d, lo, hi)
        BY <2>1, <2>2
      <4>4. n \in Nat
        BY Zenon, <1>3
      <4> HIDE DEF L, lo, hi
      <4>5. Holds(out_queue', d, lo, hi + n)
        BY ONLY ZenonT(30), <4>1, <4>2, <4>3, <4>4, HoldsNext
      <4>6. QED
        BY <4>5 DEF lo, hi
    <3>5. QED
      BY Zenon, <2>1, <2>3, <3>1, <3>2, <3>4 DEF DeliveryInv
  <2>6. QED
    BY <2>4, <2>5
<1>17. QED
  BY <1>14, <1>15, <1>16 DEF IInv

(* read_bytes preserves the invariant: the head of out_queue is the next   *)
(* payload of its channel.                                                 *)
LEMMA ReadBytesStep ==
    ASSUME IInv, ReadBytes, UNCHANGED <<writerVars, linkVars>>
    PROVE  IInv'
<1> DEFINE p == Head(out_queue)
           c == p.channel
<1>1. out_queue \in Seq(QueuedPayload) /\ out_queue # << >>
  BY DEF IInv, TypeOK, ReaderTypeOK, ReadBytes
<1>2. /\ p \in QueuedPayload /\ p = out_queue[1]
      /\ Len(out_queue) \in Nat \ {0}
      /\ out_queue' \in Seq(QueuedPayload)
      /\ Len(out_queue') = Len(out_queue) - 1
      /\ \A i \in 1 .. Len(out_queue') : out_queue'[i] = out_queue[i + 1]
  BY <1>1, HeadTailProperties, EmptySeq DEF ReadBytes
<1>3. c \in Channels /\ p.data \in Nat /\ p = [channel |-> c, data |-> p.data]
  BY <1>2 DEF QueuedPayload, Payloads
<1>4. /\ consumed' = [consumed EXCEPT ![c] = Append(@, p.data)]
      /\ UNCHANGED <<reader_recv, reader_send, watermarks, out_of_order>>
  BY DEF ReadBytes
<1> HIDE DEF p, c
<1>5. /\ consumed \in [Channels -> Seq(Payloads)] /\ consumed[c] \in Seq(Payloads)
      /\ Len(consumed[c]) \in Nat
  BY <1>3, LenProperties DEF IInv, TypeOK, ReaderTypeOK
<1>6. /\ Append(consumed[c], p.data) \in Seq(Payloads)
      /\ Len(Append(consumed[c], p.data)) = Len(consumed[c]) + 1
      /\ \A i \in 1 .. Len(consumed[c]) : Append(consumed[c], p.data)[i] = consumed[c][i]
      /\ Append(consumed[c], p.data)[Len(consumed[c]) + 1] = p.data
  BY <1>3, <1>5, AppendProperties DEF Payloads
<1>7. consumed'[c] = Append(consumed[c], p.data)
  BY <1>3, <1>4, <1>5
<1>8. p.data = Len(consumed[c]) /\ p.data <= watermarks[c]
  <2>1. /\ Holds(out_queue, c, Len(consumed[c]), watermarks[c])
        /\ watermarks[c] \in Int
    BY <1>3, Bounds DEF IInv, DeliveryInv
  <2>2. out_queue[1].channel = c /\ out_queue[1].data = p.data
    BY Zenon, <1>2 DEF c
  <2>3. Len(out_queue) \in Nat \ {0} /\ Len(consumed[c]) \in Nat
    BY <1>2, <1>5
  <2>4. out_queue[1].data = Len(consumed[c]) /\ Len(consumed[c]) <= watermarks[c]
    BY Zenon, <2>1, <2>2, <2>3, HoldsHead
  <2>5. QED
    BY ZenonT(30), <2>2, <2>4
<1>9. TypeOK'
  <2>1. consumed' \in [Channels -> Seq(Payloads)]
    BY ZenonT(30), <1>4, <1>5, <1>6
  <2>2. QED
    BY Zenon, <1>2, <1>4, <2>1 DEF IInv, TypeOK, ReaderTypeOK, WriterTypeOK, QueueTypeOK,
       writerVars, queueVars, linkVars
<1>10. ASSUME NEW d \in Channels
       PROVE  (QueueInv(d) /\ ForwardInv(d) /\ ReaderInv(d) /\ AckInv(d))'
  <2>1. /\ Started(d)' = Started(d) /\ Sent(d)' = Sent(d) /\ Popped(d)' = Popped(d)
        /\ Secured(d)' = Secured(d)
    BY <1>4 DEF Started, Sent, Popped, Secured, writerVars, queueVars
  <2>2. QueueInv(d)'
    BY Zenon, <2>1 DEF IInv, QueueInv, writerVars, queueVars
  <2>3. ForwardInv(d)'
    BY Zenon, <1>4, <2>1 DEF IInv, ForwardInv, writerVars, linkVars
  <2>4. ReaderInv(d)'
    BY Zenon, <1>4, <2>1 DEF IInv, ReaderInv, writerVars, linkVars
  <2>5. AckInv(d)'
    BY Zenon, <1>4, <2>1 DEF IInv, AckInv, writerVars, queueVars, linkVars
  <2>6. QED
    BY <2>2, <2>3, <2>4, <2>5
<1>11. ASSUME NEW d \in Channels PROVE DeliveryInv(d)'
  <2>1. /\ Len(consumed[d]) <= watermarks[d] + 1
        /\ \A i \in 1 .. Len(consumed[d]) : consumed[d][i] = i - 1
        /\ Holds(out_queue, d, Len(consumed[d]), watermarks[d])
    BY ZenonT(30) DEF IInv, DeliveryInv
  <2>2. watermarks'[d] = watermarks[d] /\ watermarks[d] \in Int /\ Len(consumed[d]) \in Nat
    BY ZenonT(30), <1>4, Bounds, LenProperties DEF IInv, TypeOK, ReaderTypeOK
  <2>3. /\ out_queue[1].channel = c
        /\ Len(out_queue') \in Nat /\ Len(out_queue) = Len(out_queue') + 1
    <3>1. Len(out_queue) \in Nat \ {0} /\ Len(out_queue') = Len(out_queue) - 1
      BY <1>2
    <3>2. QED
      BY <1>2, <3>1 DEF c
  <2>4. /\ c # d => Holds(out_queue', d, Len(consumed[d]), watermarks[d])
        /\ c = d => Holds(out_queue', d, Len(consumed[d]) + 1, watermarks[d])
    BY Zenon, <1>2, <2>1, <2>2, <2>3, HoldsTail
  <2>5. CASE d # c
    <3>1. consumed'[d] = consumed[d]
      BY Zenon, <1>4, <1>5, <2>5
    <3>2. QED
      BY Zenon, <2>1, <2>2, <2>4, <2>5, <3>1 DEF DeliveryInv
  <2>6. CASE d = c
    <3>1. Len(consumed'[d]) = Len(consumed[d]) + 1
      BY Zenon, <1>6, <1>7, <2>6
    <3>2. Len(consumed[d]) + 1 <= watermarks[d] + 1
      <4>1. Len(consumed[d]) <= watermarks[d]
        BY Zenon, <1>8, <2>6
      <4>2. QED
        BY ONLY <2>2, <4>1
    <3>3. ASSUME NEW i \in 1 .. Len(consumed'[d]) PROVE consumed'[d][i] = i - 1
      <4>1. CASE i \in 1 .. Len(consumed[d])
        BY Zenon, <1>6, <1>7, <2>1, <2>6, <4>1
      <4>2. CASE i = Len(consumed[d]) + 1
        <5>1. consumed'[d][i] = Len(consumed[d])
          BY ZenonT(30), <1>6, <1>7, <1>8, <2>6, <4>2
        <5>2. i - 1 = Len(consumed[d])
          BY ONLY <2>2, <4>2
        <5>3. QED
          BY <5>1, <5>2
      <4>3. i \in 1 .. Len(consumed[d]) \/ i = Len(consumed[d]) + 1
        BY ONLY <2>2, <3>1, i \in 1 .. Len(consumed'[d])
      <4>4. QED
        BY <4>1, <4>2, <4>3
    <3>4. Holds(out_queue', d, Len(consumed[d]) + 1, watermarks[d])
      BY Zenon, <2>4, <2>6
    <3>5. QED
      BY Zenon, <2>2, <3>1, <3>2, <3>3, <3>4 DEF DeliveryInv
  <2>7. QED
    BY <2>5, <2>6
<1>12. QED
  BY <1>9, <1>10, <1>11 DEF IInv

------------------------------------------------------------------------------
(* Every step of every thread and of the link preserves the invariant.     *)
LEMMA NextIInv == IInv /\ [Next]_vars => IInv'
<1> SUFFICES ASSUME IInv, [Next]_vars PROVE IInv'
  OBVIOUS
<1>1. CASE UNCHANGED vars
  BY <1>1, WireTypes, WireStep DEF vars, coreVars, writerVars, queueVars, readerVars, linkVars
<1>2. ASSUME NEW c \in Channels, WriterStep(c) PROVE IInv'
  BY <1>2, WriteBytesStep, OutputLoopStep, InputLoopStep DEF WriterStep, Writer
<1>3. ASSUME NEW c \in Channels, ReaderStep(c) PROVE IInv'
  BY <1>3, DispatchStaleStep, DispatchDuplicateStep, DispatchNewStep
     DEF ReaderStep, Dispatch
<1>4. CASE ReadStep
  BY <1>4, ReadBytesStep DEF ReadStep
<1>5. QED
  BY <1>1, <1>2, <1>3, <1>4, SocketsStep, LinkStep DEF Next

(* The inductive invariant holds in every reachable state. *)
THEOREM Invariance == Spec => []IInv
BY InitIInv, NextIInv, PTL DEF Spec

(* No thread of the writer, the reader or the IO loop, and no fault of the *)
(* link, puts a value of the wrong type anywhere; in particular the        *)
(* unsigned `index -= 1' of request_pop never underflows.                  *)
THEOREM TypeCorrect == Spec => []TypeOK
<1>1. IInv => TypeOK
  BY DEF IInv
<1>2. QED
  BY <1>1, Invariance, PTL

(* read_bytes returns, per channel, exactly a prefix of what write_bytes   *)
(* accepted, under any number of lost, duplicated and reordered messages.  *)
THEOREM ExactlyOnceInOrder == Spec => []InOrderExactlyOnce
<1>1. IInv => InOrderExactlyOnce
  BY Zenon DEF IInv, DeliveryInv, InOrderExactlyOnce
<1>2. QED
  BY <1>1, Invariance, PTL

(* request_pop never pops a buffer that was not scheduled. *)
THEOREM IndexStaysInQueue == Spec => []IndexInQueue
<1>1. IInv => IndexInQueue
  BY Zenon DEF IInv, QueueInv, IndexInQueue
<1>2. QED
  BY <1>1, Invariance, PTL

(* The writer forgets a payload only once the reader holds it. *)
THEOREM NothingIsLost == Spec => []NothingLost
<1>1. ASSUME IInv, NEW c \in Channels, NEW k \in 0 .. written[c] - 1
      PROVE  InWriterQueue(c, k) \/ OutOfOrder(c, k) \/ InOutQueue(c, k) \/ Consumed(c, k)
  <2> USE <1>1
  <2>1. CASE k >= Popped(c)
    <3>1. k - Popped(c) + 1 \in 1 .. Len(v[c]) /\ Popped(c) + (k - Popped(c) + 1) - 1 = k
      <4>1. /\ written[c] \in Nat /\ Len(v[c]) \in Nat /\ Popped(c) \in Nat
            /\ Popped(c) = written[c] - Len(v[c])
        BY Bounds DEF Popped
      <4>2. k \in Nat /\ k < written[c]
        BY <4>1
      <4>3. k - Popped(c) + 1 \in Nat /\ k - Popped(c) + 1 >= 1
        BY <2>1, <4>1, <4>2
      <4>4. k - Popped(c) + 1 <= Len(v[c])
        BY SMTT(30), <4>1, <4>2
      <4>5. QED
        BY <4>1, <4>2, <4>3, <4>4
    <3>2. v[c][k - Popped(c) + 1] = Numbered(k)
      BY <3>1 DEF IInv, QueueInv
    <3>3. v[c][k - Popped(c) + 1].data = k
      BY <3>2 DEF Numbered, NewBufferWithMeta
    <3>4. InWriterQueue(c, k)
      BY Zenon, <3>1, <3>3 DEF InWriterQueue
    <3>5. QED
      BY <3>4
  <2>2. CASE k < Popped(c)
    <3>1. k \in Secured(c)
      <4>0. k \in Nat /\ Popped(c) \in Nat
        <5>1. written[c] \in Nat /\ Popped(c) \in Nat
          BY Bounds
        <5>2. QED
          BY <5>1
      <4>1. k \in 0 .. Popped(c) - 1
        BY ONLY <2>2, <4>0
      <4>2. QED
        BY <4>1 DEF IInv, AckInv
    <3>2. CASE Numbered(k) \in out_of_order[c]
      <4>1. Numbered(k).data = k
        BY DEF Numbered, NewBufferWithMeta
      <4>2. OutOfOrder(c, k)
        BY <3>2, <4>1 DEF OutOfOrder
      <4>3. QED
        BY <4>2
    <3>3. CASE k <= watermarks[c]
      <4>1. DeliveryInv(c) /\ Len(consumed[c]) \in Nat
        BY LenProperties DEF IInv, TypeOK, ReaderTypeOK
      <4>2. CASE k < Len(consumed[c])
        <5>1. k + 1 \in 1 .. Len(consumed[c]) /\ (k + 1) - 1 = k
          BY SMTT(30), <4>1, <4>2, Bounds
        <5>2. consumed[c][k + 1] = k
          BY <4>1, <5>1 DEF DeliveryInv
        <5>3. Consumed(c, k)
          BY <5>1, <5>2 DEF Consumed
        <5>4. QED
          BY <5>3
      <4>3. CASE k >= Len(consumed[c])
        <5>1. k \in Len(consumed[c]) .. watermarks[c]
          <6>1. watermarks[c] \in Int /\ k \in Nat
            BY Bounds
          <6>2. QED
            BY ONLY SMTT(30), <3>3, <4>1, <4>3, <6>1
        <5>2. PICK i \in 1 .. Len(out_queue) :
                out_queue[i].channel = c /\ out_queue[i].data = k
          BY Zenon, <4>1, <5>1 DEF DeliveryInv, Holds
        <5>3. out_queue[i] \in QueuedPayload
          BY Zenon, ElementOfSeq DEF IInv, TypeOK, ReaderTypeOK
        <5>4. out_queue[i] = [channel |-> c, data |-> k]
          BY Zenon, <5>2, <5>3 DEF QueuedPayload
        <5>5. InOutQueue(c, k)
          BY <5>4 DEF InOutQueue
        <5>6. QED
          BY <5>5
      <4>4. QED
        <5>1. k \in Nat
          BY Bounds
        <5>2. QED
          BY <4>1, <4>2, <4>3, <5>1
    <3>4. k <= watermarks[c] \/ Numbered(k) \in out_of_order[c]
      BY Zenon, <3>1 DEF Secured
    <3>5. QED
      BY Zenon, <3>2, <3>3, <3>4
  <2>3. k \in Int /\ Popped(c) \in Int
    BY Bounds
  <2>4. QED
    BY <2>1, <2>2, <2>3
<1>2. IInv => NothingLost
  BY <1>1 DEF NothingLost
<1>3. QED
  BY <1>2, Invariance, PTL

------------------------------------------------------------------------------
(* The flow through the transport, from IInv: as long as the link has not  *)
(* misbehaved, the buffers and acks on their way are exactly the scheduled *)
(* part of the writer's queue, so that the reader's channels, which        *)
(* data_reader.rs creates unbounded, are bounded by that queue; the queues *)
(* of the reader stay within their bounds; and, from these bounds,         *)
(* Transport implements a bounded FIFO per channel.                        *)

(* Moving the head of a sequence to the end of the one before it does not  *)
(* change their concatenation.                                             *)
LEMMA MoveHead ==
    ASSUME NEW S, NEW a \in Seq(S), NEW b \in Seq(S), b # << >>
    PROVE  Append(a, Head(b)) \o Tail(b) = a \o b
<1>1. /\ Head(b) \in S /\ Tail(b) \in Seq(S) /\ Len(Tail(b)) = Len(b) - 1 /\ Len(b) \in Nat \ {0}
      /\ Head(b) = b[1] /\ \A i \in 1 .. Len(Tail(b)) : Tail(b)[i] = b[i + 1]
  BY HeadTailProperties, EmptySeq
<1>2. /\ Append(a, Head(b)) \in Seq(S) /\ Len(Append(a, Head(b))) = Len(a) + 1 /\ Len(a) \in Nat
      /\ Append(a, Head(b))[Len(a) + 1] = b[1]
      /\ \A i \in 1 .. Len(a) : Append(a, Head(b))[i] = a[i]
  BY <1>1, AppendProperties, LenProperties
<1> DEFINE s == Append(a, Head(b)) \o Tail(b)
<1>3. /\ s \in Seq(S) /\ Len(s) = Len(a) + Len(b)
      /\ \A i \in 1 .. Len(s) : s[i] = IF i <= Len(a) + 1 THEN Append(a, Head(b))[i]
                                       ELSE Tail(b)[i - (Len(a) + 1)]
  BY <1>1, <1>2, ConcatProperties
<1>4. /\ a \o b \in Seq(S) /\ Len(a \o b) = Len(a) + Len(b)
      /\ \A i \in 1 .. Len(a \o b) : (a \o b)[i] = IF i <= Len(a) THEN a[i] ELSE b[i - Len(a)]
  BY ConcatProperties
<1> HIDE DEF s
<1>5. ASSUME NEW i \in 1 .. Len(s) PROVE s[i] = (a \o b)[i]
  BY <1>1, <1>2, <1>3, <1>4
<1>6. s = a \o b
  BY <1>3, <1>4, <1>5, SeqEqual
<1>7. QED
  BY <1>6 DEF s

(* The head of a concatenation is that of its first part.                  *)
LEMMA TailConcat ==
    ASSUME NEW S, NEW a \in Seq(S), NEW b \in Seq(S), a # << >>
    PROVE  /\ a \o b # << >> /\ Head(a \o b) = Head(a)
           /\ Tail(a) \o b = Tail(a \o b)
<1>1. /\ Head(a) \in S /\ Tail(a) \in Seq(S) /\ Len(Tail(a)) = Len(a) - 1 /\ Len(a) \in Nat \ {0}
      /\ Head(a) = a[1] /\ \A i \in 1 .. Len(Tail(a)) : Tail(a)[i] = a[i + 1]
      /\ Len(b) \in Nat
  BY HeadTailProperties, EmptySeq, LenProperties
<1>2. /\ a \o b \in Seq(S) /\ Len(a \o b) = Len(a) + Len(b)
      /\ \A i \in 1 .. Len(a \o b) : (a \o b)[i] = IF i <= Len(a) THEN a[i] ELSE b[i - Len(a)]
  BY ConcatProperties
<1>3. a \o b # << >>
  BY <1>1, <1>2, EmptySeq
<1>4. /\ Tail(a \o b) \in Seq(S) /\ Len(Tail(a \o b)) = Len(a) + Len(b) - 1
      /\ \A i \in 1 .. Len(Tail(a \o b)) : Tail(a \o b)[i] = (a \o b)[i + 1]
      /\ Head(a \o b) = (a \o b)[1]
  BY <1>2, <1>3, HeadTailProperties
<1>5. /\ Tail(a) \o b \in Seq(S) /\ Len(Tail(a) \o b) = Len(a) + Len(b) - 1
      /\ \A i \in 1 .. Len(Tail(a) \o b) : (Tail(a) \o b)[i] =
           IF i <= Len(a) - 1 THEN Tail(a)[i] ELSE b[i - (Len(a) - 1)]
  BY <1>1, ConcatProperties
<1>6. ASSUME NEW i \in 1 .. Len(Tail(a) \o b) PROVE (Tail(a) \o b)[i] = Tail(a \o b)[i]
  BY <1>1, <1>2, <1>4, <1>5
<1>7. Tail(a) \o b = Tail(a \o b)
  BY <1>4, <1>5, <1>6, SeqEqual
<1>8. Head(a \o b) = Head(a)
  BY <1>1, <1>2, <1>4
<1>9. QED
  BY <1>3, <1>7, <1>8

(* Appending to the last part of a concatenation appends to the whole.     *)
LEMMA AppendConcat ==
    ASSUME NEW S, NEW a \in Seq(S), NEW b \in Seq(S), NEW e \in S
    PROVE  a \o Append(b, e) = Append(a \o b, e)
<1>1. /\ Append(b, e) \in Seq(S) /\ Len(Append(b, e)) = Len(b) + 1
      /\ Append(b, e)[Len(b) + 1] = e
      /\ \A i \in 1 .. Len(b) : Append(b, e)[i] = b[i]
      /\ Len(a) \in Nat /\ Len(b) \in Nat
  BY AppendProperties, LenProperties
<1>2. /\ a \o b \in Seq(S) /\ Len(a \o b) = Len(a) + Len(b)
      /\ \A i \in 1 .. Len(a \o b) : (a \o b)[i] = IF i <= Len(a) THEN a[i] ELSE b[i - Len(a)]
  BY ConcatProperties
<1>3. /\ Append(a \o b, e) \in Seq(S) /\ Len(Append(a \o b, e)) = Len(a) + Len(b) + 1
      /\ Append(a \o b, e)[Len(a) + Len(b) + 1] = e
      /\ \A i \in 1 .. Len(a) + Len(b) : Append(a \o b, e)[i] = (a \o b)[i]
  BY <1>2, AppendProperties
<1>4. /\ a \o Append(b, e) \in Seq(S) /\ Len(a \o Append(b, e)) = Len(a) + Len(b) + 1
      /\ \A i \in 1 .. Len(a \o Append(b, e)) : (a \o Append(b, e))[i] =
           IF i <= Len(a) THEN a[i] ELSE Append(b, e)[i - Len(a)]
  BY <1>1, ConcatProperties
<1>5. ASSUME NEW i \in 1 .. Len(a \o Append(b, e))
      PROVE  (a \o Append(b, e))[i] = Append(a \o b, e)[i]
  <2>1. CASE i <= Len(a) + Len(b)
    BY <1>1, <1>2, <1>3, <1>4, <2>1
  <2>2. CASE i = Len(a) + Len(b) + 1
    BY <1>1, <1>3, <1>4, <2>2
  <2>3. QED
    BY <1>1, <1>4, <2>1, <2>2
<1>6. QED
  BY <1>3, <1>4, <1>5, SeqEqual

(* Three queues in a row, and the four ways in which messages move along   *)
(* them.  First, together they are a sequence.                             *)
LEMMA InARow ==
    ASSUME NEW S, NEW s \in Seq(S), NEW t \in Seq(S), NEW u \in Seq(S)
    PROVE  /\ s \o t \in Seq(S)
           /\ Row(s, t, u) \in Seq(S)
           /\ Len(Row(s, t, u)) = Len(s) + Len(t) + Len(u)
<1>1. s \o t \in Seq(S) /\ Len(s \o t) = Len(s) + Len(t)
  BY ConcatProperties
<1>2. QED
  BY <1>1, ConcatProperties DEF Row

(* A message may move from the second queue to the first.                  *)
LEMMA SecondToFirst ==
    ASSUME NEW S, NEW s \in Seq(S), NEW t \in Seq(S), NEW u, t # << >>
    PROVE  Row(Append(s, Head(t)), Tail(t), u) = Row(s, t, u)
BY Zenon, MoveHead DEF Row

(* A message may move from the third queue to the second.                  *)
LEMMA ThirdToSecond ==
    ASSUME NEW S, NEW s \in Seq(S), NEW t \in Seq(S), NEW u \in Seq(S), u # << >>
    PROVE  Row(s, Append(t, Head(u)), Tail(u)) = Row(s, t, u)
<1>1. Head(u) \in S
  BY HeadTailProperties
<1>2. s \o Append(t, Head(u)) = Append(s \o t, Head(u))
  BY <1>1, AppendConcat
<1>3. Append(s \o t, Head(u)) \o Tail(u) = s \o t \o u
  BY Zenon, InARow, MoveHead
<1>4. QED
  BY Zenon, <1>2, <1>3 DEF Row

(* A message may leave the first queue.                                    *)
LEMMA OutOfFirst ==
    ASSUME NEW S, NEW s \in Seq(S), NEW t \in Seq(S), NEW u \in Seq(S), s # << >>
    PROVE  /\ Row(s, t, u) # << >>
           /\ Head(Row(s, t, u)) = Head(s)
           /\ Row(Tail(s), t, u) = Tail(Row(s, t, u))
<1>1. s \o t # << >> /\ Head(s \o t) = Head(s) /\ Tail(s) \o t = Tail(s \o t)
  BY Zenon, TailConcat
<1>2. /\ s \o t \o u # << >> /\ Head(s \o t \o u) = Head(s \o t)
      /\ Tail(s \o t) \o u = Tail(s \o t \o u)
  BY Zenon, <1>1, InARow, TailConcat
<1>3. QED
  BY Zenon, <1>1, <1>2 DEF Row

(* A message may enter the third queue.                                    *)
LEMMA IntoThird ==
    ASSUME NEW S, NEW s \in Seq(S), NEW t \in Seq(S), NEW u \in Seq(S), NEW e \in S
    PROVE  Row(s, t, Append(u, e)) = Append(Row(s, t, u), e)
BY InARow, AppendConcat DEF Row

------------------------------------------------------------------------------
(* What a channel's part of the state consists of. *)
ChannelState(c) ==
    <<v[c], index[c], written[c], pop_requests[c], writer_send[c], writer_recv[c],
      reader_recv[c], reader_send[c], watermarks[c], out_of_order[c],
      data_wire[c], ack_wire[c]>>

(* A step on one channel leaves the others alone.                          *)
LEMMA OtherChannels ==
    ASSUME IInv, NEW c \in Channels, WriterStep(c) \/ ReaderStep(c) \/ Sockets(c),
           NEW d \in Channels, d # c
    PROVE  UNCHANGED ChannelState(d)
<1>1. /\ v \in [Channels -> Seq(BufferType)]
      /\ index \in [Channels -> Nat]
      /\ pop_requests \in [Channels -> SUBSET BufferIds]
      /\ written \in [Channels -> 0 .. NumBuffers]
      /\ watermarks \in [Channels -> -1 .. Half - 1]
      /\ out_of_order \in [Channels -> SUBSET BufferType]
  BY Zenon DEF IInv, TypeOK, WriterTypeOK, QueueTypeOK, ReaderTypeOK
<1>2. CASE Sockets(c)
  BY Zenon, <1>2, WireTypes DEF Sockets, WriterSocketSend, WriterSocketRecv,
     ReaderSocketSend, ReaderSocketRecv, readerVars, writerVars, queueVars, ChannelState
<1>3. CASE WriterStep(c)
  <2>1. UNCHANGED <<readerVars, linkVars>> /\ Writer(c)
    BY Zenon, <1>3 DEF WriterStep
  <2>2. CASE WriteBytes(c)
    BY Zenon, <1>1, <2>1, <2>2, WireTypes
       DEF WriteBytes, TryPush, readerVars, linkVars, ChannelState
  <2>3. CASE OutputLoop(c)
    BY Zenon, <1>1, <2>1, <2>3, WireTypes
       DEF OutputLoop, ScheduleNext, readerVars, linkVars, queueVars, ChannelState
  <2>4. CASE InputLoop(c)
    BY Zenon, <1>1, <2>1, <2>4, WireTypes
       DEF InputLoop, RequestPop, readerVars, linkVars, ChannelState
  <2>5. QED
    BY Zenon, <2>1, <2>2, <2>3, <2>4 DEF Writer
<1>4. CASE ReaderStep(c)
  BY Zenon, <1>1, <1>4, WireTypes
     DEF ReaderStep, Dispatch, DispatchStale, DispatchDuplicate, DispatchNew, DropAndAck,
         writerVars, queueVars, linkVars, ChannelState
<1>5. QED
  BY Zenon, <1>2, <1>3, <1>4

(* What is on its way depends on the channel's part of the state only.     *)
LEMMA ReliableFrame ==
    ASSUME NEW c \in Channels, ReliableInv(c), UNCHANGED ChannelState(c)
    PROVE  ReliableInv(c)'
<1>1. /\ v'[c] = v[c] /\ index'[c] = index[c] /\ written'[c] = written[c]
      /\ pop_requests'[c] = pop_requests[c] /\ out_of_order'[c] = out_of_order[c]
      /\ watermarks'[c] = watermarks[c]
      /\ writer_send'[c] = writer_send[c] /\ writer_recv'[c] = writer_recv[c]
      /\ reader_send'[c] = reader_send[c] /\ reader_recv'[c] = reader_recv[c]
      /\ data_wire'[c] = data_wire[c] /\ ack_wire'[c] = ack_wire[c]
  BY Zenon DEF ChannelState
<1>2. Popped(c)' = Popped(c) /\ Started(c)' = Started(c)
  BY Zenon, <1>1 DEF Popped, Started
<1>3. /\ AcksOnTheWay(c)' = AcksOnTheWay(c)
      /\ BuffersOnTheWay(c)' = BuffersOnTheWay(c)
  BY Zenon, <1>1 DEF AcksOnTheWay, BuffersOnTheWay
<1>4. QED
  BY Zenon, <1>1, <1>2, <1>3 DEF ReliableInv

(* The queues of a channel that are not empty, and what they hold.         *)
LEMMA WayTypes ==
    ASSUME IInv, NEW c \in Channels
    PROVE  /\ writer_recv[c] \in Seq(BufferIds) /\ ack_wire[c] \in Seq(BufferIds)
           /\ reader_send[c] \in Seq(BufferIds)
           /\ reader_recv[c] \in Seq(BufferType) /\ data_wire[c] \in Seq(BufferType)
           /\ writer_send[c] \in Seq(BufferType)
           /\ AcksOnTheWay(c) \in Seq(BufferIds) /\ Len(AcksOnTheWay(c)) \in Nat
           /\ BuffersOnTheWay(c) \in Seq(BufferType) /\ Len(BuffersOnTheWay(c)) \in Nat
<1>1. /\ writer_recv[c] \in Seq(BufferIds) /\ ack_wire[c] \in Seq(BufferIds)
      /\ reader_send[c] \in Seq(BufferIds)
      /\ reader_recv[c] \in Seq(BufferType) /\ data_wire[c] \in Seq(BufferType)
      /\ writer_send[c] \in Seq(BufferType)
  BY Zenon, WireTypes
<1>2. AcksOnTheWay(c) \in Seq(BufferIds) /\ BuffersOnTheWay(c) \in Seq(BufferType)
  BY Zenon, <1>1, InARow DEF AcksOnTheWay, BuffersOnTheWay
<1>3. Len(AcksOnTheWay(c)) \in Nat /\ Len(BuffersOnTheWay(c)) \in Nat
  BY <1>2, LenProperties
<1>4. QED
  BY Zenon, <1>1, <1>2, <1>3

(* The messages on their way are those in the three queues.                *)
LEMMA WayLengths ==
    ASSUME IInv, NEW c \in Channels
    PROVE  /\ Len(AcksOnTheWay(c)) = Len(writer_recv[c]) + Len(ack_wire[c]) + Len(reader_send[c])
           /\ Len(BuffersOnTheWay(c))
                = Len(reader_recv[c]) + Len(data_wire[c]) + Len(writer_send[c])
<1>1. Len(AcksOnTheWay(c)) = Len(writer_recv[c]) + Len(ack_wire[c]) + Len(reader_send[c])
  <2> DEFINE s == writer_recv[c]
             t == ack_wire[c]
             u == reader_send[c]
  <2>1. s \in Seq(BufferIds) /\ t \in Seq(BufferIds) /\ u \in Seq(BufferIds)
    BY Zenon, WayTypes
  <2> HIDE DEF s, t, u
  <2>2. Len(Row(s, t, u)) = Len(s) + Len(t) + Len(u)
    BY ONLY <2>1, InARow
  <2>3. QED
    BY Zenon, <2>2 DEF AcksOnTheWay, s, t, u
<1>2. Len(BuffersOnTheWay(c))
        = Len(reader_recv[c]) + Len(data_wire[c]) + Len(writer_send[c])
  <2> DEFINE s == reader_recv[c]
             t == data_wire[c]
             u == writer_send[c]
  <2>1. s \in Seq(BufferType) /\ t \in Seq(BufferType) /\ u \in Seq(BufferType)
    BY Zenon, WayTypes
  <2> HIDE DEF s, t, u
  <2>2. Len(Row(s, t, u)) = Len(s) + Len(t) + Len(u)
    BY ONLY <2>1, InARow
  <2>3. QED
    BY Zenon, <2>2 DEF BuffersOnTheWay, s, t, u
<1>3. QED
  BY Zenon, <1>1, <1>2

(* The IO threads move messages along without changing their order.        *)
LEMMA SocketsReliable ==
    ASSUME IInv, NEW c \in Channels, ReliableInv(c), Sockets(c)
    PROVE  ReliableInv(c)'
<1>1. UNCHANGED <<v, index, written, pop_requests, watermarks, out_of_order>>
  BY Zenon DEF Sockets, WriterSocketSend, WriterSocketRecv, ReaderSocketSend,
     ReaderSocketRecv, readerVars, writerVars, queueVars
<1>2. AcksOnTheWay(c)' = AcksOnTheWay(c) /\ BuffersOnTheWay(c)' = BuffersOnTheWay(c)
  <2>1. CASE WriterSocketSend(c)
    <3>1. /\ writer_send[c] # << >>
          /\ data_wire'[c] = Append(data_wire[c], Head(writer_send[c]))
          /\ writer_send'[c] = Tail(writer_send[c])
          /\ reader_recv' = reader_recv /\ writer_recv' = writer_recv
          /\ ack_wire' = ack_wire /\ reader_send' = reader_send
      BY Zenon, <2>1, WireTypes DEF WriterSocketSend, readerVars
    <3>2. Row(reader_recv[c], Append(data_wire[c], Head(writer_send[c])), Tail(writer_send[c]))
            = BuffersOnTheWay(c)
      BY Zenon, <3>1, WayTypes, ThirdToSecond DEF BuffersOnTheWay
    <3>3. QED
      BY Zenon, <3>1, <3>2 DEF AcksOnTheWay, BuffersOnTheWay
  <2>2. CASE ReaderSocketRecv(c)
    <3>1. /\ data_wire[c] # << >>
          /\ reader_recv'[c] = Append(reader_recv[c], Head(data_wire[c]))
          /\ data_wire'[c] = Tail(data_wire[c])
          /\ writer_send' = writer_send /\ writer_recv' = writer_recv
          /\ ack_wire' = ack_wire /\ reader_send' = reader_send
      BY Zenon, <2>2, WireTypes DEF ReaderSocketRecv, writerVars
    <3>2. Row(Append(reader_recv[c], Head(data_wire[c])), Tail(data_wire[c]), writer_send[c])
            = BuffersOnTheWay(c)
      BY Zenon, <3>1, WayTypes, SecondToFirst DEF BuffersOnTheWay
    <3>3. QED
      BY Zenon, <3>1, <3>2 DEF AcksOnTheWay, BuffersOnTheWay
  <2>3. CASE ReaderSocketSend(c)
    <3>1. /\ reader_send[c] # << >>
          /\ ack_wire'[c] = Append(ack_wire[c], Head(reader_send[c]))
          /\ reader_send'[c] = Tail(reader_send[c])
          /\ writer_send' = writer_send /\ writer_recv' = writer_recv
          /\ data_wire' = data_wire /\ reader_recv' = reader_recv
      BY Zenon, <2>3, WireTypes DEF ReaderSocketSend, writerVars
    <3>2. Row(writer_recv[c], Append(ack_wire[c], Head(reader_send[c])), Tail(reader_send[c]))
            = AcksOnTheWay(c)
      <4>1. /\ writer_recv[c] \in Seq(BufferIds) /\ ack_wire[c] \in Seq(BufferIds)
            /\ reader_send[c] \in Seq(BufferIds)
        BY Zenon, WayTypes
      <4>2. Row(writer_recv[c], Append(ack_wire[c], Head(reader_send[c])), Tail(reader_send[c]))
              = Row(writer_recv[c], ack_wire[c], reader_send[c])
        BY ONLY Zenon, <3>1, <4>1, ThirdToSecond
      <4>3. QED
        BY Zenon, <4>2 DEF AcksOnTheWay
    <3>3. QED
      BY Zenon, <3>1, <3>2 DEF AcksOnTheWay, BuffersOnTheWay
  <2>4. CASE WriterSocketRecv(c)
    <3>1. /\ ack_wire[c] # << >>
          /\ writer_recv'[c] = Append(writer_recv[c], Head(ack_wire[c]))
          /\ ack_wire'[c] = Tail(ack_wire[c])
          /\ writer_send' = writer_send /\ reader_send' = reader_send
          /\ data_wire' = data_wire /\ reader_recv' = reader_recv
      BY Zenon, <2>4, WireTypes DEF WriterSocketRecv, readerVars
    <3>2. Row(Append(writer_recv[c], Head(ack_wire[c])), Tail(ack_wire[c]), reader_send[c])
            = AcksOnTheWay(c)
      BY Zenon, <3>1, WayTypes, SecondToFirst DEF AcksOnTheWay
    <3>3. QED
      BY Zenon, <3>1, <3>2 DEF AcksOnTheWay, BuffersOnTheWay
  <2>5. QED
    BY Zenon, <2>1, <2>2, <2>3, <2>4 DEF Sockets
<1>3. Popped(c)' = Popped(c) /\ Started(c)' = Started(c)
  BY Zenon, <1>1 DEF Popped, Started
<1>4. QED
  BY Zenon, <1>1, <1>2, <1>3 DEF ReliableInv

(* Of consecutive acks from p on, the first is p and the others follow.    *)
LEMMA TakeAck ==
    ASSUME NEW S, NEW s \in Seq(S), NEW p \in Int, s # << >>,
           \A i \in 1 .. Len(s) : s[i] = p + i - 1
    PROVE  /\ Head(s) = p /\ Len(Tail(s)) = Len(s) - 1
           /\ \A i \in 1 .. Len(Tail(s)) : Tail(s)[i] = (p + 1) + i - 1
<1>1. /\ Len(s) \in Nat \ {0} /\ Head(s) = s[1] /\ Len(Tail(s)) = Len(s) - 1
      /\ \A i \in 1 .. Len(Tail(s)) : Tail(s)[i] = s[i + 1]
  BY HeadTailProperties, EmptySeq
<1>2. Head(s) = p
  BY <1>1
<1>3. ASSUME NEW i \in 1 .. Len(Tail(s)) PROVE Tail(s)[i] = (p + 1) + i - 1
  <2>1. i + 1 \in 1 .. Len(s) /\ p + (i + 1) = (p + 1) + i
    BY <1>1
  <2>2. QED
    BY <1>1, <2>1
<1>4. QED
  BY <1>1, <1>2, <1>3

(* The next ack may be put behind them.                                    *)
LEMMA PutAck ==
    ASSUME NEW S, NEW s \in Seq(S), NEW p \in Int,
           \A i \in 1 .. Len(s) : s[i] = p + i - 1,
           NEW e \in S, e = p + Len(s)
    PROVE  /\ Len(Append(s, e)) = Len(s) + 1
           /\ \A i \in 1 .. Len(Append(s, e)) : Append(s, e)[i] = p + i - 1
<1>1. /\ Len(Append(s, e)) = Len(s) + 1 /\ Append(s, e)[Len(s) + 1] = e
      /\ \A i \in 1 .. Len(s) : Append(s, e)[i] = s[i]
      /\ Len(s) \in Nat
  BY AppendProperties, LenProperties
<1>2. ASSUME NEW i \in 1 .. Len(Append(s, e)) PROVE Append(s, e)[i] = p + i - 1
  <2>1. CASE i = Len(s) + 1
    <3>1. p + i - 1 = p + Len(s)
      BY ONLY <1>1, <2>1, p \in Int
    <3>2. QED
      BY <1>1, <2>1, <3>1
  <2>2. CASE i \in 1 .. Len(s)
    BY <1>1, <2>2
  <2>3. QED
    BY <1>1, <2>1, <2>2
<1>3. QED
  BY <1>1, <1>2

(* Of consecutive buffers above p, the first is p + 1 and the others       *)
(* follow.                                                                 *)
LEMMA TakeBuffer ==
    ASSUME NEW S, NEW s \in Seq(S), NEW p \in Int, s # << >>,
           \A i \in 1 .. Len(s) : s[i] = Numbered(p + i)
    PROVE  /\ Head(s) = Numbered(p + 1) /\ Len(Tail(s)) = Len(s) - 1
           /\ \A i \in 1 .. Len(Tail(s)) : Tail(s)[i] = Numbered((p + 1) + i)
<1>1. /\ Len(s) \in Nat \ {0} /\ Head(s) = s[1] /\ Len(Tail(s)) = Len(s) - 1
      /\ \A i \in 1 .. Len(Tail(s)) : Tail(s)[i] = s[i + 1]
  BY HeadTailProperties, EmptySeq
<1>2. Head(s) = Numbered(p + 1)
  BY <1>1
<1>3. ASSUME NEW i \in 1 .. Len(Tail(s)) PROVE Tail(s)[i] = Numbered((p + 1) + i)
  <2>1. i + 1 \in 1 .. Len(s) /\ p + (i + 1) = (p + 1) + i
    BY <1>1
  <2>2. QED
    BY <1>1, <2>1
<1>4. QED
  BY <1>1, <1>2, <1>3

(* The next buffer may be put behind them.                                 *)
LEMMA PutBuffer ==
    ASSUME NEW S, NEW s \in Seq(S), NEW p \in Int,
           \A i \in 1 .. Len(s) : s[i] = Numbered(p + i),
           NEW e \in S, e = Numbered(p + Len(s) + 1)
    PROVE  /\ Len(Append(s, e)) = Len(s) + 1
           /\ \A i \in 1 .. Len(Append(s, e)) : Append(s, e)[i] = Numbered(p + i)
<1>1. /\ Len(Append(s, e)) = Len(s) + 1 /\ Append(s, e)[Len(s) + 1] = e
      /\ \A i \in 1 .. Len(s) : Append(s, e)[i] = s[i]
      /\ Len(s) \in Nat
  BY AppendProperties, LenProperties
<1>2. ASSUME NEW i \in 1 .. Len(Append(s, e)) PROVE Append(s, e)[i] = Numbered(p + i)
  <2>1. CASE i = Len(s) + 1
    <3>1. p + i = p + Len(s) + 1
      BY ONLY <1>1, <2>1, p \in Int
    <3>2. QED
      BY <1>1, <2>1, <3>1
  <2>2. CASE i \in 1 .. Len(s)
    BY <1>1, <2>2
  <2>3. QED
    BY <1>1, <2>1, <2>2
<1>3. QED
  BY <1>1, <1>2

(* A successful write_bytes adds to the unscheduled part of the queue.     *)
LEMMA WriteReliable ==
    ASSUME IInv, NEW c \in Channels, ReliableInv(c), WriteBytes(c),
           UNCHANGED <<readerVars, linkVars>>
    PROVE  ReliableInv(c)'
<1>1. /\ v' = [v EXCEPT ![c] = Append(@, NewBufferWithMeta(buffer_id_seq[c], written[c]))]
      /\ written' = [written EXCEPT ![c] = @ + 1]
      /\ index' = index /\ pop_requests' = pop_requests
      /\ writer_send' = writer_send /\ writer_recv' = writer_recv
      /\ watermarks' = watermarks /\ out_of_order' = out_of_order
      /\ reader_recv' = reader_recv /\ reader_send' = reader_send
      /\ data_wire' = data_wire /\ ack_wire' = ack_wire
  BY Zenon DEF WriteBytes, TryPush, readerVars, linkVars
<1>2. /\ v \in [Channels -> Seq(BufferType)] /\ written \in [Channels -> 0 .. NumBuffers]
      /\ buffer_id_seq[c] = written[c]
  BY Zenon DEF IInv, TypeOK, WriterTypeOK, QueueTypeOK, QueueInv
<1>3. written[c] \in Nat /\ Len(v[c]) \in Nat
  BY Zenon, Bounds
<1>4. written'[c] = written[c] + 1
  BY Zenon, <1>1, <1>2
<1>5. Len(v'[c]) = Len(v[c]) + 1
  <2> DEFINE e == NewBufferWithMeta(buffer_id_seq[c], written[c])
  <2>1. v'[c] = Append(v[c], e)
    BY Zenon, <1>1, <1>2
  <2> HIDE DEF e
  <2>2. v[c] \in Seq(BufferType \cup {e}) /\ e \in BufferType \cup {e}
    BY <1>2, SeqMonotonic
  <2>3. Len(Append(v[c], e)) = Len(v[c]) + 1
    BY <2>2, AppendProperties
  <2>4. QED
    BY Zenon, <2>1, <2>3
<1>6. Popped(c)' = Popped(c)
  BY ONLY <1>3, <1>4, <1>5 DEF Popped
<1>7. Started(c)' = Started(c)
  BY Zenon, <1>1, <1>6 DEF Started
<1>8. AcksOnTheWay(c)' = AcksOnTheWay(c) /\ BuffersOnTheWay(c)' = BuffersOnTheWay(c)
  BY Zenon, <1>1 DEF AcksOnTheWay, BuffersOnTheWay
<1>9. QED
  BY Zenon, <1>1, <1>6, <1>7, <1>8 DEF ReliableInv

(* The buffer the output loop sends is the next after those on their way.  *)
LEMMA OutputReliable ==
    ASSUME IInv, NEW c \in Channels, ReliableInv(c), OutputLoop(c),
           UNCHANGED <<readerVars, linkVars>>
    PROVE  ReliableInv(c)'
<1>1. /\ watermarks' = watermarks /\ out_of_order' = out_of_order
      /\ reader_recv' = reader_recv /\ reader_send' = reader_send
      /\ data_wire' = data_wire /\ ack_wire' = ack_wire
  BY Zenon DEF readerVars, linkVars
<1>2. CASE UNCHANGED <<queueVars, written, in_flight, writer_send, writer_recv>>
  BY Zenon, <1>1, <1>2, ReliableFrame DEF queueVars, ChannelState
<1>3. CASE SendsNext(c)
  <2>1. /\ v' = v /\ written' = written /\ pop_requests' = pop_requests
        /\ writer_recv' = writer_recv /\ CanSchedule(c)
    BY Zenon, <1>3 DEF SendsNext
  <2>2. writer_send'[c] = Append(writer_send[c], Scheduled(c)) /\ index'[c] = index[c] + 1
    BY Zenon, <1>3, WireTypes DEF SendsNext, IInv, TypeOK, WriterTypeOK, QueueTypeOK
  <2>3. Scheduled(c) = Numbered(Started(c)) /\ Scheduled(c) \in BufferType
    BY Zenon, <2>1, ScheduledFacts
  <2>4. Popped(c)' = Popped(c)
    BY Zenon, <2>1 DEF Popped
  <2>5. Started(c)' = Started(c) + 1
    <3>1. Popped(c) \in Nat /\ index[c] \in Nat
      BY Zenon, Bounds
    <3>2. QED
      BY ONLY <2>2, <2>4, <3>1 DEF Started
  <2>6. AcksOnTheWay(c)' = AcksOnTheWay(c)
    BY Zenon, <1>1, <2>1 DEF AcksOnTheWay
  <2>7. BuffersOnTheWay(c)' = Append(BuffersOnTheWay(c), Scheduled(c))
    <3> DEFINE R == reader_recv[c]
               D == data_wire[c]
               W == writer_send[c]
               e == Scheduled(c)
    <3>1. R \in Seq(BufferType) /\ D \in Seq(BufferType) /\ W \in Seq(BufferType)
          /\ e \in BufferType
      BY Zenon, <2>3, WayTypes
    <3> HIDE DEF R, D, W, e
    <3>2. Row(R, D, Append(W, e)) = Append(Row(R, D, W), e)
      BY ONLY <3>1, IntoThird
    <3>3. QED
      BY Zenon, <1>1, <2>2, <3>2 DEF BuffersOnTheWay, R, D, W, e
  <2> DEFINE B == BuffersOnTheWay(c)
             e == Scheduled(c)
             wm == watermarks[c]
  <2>8. /\ B \in Seq(BufferType) /\ Len(B) \in Nat /\ wm \in Int /\ e \in BufferType
        /\ \A i \in 1 .. Len(B) : B[i] = Numbered(wm + i)
        /\ Started(c) = wm + Len(B) + 1
    BY Zenon, <2>3, WayTypes, Bounds DEF ReliableInv
  <2>9. e = Numbered(wm + Len(B) + 1)
    BY Zenon, <2>3, <2>8
  <2> HIDE DEF B, e, wm
  <2>10. /\ Len(Append(B, e)) = Len(B) + 1
         /\ \A i \in 1 .. Len(Append(B, e)) : Append(B, e)[i] = Numbered(wm + i)
    BY ONLY SMT, <2>8, <2>9, PutBuffer
  <2>11. Started(c)' = wm + Len(Append(B, e)) + 1
    BY ONLY <2>5, <2>8, <2>10
  <2>12. /\ \A i \in 1 .. Len(BuffersOnTheWay(c)') :
              BuffersOnTheWay(c)'[i] = Numbered(watermarks'[c] + i)
         /\ Started(c)' = watermarks'[c] + Len(BuffersOnTheWay(c)') + 1
    BY Zenon, <1>1, <2>7, <2>10, <2>11 DEF B, e, wm
  <2>13. QED
    BY Zenon, <1>1, <2>1, <2>4, <2>6, <2>12 DEF ReliableInv
<1>4. QED
  BY Zenon, <1>2, <1>3, OutputLoopSends

(* The acks that the input loop takes are the first on their way, and the  *)
(* buffers that the dispatcher takes likewise.                             *)
LEMMA FirstAck ==
    ASSUME IInv, NEW c \in Channels, writer_recv[c] # << >>
    PROVE  /\ AcksOnTheWay(c) # << >>
           /\ Head(AcksOnTheWay(c)) = Head(writer_recv[c])
           /\ Row(Tail(writer_recv[c]), ack_wire[c], reader_send[c]) = Tail(AcksOnTheWay(c))
<1> DEFINE s == writer_recv[c]
           t == ack_wire[c]
           u == reader_send[c]
<1>1. s \in Seq(BufferIds) /\ t \in Seq(BufferIds) /\ u \in Seq(BufferIds) /\ s # << >>
  BY Zenon, WayTypes
<1> HIDE DEF s, t, u
<1>2. /\ Row(s, t, u) # << >> /\ Head(Row(s, t, u)) = Head(s)
      /\ Row(Tail(s), t, u) = Tail(Row(s, t, u))
  BY ONLY <1>1, OutOfFirst
<1>3. QED
  BY Zenon, <1>2 DEF AcksOnTheWay, s, t, u

(* The dispatcher takes the first of the buffers on their way.             *)
LEMMA FirstBuffer ==
    ASSUME IInv, NEW c \in Channels, reader_recv[c] # << >>
    PROVE  /\ BuffersOnTheWay(c) # << >>
           /\ Head(BuffersOnTheWay(c)) = Head(reader_recv[c])
           /\ Row(Tail(reader_recv[c]), data_wire[c], writer_send[c])
                = Tail(BuffersOnTheWay(c))
<1> DEFINE s == reader_recv[c]
           t == data_wire[c]
           u == writer_send[c]
<1>1. s \in Seq(BufferType) /\ t \in Seq(BufferType) /\ u \in Seq(BufferType) /\ s # << >>
  BY Zenon, WayTypes
<1> HIDE DEF s, t, u
<1>2. /\ Row(s, t, u) # << >> /\ Head(Row(s, t, u)) = Head(s)
      /\ Row(Tail(s), t, u) = Tail(Row(s, t, u))
  BY ONLY <1>1, OutOfFirst
<1>3. QED
  BY Zenon, <1>2 DEF BuffersOnTheWay, s, t, u

(* With consecutive acks request_pop pops exactly the oldest buffer.       *)
LEMMA PopsOldest ==
    ASSUME IInv, NEW c \in Channels, ReliableInv(c), writer_recv[c] # << >>,
           RequestPop(c, Head(writer_recv[c]))
    PROVE  /\ pop_requests' = [pop_requests EXCEPT ![c] = {}]
           /\ index' = [index EXCEPT ![c] = @ - 1]
           /\ v' = [v EXCEPT ![c] = SubSeq(@, 2, Len(@))]
           /\ Len(v[c]) > 0
<1> DEFINE A == AcksOnTheWay(c)
           id == Head(writer_recv[c])
           P == Popped(c)
<1>1. A \in Seq(BufferIds) /\ Len(A) \in Nat /\ P \in Nat /\ Len(v[c]) \in Nat
  BY Zenon, WayTypes, Bounds
<1>2. A # << >> /\ Head(A) = id
  BY Zenon, FirstAck
<1>3. \A i \in 1 .. Len(A) : A[i] = P + i - 1
  BY Zenon DEF ReliableInv
<1>4. id = P
  <2> HIDE DEF A, id, P
  <2>1. P \in Int
    BY ONLY <1>1
  <2>2. QED
    BY Zenon, <1>1, <1>2, <1>3, <2>1, TakeAck
<1>5. Len(v[c]) > 0
  <2>1. Len(A) > 0
    BY <1>1, <1>2, EmptySeq
  <2>2. /\ watermarks[c] = P + Len(A) - 1 /\ Started(c) = watermarks[c] + Len(BuffersOnTheWay(c)) + 1
        /\ Len(BuffersOnTheWay(c)) \in Nat /\ Started(c) = P + index[c] /\ index[c] \in 0 .. Len(v[c])
    BY Zenon, WayTypes DEF ReliableInv, Started, IInv, QueueInv
  <2> HIDE DEF A, P
  <2>3. QED
    BY ONLY <1>1, <2>1, <2>2
<1>6. ASSUME NEW i \in 1 .. Len(v[c]) PROVE v[c][i].id = P + i - 1
  <2>1. v[c][i] = Numbered(P + i - 1)
    BY Zenon DEF IInv, QueueInv
  <2>2. Numbered(P + i - 1).id = P + i - 1
    BY ONLY TRUE DEF Numbered, NewBufferWithMeta
  <2>3. QED
    BY Zenon, <2>1, <2>2
<1>7. pop_requests[c] \cup {id} = {P}
  BY <1>4 DEF ReliableInv
<1>8. PICK n \in 0 .. Len(v[c]) :
        /\ {v[c][i].id : i \in 1 .. n} \subseteq {P}
        /\ n < Len(v[c]) => v[c][n + 1].id \notin {P}
        /\ v' = [v EXCEPT ![c] = SubSeq(@, n + 1, Len(@))]
        /\ index' = [index EXCEPT ![c] = @ - n]
        /\ pop_requests' = [pop_requests EXCEPT ![c] = {P} \ {v[c][i].id : i \in 1 .. n}]
  <2> HIDE DEF P
  <2>1. QED
    BY Zenon, <1>7 DEF RequestPop
<1> HIDE DEF A, id, P
<1>9. n # 0
  <2>1. SUFFICES ASSUME n = 0 PROVE FALSE
    OBVIOUS
  <2>2. n < Len(v[c]) /\ n + 1 \in 1 .. Len(v[c]) /\ P + (n + 1) - 1 = P
    BY ONLY <1>1, <1>5, <2>1
  <2>3. v[c][n + 1].id = P
    BY Zenon, <1>6, <2>2
  <2>4. QED
    BY Zenon, <1>8, <2>2, <2>3
<1>10. n < 2
  <2>1. SUFFICES ASSUME n >= 2 PROVE FALSE
    BY <1>1
  <2>2. 2 \in 1 .. n /\ 2 \in 1 .. Len(v[c]) /\ P + 2 - 1 # P
    BY ONLY <1>1, <2>1, n \in 0 .. Len(v[c])
  <2>3. v[c][2].id = P + 2 - 1
    BY Zenon, <1>6, <2>2
  <2>4. v[c][2].id \in {P}
    BY Zenon, <1>8, <2>2
  <2>5. QED
    BY Zenon, <2>2, <2>3, <2>4
<1>11. n = 1 /\ n + 1 = 2
  BY ONLY <1>1, <1>9, <1>10, n \in 0 .. Len(v[c])
<1>12. {P} \ {v[c][i].id : i \in 1 .. n} = {}
  <2>1. 1 \in 1 .. n /\ 1 \in 1 .. Len(v[c]) /\ P + 1 - 1 = P
    BY ONLY <1>1, <1>5, <1>11
  <2>2. v[c][1].id = P
    BY Zenon, <1>6, <2>1
  <2>3. QED
    BY Zenon, <2>1, <2>2
<1>13. QED
  BY Zenon, <1>5, <1>8, <1>11, <1>12

(* An ack that the input loop takes is that of the oldest buffer.          *)
LEMMA InputReliable ==
    ASSUME IInv, NEW c \in Channels, ReliableInv(c), InputLoop(c),
           UNCHANGED <<readerVars, linkVars>>
    PROVE  ReliableInv(c)'
<1>1. /\ writer_recv[c] # << >>
      /\ RequestPop(c, Head(writer_recv[c]))
      /\ writer_recv' = [writer_recv EXCEPT ![c] = Tail(@)]
      /\ written' = written /\ writer_send' = writer_send
      /\ watermarks' = watermarks /\ out_of_order' = out_of_order
      /\ reader_recv' = reader_recv /\ reader_send' = reader_send
      /\ data_wire' = data_wire /\ ack_wire' = ack_wire
  BY Zenon DEF InputLoop, readerVars, linkVars
<1>2. /\ pop_requests'[c] = {} /\ index'[c] = index[c] - 1
      /\ v'[c] = SubSeq(v[c], 2, Len(v[c])) /\ writer_recv'[c] = Tail(writer_recv[c])
      /\ v[c] \in Seq(BufferType)
  <2>1. /\ pop_requests' = [pop_requests EXCEPT ![c] = {}]
        /\ index' = [index EXCEPT ![c] = @ - 1]
        /\ v' = [v EXCEPT ![c] = SubSeq(@, 2, Len(@))]
    BY Zenon, <1>1, PopsOldest
  <2>2. /\ pop_requests \in [Channels -> SUBSET BufferIds] /\ index \in [Channels -> Nat]
        /\ v \in [Channels -> Seq(BufferType)] /\ writer_recv \in [Channels -> Seq(BufferIds)]
    BY Zenon, WireTypes DEF IInv, TypeOK, WriterTypeOK, QueueTypeOK
  <2>3. QED
    BY Zenon, <1>1, <2>1, <2>2
<1>3. /\ Popped(c) \in Nat /\ index[c] \in Nat /\ Len(v[c]) \in Nat /\ written[c] \in Nat
      /\ Len(v[c]) > 0
  BY Zenon, <1>1, Bounds, PopsOldest
<1>4. Len(v'[c]) = Len(v[c]) - 1
  BY <1>2, <1>3, SubSeqProperties
<1>5. Popped(c)' = Popped(c) + 1
  BY ONLY <1>1, <1>3, <1>4 DEF Popped
<1>6. Started(c)' = Started(c)
  <2>1. index'[c] = index[c] - 1
    BY <1>2
  <2>2. QED
    BY ONLY <1>3, <1>5, <2>1 DEF Started
<1> DEFINE A == AcksOnTheWay(c)
           P == Popped(c)
<1>7. A # << >> /\ AcksOnTheWay(c)' = Tail(A)
  <2>1. /\ A # << >>
        /\ Row(Tail(writer_recv[c]), ack_wire[c], reader_send[c]) = Tail(A)
    BY Zenon, <1>1, FirstAck
  <2>2. QED
    BY Zenon, <1>1, <1>2, <2>1 DEF AcksOnTheWay
<1>8. BuffersOnTheWay(c)' = BuffersOnTheWay(c)
  BY Zenon, <1>1 DEF BuffersOnTheWay
<1>9. /\ A \in Seq(BufferIds) /\ Len(A) \in Nat /\ P \in Int
      /\ \A i \in 1 .. Len(A) : A[i] = P + i - 1
      /\ watermarks[c] = P + Len(A) - 1
  BY <1>3, WayTypes DEF ReliableInv
<1> HIDE DEF A, P
<1>10. /\ Len(Tail(A)) = Len(A) - 1
       /\ \A i \in 1 .. Len(Tail(A)) : Tail(A)[i] = (P + 1) + i - 1
  BY Zenon, <1>7, <1>9, TakeAck
<1>11. watermarks[c] = (P + 1) + Len(Tail(A)) - 1
  <2> DEFINE l == Len(Tail(A))
  <2>1. Len(A) \in Nat /\ P \in Int /\ watermarks[c] = P + Len(A) - 1 /\ l = Len(A) - 1
    BY Zenon, <1>9, <1>10
  <2> HIDE DEF l
  <2>2. watermarks[c] = (P + 1) + l - 1
    BY ONLY <2>1
  <2>3. QED
    BY Zenon, <2>2 DEF l
<1>12. /\ \A i \in 1 .. Len(AcksOnTheWay(c)') : AcksOnTheWay(c)'[i] = Popped(c)' + i - 1
       /\ watermarks'[c] = Popped(c)' + Len(AcksOnTheWay(c)') - 1
  BY Zenon, <1>1, <1>5, <1>7, <1>10, <1>11 DEF P
<1>13. QED
  BY Zenon, <1>1, <1>2, <1>6, <1>8, <1>12 DEF ReliableInv

(* A buffer that arrives in order is the only one stored, so the drain     *)
(* moves exactly this one.                                                 *)
LEMMA DrainsOne ==
    ASSUME IInv, NEW c \in Channels, ReliableInv(c), DispatchNew(c),
           Received(c) = Numbered(watermarks[c] + 1)
    PROVE  Drains(c, 1) /\ Waiting(c) = {Numbered(watermarks[c] + 1)}
<1> DEFINE wm == watermarks[c]
<1>1. PICK n \in Nat : Drains(c, n)
  BY Zenon, DispatchNewDrains
<1>2. Waiting(c) = {Numbered(wm + 1)}
  BY DEF Waiting, ReliableInv
<1>3. wm \in Int /\ Len(out_queue) \in Nat
  BY Zenon, Bounds, LenProperties DEF IInv, TypeOK, ReaderTypeOK
<1> HIDE DEF wm
<1>4. n # 0
  <2>1. SUFFICES ASSUME n = 0 PROVE FALSE
    OBVIOUS
  <2>2. wm + n + 1 = wm + 1 /\ Len(out_queue) + n = Len(out_queue)
    BY ONLY <1>3, <2>1
  <2>3. /\ Len(out_queue) # OutputQueueSize
        /\ Len(out_queue) + n = OutputQueueSize \/ Numbered(wm + n + 1) \notin Waiting(c)
    BY Zenon, <1>1 DEF Drains, wm
  <2>4. QED
    BY Zenon, <1>2, <2>2, <2>3
<1>5. n < 2
  <2>1. SUFFICES ASSUME n >= 2 PROVE FALSE
    OBVIOUS
  <2>2. 2 \in 1 .. n /\ wm + 2 # wm + 1
    BY ONLY <1>3, <2>1, n \in Nat
  <2>3. Numbered(wm + 2) \in Waiting(c)
    BY Zenon, <1>1, <2>2 DEF Drains, wm
  <2>4. Numbered(wm + 2).id = wm + 2 /\ Numbered(wm + 1).id = wm + 1
    BY ONLY TRUE DEF Numbered, NewBufferWithMeta
  <2>5. QED
    BY Zenon, <1>2, <2>2, <2>3, <2>4
<1>6. n = 1
  BY ONLY <1>4, <1>5, n \in Nat
<1>7. QED
  BY Zenon, <1>1, <1>2, <1>6 DEF wm

(* The dispatcher finds the next buffer in order, moves it to out_queue    *)
(* and acknowledges it: it becomes the last ack on its way.                *)
LEMMA DispatchReliable ==
    ASSUME IInv, NEW c \in Channels, ReliableInv(c), Dispatch(c),
           UNCHANGED <<writerVars, linkVars>>
    PROVE  ReliableInv(c)'
<1> DEFINE A == AcksOnTheWay(c)
           B == BuffersOnTheWay(c)
           wm == watermarks[c]
           P == Popped(c)
<1>1. CanDispatch(c) /\ reader_recv[c] # << >>
  BY Zenon DEF Dispatch, DispatchStale, DispatchDuplicate, DispatchNew, CanDispatch
<1>2. /\ pop_requests' = pop_requests /\ v' = v /\ index' = index /\ written' = written
      /\ writer_send' = writer_send /\ writer_recv' = writer_recv
      /\ data_wire' = data_wire /\ ack_wire' = ack_wire
  BY Zenon DEF writerVars, queueVars, linkVars
<1>3. /\ A \in Seq(BufferIds) /\ Len(A) \in Nat /\ B \in Seq(BufferType) /\ Len(B) \in Nat
      /\ wm \in Int /\ P \in Int
  BY WayTypes, Bounds
<1>4. /\ \A i \in 1 .. Len(A) : A[i] = P + i - 1
      /\ wm = P + Len(A) - 1
      /\ \A i \in 1 .. Len(B) : B[i] = Numbered(wm + i)
      /\ Started(c) = wm + Len(B) + 1
      /\ out_of_order[c] = {} /\ pop_requests[c] = {}
  BY Zenon DEF ReliableInv
<1>5. /\ B # << >> /\ Head(B) = Received(c)
      /\ Row(Tail(reader_recv[c]), data_wire[c], writer_send[c]) = Tail(B)
  BY Zenon, <1>1, FirstBuffer DEF Received
<1> HIDE DEF A, B, wm, P
<1>6. /\ Received(c) = Numbered(wm + 1) /\ Len(Tail(B)) = Len(B) - 1
      /\ \A i \in 1 .. Len(Tail(B)) : Tail(B)[i] = Numbered((wm + 1) + i)
  <2>1. /\ B \in Seq(BufferType) /\ wm \in Int /\ B # << >>
        /\ \A i \in 1 .. Len(B) : B[i] = Numbered(wm + i)
    BY Zenon, <1>3, <1>4, <1>5
  <2>2. /\ Head(B) = Numbered(wm + 1) /\ Len(Tail(B)) = Len(B) - 1
        /\ \A i \in 1 .. Len(Tail(B)) : Tail(B)[i] = Numbered((wm + 1) + i)
    BY ONLY Zenon, <2>1, TakeBuffer
  <2>3. QED
    BY Zenon, <1>5, <2>2
<1>7. Received(c).id = wm + 1 /\ Key(Received(c)) = wm + 1 /\ wm + 1 \in BufferIds
  <2>1. Numbered(wm + 1).id = wm + 1
    BY ONLY TRUE DEF Numbered, NewBufferWithMeta
  <2>2. Received(c) \in BufferType /\ Key(Received(c)) = Received(c).id
    BY Zenon, <1>1, ReceivedFacts
  <2>3. Received(c).id \in BufferIds
    BY ONLY <2>2 DEF BufferType
  <2>4. QED
    BY Zenon, <1>6, <2>1, <2>2, <2>3
<1>8. DispatchNew(c)
  <2>1. ~DispatchStale(c)
    <3>1. ~(wm + 1 <= wm)
      BY ONLY <1>3
    <3>2. QED
      BY Zenon, <1>7, <3>1 DEF DispatchStale, wm
  <2>2. ~DispatchDuplicate(c)
    BY Zenon, <1>4 DEF DispatchDuplicate, Keys
  <2>3. QED
    BY Zenon, <2>1, <2>2 DEF Dispatch
<1>9. Drains(c, 1) /\ Waiting(c) = {Numbered(wm + 1)}
  BY Zenon, <1>6, <1>8, DrainsOne DEF wm
<1>10. reader_recv'[c] = Tail(reader_recv[c])
  BY Zenon, <1>8, WireTypes DEF DispatchNew
<1>11. watermarks'[c] = wm + 1
  BY Zenon, <1>9 DEF Drains, wm, IInv, TypeOK, ReaderTypeOK
<1>12. out_of_order'[c] = {}
  <2>1. out_of_order'[c] = {b \in Waiting(c) : b.id > wm + 1}
    BY Zenon, <1>9 DEF Drains, wm, IInv, TypeOK, ReaderTypeOK
  <2>2. ~(wm + 1 > wm + 1)
    BY ONLY <1>3
  <2>3. \A b \in Waiting(c) : b.id = wm + 1
    BY Zenon, <1>6, <1>7, <1>9
  <2>4. QED
    BY Zenon, <2>1, <2>2, <2>3
<1>13. reader_send'[c] = Append(reader_send[c], wm + 1)
  <2>1. reader_send'[c] = reader_send[c] \o [i \in 1 .. 1 |-> wm + i]
    BY Zenon, <1>9, WireTypes DEF Drains, wm
  <2>2. [i \in 1 .. 1 |-> wm + i] = <<wm + 1>>
    BY <1>3
  <2>3. Append(reader_send[c], wm + 1) = reader_send[c] \o <<wm + 1>>
    BY Zenon, <1>7, WayTypes, AppendIsConcat
  <2>4. QED
    BY Zenon, <2>1, <2>2, <2>3
<1>14. AcksOnTheWay(c)' = Append(A, wm + 1)
  <2> DEFINE s == writer_recv[c]
             t == ack_wire[c]
             u == reader_send[c]
             e == wm + 1
  <2>1. /\ s \in Seq(BufferIds) /\ t \in Seq(BufferIds) /\ u \in Seq(BufferIds)
        /\ e \in BufferIds
    BY Zenon, <1>7, WayTypes
  <2> HIDE DEF s, t, u, e
  <2>2. Row(s, t, Append(u, e)) = Append(Row(s, t, u), e)
    BY ONLY <2>1, IntoThird
  <2>3. QED
    BY Zenon, <1>2, <1>13, <2>2 DEF AcksOnTheWay, A, s, t, u, e
<1>15. BuffersOnTheWay(c)' = Tail(B)
  BY Zenon, <1>2, <1>5, <1>10 DEF BuffersOnTheWay
<1>16. Popped(c)' = P /\ Started(c)' = Started(c)
  BY Zenon, <1>2 DEF Popped, Started, P
<1>17. /\ Len(Append(A, wm + 1)) = Len(A) + 1
       /\ \A i \in 1 .. Len(Append(A, wm + 1)) : Append(A, wm + 1)[i] = P + i - 1
  <2> DEFINE e == wm + 1
  <2>1. e \in BufferIds /\ e = P + Len(A)
    BY <1>3, <1>4, <1>7
  <2>2. A \in Seq(BufferIds) /\ P \in Int /\ \A i \in 1 .. Len(A) : A[i] = P + i - 1
    BY Zenon, <1>3, <1>4
  <2> HIDE DEF e
  <2>3. /\ Len(Append(A, e)) = Len(A) + 1
        /\ \A i \in 1 .. Len(Append(A, e)) : Append(A, e)[i] = P + i - 1
    BY ONLY SMT, <2>1, <2>2, PutAck
  <2>4. QED
    BY Zenon, <2>3 DEF e
<1>18. /\ wm + 1 = P + Len(Append(A, wm + 1)) - 1
       /\ Started(c) = (wm + 1) + Len(Tail(B)) + 1
  <2> DEFINE l == Len(Append(A, wm + 1))
             m == Len(Tail(B))
  <2>1. /\ l = Len(A) + 1 /\ m = Len(B) - 1 /\ Len(A) \in Nat /\ Len(B) \in Nat
        /\ wm = P + Len(A) - 1 /\ Started(c) = wm + Len(B) + 1 /\ wm \in Int /\ P \in Int
    BY Zenon, <1>3, <1>4, <1>6, <1>17
  <2> HIDE DEF l, m
  <2>2. wm + 1 = P + l - 1 /\ Started(c) = (wm + 1) + m + 1
    BY ONLY <2>1
  <2>3. QED
    BY Zenon, <2>2 DEF l, m
<1>19. QED
  BY Zenon, <1>2, <1>4, <1>6, <1>11, <1>12, <1>14, <1>15, <1>16, <1>17, <1>18 DEF ReliableInv

------------------------------------------------------------------------------
(* As long as there was no fault, every step keeps the channels in order.  *)
LEMMA ReliableStep ==
    ASSUME IInv, Reliable, [Next]_vars
    PROVE  Reliable'
<1> SUFFICES ASSUME faults' = 0, NEW d \in Channels PROVE ReliableInv(d)'
  BY Zenon DEF Reliable
<1>1. faults = 0
  <2>1. faults' = faults \/ faults' = faults + 1
    <3>1. CASE UNCHANGED vars
      BY Zenon, <3>1 DEF vars, linkVars
    <3>2. CASE ReadStep
      BY Zenon, <3>2 DEF ReadStep, linkVars
    <3>3. ASSUME NEW c \in Channels, WriterStep(c) \/ ReaderStep(c)
          PROVE  faults' = faults
      BY Zenon, <3>3 DEF WriterStep, ReaderStep, linkVars
    <3>4. ASSUME NEW c \in Channels, Sockets(c) PROVE faults' = faults
      BY Zenon, <3>4 DEF Sockets, WriterSocketSend, WriterSocketRecv, ReaderSocketSend,
         ReaderSocketRecv
    <3>5. ASSUME NEW c \in Channels, Link(c) PROVE faults' = faults + 1
      BY Zenon, <3>5 DEF Link, LoseBuffer, LoseAck, DuplicateBuffer, ReorderBuffers, Fault
    <3>6. QED
      BY Zenon, <3>1, <3>2, <3>3, <3>4, <3>5 DEF Next
  <2>2. faults \in 0 .. MaxFaults /\ MaxFaults \in Nat
    BY Zenon, WireTypes, LinkAssumption
  <2>3. QED
    BY ONLY <2>1, <2>2, faults' = 0
<1>2. ReliableInv(d)
  BY Zenon, <1>1 DEF Reliable
<1>3. CASE UNCHANGED vars
  BY Zenon, <1>2, <1>3, ReliableFrame
     DEF vars, writerVars, readerVars, queueVars, linkVars, ChannelState
<1>4. CASE ReadStep
  BY Zenon, <1>2, <1>4, ReliableFrame
     DEF ReadStep, ReadBytes, writerVars, queueVars, linkVars, ChannelState
<1>5. ASSUME NEW c \in Channels, WriterStep(c) \/ ReaderStep(c) \/ Sockets(c)
      PROVE  ReliableInv(d)'
  <2>1. CASE d # c
    BY Zenon, <1>2, <1>5, <2>1, OtherChannels, ReliableFrame
  <2>2. CASE d = c /\ WriterStep(c)
    BY Zenon, <1>2, <2>2, WriteReliable, OutputReliable, InputReliable DEF WriterStep, Writer
  <2>3. CASE d = c /\ ReaderStep(c)
    BY Zenon, <1>2, <2>3, DispatchReliable DEF ReaderStep
  <2>4. CASE d = c /\ Sockets(c)
    BY Zenon, <1>2, <2>4, SocketsReliable
  <2>5. QED
    BY Zenon, <1>5, <2>1, <2>2, <2>3, <2>4
<1>6. ASSUME NEW c \in Channels, Link(c) PROVE FALSE
  <2>1. faults' = faults + 1
    BY Zenon, <1>6 DEF Link, LoseBuffer, LoseAck, DuplicateBuffer, ReorderBuffers, Fault
  <2>2. QED
    BY ONLY <1>1, <2>1, faults' = 0
<1>7. QED
  BY Zenon, <1>3, <1>4, <1>5, <1>6 DEF Next

(* While the link is reliable, what is on its way is the scheduled part of *)
(* the writer's queue, in order.                                           *)
THEOREM ReliableInvariance == Spec => []Reliable
<1>1. Init => Reliable
  <2> SUFFICES ASSUME Init, NEW c \in Channels PROVE ReliableInv(c)
    BY Zenon DEF Reliable
  <2>1. /\ written[c] = 0 /\ v[c] = << >> /\ index[c] = 0 /\ pop_requests[c] = {}
        /\ out_of_order[c] = {} /\ watermarks[c] = -1
        /\ writer_recv[c] = << >> /\ ack_wire[c] = << >> /\ reader_send[c] = << >>
        /\ reader_recv[c] = << >> /\ data_wire[c] = << >> /\ writer_send[c] = << >>
    BY Zenon DEF Init, WriterInit, QueueInit, ReaderInit
  <2>2. Row(<< >>, << >>, << >>) = << >> /\ Len(<< >>) = 0
    BY EmptySeq, ConcatEmptySeq DEF Row
  <2>3. Popped(c) = 0 /\ Started(c) = 0
    <3>1. Len(v[c]) = 0 /\ written[c] = 0 /\ index[c] = 0
      BY Zenon, <2>1, <2>2
    <3>2. Popped(c) = 0
      BY ONLY <3>1 DEF Popped
    <3>3. QED
      BY ONLY <3>1, <3>2 DEF Started
  <2>4. AcksOnTheWay(c) = << >> /\ BuffersOnTheWay(c) = << >>
    BY Zenon, <2>1, <2>2 DEF AcksOnTheWay, BuffersOnTheWay
  <2>5. QED
    BY <2>1, <2>2, <2>3, <2>4 DEF ReliableInv
<1>2. IInv /\ Reliable /\ [Next]_vars => Reliable'
  BY Zenon, ReliableStep
<1>3. QED
  BY <1>1, <1>2, Invariance, PTL DEF Spec

(* While the link is reliable, each scheduled buffer that is still in the  *)
(* writer's queue is on its way in exactly one place: this bounds the      *)
(* channels that the reader creates without a bound.                       *)
THEOREM InFlightIsAccounted == Spec => []InFlightAccounting
<1>1. ASSUME IInv, Reliable PROVE InFlightAccounting
  <2> SUFFICES ASSUME faults = 0, NEW c \in Channels
               PROVE  index[c] = Len(writer_send[c]) + Len(data_wire[c]) + Len(reader_recv[c])
                               + Len(reader_send[c]) + Len(ack_wire[c]) + Len(writer_recv[c])
    BY Zenon DEF InFlightAccounting
  <2> USE <1>1
  <2>1. /\ watermarks[c] = Popped(c) + Len(AcksOnTheWay(c)) - 1
        /\ Started(c) = watermarks[c] + Len(BuffersOnTheWay(c)) + 1
    BY Zenon DEF Reliable, ReliableInv
  <2>2. /\ Len(AcksOnTheWay(c)) = Len(writer_recv[c]) + Len(ack_wire[c]) + Len(reader_send[c])
        /\ Len(BuffersOnTheWay(c))
             = Len(reader_recv[c]) + Len(data_wire[c]) + Len(writer_send[c])
    BY Zenon, WayLengths
  <2>3. /\ Len(writer_recv[c]) \in Nat /\ Len(ack_wire[c]) \in Nat /\ Len(reader_send[c]) \in Nat
        /\ Len(reader_recv[c]) \in Nat /\ Len(data_wire[c]) \in Nat
        /\ Len(writer_send[c]) \in Nat
    BY WayTypes, LenProperties
  <2>4. /\ Popped(c) \in Nat /\ index[c] \in Nat /\ watermarks[c] \in Int
        /\ Started(c) = Popped(c) + index[c]
    BY Zenon, Bounds DEF Started
  <2> DEFINE a1 == Len(writer_recv[c])
             a2 == Len(ack_wire[c])
             a3 == Len(reader_send[c])
             b1 == Len(reader_recv[c])
             b2 == Len(data_wire[c])
             b3 == Len(writer_send[c])
  <2>5. /\ watermarks[c] = Popped(c) + (a1 + a2 + a3) - 1
        /\ Started(c) = watermarks[c] + (b1 + b2 + b3) + 1
    BY Zenon, <2>1, <2>2
  <2>6. a1 \in Nat /\ a2 \in Nat /\ a3 \in Nat /\ b1 \in Nat /\ b2 \in Nat /\ b3 \in Nat
    BY <2>3
  <2> HIDE DEF a1, a2, a3, b1, b2, b3
  <2>7. index[c] = b3 + b2 + b1 + a3 + a2 + a1
    BY ONLY <2>4, <2>5, <2>6
  <2>8. QED
    BY Zenon, <2>7 DEF a1, a2, a3, b1, b2, b3
<1>2. QED
  BY <1>1, Invariance, ReliableInvariance, PTL

------------------------------------------------------------------------------
(* The writes that were accepted, as FifoChannels sees them. *)
Accepted(n) == [i \in 1 .. n |-> i - 1]

(* The accepted writes form a sequence in which write i has payload i - 1, *)
(* and one more write appends its own number.                              *)
LEMMA AcceptedFacts ==
    ASSUME NEW n \in Nat
    PROVE  /\ Accepted(n) \in Seq(Nat) /\ Len(Accepted(n)) = n
           /\ \A i \in 1 .. n : Accepted(n)[i] = i - 1
           /\ Append(Accepted(n), n) = Accepted(n + 1)
<1>1. Accepted(n) \in [1 .. n -> Nat] /\ \A i \in 1 .. n : Accepted(n)[i] = i - 1
  BY DEF Accepted
<1>2. Accepted(n) \in Seq(Nat) /\ Len(Accepted(n)) = n
  BY <1>1, FunctionSeq
<1>3. Accepted(n + 1) \in [1 .. n + 1 -> Nat] /\ \A i \in 1 .. n + 1 : Accepted(n + 1)[i] = i - 1
  BY DEF Accepted
<1>4. Accepted(n + 1) \in Seq(Nat) /\ Len(Accepted(n + 1)) = n + 1
  BY <1>3, FunctionSeq, n + 1 \in Nat
<1>5. /\ Append(Accepted(n), n) \in Seq(Nat) /\ Len(Append(Accepted(n), n)) = n + 1
      /\ \A i \in 1 .. n + 1 : Append(Accepted(n), n)[i] = i - 1
  <2> HIDE DEF Accepted
  <2>1. /\ Append(Accepted(n), n) \in Seq(Nat) /\ Len(Append(Accepted(n), n)) = n + 1
        /\ Append(Accepted(n), n)[n + 1] = n
        /\ \A i \in 1 .. n : Append(Accepted(n), n)[i] = Accepted(n)[i]
    BY <1>2, AppendProperties
  <2>2. QED
    BY <1>1, <2>1
<1>6. Append(Accepted(n), n) = Accepted(n + 1)
  <2> HIDE DEF Accepted
  <2>1. Len(Append(Accepted(n), n)) = Len(Accepted(n + 1))
    BY Zenon, <1>4, <1>5
  <2>2. \A i \in 1 .. Len(Append(Accepted(n), n)) :
          Append(Accepted(n), n)[i] = Accepted(n + 1)[i]
    BY Zenon, <1>3, <1>5
  <2>3. QED
    BY Zenon, <1>4, <1>5, <2>1, <2>2, SeqEqual
<1>7. QED
  BY <1>1, <1>2, <1>6

(* A read_bytes is a Get of the channel whose payload it returns.          *)
LEMMA ReadIsGet ==
    ASSUME IInv, ReadBytes, UNCHANGED writerVars
    PROVE  \E c \in Channels : Fifo!Get(c)
<1> DEFINE p == Head(out_queue)
           c == p.channel
           read == Len(consumed[c])
<1>1. /\ out_queue # << >>
      /\ consumed' = [consumed EXCEPT ![c] = Append(@, p.data)]
      /\ written' = written
  BY Zenon DEF ReadBytes, writerVars
<1>2. out_queue \in Seq(QueuedPayload) /\ consumed \in [Channels -> Seq(Payloads)]
  BY Zenon DEF IInv, TypeOK, ReaderTypeOK
<1>3. p \in QueuedPayload /\ Len(out_queue) \in Nat /\ 1 \in 1 .. Len(out_queue) /\ p = out_queue[1]
  BY <1>1, <1>2, HeadTailProperties, LenProperties
<1>4. c \in Channels
  BY <1>3 DEF QueuedPayload
<1>5. read \in Nat
  BY <1>2, <1>4, LenProperties
<1>6. /\ Holds(out_queue, c, read, watermarks[c]) /\ watermarks[c] < Started(c)
      /\ read <= watermarks[c] + 1
  BY Zenon, <1>4 DEF IInv, DeliveryInv, ReaderInv
<1>7. /\ watermarks[c] \in Int /\ Started(c) \in Nat /\ written[c] \in Nat
      /\ Started(c) <= written[c]
  BY Zenon, <1>4, Bounds
<1>8. p.data = read /\ read <= watermarks[c]
  <2> HIDE DEF c, read, p
  <2>1. Len(out_queue) \in Nat \ {0}
    BY ONLY <1>3
  <2>2. out_queue[1].channel = c
    BY Zenon, <1>3 DEF c
  <2>3. QED
    BY ONLY <1>3, <1>5, <1>6, <1>7, <2>1, <2>2, HoldsHead
<1> DEFINE sent == [d \in Channels |-> Accepted(written[d])]
<1>9. Len(sent[c]) = written[c] /\ sent[c][read + 1] = read
  <2>1. read + 1 \in 1 .. written[c] /\ (read + 1) - 1 = read
    <3> HIDE DEF read
    <3>1. QED
      BY ONLY <1>5, <1>6, <1>7, <1>8
  <2>2. sent[c] = Accepted(written[c])
    BY Zenon, <1>4
  <2>3. /\ Len(Accepted(written[c])) = written[c]
        /\ \A i \in 1 .. written[c] : Accepted(written[c])[i] = i - 1
    BY Zenon, <1>7, AcceptedFacts
  <2>4. QED
    BY Zenon, <2>1, <2>2, <2>3
<1>10. Len(consumed[c]) < Len(sent[c])
  <2>1. read < written[c]
    <3> HIDE DEF read
    <3>1. QED
      BY ONLY <1>5, <1>6, <1>7, <1>8
  <2>2. QED
    BY Zenon, <1>9, <2>1
<1>11. consumed' = [consumed EXCEPT ![c] = Append(@, sent[c][Len(@) + 1])]
  BY Zenon, <1>1, <1>8, <1>9
<1>12. UNCHANGED sent
  BY Zenon, <1>1
<1>13. Fifo!Get(c)
  BY Zenon, <1>10, <1>11, <1>12 DEF Fifo!Get, Accepted
<1>14. QED
  BY Zenon, <1>4, <1>13

(* Nothing else changes what was accepted or what was read.                *)
LEMMA FifoFrame ==
    ASSUME [Next]_vars
    PROVE  \/ \E c \in Channels : WriteBytes(c) /\ UNCHANGED readerVars
           \/ ReadBytes /\ UNCHANGED writerVars
           \/ UNCHANGED <<written, consumed>>
<1>1. CASE UNCHANGED vars
  BY Zenon, <1>1 DEF vars, readerVars, writerVars
<1>2. CASE ReadStep
  BY Zenon, <1>2 DEF ReadStep
<1>3. ASSUME NEW c \in Channels, WriterStep(c)
      PROVE  \/ WriteBytes(c) /\ UNCHANGED readerVars
             \/ UNCHANGED <<written, consumed>>
  BY Zenon, <1>3 DEF WriterStep, Writer, OutputLoop, InputLoop, readerVars
<1>4. ASSUME NEW c \in Channels, Sockets(c) \/ Link(c)
      PROVE  UNCHANGED <<written, consumed>>
  <2>1. CASE Link(c)
    BY Zenon, <2>1 DEF Link, LoseBuffer, LoseAck, DuplicateBuffer, ReorderBuffers,
       Fault, readerVars, writerVars
  <2>2. CASE Sockets(c)
    BY Zenon, <2>2 DEF Sockets, WriterSocketSend, WriterSocketRecv, ReaderSocketSend,
       ReaderSocketRecv, readerVars, writerVars
  <2>3. QED
    BY Zenon, <1>4, <2>1, <2>2
<1>5. ASSUME NEW c \in Channels, ReaderStep(c)
      PROVE  UNCHANGED <<written, consumed>>
  BY Zenon, <1>5 DEF ReaderStep, Dispatch, DispatchStale, DispatchDuplicate, DispatchNew,
     DropAndAck, writerVars
<1>6. QED
  BY Zenon, <1>1, <1>2, <1>3, <1>4, <1>5 DEF Next

(* Only storing a new buffer adds to the map or to out_queue.              *)
LEMMA ReaderFrame ==
    ASSUME [Next]_vars
    PROVE  \/ \E c \in Channels : DispatchNew(c)
           \/ /\ UNCHANGED out_of_order
              /\ \/ UNCHANGED out_queue
                 \/ out_queue # << >> /\ out_queue' = Tail(out_queue)
<1>1. CASE UNCHANGED vars
  BY Zenon, <1>1 DEF vars, readerVars
<1>2. CASE ReadStep
  BY Zenon, <1>2 DEF ReadStep, ReadBytes
<1>3. ASSUME NEW c \in Channels, WriterStep(c) \/ Link(c)
      PROVE  UNCHANGED <<out_of_order, out_queue>>
  BY Zenon, <1>3 DEF WriterStep, Link, LoseBuffer, LoseAck, DuplicateBuffer, ReorderBuffers,
     Fault, readerVars
<1>4. ASSUME NEW c \in Channels, Sockets(c)
      PROVE  UNCHANGED <<out_of_order, out_queue>>
  BY Zenon, <1>4 DEF Sockets, WriterSocketSend, WriterSocketRecv, ReaderSocketSend,
     ReaderSocketRecv, readerVars
<1>5. ASSUME NEW c \in Channels, ReaderStep(c)
      PROVE  DispatchNew(c) \/ UNCHANGED <<out_of_order, out_queue>>
  BY Zenon, <1>5 DEF ReaderStep, Dispatch, DispatchStale, DispatchDuplicate, DropAndAck
<1>6. QED
  BY Zenon, <1>1, <1>2, <1>3, <1>4, <1>5 DEF Next

------------------------------------------------------------------------------
INSTANCE FiniteSetTheorems

(* A set of numbered buffers has at most one for each number.              *)
LEMMA NumberedBound ==
    ASSUME NEW a \in Int, NEW b \in Int, a <= b + 1,
           NEW T, \A t \in T : t = Numbered(t.id) /\ t.id \in a .. b
    PROVE  IsFiniteSet(T) /\ Cardinality(T) <= b - a + 1
<1> DEFINE f == [t \in T |-> t.id]
<1>1. f \in Injection(T, a .. b)
  BY Zenon DEF Injection, IsInjective
<1>2. IsFiniteSet(a .. b) /\ Cardinality(a .. b) = IF a > b THEN 0 ELSE b - a + 1
  BY FS_Interval
<1> HIDE DEF f
<1>3. IsFiniteSet(T) /\ Cardinality(T) <= Cardinality(a .. b)
  BY Zenon, <1>1, <1>2, FS_Injection
<1>4. Cardinality(a .. b) = b - a + 1
  BY ONLY <1>2, a \in Int, b \in Int, a <= b + 1
<1>5. QED
  BY Zenon, <1>3, <1>4

(* A queue that holds the payloads lo .. hi of a channel has a place for   *)
(* each of them.                                                           *)
LEMMA HoldsPlaces ==
    ASSUME NEW q, NEW c, NEW lo \in Int, NEW hi \in Int, lo <= hi + 1,
           Len(q) \in Nat, Holds(q, c, lo, hi)
    PROVE  hi + 1 - lo <= Len(q)
<1> DEFINE P(k, i) == q[i].channel = c /\ q[i].data = k
           f == [k \in lo .. hi |-> CHOOSE i \in 1 .. Len(q) : P(k, i)]
<1>1. ASSUME NEW k \in lo .. hi PROVE f[k] \in 1 .. Len(q) /\ q[f[k]].data = k
  <2>1. \E i \in 1 .. Len(q) : P(k, i)
    BY Zenon DEF Holds
  <2>2. QED
    BY Zenon, <2>1
<1>2. f \in Injection(lo .. hi, 1 .. Len(q))
  <2>1. f \in [lo .. hi -> 1 .. Len(q)]
    BY Zenon, <1>1
  <2>2. ASSUME NEW k \in lo .. hi, NEW l \in lo .. hi, f[k] = f[l] PROVE k = l
    BY Zenon, <1>1, <2>2
  <2> HIDE DEF f
  <2>3. QED
    BY Zenon, <2>1, <2>2 DEF Injection, IsInjective
<1>3. IsFiniteSet(1 .. Len(q)) /\ Cardinality(1 .. Len(q)) = IF 1 > Len(q) THEN 0 ELSE Len(q) - 1 + 1
  <2>1. 1 \in Int /\ Len(q) \in Int
    BY ONLY Len(q) \in Nat
  <2>2. QED
    BY ONLY Zenon, <2>1, FS_Interval
<1>4. Cardinality(lo .. hi) = IF lo > hi THEN 0 ELSE hi - lo + 1
  BY ONLY Zenon, lo \in Int, hi \in Int, FS_Interval
<1> HIDE DEF f
<1>5. Cardinality(lo .. hi) <= Cardinality(1 .. Len(q))
  BY Zenon, <1>2, <1>3, FS_Injection
<1>6. QED
  BY ONLY <1>3, <1>4, <1>5, Len(q) \in Nat, lo \in Int, hi \in Int, lo <= hi + 1

------------------------------------------------------------------------------
(* The bounds on what the reader holds: out_queue respects the             *)
(* dispatcher's limit, and the out-of-order map the writer's capacity.     *)
ReaderBounds == Len(out_queue) <= OutputQueueSize /\ OutOfOrderBounded

(* What waits out of order is a finite set. *)
LEMMA WaitingFinite ==
    ASSUME IInv, NEW c \in Channels
    PROVE  IsFiniteSet(out_of_order[c])
<1>1. Started(c) \in Nat
  BY Zenon, Bounds
<1>2. \A b \in out_of_order[c] : b = Numbered(b.id) /\ b.id \in 0 .. Started(c) - 1
  BY Zenon, WaitingFacts
<1>3. 0 \in Int /\ Started(c) - 1 \in Int /\ 0 <= (Started(c) - 1) + 1
  BY ONLY <1>1
<1>4. QED
  BY <1>2, <1>3, NumberedBound

(* The drain either makes room for the buffer it stores or, when the next  *)
(* payload is missing, leaves only numbers that the writer has not popped  *)
(* yet and is allowed to have scheduled, the missing one not among them.   *)
LEMMA DrainBounded ==
    ASSUME IInv, NEW c \in Channels, DispatchNew(c), NEW n \in Nat, Drains(c, n),
           Cardinality(out_of_order[c]) < MaxBuffers,
           Popped(c) \in Nat, Started(c) \in Nat, Started(c) <= Popped(c) + MaxBuffers
    PROVE  Cardinality({b \in Waiting(c) : b.id > watermarks[c] + n}) < MaxBuffers
<1> DEFINE wm == watermarks[c]
           left == {b \in Waiting(c) : b.id > wm + n}
           W == Waiting(c)
<1>1. wm \in Int /\ wm >= -1
  BY Zenon, Bounds
<1>2. ASSUME NEW b \in W
      PROVE  /\ b = Numbered(b.id) /\ b.id \in 0 .. Started(c) - 1 /\ b.id > wm
             /\ b.id \in Nat
  BY Zenon, StoredFacts
<1>3. /\ IsFiniteSet(out_of_order[c]) /\ Cardinality(out_of_order[c]) \in Nat
  BY WaitingFinite, FS_CardinalityType
<1>4. IsFiniteSet(W) /\ Cardinality(W) <= Cardinality(out_of_order[c]) + 1
  BY <1>3, FS_AddElement DEF Waiting
<1>5. Cardinality(W) \in Nat
  BY <1>4, FS_CardinalityType
<1> HIDE DEF wm, W
<1>6. CASE n > 0
  <2>1. Numbered(wm + 1) \in W
    <3>1. 1 \in 1 .. n
      BY ONLY <1>6, n \in Nat
    <3>2. QED
      BY Zenon, <3>1 DEF Drains, W, wm
  <2>2. Numbered(wm + 1).id = wm + 1
    BY ONLY TRUE DEF Numbered, NewBufferWithMeta
  <2>3. ~(wm + 1 > wm + n)
    BY ONLY <1>1, <1>6, n \in Nat
  <2>4. left \in SUBSET (W \ {Numbered(wm + 1)})
    BY Zenon, <2>2, <2>3 DEF W
  <2>5. /\ IsFiniteSet(W \ {Numbered(wm + 1)})
        /\ Cardinality(W \ {Numbered(wm + 1)}) = Cardinality(W) - 1
    BY Zenon, <1>4, <2>1, FS_RemoveElement
  <2> HIDE DEF left
  <2>6. IsFiniteSet(left) /\ Cardinality(left) <= Cardinality(W) - 1
    BY <2>4, <2>5, FS_Subset
  <2>7. Cardinality(left) \in Nat
    BY Zenon, <2>6, FS_CardinalityType
  <2>8. Cardinality(left) < MaxBuffers
    BY ONLY <1>3, <1>4, <1>5, <2>6, <2>7, MaxBuffersAssumption, Cardinality(out_of_order[c]) < MaxBuffers
  <2>9. QED
    BY Zenon, <2>8 DEF left, wm
<1>7. CASE n = 0
  <2>1. Len(out_queue) \in Nat
    BY LenProperties DEF IInv, TypeOK, ReaderTypeOK
  <2>2. /\ Len(out_queue) # OutputQueueSize
        /\ Len(out_queue) + n = OutputQueueSize \/ Numbered(wm + n + 1) \notin W
    BY Zenon DEF Drains, W, wm
  <2>3. Numbered(wm + 1) \notin W
    <3>1. wm + n + 1 = wm + 1 /\ Len(out_queue) + n = Len(out_queue)
      BY ONLY <1>1, <1>7, <2>1
    <3>2. QED
      BY Zenon, <2>2, <3>1
  <2>4. wm + 1 \notin 0 .. Popped(c) - 1
    <3>1. SUFFICES ASSUME wm + 1 \in 0 .. Popped(c) - 1 PROVE FALSE
      OBVIOUS
    <3>2. wm + 1 \in Secured(c)
      BY Zenon, <3>1 DEF IInv, AckInv
    <3>3. wm + 1 <= wm \/ Numbered(wm + 1) \in out_of_order[c]
      BY Zenon, <3>2 DEF Secured, wm
    <3>4. ~(wm + 1 <= wm)
      BY ONLY <1>1
    <3>5. QED
      BY Zenon, <2>3, <3>3, <3>4 DEF W, Waiting
  <2>5. Popped(c) <= wm + 1
    BY ONLY <1>1, <2>4, Popped(c) \in Nat
  <2>6. ASSUME NEW b \in left
        PROVE  b = Numbered(b.id) /\ b.id \in Popped(c) + 1 .. Popped(c) + MaxBuffers - 1
    <3>1. b \in W
      BY Zenon DEF W
    <3>2. b.id # wm + 1
      BY Zenon, <1>2, <2>3, <3>1
    <3>3. b = Numbered(b.id) /\ b.id \in 0 .. Started(c) - 1 /\ b.id > wm /\ b.id \in Nat
      BY Zenon, <1>2, <3>1
    <3>4. b.id \in Popped(c) + 1 .. Popped(c) + MaxBuffers - 1
      BY ONLY <1>1, <2>5, <3>2, <3>3, MaxBuffersAssumption, Popped(c) \in Nat,
         Started(c) \in Nat, Started(c) <= Popped(c) + MaxBuffers
    <3>5. QED
      BY Zenon, <3>3, <3>4
  <2> HIDE DEF left
  <2>7. /\ Popped(c) + 1 \in Int /\ Popped(c) + MaxBuffers - 1 \in Int
        /\ Popped(c) + 1 <= (Popped(c) + MaxBuffers - 1) + 1
        /\ (Popped(c) + MaxBuffers - 1) - (Popped(c) + 1) + 1 = MaxBuffers - 1
    BY ONLY MaxBuffersAssumption, Popped(c) \in Nat
  <2>8. IsFiniteSet(left) /\ Cardinality(left) <= MaxBuffers - 1
    BY ZenonT(30), <2>6, <2>7, NumberedBound
  <2>9. Cardinality(left) \in Nat
    BY Zenon, <2>8, FS_CardinalityType
  <2>10. Cardinality(left) < MaxBuffers
    BY ONLY <2>8, <2>9, MaxBuffersAssumption
  <2>11. QED
    BY Zenon, <2>10 DEF left, wm
<1>8. n = 0 \/ n > 0
  BY ONLY n \in Nat
<1>9. QED
  BY Zenon, <1>6, <1>7, <1>8

(* Every step keeps the reader within its bounds.                          *)
LEMMA ReaderBoundsStep ==
    ASSUME IInv, ReaderBounds, [Next]_vars
    PROVE  ReaderBounds'
<1>1. Len(out_queue) \in Nat /\ out_queue \in Seq(QueuedPayload)
  BY LenProperties DEF IInv, TypeOK, ReaderTypeOK
<1>2. out_of_order \in [Channels -> SUBSET BufferType]
  BY Zenon DEF IInv, TypeOK, ReaderTypeOK
<1>3. ASSUME NEW c \in Channels, DispatchNew(c) PROVE ReaderBounds'
  <2>1. PICK n \in Nat : Drains(c, n)
    BY Zenon, <1>3, DispatchNewDrains
  <2>2. Len(out_queue') <= OutputQueueSize
    BY Zenon, <2>1 DEF Drains
  <2>3. Popped(c) \in Nat /\ Started(c) \in Nat /\ index[c] \in Nat /\ Len(v[c]) \in Nat
    BY Zenon, Bounds
  <2>4. index[c] \in 0 .. Len(v[c]) /\ Len(v[c]) <= MaxBuffers
    BY Zenon DEF IInv, QueueInv
  <2>5. Started(c) <= Popped(c) + MaxBuffers
    BY ONLY <2>3, <2>4, MaxBuffersAssumption DEF Started
  <2>6. Cardinality(out_of_order'[c]) < MaxBuffers
    <3>1. out_of_order'[c] = {b \in Waiting(c) : b.id > watermarks[c] + n}
      BY Zenon, <1>2, <2>1 DEF Drains
    <3>2. Cardinality(out_of_order[c]) < MaxBuffers
      BY Zenon DEF ReaderBounds, OutOfOrderBounded
    <3>3. Cardinality({b \in Waiting(c) : b.id > watermarks[c] + n}) < MaxBuffers
      BY Zenon, <1>3, <2>1, <2>3, <2>5, <3>2, DrainBounded
    <3>4. QED
      BY Zenon, <3>1, <3>3
  <2>7. \A d \in Channels : d # c => out_of_order'[d] = out_of_order[d]
    BY Zenon, <1>2, <2>1 DEF Drains
  <2>8. QED
    BY Zenon, <2>2, <2>6, <2>7 DEF ReaderBounds, OutOfOrderBounded
<1>4. ASSUME UNCHANGED out_of_order, UNCHANGED out_queue PROVE ReaderBounds'
  BY Zenon, <1>4 DEF ReaderBounds, OutOfOrderBounded
<1>5. ASSUME UNCHANGED out_of_order, out_queue # << >>, out_queue' = Tail(out_queue)
      PROVE  ReaderBounds'
  <2>1. Len(out_queue') = Len(out_queue) - 1
    BY <1>1, <1>5, HeadTailProperties
  <2>2. Len(out_queue) <= OutputQueueSize
    BY Zenon DEF ReaderBounds
  <2>3. Len(out_queue') <= OutputQueueSize
    BY ONLY <1>1, <2>1, <2>2, OutputQueueSizeAssumption
  <2>4. QED
    BY Zenon, <1>5, <2>3 DEF ReaderBounds, OutOfOrderBounded
<1>6. QED
  BY Zenon, <1>3, <1>4, <1>5, ReaderFrame

(* The reader's queues are within their bounds in every state: out_queue   *)
(* holds at most output_queue_size payloads, and the out-of-order map,     *)
(* which data_reader.rs leaves without a limit, stays below the capacity   *)
(* of the writer's queue.                                                  *)
LEMMA ReaderIsBounded == Spec => []ReaderBounds
<1>1. Init => ReaderBounds
  <2> SUFFICES ASSUME Init PROVE ReaderBounds
    OBVIOUS
  <2>1. Len(out_queue) = 0
    BY EmptySeq DEF Init, ReaderInit
  <2>2. ASSUME NEW c \in Channels PROVE Cardinality(out_of_order[c]) = 0
    <3>1. out_of_order[c] = {}
      BY Zenon DEF Init, ReaderInit
    <3>2. QED
      BY Zenon, <3>1, FS_EmptySet
  <2>3. 0 <= OutputQueueSize /\ 0 < MaxBuffers
    BY ONLY OutputQueueSizeAssumption, MaxBuffersAssumption
  <2>4. QED
    BY Zenon, <2>1, <2>2, <2>3 DEF ReaderBounds, OutOfOrderBounded
<1>2. IInv /\ ReaderBounds /\ [Next]_vars => ReaderBounds'
  BY Zenon, ReaderBoundsStep
<1>3. QED
  BY <1>1, <1>2, Invariance, PTL DEF Spec

(* The out-of-order map of the dispatcher needs no limit of its own,       *)
(* whatever the link loses, duplicates or reorders.                        *)
THEOREM OutOfOrderIsBounded == Spec => []OutOfOrderBounded
<1>1. ReaderBounds => OutOfOrderBounded
  BY Zenon DEF ReaderBounds
<1>2. QED
  BY <1>1, ReaderIsBounded, PTL

------------------------------------------------------------------------------
(* A write is accepted only while fewer than Capacity payloads of its      *)
(* channel are unread: those in the writer's queue, those popped but still *)
(* ahead of their turn, and those in out_queue.                            *)
LEMMA UnreadBounded ==
    ASSUME IInv, ReaderBounds, NEW c \in Channels, Len(v[c]) # MaxBuffers
    PROVE  written[c] - Len(consumed[c]) < 2 * MaxBuffers - 1 + OutputQueueSize
<1> DEFINE wm == watermarks[c]
           read == Len(consumed[c])
<1>1. /\ written[c] \in Nat /\ Len(v[c]) \in Nat /\ Popped(c) \in Nat
      /\ wm \in Int /\ wm >= -1
  BY Zenon, Bounds
<1>2. written[c] = Popped(c) + Len(v[c])
  BY ONLY <1>1 DEF Popped
<1>3. Len(v[c]) <= MaxBuffers - 1
  <2>1. Len(v[c]) <= MaxBuffers
    BY Zenon DEF IInv, QueueInv
  <2>2. QED
    BY ONLY <1>1, <2>1, MaxBuffersAssumption, Len(v[c]) # MaxBuffers
<1>4. read \in Nat /\ Len(out_queue) \in Nat
  BY LenProperties DEF IInv, TypeOK, ReaderTypeOK
<1>5. read <= wm + 1 /\ Holds(out_queue, c, read, wm)
  BY Zenon DEF IInv, DeliveryInv
<1> HIDE DEF wm, read
<1>6. wm + 1 - read <= OutputQueueSize
  <2>1. wm + 1 - read <= Len(out_queue)
    <3>1. read \in Int
      BY ONLY <1>4
    <3>2. QED
      BY Zenon, <1>1, <1>4, <1>5, <3>1, HoldsPlaces
  <2>2. Len(out_queue) <= OutputQueueSize
    BY Zenon DEF ReaderBounds
  <2>3. QED
    BY ONLY <1>1, <1>4, <2>1, <2>2, OutputQueueSizeAssumption
<1>7. Popped(c) - (wm + 1) <= MaxBuffers - 1
  <2>1. CASE Popped(c) <= wm + 1
    BY ONLY <1>1, <2>1, MaxBuffersAssumption
  <2>2. CASE wm + 1 < Popped(c)
    <3>1. ASSUME NEW k \in wm + 1 .. Popped(c) - 1 PROVE Numbered(k) \in out_of_order[c]
      <4>1. k \in 0 .. Popped(c) - 1 /\ ~(k <= wm)
        BY ONLY <1>1, k \in wm + 1 .. Popped(c) - 1
      <4>2. k \in Secured(c)
        BY Zenon, <4>1 DEF IInv, AckInv
      <4>3. QED
        BY Zenon, <4>1, <4>2 DEF Secured, wm
    <3> DEFINE f == [k \in wm + 1 .. Popped(c) - 1 |-> Numbered(k)]
    <3>2. f \in Injection(wm + 1 .. Popped(c) - 1, out_of_order[c])
      <4>1. f \in [wm + 1 .. Popped(c) - 1 -> out_of_order[c]]
        BY Zenon, <3>1
      <4>2. ASSUME NEW k \in wm + 1 .. Popped(c) - 1, NEW l \in wm + 1 .. Popped(c) - 1,
                   f[k] = f[l]
            PROVE  k = l
        <5>1. Numbered(k) = Numbered(l)
          BY Zenon, <4>2
        <5>2. Numbered(k).id = k /\ Numbered(l).id = l
          BY ONLY TRUE DEF Numbered, NewBufferWithMeta
        <5>3. QED
          BY Zenon, <5>1, <5>2
      <4> HIDE DEF f
      <4>3. QED
        BY Zenon, <4>1, <4>2 DEF Injection, IsInjective
    <3> HIDE DEF f
    <3>3. Cardinality(wm + 1 .. Popped(c) - 1) <= Cardinality(out_of_order[c])
      BY Zenon, <3>2, WaitingFinite, FS_Injection
    <3>4. wm + 1 \in Int /\ Popped(c) - 1 \in Int
      BY ONLY <1>1
    <3>5. Cardinality(wm + 1 .. Popped(c) - 1)
            = IF wm + 1 > Popped(c) - 1 THEN 0 ELSE Popped(c) - 1 - (wm + 1) + 1
      BY Zenon, <3>4, FS_Interval
    <3>6. Cardinality(out_of_order[c]) < MaxBuffers /\ Cardinality(out_of_order[c]) \in Nat
      BY Zenon, WaitingFinite, FS_CardinalityType DEF ReaderBounds, OutOfOrderBounded
    <3>7. QED
      BY ONLY <1>1, <2>2, <3>3, <3>5, <3>6, MaxBuffersAssumption
  <2>3. QED
    BY ONLY <1>1, <2>1, <2>2
<1>8. written[c] - read < 2 * MaxBuffers - 1 + OutputQueueSize
  <2>1. Popped(c) + Len(v[c]) - (wm + 1) <= (MaxBuffers - 1) + (MaxBuffers - 1)
    BY ONLY <1>1, <1>3, <1>7, MaxBuffersAssumption
  <2>2. written[c] - read <= (MaxBuffers - 1) + (MaxBuffers - 1) + OutputQueueSize
    BY ONLY <1>1, <1>2, <1>4, <1>6, <2>1, MaxBuffersAssumption, OutputQueueSizeAssumption
  <2>3. QED
    BY ONLY <1>1, <1>4, <2>2, MaxBuffersAssumption, OutputQueueSizeAssumption
<1>9. QED
  BY Zenon, <1>8 DEF read

(* A successful write_bytes is a Put of its channel.                       *)
LEMMA WriteIsPut ==
    ASSUME IInv, ReaderBounds, NEW c \in Channels, WriteBytes(c), UNCHANGED readerVars
    PROVE  Fifo!Put(c)
<1>1. /\ Len(v[c]) # MaxBuffers
      /\ written' = [written EXCEPT ![c] = @ + 1]
      /\ consumed' = consumed
  BY Zenon DEF WriteBytes, TryPush, readerVars
<1>2. written \in [Channels -> 0 .. NumBuffers] /\ written[c] \in Nat
  BY Zenon, Bounds DEF IInv, TypeOK, WriterTypeOK
<1> DEFINE sent == [d \in Channels |-> Accepted(written[d])]
<1>3. sent' = [sent EXCEPT ![c] = Append(@, Len(@))]
  <2>1. sent'[c] = Append(sent[c], Len(sent[c]))
    <3>1. written'[c] = written[c] + 1
      BY Zenon, <1>1, <1>2
    <3>2. QED
      BY Zenon, <1>2, <3>1, AcceptedFacts
  <2>2. \A d \in Channels : d # c => sent'[d] = sent[d]
    BY Zenon, <1>1, <1>2
  <2>3. QED
    BY Zenon, <2>1, <2>2
<1>4. Len(sent[c]) - Len(consumed[c]) < 2 * MaxBuffers - 1 + OutputQueueSize
  <2>1. Len(sent[c]) = written[c]
    BY Zenon, <1>2, AcceptedFacts
  <2>2. QED
    BY Zenon, <1>1, <2>1, UnreadBounded
<1>5. QED
  BY Zenon, <1>1, <1>3, <1>4 DEF Fifo!Put, Accepted

(* The transport implements a bounded FIFO per channel, whatever the link  *)
(* loses, duplicates or reorders: write_bytes is Put, read_bytes is Get,   *)
(* and every other step of the threads and the link is invisible.          *)
THEOREM TransportImplementsFifo == Spec => FifoSpec
<1>1. Init => Fifo!Init
  <2> SUFFICES ASSUME Init PROVE Fifo!Init
    OBVIOUS
  <2>1. written = [c \in Channels |-> 0] /\ consumed = [c \in Channels |-> << >>]
    BY Zenon DEF Init, WriterInit, ReaderInit
  <2>2. [i \in 1 .. 0 |-> i - 1] = << >>
    <3>1. 1 .. 0 = {}
      OBVIOUS
    <3>2. QED
      BY <3>1, EmptySeq
  <2>3. [c \in Channels |-> [i \in 1 .. written[c] |-> i - 1]] = [c \in Channels |-> << >>]
    BY Zenon, <2>1, <2>2
  <2>4. QED
    BY Zenon, <2>1, <2>3 DEF Fifo!Init
<1>2. IInv /\ ReaderBounds /\ [Next]_vars => [Fifo!Next]_(Fifo!fifoVars)
  <2> SUFFICES ASSUME IInv, ReaderBounds, [Next]_vars
               PROVE  Fifo!Next \/ UNCHANGED Fifo!fifoVars
    BY Zenon
  <2>1. CASE UNCHANGED <<written, consumed>>
    BY Zenon, <2>1 DEF Fifo!fifoVars
  <2>2. CASE \E c \in Channels : WriteBytes(c) /\ UNCHANGED readerVars
    BY Zenon, <2>2, WriteIsPut DEF Fifo!Next
  <2>3. CASE ReadBytes /\ UNCHANGED writerVars
    BY Zenon, <2>3, ReadIsGet DEF Fifo!Next
  <2>4. QED
    BY Zenon, <2>1, <2>2, <2>3, FifoFrame
<1>3. QED
  BY <1>1, <1>2, Invariance, ReaderIsBounded, PTL DEF Spec, FifoSpec, Fifo!Spec

==============================================================================
