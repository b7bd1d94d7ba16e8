------------------------------ MODULE Transport ------------------------------
(***************************************************************************)
(* A DataWriter and a DataReader joined by one socket pair per channel.    *)
(* The IO threads of both ends (io_loop.rs) move buffers and acks between  *)
(* the handlers' channels and the sockets.  A ZeroMQ PAIR socket delivers  *)
(* in order and loses messages only when a peer goes away; the reader also *)
(* prepares for duplicates and reordering, so the link can be given any of *)
(* these faults, MaxFaults in all.                                         *)
(***************************************************************************)
EXTENDS DataWriter, DataReader

CONSTANTS
    LinkCapacity,   \* messages a socket holds before it stops being writable
    Faults,         \* what the link may do: "lose", "duplicate", "reorder"
    MaxFaults       \* bound: number of faults

ASSUME LinkAssumption ==
    /\ LinkCapacity \in Nat \ {0}
    /\ Faults \subseteq {"lose", "duplicate", "reorder"}
    /\ MaxFaults \in Nat

VARIABLES
    data_wire,      \* [channel -> buffers in the sockets, writer to reader]
    ack_wire,       \* [channel -> ack ids in the sockets, reader to writer]
    faults          \* number of faults so far

linkVars == <<data_wire, ack_wire, faults>>
vars == <<writerVars, readerVars, linkVars>>

TypeOK ==
    /\ WriterTypeOK
    /\ ReaderTypeOK
    /\ data_wire \in [Channels -> Seq(BufferType)]
    /\ ack_wire \in [Channels -> Seq(BufferIds)]
    /\ faults \in 0 .. MaxFaults

Init ==
    /\ WriterInit
    /\ ReaderInit
    /\ data_wire = [c \in Channels |-> << >>]
    /\ ack_wire = [c \in Channels |-> << >>]
    /\ faults = 0

------------------------------------------------------------------------------
(* IO threads.  A readable socket is read only if the handler's receive    *)
(* channel has room; a writable one is written if there is something to    *)
(* send.  The reader's channels are unbounded, the writer's hold           *)
(* MaxBuffers.                                                             *)

WriterSocketSend(c) ==
    /\ writer_send[c] # << >>
    /\ Len(data_wire[c]) < LinkCapacity
    /\ data_wire' = [data_wire EXCEPT ![c] = Append(@, Head(writer_send[c]))]
    /\ writer_send' = [writer_send EXCEPT ![c] = Tail(@)]
    /\ UNCHANGED <<queueVars, written, in_flight, writer_recv, readerVars,
                   ack_wire, faults>>

ReaderSocketRecv(c) ==
    /\ data_wire[c] # << >>
    /\ reader_recv' = [reader_recv EXCEPT ![c] = Append(@, Head(data_wire[c]))]
    /\ data_wire' = [data_wire EXCEPT ![c] = Tail(@)]
    /\ UNCHANGED <<writerVars, reader_send, out_queue, watermarks, out_of_order,
                   consumed, ack_wire, faults>>

ReaderSocketSend(c) ==
    /\ reader_send[c] # << >>
    /\ Len(ack_wire[c]) < LinkCapacity
    /\ ack_wire' = [ack_wire EXCEPT ![c] = Append(@, Head(reader_send[c]))]
    /\ reader_send' = [reader_send EXCEPT ![c] = Tail(@)]
    /\ UNCHANGED <<writerVars, reader_recv, out_queue, watermarks, out_of_order,
                   consumed, data_wire, faults>>

WriterSocketRecv(c) ==
    /\ ack_wire[c] # << >>
    /\ Len(writer_recv[c]) < MaxBuffers
    /\ writer_recv' = [writer_recv EXCEPT ![c] = Append(@, Head(ack_wire[c]))]
    /\ ack_wire' = [ack_wire EXCEPT ![c] = Tail(@)]
    /\ UNCHANGED <<queueVars, written, in_flight, writer_send, readerVars,
                   data_wire, faults>>

------------------------------------------------------------------------------
(* The link. *)

WithoutNth(s, i) == SubSeq(s, 1, i - 1) \o SubSeq(s, i + 1, Len(s))
Swapped(s, i) == [s EXCEPT ![i] = s[i + 1], ![i + 1] = s[i]]

Fault(kind) ==
    /\ kind \in Faults
    /\ faults < MaxFaults
    /\ faults' = faults + 1
    /\ UNCHANGED <<writerVars, readerVars>>

(* The sockets drop a message when a peer disconnects. *)
LoseBuffer(c) ==
    /\ Fault("lose")
    /\ \E i \in 1 .. Len(data_wire[c]) :
         data_wire' = [data_wire EXCEPT ![c] = WithoutNth(@, i)]
    /\ UNCHANGED ack_wire

LoseAck(c) ==
    /\ Fault("lose")
    /\ \E i \in 1 .. Len(ack_wire[c]) :
         ack_wire' = [ack_wire EXCEPT ![c] = WithoutNth(@, i)]
    /\ UNCHANGED data_wire

DuplicateBuffer(c) ==
    /\ Fault("duplicate")
    /\ \E i \in 1 .. Len(data_wire[c]) :
         data_wire' = [data_wire EXCEPT ![c] = Append(@, data_wire[c][i])]
    /\ UNCHANGED ack_wire

ReorderBuffers(c) ==
    /\ Fault("reorder")
    /\ \E i \in 1 .. Len(data_wire[c]) - 1 :
         data_wire' = [data_wire EXCEPT ![c] = Swapped(@, i)]
    /\ UNCHANGED ack_wire

------------------------------------------------------------------------------
Writer(c) == WriteBytes(c) \/ OutputLoop(c) \/ InputLoop(c)
Sockets(c) == \/ WriterSocketSend(c) \/ WriterSocketRecv(c)
              \/ ReaderSocketSend(c) \/ ReaderSocketRecv(c)
Link(c) == \/ LoseBuffer(c) \/ LoseAck(c)
           \/ DuplicateBuffer(c) \/ ReorderBuffers(c)

WriterStep(c) == Writer(c) /\ UNCHANGED <<readerVars, linkVars>>
ReaderStep(c) == Dispatch(c) /\ UNCHANGED <<writerVars, linkVars>>
ReadStep == ReadBytes /\ UNCHANGED <<writerVars, linkVars>>

Next ==
    \/ \E c \in Channels : WriterStep(c) \/ ReaderStep(c) \/ Sockets(c) \/ Link(c)
    \/ ReadStep

Spec == Init /\ [][Next]_vars

(* Every thread keeps running: the output and input loops of the writer,   *)
(* the dispatcher of the reader and the poll loops of the IO threads visit *)
(* every channel in every round, and the application keeps reading.        *)
(* Nothing forces the application to write, nor the link to misbehave.     *)
Fairness ==
    /\ \A c \in Channels :
         /\ WF_vars(OutputLoop(c) /\ UNCHANGED <<readerVars, linkVars>>)
         /\ WF_vars(InputLoop(c) /\ UNCHANGED <<readerVars, linkVars>>)
         /\ WF_vars(ReaderStep(c))
         /\ WF_vars(WriterSocketSend(c))
         /\ WF_vars(WriterSocketRecv(c))
         /\ WF_vars(ReaderSocketSend(c))
         /\ WF_vars(ReaderSocketRecv(c))
    /\ WF_vars(ReadStep)

FairSpec == Spec /\ Fairness

------------------------------------------------------------------------------
(* What a payload of channel c can still be found in. *)

InWriterQueue(c, k) == \E i \in 1 .. Len(v[c]) : v[c][i].data = k
OutOfOrder(c, k) == \E b \in out_of_order[c] : b.data = k
InOutQueue(c, k) ==
    \E i \in 1 .. Len(out_queue) : out_queue[i] = [channel |-> c, data |-> k]
Consumed(c, k) == \E i \in 1 .. Len(consumed[c]) : consumed[c][i] = k

(* The i-th payload that read_bytes returns for a channel is the i-th that *)
(* write_bytes accepted: per channel the application sees no gap, no       *)
(* duplicate and no reordering, whatever the link does.                    *)
InOrderExactlyOnce ==
    \A c \in Channels : \A i \in 1 .. Len(consumed[c]) : consumed[c][i] = i - 1

(* A payload accepted by write_bytes is always somewhere: the writer drops *)
(* its copy (request_pop) only once the reader holds the payload, ahead of *)
(* its turn, in out_queue or already with the application.                 *)
NothingLost ==
    \A c \in Channels : \A k \in 0 .. written[c] - 1 :
        InWriterQueue(c, k) \/ OutOfOrder(c, k) \/ InOutQueue(c, k) \/ Consumed(c, k)

(* request_pop only ever pops buffers that schedule_next has handed out:   *)
(* `index -= 1' cannot underflow and the index stays within the queue.     *)
IndexInQueue == \A c \in Channels : index[c] \in 0 .. Len(v[c])

(* The out-of-order map needs no limit of its own, as the comment in the   *)
(* dispatcher argues: it stays below the capacity of the writer's queue,   *)
(* even when duplicates of waiting buffers are acknowledged early.         *)
OutOfOrderBounded ==
    \A c \in Channels : Cardinality(out_of_order[c]) < MaxBuffers

(* While the link is reliable, each scheduled buffer that is still in the  *)
(* writer's queue is on its way in exactly one place, as a buffer or as an *)
(* ack: this is what bounds the channels the reader creates unbounded.     *)
InFlightAccounting ==
    faults = 0 => \A c \in Channels :
        index[c] = Len(writer_send[c]) + Len(data_wire[c]) + Len(reader_recv[c])
                 + Len(reader_send[c]) + Len(ack_wire[c]) + Len(writer_recv[c])

(* The transport implements a bounded FIFO per channel.  Unread payloads   *)
(* are in the writer's queue, ahead of their turn or in out_queue.         *)
Fifo == INSTANCE FifoChannels WITH
            Capacity <- 2 * MaxBuffers - 1 + OutputQueueSize,
            sent <- [c \in Channels |-> [i \in 1 .. written[c] |-> i - 1]],
            received <- consumed

FifoSpec == Fifo!Spec

(* With threads that keep running and a reliable link it is also a live    *)
(* one: whatever was accepted is eventually read.                          *)
FifoFairSpec == Fifo!FairSpec

(* A writer refused because its queue is full is eventually let in again:  *)
(* acks always make room.                                                  *)
BackpressureReleased ==
    \A c \in Channels : (Len(v[c]) = MaxBuffers) ~> (Len(v[c]) < MaxBuffers)

(* Every accepted buffer eventually reaches the application, a loss on the *)
(* link being repaired by re-sending the un-acked buffer.                  *)
EventuallyRead ==
    \A c \in Channels : \A k \in 1 .. NumBuffers :
        (written[c] >= k) ~> (Len(consumed[c]) >= k)

==============================================================================
