-------------------------- MODULE TransportInvariant -------------------------
(***************************************************************************)
(* The inductive invariant behind the safety properties of Transport.      *)
(*                                                                         *)
(* Ids are handed out in the order of the writes, so as long as they do    *)
(* not leave the range in which the reader's signed comparison agrees with *)
(* the writer's unsigned counter, buffer k of a channel is the one with id *)
(* k and payload k.                                                        *)
(***************************************************************************)
EXTENDS Transport

(* No channel carries as many buffers as it takes to change the sign of an *)
(* id: the range in which the protocol is meant to work.                   *)
ASSUME NoWrapAssumption == NumBuffers <= Half

(* The buffer that the k-th write of a channel (from 0) puts in the queue. *)
Numbered(k) == NewBufferWithMeta(k, k)

(* The writes of channel c whose buffers the writer has popped, and those  *)
(* it has popped or handed to the output loop, are 0 .. Popped(c) - 1 and  *)
(* 0 .. Started(c) - 1.                                                    *)
Popped(c) == written[c] - Len(v[c])
Started(c) == Popped(c) + index[c]

(* The buffers of channel c that can be on their way to the reader. *)
Sent(c) == {Numbered(k) : k \in 0 .. Started(c) - 1}

(* The writes of channel c whose payload the reader has made its own. *)
Secured(c) ==
    {k \in 0 .. Started(c) - 1 :
       k <= watermarks[c] \/ Numbered(k) \in out_of_order[c]}

------------------------------------------------------------------------------
(* The writer's queue holds the latest writes, consecutively numbered, and *)
(* the index stays within it.                                              *)
QueueInv(c) ==
    /\ Len(v[c]) <= MaxBuffers
    /\ Len(v[c]) <= written[c]
    /\ \A i \in 1 .. Len(v[c]) : v[c][i] = Numbered(Popped(c) + i - 1)
    /\ buffer_id_seq[c] = written[c]
    /\ index[c] \in 0 .. Len(v[c])
    /\ in_flight[c] = {}

(* Only scheduled buffers are on their way. *)
ForwardInv(c) ==
    /\ writer_send[c] \in Seq(Sent(c))
    /\ data_wire[c] \in Seq(Sent(c))
    /\ reader_recv[c] \in Seq(Sent(c))

(* The reader has not run ahead of the writer, and what waits out of order *)
(* was sent and is above the watermark.                                    *)
ReaderInv(c) ==
    /\ watermarks[c] < Started(c)
    /\ out_of_order[c] \subseteq Sent(c)
    /\ \A b \in out_of_order[c] : b.id > watermarks[c]

(* An ack, or the removal from the writer's queue that it leads to, is     *)
(* only for a payload that the reader has made its own.                    *)
AckInv(c) ==
    /\ reader_send[c] \in Seq(Secured(c))
    /\ ack_wire[c] \in Seq(Secured(c))
    /\ writer_recv[c] \in Seq(Secured(c))
    /\ pop_requests[c] \subseteq Secured(c)
    /\ 0 .. Popped(c) - 1 \subseteq Secured(c)

(* Queue q holds the payloads lo .. hi of channel c, once each and in      *)
(* order, and no other payload of c.                                       *)
Holds(q, c, lo, hi) ==
    /\ \A i \in 1 .. Len(q) : q[i].channel = c => q[i].data \in lo .. hi
    /\ \A i, j \in 1 .. Len(q) :
         i < j /\ q[i].channel = c /\ q[j].channel = c => q[i].data < q[j].data
    /\ \A k \in lo .. hi :
         \E i \in 1 .. Len(q) : q[i].channel = c /\ q[i].data = k

(* The application has read a prefix of the writes, and out_queue holds    *)
(* the rest of those up to the watermark.                                  *)
DeliveryInv(c) ==
    /\ Len(consumed[c]) <= watermarks[c] + 1
    /\ \A i \in 1 .. Len(consumed[c]) : consumed[c][i] = i - 1
    /\ Holds(out_queue, c, Len(consumed[c]), watermarks[c])

(* Every state of the transport satisfies its type invariant and, for each *)
(* channel, all of the above: together they are preserved by every step of *)
(* the writer, the reader, the IO threads and the link.                    *)
IInv ==
    /\ TypeOK
    /\ \A c \in Channels :
         /\ QueueInv(c)
         /\ ForwardInv(c)
         /\ ReaderInv(c)
         /\ AckInv(c)
         /\ DeliveryInv(c)

------------------------------------------------------------------------------
(* The acks of channel c on their way, and the buffers, in the order in    *)
(* which the other end is to see them.                                     *)
Row(s, t, u) == s \o t \o u
AcksOnTheWay(c) == Row(writer_recv[c], ack_wire[c], reader_send[c])
BuffersOnTheWay(c) == Row(reader_recv[c], data_wire[c], writer_send[c])

(* While the link is reliable nothing waits out of order or for its pop:   *)
(* the acks on their way are those of the oldest writes in the queue, up   *)
(* to the watermark, and the buffers on their way are the scheduled ones   *)
(* above it.                                                               *)
ReliableInv(c) ==
    /\ pop_requests[c] = {}
    /\ out_of_order[c] = {}
    /\ \A i \in 1 .. Len(AcksOnTheWay(c)) : AcksOnTheWay(c)[i] = Popped(c) + i - 1
    /\ watermarks[c] = Popped(c) + Len(AcksOnTheWay(c)) - 1
    /\ \A i \in 1 .. Len(BuffersOnTheWay(c)) :
         BuffersOnTheWay(c)[i] = Numbered(watermarks[c] + i)
    /\ Started(c) = watermarks[c] + Len(BuffersOnTheWay(c)) + 1

(* Together with IInv this is preserved by every step: a step of the       *)
(* sockets changes neither sequence, and a fault ends the claim.           *)
Reliable == faults = 0 => \A c \in Channels : ReliableInv(c)

==============================================================================
