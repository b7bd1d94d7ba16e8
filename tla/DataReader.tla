----------------------------- MODULE DataReader ------------------------------
(***************************************************************************)
(* The reading end of a set of channels (data_reader.rs).  The dispatcher  *)
(* thread takes buffers that the IO threads received, restores their order *)
(* per channel, moves payloads into one queue shared by all channels and   *)
(* acknowledges them; the application takes payloads with read_bytes.      *)
(***************************************************************************)
EXTENDS Buffers

CONSTANT OutputQueueSize    \* output_queue_size

ASSUME OutputQueueSizeAssumption == OutputQueueSize \in Nat \ {0}

VARIABLES
    reader_recv,    \* [channel -> buffers received by the IO thread]
    reader_send,    \* [channel -> ids of acks waiting for the IO thread]
    out_queue,      \* payloads of all channels, ready for read_bytes
    watermarks,     \* [channel -> id of the last payload put in out_queue]
    out_of_order,   \* [channel -> buffers received ahead of their turn]
    consumed        \* [channel -> payloads returned by read_bytes], history

readerVars == <<reader_recv, reader_send, out_queue, watermarks, out_of_order,
                consumed>>

QueuedPayload == [channel : Channels, data : Payloads]

ReaderTypeOK ==
    /\ reader_recv \in [Channels -> Seq(BufferType)]
    /\ reader_send \in [Channels -> Seq(BufferIds)]
    /\ out_queue \in Seq(QueuedPayload)
    /\ watermarks \in [Channels -> -1 .. Half - 1]
    /\ out_of_order \in [Channels -> SUBSET BufferType]
    /\ consumed \in [Channels -> Seq(Payloads)]

ReaderInit ==
    /\ reader_recv = [c \in Channels |-> << >>]
    /\ reader_send = [c \in Channels |-> << >>]
    /\ out_queue = << >>
    /\ watermarks = [c \in Channels |-> -1]
    /\ out_of_order = [c \in Channels |-> {}]
    /\ consumed = [c \in Channels |-> << >>]

------------------------------------------------------------------------------
(* The keys of the out-of-order map and the buffer stored under a key. *)
Key(b) == AsI32(b.id)
Keys(buffers) == {Key(b) : b \in buffers}
Stored(buffers, k) == CHOOSE b \in buffers : Key(b) = k

(* The dispatcher takes a buffer of channel c only while out_queue has     *)
(* room.                                                                   *)
CanDispatch(c) ==
    /\ Len(out_queue) # OutputQueueSize
    /\ reader_recv[c] # << >>

Received(c) == Head(reader_recv[c])

(* Removes the received buffer and acknowledges it without storing it. *)
DropAndAck(c) ==
    /\ reader_recv' = [reader_recv EXCEPT ![c] = Tail(@)]
    /\ reader_send' = [reader_send EXCEPT ![c] = Append(@, Received(c).id)]
    /\ UNCHANGED <<out_queue, watermarks, out_of_order, consumed>>

(* Already delivered: drop and resend the ack. *)
DispatchStale(c) ==
    /\ CanDispatch(c)
    /\ Key(Received(c)) <= watermarks[c]
    /\ DropAndAck(c)

(* Already waiting for its turn: acknowledge the duplicate. *)
DispatchDuplicate(c) ==
    /\ CanDispatch(c)
    /\ Key(Received(c)) > watermarks[c]
    /\ Key(Received(c)) \in Keys(out_of_order[c])
    /\ DropAndAck(c)

(* The buffers that a drain of n steps takes from `stored', in order. *)
Run(stored, wm, n) == [i \in 1 .. n |-> Stored(stored, wm + i)]

(* n steps of the drain loop are taken: the next n keys are all stored,    *)
(* and the loop stops because out_queue is full or the next key is absent. *)
DrainLength(stored, wm, n) ==
    /\ n \in 0 .. OutputQueueSize - Len(out_queue)
    /\ \A i \in 1 .. n : wm + i \in Keys(stored)
    /\ \/ n = OutputQueueSize - Len(out_queue)
       \/ wm + n + 1 \notin Keys(stored)

(* Seeded fault: stores the id it failed to find, not the last one moved. *)
NextWatermarkOffByOne(wm, n) == wm + n + 1

(* The watermark after n steps of the drain loop: next_wm - 1. *)
NextWatermark(wm, n) == wm + n

(* A new buffer: store it, then move every consecutive buffer above the    *)
(* watermark to out_queue, acknowledging each, while out_queue has room.   *)
DispatchNew(c) ==
    /\ CanDispatch(c)
    /\ Key(Received(c)) > watermarks[c]
    /\ Key(Received(c)) \notin Keys(out_of_order[c])
    /\ reader_recv' = [reader_recv EXCEPT ![c] = Tail(@)]
    /\ LET wm == watermarks[c]
           stored == out_of_order[c] \cup {Received(c)}
       IN  \E n \in 0 .. OutputQueueSize - Len(out_queue) :
             LET run == Run(stored, wm, n)
             IN  /\ DrainLength(stored, wm, n)
                 /\ out_queue' = out_queue \o
                      [i \in 1 .. n |-> [channel |-> c, data |-> run[i].data]]
                 /\ reader_send' = [reader_send EXCEPT
                      ![c] = @ \o [i \in 1 .. n |-> run[i].id]]
                 /\ out_of_order' = [out_of_order EXCEPT
                      ![c] = {b \in stored : Key(b) \notin wm + 1 .. wm + n}]
                 /\ watermarks' = [watermarks EXCEPT ![c] = NextWatermark(wm, n)]
    /\ UNCHANGED consumed

(* One pass of the dispatcher over channel c that finds a buffer. *)
Dispatch(c) == DispatchStale(c) \/ DispatchDuplicate(c) \/ DispatchNew(c)

(* read_bytes: the application takes the next payload. *)
ReadBytes ==
    /\ out_queue # << >>
    /\ LET p == Head(out_queue)
       IN  consumed' = [consumed EXCEPT ![p.channel] = Append(@, p.data)]
    /\ out_queue' = Tail(out_queue)
    /\ UNCHANGED <<reader_recv, reader_send, watermarks, out_of_order>>

==============================================================================
