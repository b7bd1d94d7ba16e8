----------------------------- MODULE DataWriter ------------------------------
(***************************************************************************)
(* The writing end of a set of channels (data_writer.rs): the application  *)
(* pushes payloads with write_bytes, the output thread hands buffers to    *)
(* the send channels that the IO threads drain, and the input thread takes *)
(* acknowledgements from the receive channels that the IO threads fill.    *)
(***************************************************************************)
EXTENDS BufferQueues, FiniteSets, Functions

CONSTANT NumBuffers     \* bound: write_bytes calls that succeed per channel

ASSUME NumBuffersAssumption == NumBuffers \in Nat

VARIABLES
    written,        \* [channel -> number of payloads accepted], history
    in_flight,      \* [channel -> set of sent buffers awaiting an ack]
    writer_send,    \* [channel -> buffers waiting for the IO thread]
    writer_recv     \* [channel -> ids of received acks]

writerVars == <<queueVars, written, in_flight, writer_send, writer_recv>>

WriterTypeOK ==
    /\ QueueTypeOK
    /\ written \in [Channels -> 0 .. NumBuffers]
    /\ in_flight \in [Channels -> SUBSET BufferType]
    /\ writer_send \in [Channels -> Seq(BufferType)]
    /\ writer_recv \in [Channels -> Seq(BufferIds)]

WriterInit ==
    /\ QueueInit
    /\ written = [c \in Channels |-> 0]
    /\ in_flight = [c \in Channels |-> {}]
    /\ writer_send = [c \in Channels |-> << >>]
    /\ writer_recv = [c \in Channels |-> << >>]

------------------------------------------------------------------------------
(* write_bytes: one successful attempt.  A refused attempt (None, or a     *)
(* retry of a blocking call) changes nothing.                              *)
WriteBytes(c) ==
    /\ written[c] < NumBuffers
    /\ TryPush(c, written[c])
    /\ written' = [written EXCEPT ![c] = @ + 1]
    /\ UNCHANGED <<in_flight, writer_send, writer_recv>>

(* The in-flight buffers whose timeout has passed, in any order, as many   *)
(* as the send channel has room for.  Which ones have timed out depends on *)
(* the clock and is left open.                                             *)
Resends(c) ==
    UNION {Injection(1 .. n, in_flight[c]) :
             n \in 0 .. MaxBuffers - Len(writer_send[c])}

(* locked_in_flight.clone().insert(..) stores the buffer in a copy of the  *)
(* map: the map itself keeps its value.                                    *)
InFlightInsert(c, b) == in_flight[c]

(* The body of the output loop for one channel: resend what has timed out, *)
(* then, below the in-flight limit, send the next scheduled buffer.        *)
OutputLoop(c) ==
    \E resent \in Resends(c) :
      LET chan == writer_send[c] \o resent
      IN  IF /\ Cardinality(in_flight[c]) # MaxBuffers
             /\ Len(chan) < MaxBuffers
             /\ CanSchedule(c)
          THEN /\ ScheduleNext(c)
               /\ writer_send' = [writer_send EXCEPT ![c] = Append(chan, Scheduled(c))]
               /\ in_flight' = [in_flight EXCEPT ![c] = InFlightInsert(c, Scheduled(c))]
               /\ UNCHANGED <<written, writer_recv>>
          ELSE /\ writer_send' = [writer_send EXCEPT ![c] = chan]
               /\ UNCHANGED <<queueVars, written, in_flight, writer_recv>>

(* The body of the input loop for one channel: take one ack, forget the    *)
(* in-flight buffer, request its pop.                                      *)
InputLoop(c) ==
    /\ writer_recv[c] # << >>
    /\ LET id == Head(writer_recv[c])
       IN  /\ in_flight' = [in_flight EXCEPT ![c] = {b \in @ : b.id # id}]
           /\ RequestPop(c, id)
    /\ writer_recv' = [writer_recv EXCEPT ![c] = Tail(@)]
    /\ UNCHANGED <<written, writer_send>>

==============================================================================
