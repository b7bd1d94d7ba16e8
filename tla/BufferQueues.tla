---------------------------- MODULE BufferQueues -----------------------------
(***************************************************************************)
(* The writer's per-channel queues of unacknowledged buffers               *)
(* (buffer_queues.rs).  A buffer stays in the queue from try_push until    *)
(* its pop request can be served in order; `index' separates the buffers   *)
(* already handed to the output loop from those still to be scheduled.     *)
(* Every operation runs under the mutex of its queue, so each is atomic.   *)
(***************************************************************************)
EXTENDS Buffers

CONSTANT MaxBuffers     \* max_buffers_per_channel

ASSUME MaxBuffersAssumption == MaxBuffers \in Nat \ {0}

VARIABLES
    v,              \* [channel -> sequence of buffers], the VecDeque
    index,          \* [channel -> number of scheduled buffers at the front]
    buffer_id_seq,  \* [channel -> id of the next buffer]
    pop_requests    \* [channel -> ids whose pop was requested, not served]

queueVars == <<v, index, buffer_id_seq, pop_requests>>

QueueTypeOK ==
    /\ v \in [Channels -> Seq(BufferType)]
    /\ index \in [Channels -> Nat]
    /\ buffer_id_seq \in [Channels -> BufferIds]
    /\ pop_requests \in [Channels -> SUBSET BufferIds]

QueueInit ==
    /\ v = [c \in Channels |-> << >>]
    /\ index = [c \in Channels |-> 0]
    /\ buffer_id_seq = [c \in Channels |-> 0]
    /\ pop_requests = [c \in Channels |-> {}]

------------------------------------------------------------------------------
(* Seeded fault: the capacity test is missing. *)
TryPushNoLimit(c, b) ==
    /\ v' = [v EXCEPT ![c] = Append(@, NewBufferWithMeta(buffer_id_seq[c], b))]
    /\ buffer_id_seq' = [buffer_id_seq EXCEPT ![c] = NextBufferId(@)]
    /\ UNCHANGED <<index, pop_requests>>

(* try_push: refused when the queue is full, otherwise stamps and appends. *)
TryPush(c, b) ==
    /\ Len(v[c]) # MaxBuffers
    /\ v' = [v EXCEPT ![c] = Append(@, NewBufferWithMeta(buffer_id_seq[c], b))]
    /\ buffer_id_seq' = [buffer_id_seq EXCEPT ![c] = NextBufferId(@)]
    /\ UNCHANGED <<index, pop_requests>>

(* The buffer schedule_next returns, when there is one. *)
CanSchedule(c) == index[c] < Len(v[c])
Scheduled(c) == v[c][index[c] + 1]

(* Seeded fault: the index does not advance. *)
ScheduleNextNoAdvance(c) == CanSchedule(c) /\ UNCHANGED queueVars

(* schedule_next: hands out the buffer at the index without popping it. *)
ScheduleNext(c) ==
    /\ CanSchedule(c)
    /\ index' = [index EXCEPT ![c] = @ + 1]
    /\ UNCHANGED <<v, buffer_id_seq, pop_requests>>

(* Seeded fault: pops the head for every request, whatever its id. *)
RequestPopAnyHead(c, id) ==
    /\ v' = [v EXCEPT ![c] = IF @ = << >> THEN @ ELSE Tail(@)]
    /\ index' = [index EXCEPT ![c] = @ - 1]
    /\ UNCHANGED <<buffer_id_seq, pop_requests>>

(* Seeded fault: the request is recorded and never served. *)
RequestPopNeverServed(c, id) ==
    /\ pop_requests' = [pop_requests EXCEPT ![c] = @ \cup {id}]
    /\ UNCHANGED <<v, index, buffer_id_seq>>

(* request_pop: records the id, then pops the longest prefix of the queue  *)
(* whose ids have all been requested.                                      *)
RequestPop(c, id) ==
    LET requests == pop_requests[c] \cup {id}
    IN  \E n \in 0 .. Len(v[c]) :
          LET popped == {v[c][i].id : i \in 1 .. n}
          IN  /\ popped \subseteq requests
              /\ n < Len(v[c]) => v[c][n + 1].id \notin requests
              /\ v' = [v EXCEPT ![c] = SubSeq(@, n + 1, Len(@))]
              /\ index' = [index EXCEPT ![c] = @ - n]
              /\ pop_requests' = [pop_requests EXCEPT ![c] = requests \ popped]
              /\ UNCHANGED buffer_id_seq

==============================================================================
