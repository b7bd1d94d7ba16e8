----------------------------- MODULE StreamTask ------------------------------
(***************************************************************************)
(* How records leave a task (stream_task.py, output_collector.py, the      *)
(* Python data_writer.py) and reach the tasks downstream (data_reader.py). *)
(*                                                                         *)
(* The task's thread hands each record to every collector; a collector     *)
(* offers it to the channels its partition names until each has taken it.  *)
(* The writer gathers the messages of a channel in a batch.  A batch goes  *)
(* to the transport when it is full, or when the flusher thread finds it   *)
(* old.  close() may run at any time, on a thread of its own.              *)
(*                                                                         *)
(* Every use of a batch happens under the lock of its channel, so one      *)
(* attempt to write or to flush is one step.  Time is the flag `old': the  *)
(* flush period has passed since the last write to the channel.  The       *)
(* transport is the bounded queue per channel that Transport implements.   *)
(***************************************************************************)
EXTENDS Integers, Sequences, Functions

CONSTANTS
    Channels,
    Collectors,     \* the task's collectors: a sequence of records with
                    \*   channels: the sequence output_channel_ids
                    \*   partition: "broadcast", "round_robin" or "key"
    KeyHash,        \* [record number -> hash of its key]
    BatchSize,      \* batch_size
    Capacity,       \* batches of a channel the transport holds
    NumRecords,     \* bound: records the task produces
    Stopped         \* channels whose reader has stopped reading

(* A collector stands for the edge to one operator downstream and has a    *)
(* channel per task of it; the id of a channel names both tasks.           *)
ASSUME CollectorsAssumption ==
    /\ Len(Collectors) \in Nat \ {0} /\ DOMAIN Collectors = 1 .. Len(Collectors)
    /\ \A k \in DOMAIN Collectors :
         /\ Collectors[k].channels \in Seq(Channels) \ {<< >>}
         /\ Collectors[k].partition \in {"broadcast", "round_robin", "key"}
    /\ \A k, l \in DOMAIN Collectors :
         \A p \in DOMAIN Collectors[k].channels, q \in DOMAIN Collectors[l].channels :
           Collectors[k].channels[p] = Collectors[l].channels[q] => k = l /\ p = q

ASSUME SizesAssumption ==
    /\ BatchSize \in Nat \ {0} /\ Capacity \in Nat \ {0} /\ NumRecords \in Nat
    /\ KeyHash \in [1 .. NumRecords -> Nat]
    /\ Stopped \subseteq Channels

VARIABLES
    records,    \* records the thread has begun to collect
    at,         \* collector that is being served, 0 between two records
    to_send,    \* partitions_to_send
    cur,        \* cur_partition_index, counted from 1
    seq,        \* [collector -> seq of its RoundRobinPartition]
    batch,      \* [channel -> messages not yet handed to the transport]
    old,        \* [channel -> the flush period has passed since the last write]
    wire,       \* [channel -> batches in the transport]
    closer,     \* where close() is
    unflushed,  \* channels that close() has yet to try to flush
    accepted,   \* [channel -> messages the writer has taken], history
    stranded,   \* [channel -> messages in the transport when it closed], history
    received    \* [channel -> messages processed downstream], history

threadVars == <<records, at, to_send, cur, seq>>
writerVars == <<batch, old, wire, accepted, stranded>>
vars == <<threadVars, writerVars, closer, unflushed, received>>

Messages == 1 .. NumRecords

(* The messages of a sequence of batches. *)
Unbatched(batches) ==
    LET upto[n \in 0 .. Len(batches)] ==
          IF n = 0 THEN << >> ELSE upto[n - 1] \o batches[n]
    IN  upto[Len(batches)]

(* A sequence without its i-th element. *)
Without(s, i) == SubSeq(s, 1, i - 1) \o SubSeq(s, i + 1, Len(s))

Init ==
    /\ records = 0 /\ at = 0 /\ to_send = << >> /\ cur = 1
    /\ seq = [k \in DOMAIN Collectors |-> 0]
    /\ batch = [c \in Channels |-> << >>]
    /\ old = [c \in Channels |-> TRUE]
    /\ wire = [c \in Channels |-> << >>]
    /\ closer = "open" /\ unflushed = {}
    /\ accepted = [c \in Channels |-> << >>]
    /\ stranded = [c \in Channels |-> << >>]
    /\ received = [c \in Channels |-> << >>]

------------------------------------------------------------------------------
(* The transport: whether write_bytes takes a payload, and what becomes of *)
(* it.  A closed transport may still have room, but nothing leaves it.     *)
Room(c) == IF closer = "closed" THEN BOOLEAN ELSE {Len(wire[c]) < Capacity}

WriteBytes(c, b) ==
    IF closer = "closed"
    THEN /\ stranded' = [stranded EXCEPT ![c] = @ \o b]
         /\ UNCHANGED wire
    ELSE /\ wire' = [wire EXCEPT ![c] = Append(@, b)]
         /\ UNCHANGED stranded

------------------------------------------------------------------------------
(* _try_write_message, when it returns False: the message would complete a *)
(* batch and the transport does not take it; batch.pop() undoes the append.*)
Refused(c, m) ==
    /\ Len(batch[c]) + 1 = BatchSize
    /\ FALSE \in Room(c)
    /\ UNCHANGED writerVars

(* _try_write_message, when it returns True. *)
Taken(c, m) ==
    LET b == Append(batch[c], m)
    IN  /\ \/ /\ Len(b) = BatchSize
              /\ TRUE \in Room(c)
              /\ WriteBytes(c, b)
              /\ batch' = [batch EXCEPT ![c] = << >>]
           \/ /\ Len(b) # BatchSize
              /\ batch' = [batch EXCEPT ![c] = b]
              /\ UNCHANGED <<wire, stranded>>
        /\ old' = [old EXCEPT ![c] = FALSE]
        /\ accepted' = [accepted EXCEPT ![c] = Append(@, m)]

(* Seeded fault: the batch is cleared although the transport refused it. *)
TryFlushDrops(c) ==
    /\ old[c]
    /\ batch[c] # << >>
    /\ IF TRUE \in Room(c) THEN WriteBytes(c, batch[c]) ELSE UNCHANGED <<wire, stranded>>
    /\ batch' = [batch EXCEPT ![c] = << >>]
    /\ old' = [old EXCEPT ![c] = FALSE]
    /\ UNCHANGED accepted

(* Seeded fault: waits for a full batch. *)
TryFlushWhenFull(c) ==
    /\ old[c]
    /\ Len(batch[c]) = BatchSize
    /\ TRUE \in Room(c)
    /\ WriteBytes(c, batch[c])
    /\ batch' = [batch EXCEPT ![c] = << >>]
    /\ old' = [old EXCEPT ![c] = FALSE]
    /\ UNCHANGED accepted

(* try_flush_if_needed for a channel, when it sends the batch.  When the   *)
(* batch is empty, young or refused the attempt changes nothing.           *)
TryFlush(c) ==
    /\ old[c]
    /\ batch[c] # << >>
    /\ TRUE \in Room(c)
    /\ WriteBytes(c, batch[c])
    /\ batch' = [batch EXCEPT ![c] = << >>]
    /\ old' = [old EXCEPT ![c] = FALSE]
    /\ UNCHANGED accepted

------------------------------------------------------------------------------
(* partition(): the partitions of the record that collector k is given.    *)
(* ForwardPartition is a KeyPartition whose hashes are all 0.              *)
Partition(k, record) ==
    LET n == Len(Collectors[k].channels)
    IN  CASE Collectors[k].partition = "broadcast"   -> [i \in 1 .. n |-> i]
          [] Collectors[k].partition = "round_robin" -> <<((seq[k] + 1) % n) + 1>>
          [] Collectors[k].partition = "key"         -> <<(KeyHash[record] % n) + 1>>

(* collect() of collector k begins, for the given record. *)
BeginCollect(k, record) ==
    /\ at' = k
    /\ to_send' = Partition(k, record)
    /\ cur' = 1
    /\ seq' = IF Collectors[k].partition = "round_robin"
              THEN [seq EXCEPT ![k] = (@ + 1) % Len(Collectors[k].channels)]
              ELSE seq

(* The loop of run() goes round: it ends once close() has begun. *)
Run ==
    /\ closer = "open"
    /\ at = 0
    /\ records < NumRecords
    /\ records' = records + 1
    /\ BeginCollect(1, records + 1)
    /\ UNCHANGED <<writerVars, closer, unflushed, received>>

Target == Collectors[at].channels[to_send[cur]]

(* Seeded fault: the collector insists on the channel that refused. *)
NextPartitionInsists(n) == cur

(* cur_partition_index = (cur_partition_index + 1) % len, counted from 1. *)
NextPartition(n) == (cur % n) + 1

(* collect(): the channel takes the record, and the collector goes on with *)
(* the partitions that are left.  After the last one the next collector of *)
(* the operator is served, if there is one.                                *)
CollectTaken ==
    /\ at # 0
    /\ Taken(Target, records)
    /\ LET left == Without(to_send, cur)
       IN  IF left # << >>
           THEN /\ to_send' = left
                /\ cur' = NextPartition(Len(left))
                /\ UNCHANGED <<at, seq>>
           ELSE IF at < Len(Collectors)
           THEN BeginCollect(at + 1, records)
           ELSE at' = 0 /\ to_send' = << >> /\ cur' = 1 /\ UNCHANGED seq
    /\ UNCHANGED <<records, closer, unflushed, received>>

(* Seeded fault: a refused record is collected from the beginning. *)
CollectRefusedRestarts ==
    /\ at # 0
    /\ Refused(Target, records)
    /\ to_send' = Partition(at, records)
    /\ cur' = 1
    /\ UNCHANGED <<records, at, seq, closer, unflushed, received>>

(* collect(): the channel is full, and the next partition is tried. *)
CollectRefused ==
    /\ at # 0
    /\ Refused(Target, records)
    /\ cur' = NextPartition(Len(to_send))
    /\ UNCHANGED <<records, at, to_send, seq, closer, unflushed, received>>

------------------------------------------------------------------------------
(* The flush period passes without a write to channel c. *)
Age(c) ==
    /\ ~old[c]
    /\ old' = [old EXCEPT ![c] = TRUE]
    /\ UNCHANGED <<threadVars, batch, wire, accepted, stranded, closer, unflushed,
                   received>>

(* _flusher_loop.  Its last pass may still be under way after close() has  *)
(* told it to stop, but not when join(5) has returned.                     *)
Flusher(c) ==
    /\ closer \in {"open", "task_stopped", "writer_stopped"}
    /\ TryFlush(c)
    /\ UNCHANGED <<threadVars, closer, unflushed, received>>

(* StreamTask.close: stops the loop of run(). *)
Close ==
    /\ closer = "open"
    /\ closer' = "task_stopped"
    /\ UNCHANGED <<threadVars, writerVars, unflushed, received>>

(* DataWriter.close: stops the flusher, waits for it or for the timeout of *)
(* join(5), tries once to flush each channel, then closes the transport.   *)
CloseWriter ==
    /\ closer = "task_stopped"
    /\ closer' = "writer_stopped"
    /\ UNCHANGED <<threadVars, writerVars, unflushed, received>>

CloseJoined ==
    /\ closer = "writer_stopped"
    /\ closer' = "flushing"
    /\ unflushed' = Channels
    /\ UNCHANGED <<threadVars, writerVars, received>>

CloseFlush(c) ==
    /\ closer = "flushing"
    /\ c \in unflushed
    /\ unflushed' = unflushed \ {c}
    /\ IF old[c] /\ batch[c] # << >> /\ TRUE \in Room(c)
       THEN TryFlush(c)
       ELSE UNCHANGED writerVars
    /\ UNCHANGED <<threadVars, closer, received>>

(* Of the batches in the transport some have left the writer and can still *)
(* be read; the others stay where they are.                                *)
CloseTransport ==
    /\ closer = "flushing"
    /\ unflushed = {}
    /\ closer' = "closed"
    /\ \E left \in [Channels -> 0 .. Capacity] :
         /\ \A c \in Channels : left[c] <= Len(wire[c])
         /\ wire' = [c \in Channels |-> SubSeq(wire[c], 1, left[c])]
         /\ stranded' = [c \in Channels |->
              Unbatched(SubSeq(wire[c], left[c] + 1, Len(wire[c])))]
    /\ UNCHANGED <<threadVars, batch, old, accepted, unflushed, received>>

(* Downstream: read_message returns a batch, whose messages are processed. *)
ReadMessage(c) ==
    /\ c \notin Stopped
    /\ wire[c] # << >>
    /\ wire' = [wire EXCEPT ![c] = Tail(@)]
    /\ received' = [received EXCEPT ![c] = @ \o Head(wire[c])]
    /\ UNCHANGED <<threadVars, batch, old, accepted, stranded, closer, unflushed>>

Next ==
    \/ Run \/ CollectTaken \/ CollectRefused
    \/ \E c \in Channels : Age(c) \/ Flusher(c) \/ ReadMessage(c)
    \/ Close \/ CloseWriter \/ CloseJoined \/ CloseTransport
    \/ \E c \in Channels : CloseFlush(c)

Spec == Init /\ [][Next]_vars

(* The task's thread, the flusher and the readers keep running, and time   *)
(* passes.  Nothing is assumed of close().                                 *)
Fairness ==
    /\ WF_vars(Run \/ CollectTaken \/ CollectRefused)
    /\ \A c \in Channels : WF_vars(Age(c)) /\ WF_vars(Flusher(c)) /\ WF_vars(ReadMessage(c))

FairSpec == Spec /\ Fairness

------------------------------------------------------------------------------
(* Batching is invisible: on every channel the messages processed          *)
(* downstream, in the transport and in the batch are, in this order, those *)
(* the writer has taken.  A retry after backpressure, a flush by another   *)
(* thread and close() lose, repeat or reorder none; what close() strands   *)
(* is the end of the stream, never its middle.                             *)
BatchingIsFifo ==
    \A c \in Channels :
      received[c] \o Unbatched(wire[c]) \o stranded[c] \o batch[c] = accepted[c]

(* The partitions a record must reach, from its number alone: RoundRobin   *)
(* starts from the second channel.                                         *)
MustReach(k, record) ==
    LET n == Len(Collectors[k].channels)
    IN  CASE Collectors[k].partition = "broadcast"   -> 1 .. n
          [] Collectors[k].partition = "round_robin" -> {(record % n) + 1}
          [] Collectors[k].partition = "key"         -> {(KeyHash[record] % n) + 1}

(* A record whose collection is over was taken by each channel it must     *)
(* reach and by no other, however often channels refused it in between;    *)
(* and every channel has taken its records in order, none of them twice.   *)
CollectedOnce ==
    /\ \A k \in DOMAIN Collectors, r \in Messages :
         (r < records \/ (r = records /\ (at = 0 \/ at > k))) =>
           \A p \in 1 .. Len(Collectors[k].channels) :
             r \in Range(accepted[Collectors[k].channels[p]]) <=> p \in MustReach(k, r)
    /\ \A c \in Channels : \A i, j \in 1 .. Len(accepted[c]) :
         i < j => accepted[c][i] < accepted[c][j]

(* Unless the task is closed, every message the writer has taken is        *)
(* processed downstream, also those that never fill a batch: the flusher   *)
(* sends them, if need be after the transport has refused them.            *)
AllDelivered ==
    []<>(\/ closer # "open"
         \/ \A c \in Channels \ Stopped : received[c] = accepted[c])

(* A channel that is full forever keeps only itself waiting: the record a  *)
(* collector broadcasts still reaches all the channels that are read.      *)
OthersAreServed ==
    []<>(\/ closer # "open"
         \/ at = 0
         \/ \A i \in 1 .. Len(to_send) :
              Collectors[at].channels[to_send[i]] \in Stopped)

==============================================================================
