-------------------------------- MODULE Sinks --------------------------------
(***************************************************************************)
(* The end of a job: a source worker emits records, a sink worker takes    *)
(* them (SinkOperator), and one of five sink functions brings them to a    *)
(* cache actor.  Three of these buffer: a dumper thread, and close() too,  *)
(* send the buffer and then replace it by a new one, without a lock        *)
(* (function.py, simple_in_memory_actor_storage.py).  Calls from one       *)
(* worker reach the actor in their order.  A simple sink only calls a      *)
(* function.                                                               *)
(*                                                                         *)
(* Between a test of the buffer and its sending only another dump can come *)
(* in between, and then an empty buffer is sent, so they are one step.     *)
(***************************************************************************)
EXTENDS CacheStorage, Stats

CONSTANTS
    Records,        \* sequence of [keys, ts] that a source may emit
    EmitEvery,      \* every how many records one is stamped for latency (100)
    Instances       \* set of [kind: "bulk", "single", "list", "dict" or "simple",
                    \* the sink function; records: how many are emitted; seconds: how long
                    \* it takes at most; skew: how far the clock of the sink's node
                    \* is behind that of the source's]

ASSUME SinksAssumption ==
    /\ SourceWorkers # {} /\ SinkWorkers # {} /\ EmitEvery \in Nat \ {0}
    /\ Records \in Seq([keys : {Records[i].keys : i \in DOMAIN Records}, ts : Int])
    /\ \A i \in DOMAIN Records : LET keys == Records[i].keys
                                IN  keys = [f \in DOMAIN keys |-> keys[f]]
    /\ Instances \subseteq [kind : {"bulk", "single", "list", "dict", "simple"},
                           records : 0 .. Len(Records), seconds : Nat, skew : Int]

VARIABLES
    instance,
    emit_ts,        \* source_emit_ts of the records emitted so far, or None
    sunk,           \* number of records that have come to the sink
    buffer,         \* positions in Records
    dumper,         \* the dumper thread: "test", "swap", "done"
    closer,         \* close(): "open", "test", "swap", "join", "closed"
    running,        \* of the sink function
    destroying,     \* JobMaster.destroy has been called
    calls,          \* buffers on their way to the actor
    cache,          \* what the actor holds
    swapped, late   \* records that came while a buffer was sent but not yet replaced,
                    \* or after the sink was told to close, history

sinkVars == <<buffer, dumper, closer, running, calls, cache, swapped, late>>
vars == <<instance, emit_ts, sunk, sinkVars, destroying, statsVars>>

kind == instance.kind
skew == instance.skew
Buffers == kind \in {"bulk", "list", "dict"}
Source == CHOOSE w \in SourceWorkers : TRUE
Sink == CHOOSE w \in SinkWorkers : TRUE

Init ==
    /\ instance \in Instances
    /\ emit_ts = <<>> /\ sunk = 0 /\ buffer = <<>>
    /\ dumper = (IF Buffers THEN "test" ELSE "done")
    /\ closer = "open" /\ running = TRUE /\ destroying = FALSE
    /\ calls = <<>> /\ swapped = {} /\ late = {}
    /\ cache = (IF kind \in {"bulk", "single"} THEN EmptyStore ELSE <<>>)
    /\ StatsInit

------------------------------------------------------------------------------
(* SourceContextImpl.collect stamps every so many records and counts all. *)
Emit ==
    /\ Len(emit_ts) < instance.records
    /\ emit_ts' = Append(emit_ts, IF (Len(emit_ts) + 1) % EmitEvery = 0 THEN clock + skew ELSE None)
    /\ inc(Source)
    /\ UNCHANGED <<instance, sunk, sinkVars, destroying>>

SameKeys(i, j) == Records[i].keys = Records[j].keys

Overwritten(i) == [n \in DOMAIN buffer |-> IF SameKeys(buffer[n], i) THEN i ELSE buffer[n]]
HasKeys(i) == \E n \in DOMAIN buffer : SameKeys(buffer[n], i)

(* Seeded fault: every buffer keeps the last record of a key. *)
BufferedByKey(i) == IF HasKeys(i) THEN Overwritten(i) ELSE Append(buffer, i)

(* A dict buffer keeps the last record of a key. *)
Buffered(i) == IF kind = "dict" /\ HasKeys(i) THEN Overwritten(i) ELSE Append(buffer, i)

(* SinkOperator.process_element and sink().  The thread of a worker that   *)
(* observed a negative latency is gone.                                    *)
Process ==
    LET i == sunk + 1
    IN  /\ sunk < Len(emit_ts) /\ Sink \notin stuck
        /\ IF emit_ts[i] # None THEN observe(Sink, clock - emit_ts[i], clock)
                               ELSE UNCHANGED statsVars
        /\ sunk' = i
        /\ IF Sink \in stuck' THEN UNCHANGED <<buffer, calls, swapped, late>>
           ELSE IF Buffers
           THEN /\ buffer' = Buffered(i)
                /\ swapped' = IF "swap" \in {dumper, closer} THEN swapped \cup {i} ELSE swapped
                /\ late' = IF closer = "open" THEN late ELSE late \cup {i}
                /\ UNCHANGED calls
           ELSE /\ calls' = IF kind = "single" THEN Append(calls, <<i>>) ELSE calls
                /\ UNCHANGED <<buffer, swapped, late>>
        /\ UNCHANGED <<instance, emit_ts, dumper, closer, running, destroying, cache>>

------------------------------------------------------------------------------
(* _dump_buffer_if_needed: the buffer is serialized into a call, *)
Send == calls' = IF buffer = <<>> THEN calls ELSE Append(calls, buffer)

DumpSend ==
    /\ dumper = "test" /\ running /\ buffer # <<>>
    /\ Send
    /\ dumper' = "swap"
    /\ UNCHANGED <<instance, emit_ts, sunk, buffer, closer, running, destroying, cache, swapped, late,
                   statsVars>>

(* Seeded fault: the buffer is sent and kept. *)
DumpSwapKeeps ==
    /\ dumper = "swap"
    /\ dumper' = "test"
    /\ UNCHANGED <<instance, emit_ts, sunk, buffer, closer, running, destroying, calls, cache,
                   swapped, late, statsVars>>

(* and then replaced. *)
DumpSwap ==
    /\ dumper = "swap"
    /\ dumper' = "test"
    /\ buffer' = <<>>
    /\ UNCHANGED <<instance, emit_ts, sunk, closer, running, destroying, calls, cache, swapped, late,
                   statsVars>>

DumpEnds ==
    /\ dumper = "test" /\ ~running
    /\ dumper' = "done"
    /\ UNCHANGED <<instance, emit_ts, sunk, buffer, closer, running, destroying, calls, cache,
                   swapped, late, statsVars>>

------------------------------------------------------------------------------
(* JobMaster.destroy: statistics are stopped, then the workers are closed. *)
Destroy ==
    /\ ~destroying
    /\ destroying' = TRUE
    /\ UNCHANGED <<instance, emit_ts, sunk, sinkVars, statsVars>>

(* Seeded fault: close() relies on the dumper thread. *)
CloseWithoutDump ==
    /\ destroying /\ StatsStopped /\ closer = "open"
    /\ running' = FALSE
    /\ closer' = "join"
    /\ UNCHANGED <<instance, emit_ts, sunk, buffer, dumper, destroying, calls, cache, swapped, late,
                   statsVars>>

(* close() of the sink function. *)
Close ==
    /\ destroying /\ StatsStopped /\ closer = "open"
    /\ running' = FALSE
    /\ closer' = IF Buffers THEN "test" ELSE "closed"
    /\ UNCHANGED <<instance, emit_ts, sunk, buffer, dumper, destroying, calls, cache, swapped, late,
                   statsVars>>

CloseSend ==
    /\ closer = "test"
    /\ Send
    /\ closer' = IF buffer = <<>> THEN "join" ELSE "swap"
    /\ UNCHANGED <<instance, emit_ts, sunk, buffer, dumper, running, destroying, cache, swapped, late,
                   statsVars>>

CloseSwap ==
    /\ closer = "swap"
    /\ closer' = "join"
    /\ buffer' = <<>>
    /\ UNCHANGED <<instance, emit_ts, sunk, dumper, running, destroying, calls, cache, swapped, late,
                   statsVars>>

(* The dumper thread is joined, for at most 5 s. *)
CloseJoin ==
    /\ closer = "join"
    /\ closer' = "closed"
    /\ UNCHANGED <<instance, emit_ts, sunk, buffer, dumper, running, destroying, calls, cache,
                   swapped, late, statsVars>>

------------------------------------------------------------------------------
(* The actors: put_records, extend_list, extend_dict. *)
RecordsOf(ids) == [n \in DOMAIN ids |-> [keys |-> Records[ids[n]].keys, ts |-> Records[ids[n]].ts,
                                         value |-> ids[n]]]

extend_dict(d, ids) ==
    LET new == {Records[i].keys : i \in Range(ids)}
    IN  [k \in DOMAIN d \cup new |->
           IF k \in new THEN CHOOSE i \in Range(ids) : Records[i].keys = k ELSE d[k]]

ServeCall ==
    /\ calls # <<>>
    /\ calls' = Tail(calls)
    /\ cache' = CASE kind \in {"bulk", "single"} -> put_records(cache, RecordsOf(Head(calls)))
                  [] kind = "list" -> cache \o Head(calls)
                  [] kind = "dict" -> extend_dict(cache, Head(calls))
    /\ UNCHANGED <<instance, emit_ts, sunk, buffer, dumper, closer, running, destroying, swapped, late,
                   statsVars>>

------------------------------------------------------------------------------
StatsStep ==
    /\ \/ clock < instance.seconds /\ Tick
       \/ CollectLoop(~destroying)
       \/ Stop(~destroying)
       \/ \E r \in Rounds : Aggregate(r) \/ \E w \in Workers : collect(r, w)
    /\ UNCHANGED <<instance, emit_ts, sunk, sinkVars, destroying>>

Dump == DumpSend \/ DumpSwap \/ DumpEnds
Closing == Close \/ CloseSend \/ CloseSwap \/ CloseJoin

Next == Emit \/ Process \/ Dump \/ Destroy \/ Closing \/ ServeCall \/ StatsStep

Spec == Init /\ [][Next]_vars

(* What only ServeCall does. *)
Serves == calls # <<>> /\ calls' = Tail(calls)

(* Threads keep running and calls are answered; nothing makes a source     *)
(* emit or a client destroy the job.                                       *)
Fairness ==
    /\ WF_vars(Process) /\ WF_vars(Dump) /\ WF_vars(Closing) /\ WF_calls(Serves)
    /\ WF_vars(StatsStep)

FairSpec == Spec /\ Fairness

------------------------------------------------------------------------------
(* Positions of the records that the actor holds. *)
Stored ==
    CASE kind \in {"bulk", "single"} ->
           UNION {{e.value : e \in Range(cache.per_key[k])} : k \in DOMAIN cache.per_key}
      [] kind \notin {"bulk", "single"} -> {cache[k] : k \in DOMAIN cache}

Sent == UNION {Range(calls[n]) : n \in DOMAIN calls}

(* What the storage cannot take: see Clashes. *)
Tied(i) == kind \in {"bulk", "single"} /\ \E j \in 1 .. sunk :
             j # i /\ SameKeys(j, i) /\ Records[j].ts = Records[i].ts

(* A newer record of the same key replaces one in a dict. *)
Replaced(i) == kind = "dict" /\ \E j \in i + 1 .. sunk : SameKeys(j, i)

(* A record that came to the sink is in the buffer, on its way or stored,  *)
(* unless it came between the sending and the replacing of a buffer        *)
(* (function.py:351), or the storage raised at it or before it in its      *)
(* batch, which takes two records with the same keys and time.             *)
NothingElseLost ==
    \A i \in 1 .. sunk :
      \/ i \in Range(buffer) \cup Sent \cup Stored \cup swapped
      \/ Replaced(i) \/ kind = "simple"
      \/ i = sunk /\ Sink \in stuck
      \/ \E j \in 1 .. i : Tied(j)

(* Until the sink is closed a list grows by every record once and in the   *)
(* order of sinking, however dumps and records interleave; only close()    *)
(* may send what the dumper is sending too.                                *)
ListInOrder ==
    kind = "list" /\ closer \in {"open", "test"} =>
      \A m, n \in DOMAIN cache : m < n => cache[m] < cache[n]

(* A record that came before the sink was closed, and not while a buffer   *)
(* was being replaced, is stored in the end, also when close() and the     *)
(* dumper dump at the same time.                                           *)
EventuallyStored ==
    []<>(\A i \in 1 .. sunk :
           \/ i \in Stored \cup swapped \cup late
           \/ Replaced(i) \/ kind = "simple"
           \/ i = sunk /\ Sink \in stuck
           \/ \E j \in 1 .. i : Tied(j))

(* Destroying a job comes to an end, unless clocks of different nodes make *)
(* a latency negative: the worker then keeps the lock of its statistics,   *)
(* for which stop() waits (stats_manager.py:58).                           *)
DestroyReturns == destroying ~> (closer = "closed" \/ skew > 0)

==============================================================================
