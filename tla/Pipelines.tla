------------------------------ MODULE Pipelines ------------------------------
(***************************************************************************)
(* Pipelines from declaration to output: a pipeline function declares      *)
(* nodes, a client makes streams of them and runs these, and records pass  *)
(* through the operators to the sink, the two sides of a join in any       *)
(* order.  Programs written with streams directly (flat_map, reduce) are   *)
(* run in the same way.                                                    *)
(*                                                                         *)
(* Every vertex has one worker (the client ignores its parallelism) and    *)
(* every edge between workers is a FIFO channel that copies what it        *)
(* carries.  An operator with one input takes records in the order in      *)
(* which they are sent, and nothing depends on when, so it takes them at   *)
(* once, chained or not; where streams meet they are queued.  When an      *)
(* operator raises, the thread of its worker ends, and with it all the     *)
(* operators of the chain.                                                 *)
(***************************************************************************)
EXTENDS Datasets

CONSTANTS
    Items,          \* [position in Datasets -> sequence of dicts]
    KeyFields,      \* fields that may be grouped by or joined on
    Targets,        \* schemas of target datasets
    StreamPrograms, \* sequences of streams, the last one being the sink
    Storages,       \* sets of storages a client may have: "hot", "cold"
    MaxNodes        \* bound: operators in each of the pipelines that one process
                    \* materializes, a sequence

VARIABLES
    target, storages,   \* the instance
    jobs,           \* pipelines materialized so far, or attempted
    nodes,          \* of the pipeline being declared
    inited,         \* datasets that have a stream
    outcome,        \* of the last attempt: "none", "raised", "running"
    streams,        \* the running job
    queues,         \* [stream -> [input -> records]], where streams meet
    state,          \* [stream -> state of its operator]
    pos,            \* [stream -> items emitted by a source]
    dead,           \* streams whose worker has ended
    seen, outs      \* [stream -> <<side, record>> it took, batches it collected], history

run == <<streams, queues, state, pos, dead, seen, outs>>
vars == <<target, storages, jobs, nodes, inited, outcome, run>>

Start(program) ==
    /\ streams' = program
    /\ queues' = [v \in DOMAIN program |-> [k \in DOMAIN program[v].inputs |-> <<>>]]
    /\ state' = [v \in DOMAIN program |-> <<>>]
    /\ pos' = [v \in DOMAIN program |-> 0]
    /\ dead' = {}
    /\ seen' = [v \in DOMAIN program |-> <<>>] /\ outs' = [v \in DOMAIN program |-> <<>>]

Init ==
    /\ target \in Targets /\ storages \in Storages
    /\ jobs = 0 /\ nodes = DatasetNodes /\ inited = {} /\ outcome = "none"
    /\ streams = <<>> /\ queues = <<>> /\ state = <<>> /\ pos = <<>> /\ dead = {}
    /\ seen = <<>> /\ outs = <<>>

------------------------------------------------------------------------------
(* A pipeline function; every node but the last has a child. *)
Latest == Len(nodes)
Fresh == Latest = Len(Datasets)
Inputs == IF Fresh THEN DOMAIN nodes ELSE {Latest}

Declare ==
    /\ outcome = "none" /\ jobs < Len(MaxNodes)
    /\ Latest < Len(Datasets) + MaxNodes[jobs + 1]
    /\ \E p \in Inputs :
         \/ /\ IsOperatorNode(nodes[p])
            /\ \E node \in {Transform(nodes, p), FilterNode(nodes, p), Unfinished(nodes, p)}
                             \cup {GroupBy(nodes, p, key) : key \in KeyFields} :
                 nodes' = Append(nodes, node)
         \/ ~IsOperatorNode(nodes[p]) /\ nodes' = Append(nodes, Aggregate(nodes, p))
         \/ \E q \in DOMAIN DatasetNodes : \E lr \in {<<p, q>>, <<q, p>>} :
              \E left_on, right_on \in KeyFields :
                /\ IsOperatorNode(nodes[p]) /\ CanJoin(nodes, p, q)
                /\ left_on \in SchemaFields(nodes[lr[1]].schema)
                /\ right_on \in SchemaFields(nodes[lr[2]].schema)
                /\ nodes' = Append(nodes, JoinNode(nodes, lr[1], lr[2], left_on, right_on))
    /\ UNCHANGED <<target, storages, jobs, inited, outcome, run>>

(* materialize_offline needs cold storage and materialize_online hot       *)
(* storage, for which they look when datasets already have their streams.  *)
Materialize(storage) ==
    LET build == _build_stream(nodes, Latest, target, inited)
    IN  /\ outcome = "none" /\ ~Fresh /\ jobs < Len(MaxNodes)
        /\ inited' = build.inited
        /\ jobs' = jobs + 1
        /\ IF build.raised \/ storage \notin storages
           THEN outcome' = "raised" /\ UNCHANGED run
           ELSE /\ outcome' = "running"
                /\ Start(Append(build.streams, Stream("sink", <<Len(build.streams)>>, "storage")))
        /\ UNCHANGED <<target, storages, nodes>>

(* A program of the streaming API. *)
Execute ==
    /\ outcome = "none" /\ Fresh /\ jobs = 0
    /\ \E program \in StreamPrograms : Start(program)
    /\ jobs' = jobs + 1
    /\ outcome' = "running"
    /\ UNCHANGED <<target, storages, nodes, inited>>

------------------------------------------------------------------------------
(* Running. *)

job == [queues |-> queues, state |-> state, dead |-> dead, seen |-> seen, outs |-> outs]

Becomes(j) ==
    /\ queues' = j.queues /\ state' = j.state /\ dead' = j.dead
    /\ seen' = j.seen /\ outs' = j.outs

Consumers(v) ==
    SetToSeq({c \in UNION {{w} \X DOMAIN streams[w].inputs : w \in DOMAIN streams} :
                streams[c[1]].inputs[c[2]] = v})

(* Whether one vertex runs both (can_chain), and what an exception in v    *)
(* takes with it.                                                          *)
Chained(u, v) ==
    /\ streams[v].inputs = <<u>> /\ Len(Consumers(u)) = 1
    /\ streams[u].kind # "key_by"

RECURSIVE ChainTo(_)
ChainTo(v) == {v} \cup UNION {ChainTo(u) : u \in {w \in ToSet(streams[v].inputs) : Chained(w, v)}}

(* The sink functions of the storage take key fields and the timestamp.    *)
Takes(record) == target.keys \cup {target.timestamp} \subseteq Fields(record.value)

Sink(stream, record) ==
    IF stream.arg = "storage" /\ ~Takes(record) THEN None ELSE Result(<<>>, <<>>)

(* An operator takes a record; what it collects goes to the next ones. *)
RECURSIVE Take(_, _, _, _)
Collect(j, v, res) ==
    LET Forward(acc, r) ==
          FoldLeft(LAMBDA a, c : IF Len(streams[c[1]].inputs) = 1 THEN Take(a, c[1], c[2], r)
                                 ELSE [a EXCEPT !.queues[c[1]][c[2]] = Append(@, r)],
                   acc, Consumers(v))
    IN  IF res = None THEN [j EXCEPT !.dead = @ \cup ChainTo(v)]
        ELSE FoldLeft(Forward, [j EXCEPT !.state[v] = res.state,
                                         !.outs[v] = Append(@, res.out)], res.out)

Take(j, v, k, record) ==
    IF v \in j.dead THEN j
    ELSE Collect([j EXCEPT !.seen[v] = Append(@, <<k, record>>)], v,
                 IF streams[v].kind = "sink" THEN Sink(streams[v], record)
                 ELSE process_element(streams[v], j.state[v], k, record))

(* A source worker: EventTimeAssigner takes the time from the dict. *)
Emit(v) ==
    LET d == streams[v].arg
        item == Items[d][pos[v] + 1]
        record == Record(None, item, Field(item, dataset_schema(d).timestamp).n)
    IN  /\ outcome = "running" /\ streams[v].kind = "source" /\ v \notin dead
        /\ pos[v] < Len(Items[d])
        /\ pos' = [pos EXCEPT ![v] = @ + 1]
        /\ Becomes(Take(job, v, 1, record))
        /\ UNCHANGED <<target, storages, jobs, nodes, inited, outcome, streams>>

Process(v, k) ==
    /\ v \notin dead /\ queues[v][k] # <<>>
    /\ Becomes(Take([job EXCEPT !.queues[v][k] = Tail(@)], v, k, Head(queues[v][k])))
    /\ UNCHANGED <<target, storages, jobs, nodes, inited, outcome, streams, pos>>

(* The call that materialized returns, or has raised, and the process goes *)
(* on to its next pipeline.  A source that has ended never reports.        *)
Drained ==
    \A v \in DOMAIN streams :
      /\ streams[v].kind = "source" => v \notin dead /\ pos[v] = Len(Items[streams[v].arg])
      /\ v \in dead \/ \A k \in DOMAIN queues[v] : queues[v][k] = <<>>

NextPipeline ==
    /\ outcome \in {"raised", "running"} /\ Drained
    /\ jobs < Len(MaxNodes)
    /\ outcome' = "none"
    /\ nodes' = DatasetNodes
    /\ streams' = <<>> /\ queues' = <<>> /\ state' = <<>> /\ pos' = <<>> /\ dead' = {}
    /\ seen' = <<>> /\ outs' = <<>>
    /\ UNCHANGED <<target, storages, jobs, inited>>

Next ==
    \/ Declare \/ Execute \/ NextPipeline
    \/ \E storage \in {"hot", "cold"} : Materialize(storage)
    \/ \E v \in DOMAIN streams : Emit(v) \/ \E k \in DOMAIN queues[v] : Process(v, k)

Spec == Init /\ [][Next]_vars

------------------------------------------------------------------------------
(* A join collects, for every record, one joined record per earlier record *)
(* of the other side with its key, in their order, in whatever order the   *)
(* two sides come, with the event time of the left one ("use left stream   *)
(* event time by default", operators.py:335).  Fields of the same name are *)
(* all there only for the first left record of a key: the join function    *)
(* takes them out of the right record for good (the dataset API's          *)
(* operators.py:369).                                                      *)
JoinExact ==
    \A v \in DOMAIN outs : streams[v].kind = "join" =>
    \A n \in DOMAIN outs[v] :
      LET side == seen[v][n][1]
          Rec(m) == seen[v][m][2]
          same == ToSet(streams[v].arg)
          partners == SelectSeq([m \in 1 .. n - 1 |-> m],
                        LAMBDA m : seen[v][m][1] # side /\ Rec(m).key = Rec(n).key)
          first == CHOOSE m \in 1 .. n : /\ seen[v][m][1] = 1 /\ Rec(m).key = Rec(n).key
                     /\ \A j \in 1 .. m - 1 : seen[v][j][1] = 1 => Rec(j).key # Rec(n).key
          Joined(l, r) ==
            {<<IF e[1] \in same THEN <<"left">> \o e[1] ELSE e[1], e[2]>> : e \in ToSet(Rec(l).value)}
            \cup {e \in ToSet(Rec(r).value) : e[1] \notin same}
            \cup {<<<<"right">> \o e[1], e[2]>> :
                    e \in {d \in ToSet(Rec(r).value) : d[1] \in same /\ l = first}}
      IN  /\ Len(outs[v][n]) = Len(partners)
          /\ \A j \in DOMAIN partners :
               LET l == IF side = 1 THEN n ELSE partners[j]
                   r == IF side = 1 THEN partners[j] ELSE n
               IN  /\ ToSet(outs[v][n][j].value) = Joined(l, r)
                   /\ outs[v][n][j].event_time = Rec(l).event_time

(* What a window holds of a key is every record that ever came with a time *)
(* within its length of the latest time that came, also when records come  *)
(* out of order, and its aggregate is that of these; a reduction is that   *)
(* of all records of its key.                                              *)
KeyedExact ==
    \A v \in DOMAIN outs : \A n \in DOMAIN outs[v] :
      LET Rec(m) == seen[v][m][2]
          mine == {m \in 1 .. n : Rec(m).key = Rec(n).key}
          latest == Max({Rec(m).event_time : m \in mine})
          Num(m, on) == Field(Rec(m).value, on).n
          Expected(c) ==
            LET in == {m \in mine : Rec(m).event_time >= latest - c.length}
                vals == {Num(m, c.on) : m \in in}
                sum == MapThenSumSet(LAMBDA m : Num(m, c.on), in)
            IN  CASE c.agg_type = "count" -> Cardinality(in)
                  [] c.agg_type = "sum" -> sum
                  [] c.agg_type = "avg" -> <<sum, Cardinality(in)>>
                  [] c.agg_type = "min" -> Min(vals)
                  [] c.agg_type = "max" -> Max(vals)
      IN  /\ streams[v].kind = "window" =>
               \A i \in DOMAIN streams[v].arg.configs :
                 LET c == streams[v].arg.configs[i]
                 IN  Field(outs[v][n][1].value, c.name).n = Expected(c)
          /\ streams[v].kind = "reduce" =>
               outs[v][n][1].value =
                 FoldLeft(LAMBDA old, m : IF old = None THEN Rec(m).value
                                          ELSE ReduceFunc(old, Rec(m).value),
                          None, SelectSeq([m \in 1 .. n |-> m], LAMBDA m : m \in mine))

(* The time under which a record is stored is the event time that it was   *)
(* given at its source and that windows have used, through joins and       *)
(* aggregations, when the target takes its timestamp from the pipeline.    *)
StampsAgree ==
    \A v \in DOMAIN seen : \A n \in DOMAIN seen[v] :
      LET record == seen[v][n][2]
      IN  streams[v].kind = "sink" /\ streams[v].arg = "storage" /\ Takes(record)
          /\ (\/ nodes[Latest].op = "aggregate"
              \/ nodes[Latest].schema # None /\ nodes[Latest].schema.timestamp = target.timestamp)
          => Field(record.value, target.timestamp).n = record.event_time

RECURSIVE Paths(_, _)
Paths(n, d) == IF n = d THEN 1 ELSE
    FoldLeft(LAMBDA sum, p : sum + Paths(p, d), 0, nodes[n].parents)

(* A pipeline can be materialized exactly when it reaches every dataset on *)
(* one path, every dataset it reaches is a source with an unambiguous tag, *)
(* and no attempt before, a failed one included, has reached it            *)
(* ("Stream source already inited", dataset.py:217).                       *)
MaterializesOnce ==
    [][\A storage \in storages : Materialize(storage) =>
         (outcome' = "running" <=>
            \A d \in DOMAIN Datasets : Paths(Latest, d) > 0 =>
              /\ Paths(Latest, d) = 1 /\ d \notin inited
              /\ IF d \in DOMAIN SourceTags THEN SourceTags[d] \in Datasets[d].tags
                 ELSE Cardinality(Datasets[d].tags) = 1)]_vars

==============================================================================
