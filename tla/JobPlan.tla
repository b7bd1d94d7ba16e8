------------------------------- MODULE JobPlan -------------------------------
(***************************************************************************)
(* From a stream program to channels between workers: the user composes    *)
(* streams (data_stream.py, streaming_context.py) and submits, the client  *)
(* builds and optimizes the job graph, and the job master expands it       *)
(* (ExecutionGraph) and plans its execution (ExecutionPlan).               *)
(***************************************************************************)
EXTENDS JobGraph, ExecutionGraph, FiniteSetsExt

CONSTANTS
    MaxOf,          \* [kind of stream -> number of streams of that kind]
    MaxStreams,     \* number of streams
    MaxUnused,      \* number of streams that lead to no sink
    Parallelisms,   \* arguments of set_parallelism
    MaxSets,        \* number of calls of set_parallelism
    Clusters,       \* sets of [id, alive, resources]: what ray.nodes() may return
    Default,        \* default_worker_resources
    Proposed        \* proposed_operator_resources, by operator name

VARIABLES
    streams,        \* the streams made so far
    stream_sinks,   \* StreamingContext.stream_sinks
    sets,           \* calls of set_parallelism so far
    job_graph,      \* the graph the builder made
    optimized       \* the graph that was submitted

progVars == <<streams, stream_sinks, sets>>
vars == <<progVars, job_graph, optimized, planVars>>

Streams == DOMAIN streams

Init ==
    /\ streams = <<>> /\ stream_sinks = <<>> /\ sets = 0
    /\ job_graph = NoGraph /\ optimized = NoGraph
    /\ PlanInit

------------------------------------------------------------------------------
(* The program. *)

NewStream(kind, input, right, parallelism) ==
    /\ phase = "idle" /\ job_graph = NoGraph
    /\ Len(streams) < MaxStreams
    /\ Cardinality({i \in Streams : streams[i].kind = kind}) < MaxOf[kind]
    /\ streams' = Append(streams, [kind |-> kind, input |-> input, right |-> right,
                                   parallelism |-> parallelism])
    /\ UNCHANGED <<sets, job_graph, optimized, planVars>>

Source == NewStream("source", 0, 0, 1) /\ UNCHANGED stream_sinks

(* A stream inherits the parallelism its input has at that moment. *)
Operator(kind, i) ==
    /\ streams[i].kind # "sink"
    /\ NewStream(kind, i, 0, streams[i].parallelism)
    /\ UNCHANGED stream_sinks

Join(i, j) ==
    /\ streams[i].kind = "key_by" /\ streams[j].kind = "key_by"
    /\ NewStream("join", i, j, streams[i].parallelism)
    /\ UNCHANGED stream_sinks

Sink(i) ==
    /\ streams[i].kind # "sink"
    /\ NewStream("sink", i, 0, streams[i].parallelism)
    /\ stream_sinks' = Append(stream_sinks, Len(streams) + 1)

(* Called on the stream that was just made. *)
SetParallelism(n) ==
    /\ phase = "idle" /\ job_graph = NoGraph
    /\ sets < MaxSets /\ streams # <<>>
    /\ streams[Len(streams)].parallelism # n
    /\ sets' = sets + 1
    /\ streams' = [streams EXCEPT ![Len(streams)].parallelism = n]
    /\ UNCHANGED <<stream_sinks, job_graph, optimized, planVars>>

------------------------------------------------------------------------------
(* Submission. *)

(* The streams some sink depends on. *)
Needed ==
    LET InputsOf(i) == {streams[i].input, streams[i].right} \cap Streams
        Closed(S) == Range(stream_sinks) \subseteq S /\ \A i \in S : InputsOf(i) \subseteq S
    IN  {i \in Streams : \A S \in SUBSET Streams : Closed(S) => i \in S}

(* StreamingContext.submit and execute. *)
Compile ==
    /\ phase = "idle" /\ job_graph = NoGraph
    /\ stream_sinks # <<>> /\ Cardinality(Streams \ Needed) <= MaxUnused
    /\ job_graph' = build(streams, stream_sinks)
    /\ optimized' = optimize(job_graph')
    /\ UNCHANGED <<progVars, planVars>>

(* set_resources: an operator's name is its id and its class. *)
get_name(v) == <<v.id, v.type, Len(v.operators) > 1>>

ResourcesOf(v) ==
    [k \in Resources |->
       IF get_name(v) \in DOMAIN Proposed /\ k \in DOMAIN Proposed[get_name(v)]
       THEN Proposed[get_name(v)][k]
       ELSE IF k \in DOMAIN Default THEN Default[k] ELSE None]

(* ResourceManager._fetch_nodes. *)
_fetch_nodes(cluster) ==
    LET alive == SelectSeq(cluster, LAMBDA n : n.alive)
    IN  [i \in DOMAIN alive |-> alive[i].id]

Submit ==
    /\ job_graph # NoGraph
    /\ \E cluster \in Clusters :
         LET vs == ExpandVertices(optimized)
         IN  SubmitJob(_fetch_nodes(cluster),
                       [n \in Nodes |-> (CHOOSE x \in Range(cluster) : x.id = n).resources],
                       vs, ExpandEdges(optimized, vs),
                       [op \in {v.id : v \in Range(optimized.vertices)} |->
                          ResourcesOf(Vertex(optimized, op))])
    /\ UNCHANGED <<progVars, job_graph, optimized>>

Next ==
    \/ Source
    \/ \E i \in Streams : Operator("process", i) \/ Operator("key_by", i) \/ Sink(i)
    \/ \E i, j \in Streams : Join(i, j)
    \/ \E n \in Parallelisms : SetParallelism(n)
    \/ Compile
    \/ Submit
    \/ PlanNext /\ UNCHANGED <<progVars, job_graph, optimized>>

Spec == Init /\ [][Next]_vars

------------------------------------------------------------------------------
(* The builder, which starts from every sink and may meet a stream many    *)
(* times, makes exactly one vertex of every stream that a sink depends on, *)
(* and of every such stream exactly the edges to its inputs, with their    *)
(* side.  A stream joined with itself is left with one.                    *)
GraphIsProgram ==
    job_graph # NoGraph /\ phase = "idle" =>
      /\ {v.id : v \in Range(job_graph.vertices)} = Needed
      /\ Len(job_graph.vertices) = Cardinality(Needed)
      /\ \A i \in Needed :
           LET s == streams[i]
               edges == get_vertex_input_edges(job_graph, i)
               sides == IF s.kind = "source" THEN {}
                        ELSE {<<s.input, FALSE>>}
                               \cup IF s.kind = "join" /\ s.right # s.input
                                    THEN {<<s.right, TRUE>>} ELSE {}
           IN  /\ {<<e.source, e.is_join_right_edge>> : e \in Range(edges)} = sides
               /\ Len(edges) = Cardinality(sides)

(* Chaining loses no path of the data.  Every operator is in one chain;    *)
(* every edge leads to the next operator of a chain, or from the last      *)
(* operator of a chain, whose output is that of the chain, to the first of *)
(* another, and then it is there, once, with its side and its partition.   *)
ChainsKeepPaths ==
    LET chains == {v.operators : v \in Range(optimized.vertices)}
        ChainOf(i) == CHOOSE c \in chains : i \in Range(c)
        Inner(e) == \E c \in chains : \E k \in 1 .. Len(c) - 1 :
                      c[k] = e.source /\ c[k + 1] = e.target
        outer == SelectSeq(job_graph.edges, LAMBDA e : ~Inner(e))
    IN  optimized # NoGraph /\ phase = "idle" =>
          /\ \A v \in Range(job_graph.vertices) :
               Cardinality({<<c, k>> \in chains \X (1 .. Len(job_graph.vertices)) :
                              k \in DOMAIN c /\ c[k] = v.id}) = 1
          /\ Len(optimized.edges) = Len(outer)
          /\ \A e \in Range(outer) :
               /\ e.source = Last(ChainOf(e.source))
               /\ e.target = Head(ChainOf(e.target))
               /\ \E f \in Range(optimized.edges) :
                    /\ f.source = Head(ChainOf(e.source)) /\ f.target = e.target
                    /\ f.partition = _change_partition(e.partition)
                    /\ f.is_join_right_edge = e.is_join_right_edge

==============================================================================
