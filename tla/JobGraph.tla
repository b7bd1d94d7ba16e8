------------------------------ MODULE JobGraph -------------------------------
(***************************************************************************)
(* From a program of streams to a job graph (job_graph_builder.py) and     *)
(* from there to the optimized job graph, in which runs of operators are   *)
(* chained into one vertex (job_graph_optimizer.py).                       *)
(*                                                                         *)
(* A program is a sequence of streams; a stream's id is its position.  A   *)
(* stream is a record of its kind, the ids of its input and, for a join,   *)
(* of its right input, and its parallelism.  Every one-input operator that *)
(* is not key_by is of kind "process".  Lists keep their order, which the  *)
(* placement of vertices and the ports of channels depend on; a dictionary *)
(* is the sequence of its <<key, list>> pairs in the order of insertion.   *)
(***************************************************************************)
EXTENDS Integers, Sequences, SequencesExt

Partition(s) == IF s.kind = "key_by" THEN "Key" ELSE "Forward"

NoGraph == [vertices |-> <<>>, edges |-> <<>>]

vertex_type(s) ==
    CASE s.kind = "source" -> "SOURCE"
      [] s.kind = "sink"   -> "SINK"
      [] s.kind = "join"   -> "JOIN"
      [] OTHER             -> "PROCESS"

------------------------------------------------------------------------------
(* JobGraph *)

add_vertex_if_not_exists(g, v) ==
    IF \E w \in Range(g.vertices) : w.id = v.id
    THEN g
    ELSE [g EXCEPT !.vertices = Append(@, v)]

(* Seeded fault: edges are told apart by their target alone. *)
add_edge_by_target(g, e) ==
    IF \E f \in Range(g.edges) : f.target = e.target
    THEN g
    ELSE [g EXCEPT !.edges = Append(@, e)]

(* The side of a join is not looked at. *)
add_edge_if_not_exists(g, e) ==
    IF \E f \in Range(g.edges) : f.source = e.source /\ f.target = e.target
    THEN g
    ELSE [g EXCEPT !.edges = Append(@, e)]

get_vertex_output_edges(g, id) == SelectSeq(g.edges, LAMBDA e : e.source = id)
get_vertex_input_edges(g, id)  == SelectSeq(g.edges, LAMBDA e : e.target = id)
get_source_vertices(g) == SelectSeq(g.vertices, LAMBDA v : v.type = "SOURCE")
Vertex(g, id) == CHOOSE v \in Range(g.vertices) : v.id = id

------------------------------------------------------------------------------
(* JobGraphBuilder *)

(* An edge is added before the stream it comes from is processed, a vertex *)
(* after all it depends on.                                                *)
RECURSIVE _process_stream(_, _, _)
_process_stream(streams, g, id) ==
    LET s == streams[id]
        Edge(from, is_right) ==
          [source |-> from, target |-> id, partition |-> Partition(streams[from]),
           is_join_right_edge |-> is_right]
        WithInput(h, from, is_right) ==
          _process_stream(streams, add_edge_if_not_exists(h, Edge(from, is_right)), from)
        first  == IF s.kind = "source" THEN g ELSE WithInput(g, s.input, FALSE)
        second == IF s.kind = "join" THEN WithInput(first, s.right, TRUE) ELSE first
    IN  add_vertex_if_not_exists(second,
          [id |-> id, parallelism |-> s.parallelism, type |-> vertex_type(s),
           operators |-> <<id>>])

build(streams, stream_sinks) ==
    FoldLeft(LAMBDA g, id : _process_stream(streams, g, id), NoGraph, stream_sinks)

------------------------------------------------------------------------------
(* JobGraphOptimizer.  The state of a traversal is the set _visited and    *)
(* the dictionaries _chain_set and _tail_edges_map.                        *)

AppendAt(dict, key, x) ==
    IF \E i \in DOMAIN dict : dict[i][1] = key
    THEN [i \in DOMAIN dict |->
            IF dict[i][1] = key THEN <<key, Append(dict[i][2], x)>> ELSE dict[i]]
    ELSE Append(dict, <<key, <<x>>>>)

(* Seeded fault: a vertex may be chained although its data has other ways  *)
(* to go.                                                                  *)
can_chain_branches(g, e) ==
    /\ Vertex(g, e.source).parallelism = Vertex(g, e.target).parallelism
    /\ Len(get_vertex_input_edges(g, e.target)) <= 1
    /\ e.partition = "Forward"

can_chain(g, e) ==
    /\ Vertex(g, e.source).parallelism = Vertex(g, e.target).parallelism
    /\ Len(get_vertex_input_edges(g, e.target)) <= 1
    /\ Len(get_vertex_output_edges(g, e.source)) <= 1
    /\ e.partition = "Forward"

RECURSIVE divide_vertices(_, _, _, _)
divide_vertices(g, st, head, src) ==
    LET Follow(t, e) ==
          IF can_chain(g, e)
          THEN divide_vertices(g, [t EXCEPT !.chains = AppendAt(@, head, e.target)],
                               head, e.target)
          ELSE LET u == [t EXCEPT !.tails = AppendAt(@, head, e)]
               IN  IF e.target \in t.visited
                   THEN u
                   ELSE divide_vertices(g, [u EXCEPT !.visited = @ \cup {e.target},
                                                     !.chains = AppendAt(@, e.target, e.target)],
                                        e.target, e.target)
    IN  FoldLeft(Follow, st, get_vertex_output_edges(g, src))

Divided(g) ==
    FoldLeft(LAMBDA st, v : divide_vertices(g, [st EXCEPT !.chains = AppendAt(@, v.id, v.id)],
                                            v.id, v.id),
             [visited |-> {}, chains |-> <<>>, tails |-> <<>>], get_source_vertices(g))

_change_partition(p) == IF p = "Forward" THEN "RoundRobin" ELSE p

(* An edge that leaves a chain leaves its head vertex; right inputs of     *)
(* joins come last.                                                        *)
reset_edges(tails) ==
    LET all == FlattenSeq([i \in DOMAIN tails |->
                 [j \in DOMAIN tails[i][2] |->
                    [tails[i][2][j] EXCEPT !.source = tails[i][1],
                                           !.partition = _change_partition(@)]]])
        IsRight(e) == e.is_join_right_edge
        IsLeft(e) == ~e.is_join_right_edge
    IN  SelectSeq(all, IsLeft) \o SelectSeq(all, IsRight)

(* A chain has the id, the parallelism and the type of its head. *)
merge_vertices(g, chains) ==
    [i \in DOMAIN chains |->
       [Vertex(g, chains[i][1]) EXCEPT !.operators = chains[i][2]]]

optimize(g) ==
    LET st == Divided(g)
    IN  [vertices |-> merge_vertices(g, st.chains), edges |-> reset_edges(st.tails)]

==============================================================================
