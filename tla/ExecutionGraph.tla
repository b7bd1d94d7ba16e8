---------------------------- MODULE ExecutionGraph ---------------------------
(***************************************************************************)
(* The execution graph of a job graph (execution_graph.py), a job graph    *)
(* being [vertices, edges], and what a task takes from it when it starts   *)
(* (stream_task.py).                                                       *)
(***************************************************************************)
EXTENDS ExecutionPlan

Concat(seqs) ==
    LET upTo[i \in 0 .. Len(seqs)] == IF i = 0 THEN <<>> ELSE upTo[i - 1] \o seqs[i]
    IN  upTo[Len(seqs)]

(* The members of S, numbers of 1 .. n, in their order. *)
Ascending(S, n) ==
    LET upTo[i \in 0 .. n] == IF i = 0 THEN <<>>
                              ELSE IF i \in S THEN Append(upTo[i - 1], i) ELSE upTo[i - 1]
    IN  upTo[n]

------------------------------------------------------------------------------
(* from_job_graph: the instances of a vertex, *)
ExpandVertices(g) ==
    Concat([i \in DOMAIN g.vertices |->
      [k \in 1 .. g.vertices[i].parallelism |-> [op |-> g.vertices[i].id, index |-> k - 1]]])

InstancesOf(vs, op) == Ascending({p \in DOMAIN vs : vs[p].op = op}, Len(vs))

(* Seeded fault: an instance starts with the targets of its own index. *)
FanRotated(p, targets, partition) ==
    [t \in DOMAIN targets |-> [source |-> p, target |-> targets[((p + t) % Len(targets)) + 1],
                               partition |-> partition]]

(* and an instance of the source of an edge with every instance of its     *)
(* target.                                                                 *)
Fan(p, targets, partition) ==
    [t \in DOMAIN targets |-> [source |-> p, target |-> targets[t], partition |-> partition]]

ExpandEdge(e, vs) ==
    LET sources == InstancesOf(vs, e.source)
        targets == InstancesOf(vs, e.target)
        partition == IF e.partition = "Forward" /\ Len(targets) > 1
                     THEN "RoundRobin" ELSE e.partition
    IN  Concat([s \in DOMAIN sources |-> Fan(sources[s], targets, partition)])

ExpandEdges(g, vs) == Concat([i \in DOMAIN g.edges |-> ExpandEdge(g.edges[i], vs)])

------------------------------------------------------------------------------
(* Start-up of a task, from the vertex it is given. *)

Outputs(p) == {e \in Edges : execution_edges[e].source = p}

(* _open_processor: the channels of the collector for operator op. *)
ChannelsTo(p, op) ==
    Ascending({e \in Outputs(p) : Op(execution_edges[e].target) = op}, Len(execution_edges))

(* Records with one key meet.  All instances of all operators that send to *)
(* an operator, be it the left and the right input of a join, list its     *)
(* instances in the same order, and all of them: a key's hash picks the    *)
(* same instance everywhere.                                               *)
KeysMeet ==
    phase = "ready" => \A p \in Vertices : \A e \in Outputs(p) :
      LET op == Op(execution_edges[e].target)
          to == ChannelsTo(p, op)
      IN  [i \in DOMAIN to |-> execution_edges[to[i]].target]
            = InstancesOf(execution_vertices, op)

==============================================================================
