---------------------------- MODULE ExecutionPlan ----------------------------
(***************************************************************************)
(* What the job master does with an execution graph before any worker      *)
(* runs: it assigns the vertices to nodes (node_assign_strategy.py,        *)
(* resource_manager.py) and gives every edge a channel, local or remote,   *)
(* the remote ones with a port of the target node                          *)
(* (worker_lifecycle_controller.py).  All of it is one call of submit_job; *)
(* its loops are taken an iteration at a time.                             *)
(*                                                                         *)
(* A vertex is [op, index]: an operator of the job graph and the index of  *)
(* a parallel instance.  Vertices and edges are referred to by position.   *)
(***************************************************************************)
EXTENDS Integers, Sequences, Functions

CONSTANTS
    Nodes,          \* ids of the nodes of the Ray cluster
    Resources,      \* kinds of resources (CPU, MEM, GPU)
    Ports,          \* the port pool of a node
    Strategies,     \* NodeAssignStrategy classes in use
    None            \* no value

ASSUME NoneAssumption == None \notin Int /\ None \notin Nodes
ASSUME PortsAssumption == Ports \subseteq Nat
ASSUME StrategiesAssumption == Strategies \subseteq {"OperatorFirst", "ParallelismFirst"}

VARIABLES
    phase,                  \* of submit_job: "idle", "assign", "connect", "ready", "failed"
    strategy,               \* the class of the node assignment strategy, or None yet
    nodes,                  \* ResourceManager.nodes: the alive nodes in Ray's order
    resources,              \* [node -> [kind -> amount left, or None]]
    required,               \* [operator -> [kind -> amount per vertex, or None]]
    capacity,               \* [node -> resources it had at first], history
    execution_vertices,     \* sequence of [op, index]
    execution_edges,        \* sequence of [source, target, partition]
    assignment,             \* [vertex -> its node, or None yet]
    node_to_operator,       \* OperatorFirst: [node -> operator, or None]
    curr_node_index,        \* ParallelismFirst
    reserved_node_ports,    \* [<<source node, target node>> -> port, or None]
    channels                \* [edge -> [source, target, port], or None yet]

jobVars == <<execution_vertices, execution_edges, required, capacity>>
assignVars == <<resources, assignment, node_to_operator, curr_node_index>>
planVars == <<phase, strategy, nodes, jobVars, assignVars, reserved_node_ports, channels>>

Vertices == DOMAIN execution_vertices
Edges == DOMAIN execution_edges

PlanInit ==
    /\ phase = "idle"
    /\ strategy = None /\ nodes = <<>> /\ resources = <<>>
    /\ execution_vertices = <<>> /\ execution_edges = <<>> /\ required = <<>>
    /\ capacity = <<>>
    /\ assignment = <<>>
    /\ node_to_operator = [n \in Nodes |-> None]
    /\ curr_node_index = 1
    /\ reserved_node_ports = [c \in Nodes \X Nodes |-> None]
    /\ channels = <<>>

(* A job master is made for the job, which fetches the nodes that are      *)
(* alive, and its submit_job is given the job graph: vertices, edges and   *)
(* amounts are what from_job_graph and set_resources make of it.           *)
SubmitJob(alive, res, vertices, edges, amounts) ==
    /\ phase = "idle"
    /\ phase' = "assign"
    /\ strategy' \in Strategies
    /\ nodes' = alive
    /\ resources' = res /\ capacity' = res
    /\ execution_vertices' = vertices
    /\ execution_edges' = edges
    /\ required' = amounts
    /\ assignment' = [p \in DOMAIN vertices |-> None]
    /\ channels' = [e \in DOMAIN edges |-> None]
    /\ UNCHANGED <<node_to_operator, curr_node_index, reserved_node_ports>>

------------------------------------------------------------------------------
(* Assignment of vertices to nodes. *)

Op(p) == execution_vertices[p].op
Index(p) == execution_vertices[p].index

(* Seeded fault: a node that has run out of a resource still passes. *)
has_any_resources(req, n) ==
    \A k \in Resources : req[k] # None => resources[n][k] # None /\ 0 <= resources[n][k]

(* A resource that is not asked for is not looked at. *)
_has_enough_resources(req, n) ==
    \A k \in Resources :
      req[k] # None => resources[n][k] # None /\ req[k] <= resources[n][k]

acquire_resources(req, n) ==
    [resources EXCEPT ![n] =
       [k \in Resources |-> IF req[k] = None THEN @[k] ELSE @[k] - req[k]]]

(* OperatorFirst goes through the operators, ParallelismFirst through the  *)
(* indices of parallel instances.                                          *)
Precedes(p, q) ==
    IF strategy = "OperatorFirst" \/ Index(p) = Index(q) THEN p < q ELSE Index(p) < Index(q)

IsNext(p) ==
    /\ assignment[p] = None
    /\ \A q \in Vertices \ {p} : assignment[q] = None => Precedes(p, q)

(* Seeded fault: OperatorFirst takes any node with enough resources. *)
MatchesShared(p, i) == _has_enough_resources(required[Op(p)], nodes[i])

(* OperatorFirst wants a node that has no operator yet, or this one;       *)
(* ParallelismFirst never goes back to a node it has passed.               *)
Matches(p, i) ==
    /\ IF strategy = "OperatorFirst"
       THEN node_to_operator[nodes[i]] \in {None, Op(p)}
       ELSE i >= curr_node_index
    /\ _has_enough_resources(required[Op(p)], nodes[i])

(* An iteration of assign_resources that finds a node, *)
Assign(p) ==
    /\ phase = "assign" /\ IsNext(p)
    /\ \E i \in DOMAIN nodes :
         /\ Matches(p, i) /\ \A j \in 1 .. i - 1 : ~Matches(p, j)
         /\ resources' = acquire_resources(required[Op(p)], nodes[i])
         /\ assignment' = [assignment EXCEPT ![p] = nodes[i]]
         /\ IF strategy = "OperatorFirst"
            THEN /\ node_to_operator' = [node_to_operator EXCEPT ![nodes[i]] = Op(p)]
                 /\ UNCHANGED curr_node_index
            ELSE curr_node_index' = i /\ UNCHANGED node_to_operator
    /\ UNCHANGED <<phase, strategy, nodes, jobVars, reserved_node_ports, channels>>

(* and one that does not: "Not enough resources".  What was allocated      *)
(* before stays allocated.                                                 *)
AssignFails(p) ==
    /\ phase = "assign" /\ IsNext(p)
    /\ \A i \in DOMAIN nodes : ~Matches(p, i)
    /\ phase' = "failed"
    /\ curr_node_index' = IF strategy = "OperatorFirst" THEN curr_node_index ELSE Len(nodes) + 1
    /\ UNCHANGED <<strategy, nodes, jobVars, resources, assignment, node_to_operator,
                   reserved_node_ports, channels>>

(* create_workers goes on when every vertex has its node: Ray starts a     *)
(* worker there, and nowhere else.                                         *)
CreateWorkers ==
    /\ phase = "assign"
    /\ \A p \in Vertices : assignment[p] # None
    /\ phase' = "connect"
    /\ UNCHANGED <<strategy, nodes, jobVars, assignVars, reserved_node_ports, channels>>

------------------------------------------------------------------------------
(* Channels. *)

SourceNode(e) == assignment[execution_edges[e].source]
TargetNode(e) == assignment[execution_edges[e].target]
IsNextEdge(e) == channels[e] = None /\ \A f \in 1 .. e - 1 : channels[f] # None

(* Seeded fault: a port is looked up under the node the data comes from. *)
FreePortsOfSource(c) ==
    {port \in Ports : \A d \in Nodes \X Nodes : d[1] = c[1] => reserved_node_ports[d] # port}

(* gen_port: the ports of the target node that no connection has. *)
FreePorts(c) ==
    {port \in Ports : \A d \in Nodes \X Nodes : d[2] = c[2] => reserved_node_ports[d] # port}

ConnectLocal(e) ==
    /\ phase = "connect" /\ IsNextEdge(e)
    /\ SourceNode(e) = TargetNode(e)
    /\ channels' = [channels EXCEPT ![e] = [source |-> SourceNode(e),
                                            target |-> TargetNode(e), port |-> None]]
    /\ UNCHANGED <<phase, strategy, nodes, jobVars, assignVars, reserved_node_ports>>

(* One port serves all channels between two nodes in one direction. *)
ConnectRemote(e) ==
    LET c == <<SourceNode(e), TargetNode(e)>>
    IN  /\ phase = "connect" /\ IsNextEdge(e)
        /\ c[1] # c[2]
        /\ \E port \in Ports :
             /\ IF reserved_node_ports[c] # None
                THEN port = reserved_node_ports[c]
                ELSE port \in FreePorts(c) /\ \A q \in FreePorts(c) : port <= q
             /\ reserved_node_ports' = [reserved_node_ports EXCEPT ![c] = port]
             /\ channels' = [channels EXCEPT ![e] = [source |-> c[1], target |-> c[2],
                                                     port |-> port]]
        /\ UNCHANGED <<phase, strategy, nodes, jobVars, assignVars>>

(* "Port pool is too small". *)
ConnectFails(e) ==
    LET c == <<SourceNode(e), TargetNode(e)>>
    IN  /\ phase = "connect" /\ IsNextEdge(e)
        /\ c[1] # c[2]
        /\ reserved_node_ports[c] = None /\ FreePorts(c) = {}
        /\ phase' = "failed"
        /\ UNCHANGED <<strategy, nodes, jobVars, assignVars, reserved_node_ports, channels>>

(* Transfer actors are created and the workers are given their vertices. *)
InitWorkers ==
    /\ phase = "connect"
    /\ \A e \in Edges : channels[e] # None
    /\ phase' = "ready"
    /\ UNCHANGED <<strategy, nodes, jobVars, assignVars, reserved_node_ports, channels>>

PlanNext ==
    \/ \E p \in Vertices : Assign(p) \/ AssignFails(p)
    \/ CreateWorkers
    \/ \E e \in Edges : ConnectLocal(e) \/ ConnectRemote(e) \/ ConnectFails(e)
    \/ InitWorkers

------------------------------------------------------------------------------
(* Sockets of the transfer actors: TransferActor registers its sender      *)
(* before its receiver, and both share the set of peers that have a socket *)
(* (sockets.rs), so a peer that is sent to gets a socket that connects and *)
(* no second one.                                                          *)

Remote == {e \in Edges : channels[e] # None /\ channels[e].port # None}

ConnectsTo(n, peer) ==
    \E e \in Remote : channels[e].source = n /\ channels[e].target = peer

BindsFor(n, peer) ==
    /\ \E e \in Remote : channels[e].source = peer /\ channels[e].target = n
    /\ ~ConnectsTo(n, peer)

Wired(e) ==
    /\ ConnectsTo(channels[e].source, channels[e].target)
    /\ BindsFor(channels[e].target, channels[e].source)

------------------------------------------------------------------------------
(* What a vertex needs of a resource, and all those on a node. *)
Needs(p, k) == IF required[Op(p)][k] = None THEN 0 ELSE required[Op(p)][k]
Used(n, k) == SumFunction([p \in Vertices |-> IF assignment[p] = n THEN Needs(p, k) ELSE 0])

(* The vertices on a node fit, what is left of the node is what they do    *)
(* not need, a dead node has none, and under OperatorFirst a node is "not  *)
(* shared" between operators.                                              *)
PlacementFits ==
    phase # "idle" => \A n \in Nodes :
      /\ (\E p \in Vertices : assignment[p] = n) => n \in Range(nodes)
      /\ \A k \in Resources :
           IF capacity[n][k] = None
           THEN Used(n, k) = 0 /\ resources[n][k] = None
           ELSE resources[n][k] >= 0 /\ resources[n][k] = capacity[n][k] - Used(n, k)
      /\ strategy = "OperatorFirst" =>
           \A p, q \in Vertices : assignment[p] = n /\ assignment[q] = n => Op(p) = Op(q)

(* "unique ports per node-node connection": no two peers of a node meet at *)
(* one of its ports, and all channels of a connection use the same.        *)
PortsAreUnique ==
    \A e, f \in Remote :
      channels[e].target = channels[f].target =>
        (channels[e].port = channels[f].port <=> channels[e].source = channels[f].source)

(* With OperatorFirst every remote channel has a socket that connects at   *)
(* its source and one that binds at its target, although a transfer actor  *)
(* makes only one socket per peer: data never flows both ways between two  *)
(* nodes.                                                                  *)
RemoteChannelsWired ==
    strategy = "OperatorFirst" /\ phase = "ready" => \A e \in Remote : Wired(e)

==============================================================================
