---------------------------- MODULE WiringProofs -----------------------------
(***************************************************************************)
(* Proofs about what happens before messages flow: placement and channels, *)
(* for any cluster, any pool of ports and any execution graph in which no  *)
(* two operators send to each other, as the graph of a stream program      *)
(* never has them; and then the start-up of IO loops, for any sockets.     *)
(***************************************************************************)
EXTENDS ExecutionGraph, IOLoop, DataLemmas

VertexRecords == [op : Nat, index : Nat]
Partitions == {"Forward", "RoundRobin", "Key", "Broadcast"}
Amounts == [Resources -> Nat \cup {None}]

OpsOf(vertices) == {vertices[p].op : p \in DOMAIN vertices}

(* No operator sends to one that sends to it. *)
OneWay(vertices, edges) ==
    \A e, f \in DOMAIN edges :
      ~ /\ vertices[edges[e].source].op = vertices[edges[f].target].op
        /\ vertices[edges[e].target].op = vertices[edges[f].source].op

(* What from_job_graph and _fetch_nodes may give to submit_job. *)
IsJob(alive, res, vertices, edges, amounts) ==
    /\ alive \in Seq(Nodes)
    /\ res \in [Nodes -> Amounts]
    /\ vertices \in Seq(VertexRecords)
    /\ edges \in Seq([source : DOMAIN vertices, target : DOMAIN vertices, partition : Partitions])
    /\ amounts \in [OpsOf(vertices) -> Amounts]
    /\ OneWay(vertices, edges)

AnySubmit ==
    \E alive, res, vertices, edges, amounts :
      /\ IsJob(alive, res, vertices, edges, amounts)
      /\ SubmitJob(alive, res, vertices, edges, amounts)

PlanSpec == PlanInit /\ [][AnySubmit \/ PlanNext]_planVars

------------------------------------------------------------------------------
(* The inductive invariant, in four parts.  The job: *)
JobInv ==
    /\ phase \in {"assign", "connect", "ready", "failed"}
    /\ nodes \in Seq(Nodes)
    /\ execution_vertices \in Seq(VertexRecords)
    /\ execution_edges \in Seq([source : Vertices, target : Vertices, partition : Partitions])
    /\ required \in [OpsOf(execution_vertices) -> Amounts]
    /\ OneWay(execution_vertices, execution_edges)

(* placement: nothing is overcommitted, and under OperatorFirst the map of *)
(* operators knows every vertex that has a node; *)
PlaceInv ==
    /\ resources \in [Nodes -> Amounts]
    /\ assignment \in [Vertices -> Nodes \cup {None}]
    /\ node_to_operator \in [Nodes -> Nat \cup {None}]
    /\ phase \in {"connect", "ready"} => \A p \in Vertices : assignment[p] # None
    /\ strategy = "OperatorFirst" =>
         \A p \in Vertices : assignment[p] # None => node_to_operator[assignment[p]] = Op(p)

(* ports: at a node a port belongs to one peer; *)
PortInv ==
    /\ reserved_node_ports \in [Nodes \X Nodes -> Ports \cup {None}]
    /\ \A a, b, n \in Nodes :
         /\ reserved_node_ports[<<a, n>>] # None
         /\ reserved_node_ports[<<a, n>>] = reserved_node_ports[<<b, n>>]
         => a = b

(* channels: they join the nodes of their vertices, at the reserved port.  *)
ChannelInv ==
    /\ DOMAIN channels = Edges
    /\ \A e \in Edges : channels[e] # None =>
         /\ phase # "assign"
         /\ SourceNode(e) \in Nodes /\ TargetNode(e) \in Nodes
         /\ channels[e].source = SourceNode(e)
         /\ channels[e].target = TargetNode(e)
         /\ channels[e].port # None =>
              channels[e].port = reserved_node_ports[<<SourceNode(e), TargetNode(e)>>]

Idle == phase = "idle" /\ PlanInit

PlanInv == Idle \/ (JobInv /\ PlaceInv /\ PortInv /\ ChannelInv)

(* A submission establishes the invariant: nothing is placed or reserved.  *)
LEMMA SubmitEstablishes == Idle /\ AnySubmit => PlanInv'
<1> SUFFICES ASSUME Idle, AnySubmit PROVE JobInv' /\ PlaceInv' /\ PortInv' /\ ChannelInv'
  BY DEF PlanInv
<1>1. PICK alive, res, vertices, edges, amounts :
        /\ IsJob(alive, res, vertices, edges, amounts)
        /\ SubmitJob(alive, res, vertices, edges, amounts)
  BY DEF AnySubmit
<1>2. JobInv'
  BY <1>1 DEF IsJob, SubmitJob, JobInv, Vertices
<1>3. PlaceInv'
  <2>1. assignment' = [p \in Vertices' |-> None]
    BY <1>1 DEF SubmitJob, Vertices
  <2>2. node_to_operator' = [n \in Nodes |-> None] /\ resources' \in [Nodes -> Amounts]
    BY <1>1 DEF IsJob, SubmitJob, Idle, PlanInit
  <2>3. phase' = "assign"
    BY <1>1 DEF SubmitJob
  <2>4. QED
    BY <2>1, <2>2, <2>3 DEF PlaceInv
<1>4. PortInv'
  <2>1. reserved_node_ports' = [c \in Nodes \X Nodes |-> None]
    BY <1>1 DEF SubmitJob, Idle, PlanInit
  <2>2. QED
    BY <2>1 DEF PortInv
<1>5. ChannelInv'
  <2>1. channels' = [e \in Edges' |-> None]
    BY <1>1 DEF SubmitJob, Edges
  <2>2. QED
    BY <2>1 DEF ChannelInv
<1>6. QED
  BY <1>2, <1>3, <1>4, <1>5

(* A vertex has an operator, which has its amounts. *)
LEMMA OpType ==
    ASSUME JobInv, NEW p \in Vertices
    PROVE  Op(p) \in Nat /\ required[Op(p)] \in Amounts
<1>1. execution_vertices[p] \in VertexRecords
  BY DEF JobInv, Vertices
<1>2. Op(p) \in Nat
  BY <1>1 DEF Op, VertexRecords
<1>3. Op(p) \in OpsOf(execution_vertices)
  BY DEF Op, OpsOf, Vertices
<1>4. QED
  BY <1>2, <1>3 DEF JobInv

(* An edge leads from a vertex to a vertex. *)
LEMMA EdgeType ==
    ASSUME JobInv, NEW e \in Edges
    PROVE  execution_edges[e].source \in Vertices /\ execution_edges[e].target \in Vertices
<1> DEFINE Records == [source : Vertices, target : Vertices, partition : Partitions]
<1>1. execution_edges \in Seq(Records)
  BY DEF JobInv
<1> HIDE DEF Records
<1>2. execution_edges[e] \in Records
  BY <1>1 DEF Edges
<1>3. QED
  BY <1>2 DEF Records

(* Placing a vertex on a node that Matches preserves the invariant: what   *)
(* it needs is there, and an operator's node is its own.                   *)
LEMMA AssignPreserves ==
    ASSUME JobInv, PlaceInv, PortInv, ChannelInv, NEW p \in Vertices, Assign(p)
    PROVE  JobInv' /\ PlaceInv' /\ PortInv' /\ ChannelInv'
<1>1. phase = "assign" /\ phase' = "assign"
  BY DEF Assign
<1>2. UNCHANGED <<strategy, nodes, execution_vertices, execution_edges, required,
                  reserved_node_ports, channels>>
  BY DEF Assign, jobVars
<1>3. PICK i \in DOMAIN nodes :
        /\ Matches(p, i)
        /\ resources' = acquire_resources(required[Op(p)], nodes[i])
        /\ assignment' = [assignment EXCEPT ![p] = nodes[i]]
        /\ IF strategy = "OperatorFirst"
           THEN node_to_operator' = [node_to_operator EXCEPT ![nodes[i]] = Op(p)]
           ELSE UNCHANGED node_to_operator
  BY Zenon DEF Assign
<1> DEFINE n == nodes[i]
           req == required[Op(p)]
<1>4. n \in Nodes
  BY DEF JobInv
<1>5. Op(p) \in Nat /\ req \in Amounts
  BY OpType
<1>6. JobInv'
  BY <1>1, <1>2 DEF JobInv, Vertices
<1>7. resources' \in [Nodes -> Amounts]
  <2>1. \A k \in Resources : req[k] # None => resources[n][k] # None /\ req[k] <= resources[n][k]
    BY <1>3 DEF Matches, _has_enough_resources
  <2>2. \A k \in Resources : resources[n][k] \in Nat \cup {None} /\ req[k] \in Nat \cup {None}
    BY <1>4, <1>5 DEF PlaceInv, Amounts
  <2>3. \A k \in Resources :
          (IF req[k] = None THEN resources[n][k] ELSE resources[n][k] - req[k]) \in Nat \cup {None}
    BY <2>1, <2>2
  <2>4. resources' = [resources EXCEPT ![n] =
          [k \in Resources |-> IF req[k] = None THEN resources[n][k] ELSE resources[n][k] - req[k]]]
    BY <1>3, <1>4 DEF acquire_resources, PlaceInv
  <2>5. QED
    BY <2>3, <2>4, <1>4 DEF PlaceInv, Amounts
<1>8. assignment' \in [Vertices -> Nodes \cup {None}]
  BY <1>3, <1>4 DEF PlaceInv
<1>9. node_to_operator' \in [Nodes -> Nat \cup {None}]
  BY <1>3, <1>4, <1>5 DEF PlaceInv
<1>10. ASSUME strategy = "OperatorFirst", NEW q \in Vertices, assignment'[q] # None
       PROVE  node_to_operator'[assignment'[q]] = Op(q)
  <2>1. node_to_operator[n] \in {None, Op(p)}
    BY <1>3, <1>10 DEF Matches
  <2>2. node_to_operator' = [node_to_operator EXCEPT ![n] = Op(p)]
    BY <1>3, <1>10
  <2>3. CASE q = p
    BY <2>2, <2>3, <1>3, <1>4 DEF PlaceInv
  <2>4. CASE q # p
    <3>1. assignment'[q] = assignment[q] /\ assignment[q] \in Nodes
      BY <2>4, <1>3, <1>10 DEF PlaceInv
    <3>2. node_to_operator[assignment[q]] = Op(q) /\ Op(q) \in Nat
      BY <3>1, <1>10, OpType DEF PlaceInv
    <3>3. Op(q) # None
      BY <3>2, NoneAssumption
    <3>4. QED
      BY <3>1, <3>2, <3>3, <2>1, <2>2, <1>4 DEF PlaceInv
  <2>5. QED
    BY <2>3, <2>4
<1>11. PlaceInv'
  BY <1>1, <1>2, <1>7, <1>8, <1>9, <1>10 DEF PlaceInv, Vertices, Op
<1>12. PortInv' /\ ChannelInv'
  BY <1>1, <1>2 DEF PortInv, ChannelInv, Edges
<1>13. QED
  BY <1>6, <1>11, <1>12

(* A step that changes the phase alone, or the index of ParallelismFirst,  *)
(* preserves the invariant if it goes on to connect only with every vertex *)
(* placed.                                                                 *)
LEMMA PhasePreserves ==
    ASSUME JobInv, PlaceInv, PortInv, ChannelInv,
           UNCHANGED <<strategy, nodes, jobVars, resources, assignment,
                       node_to_operator, reserved_node_ports, channels>>,
           phase' \in {"connect", "ready", "failed"},
           phase' # "failed" => \A p \in Vertices : assignment[p] # None
    PROVE  JobInv' /\ PlaceInv' /\ PortInv' /\ ChannelInv'
BY DEF JobInv, PlaceInv, PortInv, ChannelInv, Vertices, Edges, jobVars, Op,
       SourceNode, TargetNode

(* The nodes of an edge, once every vertex has one. *)
LEMMA EdgeNodes ==
    ASSUME JobInv, PlaceInv, phase \in {"connect", "ready"}, NEW e \in Edges
    PROVE  SourceNode(e) \in Nodes /\ TargetNode(e) \in Nodes
BY EdgeType DEF PlaceInv, SourceNode, TargetNode

(* A local channel has no port. *)
LEMMA LocalPreserves ==
    ASSUME JobInv, PlaceInv, PortInv, ChannelInv, NEW e \in Edges, ConnectLocal(e)
    PROVE  JobInv' /\ PlaceInv' /\ PortInv' /\ ChannelInv'
<1>1. phase = "connect" /\ phase' = "connect"
  BY DEF ConnectLocal
<1>2. UNCHANGED <<strategy, nodes, execution_vertices, execution_edges, required, resources,
                  assignment, node_to_operator, reserved_node_ports>>
  BY DEF ConnectLocal, jobVars, assignVars
<1>3. channels' = [channels EXCEPT ![e] = [source |-> SourceNode(e),
                                           target |-> TargetNode(e), port |-> None]]
  BY DEF ConnectLocal
<1>4. JobInv' /\ PlaceInv' /\ PortInv'
  BY <1>1, <1>2 DEF JobInv, PlaceInv, PortInv, Vertices, Op
<1>5. ChannelInv'
  BY <1>1, <1>2, <1>3, EdgeNodes DEF ChannelInv, Edges, SourceNode, TargetNode
<1>6. QED
  BY <1>4, <1>5

(* A remote channel: the port is the one reserved for its two nodes, or    *)
(* one that no connection to the target node has.                          *)
LEMMA RemotePreserves ==
    ASSUME JobInv, PlaceInv, PortInv, ChannelInv, NEW e \in Edges, ConnectRemote(e)
    PROVE  JobInv' /\ PlaceInv' /\ PortInv' /\ ChannelInv'
<1> DEFINE a == SourceNode(e)
           n == TargetNode(e)
<1>1. phase = "connect" /\ phase' = "connect"
  BY DEF ConnectRemote
<1>2. UNCHANGED <<strategy, nodes, execution_vertices, execution_edges, required, resources,
                  assignment, node_to_operator>>
  BY DEF ConnectRemote, jobVars, assignVars
<1>3. PICK port \in Ports :
        /\ IF reserved_node_ports[<<a, n>>] # None
           THEN port = reserved_node_ports[<<a, n>>]
           ELSE port \in FreePorts(<<a, n>>)
        /\ reserved_node_ports' = [reserved_node_ports EXCEPT ![<<a, n>>] = port]
        /\ channels' = [channels EXCEPT ![e] = [source |-> a, target |-> n, port |-> port]]
  BY Zenon DEF ConnectRemote
<1>4. a \in Nodes /\ n \in Nodes
  BY <1>1, EdgeNodes
<1> HIDE DEF a, n
<1>5. JobInv' /\ PlaceInv'
  BY <1>1, <1>2 DEF JobInv, PlaceInv, Vertices, Op
<1>6. reserved_node_ports' \in [Nodes \X Nodes -> Ports \cup {None}]
  BY <1>3, <1>4 DEF PortInv
<1>7. \A b, m \in Nodes : reserved_node_ports'[<<b, m>>] =
        IF b = a /\ m = n THEN port ELSE reserved_node_ports[<<b, m>>]
  BY Zenon, <1>3, <1>4 DEF PortInv
<1>8. ASSUME NEW b \in Nodes, reserved_node_ports[<<b, n>>] = port PROVE b = a
  <2>1. port # None
    BY NoneAssumption, PortsAssumption
  <2>2. CASE reserved_node_ports[<<a, n>>] # None
    BY <2>1, <2>2, <1>3, <1>4, <1>8 DEF PortInv
  <2>3. CASE reserved_node_ports[<<a, n>>] = None
    BY <2>3, <1>3, <1>4, <1>8 DEF FreePorts
  <2>4. QED
    BY <2>2, <2>3
<1>9. PortInv'
  <2> SUFFICES ASSUME NEW b \in Nodes, NEW c \in Nodes, NEW m \in Nodes,
                      reserved_node_ports'[<<b, m>>] # None,
                      reserved_node_ports'[<<b, m>>] = reserved_node_ports'[<<c, m>>]
               PROVE  b = c
    BY <1>6 DEF PortInv
  <2>1. CASE m # n
    BY <2>1, <1>7 DEF PortInv
  <2>2. CASE m = n
    BY <2>2, <1>7, <1>8, <1>4 DEF PortInv
  <2>3. QED
    BY <2>1, <2>2
<1>10. ASSUME NEW f \in Edges, f # e, channels[f] # None, channels[f].port # None
       PROVE  channels[f].port = reserved_node_ports'[<<SourceNode(f), TargetNode(f)>>]
  <2>1. /\ SourceNode(f) \in Nodes /\ TargetNode(f) \in Nodes
        /\ channels[f].port = reserved_node_ports[<<SourceNode(f), TargetNode(f)>>]
    BY <1>10 DEF ChannelInv
  <2>2. CASE SourceNode(f) = a /\ TargetNode(f) = n
    BY <2>1, <2>2, <1>7, <1>3, <1>10
  <2>3. CASE ~(SourceNode(f) = a /\ TargetNode(f) = n)
    BY <2>1, <2>3, <1>7
  <2>4. QED
    BY <2>2, <2>3
<1>11. ChannelInv'
  <2>1. UNCHANGED <<SourceNode(e), TargetNode(e), Edges>>
    BY <1>2 DEF SourceNode, TargetNode, Edges
  <2>2. \A f \in Edges : UNCHANGED <<SourceNode(f), TargetNode(f)>>
    BY <1>2 DEF SourceNode, TargetNode
  <2>3. DOMAIN channels' = Edges'
    BY <2>1, <1>3 DEF ChannelInv
  <2>4. channels'[e] = [source |-> a, target |-> n, port |-> port]
    BY <1>3 DEF ChannelInv
  <2>5. reserved_node_ports'[<<SourceNode(e), TargetNode(e)>>] = port
    BY <1>7, <1>4 DEF a, n
  <2>6. \A f \in Edges : f # e => channels'[f] = channels[f]
    BY <1>3 DEF ChannelInv
  <2> SUFFICES ASSUME NEW f \in Edges, channels'[f] # None
               PROVE  /\ phase' # "assign"
                      /\ SourceNode(f) \in Nodes /\ TargetNode(f) \in Nodes
                      /\ channels'[f].source = SourceNode(f)
                      /\ channels'[f].target = TargetNode(f)
                      /\ channels'[f].port # None =>
                           channels'[f].port
                             = reserved_node_ports'[<<SourceNode(f), TargetNode(f)>>]
    BY <2>1, <2>2, <2>3 DEF ChannelInv
  <2>7. CASE f = e
    BY <2>4, <2>5, <2>7, <1>1, <1>4 DEF a, n
  <2>8. CASE f # e
    BY <2>6, <2>8, <1>1, <1>10 DEF ChannelInv
  <2>9. QED
    BY <2>7, <2>8
<1>12. QED
  BY <1>5, <1>9, <1>11

(* PlanInv holds of every execution plan. *)
THEOREM PlanInvariant == PlanSpec => []PlanInv
<1>1. PlanInit => PlanInv
  BY DEF PlanInit, PlanInv, Idle
<1>2. PlanInv /\ [AnySubmit \/ PlanNext]_planVars => PlanInv'
  <2> SUFFICES ASSUME PlanInv, [AnySubmit \/ PlanNext]_planVars PROVE PlanInv'
    OBVIOUS
  <2>1. CASE UNCHANGED planVars
    BY <2>1 DEF PlanInv, Idle, PlanInit, JobInv, PlaceInv, PortInv, ChannelInv, planVars,
                jobVars, assignVars, Vertices, Edges, Op, SourceNode, TargetNode
  <2>2. CASE AnySubmit
    <3>1. phase = "idle"
      BY <2>2 DEF AnySubmit, SubmitJob
    <3>2. Idle
      BY <3>1 DEF PlanInv, JobInv
    <3>3. QED
      BY <2>2, <3>2, SubmitEstablishes
  <2>3. CASE PlanNext
    <3>1. phase # "idle"
      BY Zenon, <2>3 DEF PlanNext, Assign, AssignFails, CreateWorkers, ConnectLocal, ConnectRemote,
                  ConnectFails, InitWorkers
    <3>2. JobInv /\ PlaceInv /\ PortInv /\ ChannelInv
      BY <3>1 DEF PlanInv, Idle
    <3>3. CASE \E p \in Vertices : AssignFails(p)
      BY <3>2, <3>3, PhasePreserves DEF AssignFails, PlanInv
    <3>4. CASE CreateWorkers
      BY <3>2, <3>4, PhasePreserves DEF CreateWorkers, assignVars, PlanInv
    <3>5. CASE \E e \in Edges : ConnectFails(e)
      BY <3>2, <3>5, PhasePreserves DEF ConnectFails, assignVars, PlanInv
    <3>6. CASE InitWorkers
      BY <3>2, <3>6, PhasePreserves DEF InitWorkers, assignVars, PlanInv, PlaceInv
    <3>7. QED
      BY <2>3, <3>2, <3>3, <3>4, <3>5, <3>6, AssignPreserves, LocalPreserves,
         RemotePreserves DEF PlanNext, PlanInv
  <2>4. QED
    BY <2>1, <2>2, <2>3
<1>3. QED
  BY <1>1, <1>2, PTL DEF PlanSpec

(* gen_port gives "unique ports per node-node connection", whatever the    *)
(* pool: no two peers of a node meet at one of its ports.                  *)
THEOREM PortsUnique == PlanSpec => []PortsAreUnique
<1>1. PlanInv => PortsAreUnique
  <2>1. CASE Idle
    <3>1. Remote = {}
      BY <2>1 DEF Idle, PlanInit, Remote, Edges
    <3>2. QED
      BY <3>1 DEF PortsAreUnique
  <2>2. CASE PortInv /\ ChannelInv
    <3> SUFFICES ASSUME NEW e \in Remote, NEW f \in Remote,
                        channels[e].target = channels[f].target
                 PROVE  channels[e].port = channels[f].port
                          <=> channels[e].source = channels[f].source
      BY DEF PortsAreUnique
    <3>1. \A g \in {e, f} :
            /\ channels[g].source \in Nodes /\ channels[g].target \in Nodes
            /\ channels[g].port # None
            /\ channels[g].port = reserved_node_ports[<<channels[g].source, channels[g].target>>]
      BY Zenon, <2>2 DEF ChannelInv, Remote
    <3>2. QED
      BY <2>2, <3>1 DEF PortInv
  <2>3. QED
    BY <2>1, <2>2 DEF PlanInv
<1>2. QED
  BY PlanInvariant, <1>1, PTL

(* With OperatorFirst a transfer actor, which makes one socket per peer,   *)
(* makes the right one for every remote channel (sockets.rs): two nodes    *)
(* that sent to each other would be two operators that do.                 *)
THEOREM ChannelsWired == PlanSpec => []RemoteChannelsWired
<1>1. PlanInv => RemoteChannelsWired
  <2> SUFFICES ASSUME PlanInv, strategy = "OperatorFirst", phase = "ready", NEW e \in Remote
               PROVE  Wired(e)
    BY DEF RemoteChannelsWired
  <2>1. JobInv /\ PlaceInv /\ ChannelInv
    BY DEF PlanInv, Idle
  <2>2. \A f \in Remote :
          /\ f \in Edges
          /\ channels[f].source = SourceNode(f) /\ channels[f].target = TargetNode(f)
    BY Zenon, <2>1 DEF Remote, ChannelInv
  <2>3. \A f \in Edges :
          /\ node_to_operator[SourceNode(f)] = Op(execution_edges[f].source)
          /\ node_to_operator[TargetNode(f)] = Op(execution_edges[f].target)
    BY <2>1, EdgeType DEF PlaceInv, SourceNode, TargetNode
  <2>4. ASSUME NEW f \in Remote,
               channels[f].source = channels[e].target,
               channels[f].target = channels[e].source
        PROVE  FALSE
    <3>1. /\ Op(execution_edges[f].source) = Op(execution_edges[e].target)
          /\ Op(execution_edges[f].target) = Op(execution_edges[e].source)
      BY <2>2, <2>3, <2>4
    <3>2. QED
      BY <2>1, <2>2, <3>1 DEF JobInv, OneWay, Op, Edges
  <2>5. QED
    BY <2>4 DEF Wired, ConnectsTo, BindsFor
<1>2. QED
  BY PlanInvariant, <1>1, PTL

------------------------------------------------------------------------------
(* What is left of resource k at node n is what its vertices do not need;  *)
(* a node that does not have k has no vertex that asks for it.             *)
Left(n, k) ==
    IF capacity[n][k] = None
    THEN Used(n, k) = 0 /\ resources[n][k] = None
    ELSE resources[n][k] # None /\ resources[n][k] = capacity[n][k] - Used(n, k)

(* The invariant behind PlacementFits, once a job was submitted.           *)
FitInv ==
    /\ capacity \in [Nodes -> Amounts]
    /\ \A p \in Vertices : assignment[p] # None => assignment[p] \in Range(nodes)
    /\ \A n \in Nodes, k \in Resources : Left(n, k)

(* The vertices of a job are finitely many. *)
LEMMA FiniteVertices ==
    ASSUME JobInv
    PROVE  IsFiniteSet(Vertices)
<1>1. Vertices = 1 .. Len(execution_vertices) /\ Len(execution_vertices) \in Nat
  BY DEF JobInv, Vertices
<1>2. QED
  BY <1>1, FS_Interval

(* What a vertex needs is an amount. *)
LEMMA NeedsType ==
    ASSUME JobInv, NEW p \in Vertices, NEW k \in Resources
    PROVE  Needs(p, k) \in Nat
BY OpType DEF Needs, Amounts

(* At first no vertex has a node. *)
LEMMA SubmitFits == Idle /\ AnySubmit => FitInv'
<1> SUFFICES ASSUME Idle, AnySubmit PROVE FitInv'
  OBVIOUS
<1>1. PICK alive, res, vertices, edges, amounts :
        /\ IsJob(alive, res, vertices, edges, amounts)
        /\ SubmitJob(alive, res, vertices, edges, amounts)
  BY DEF AnySubmit
<1>2. /\ capacity' = res /\ resources' = res /\ res \in [Nodes -> Amounts]
      /\ assignment' = [p \in Vertices' |-> None] /\ Vertices' = 1 .. Len(vertices)
      /\ Len(vertices) \in Nat
  BY <1>1 DEF IsJob, SubmitJob, Vertices
<1>3. ASSUME NEW n \in Nodes, NEW k \in Resources
      PROVE  Left(n, k)'
  <2> DEFINE F == [p \in Vertices' |-> IF assignment'[p] = n THEN Needs(p, k)' ELSE 0]
  <2>1. Used(n, k)' = SumFunction(F)
    BY DEF Used
  <2>2. \A p \in Vertices' : assignment'[p] # n
    BY <1>2, NoneAssumption
  <2>3. F \in [Vertices' -> Int] /\ \A p \in Vertices' : F[p] = 0
    BY <2>2
  <2>4. IsFiniteSet(Vertices')
    BY <1>2, FS_Interval
  <2> HIDE DEF F
  <2>5. SumFunction(F) = 0
    BY <2>3, <2>4, SumZero
  <2>6. res[n][k] \in Nat \cup {None}
    BY <1>2 DEF Amounts
  <2>7. QED
    BY <1>2, <2>1, <2>5, <2>6 DEF Left
<1>4. QED
  BY <1>2, <1>3 DEF FitInv

(* A vertex that is placed on node m uses there what it needs, and nothing *)
(* elsewhere.                                                              *)
LEMMA UsedByAssigned ==
    ASSUME JobInv, PlaceInv, NEW p \in Vertices, NEW m \in Nodes, assignment[p] = None,
           assignment' = [assignment EXCEPT ![p] = m],
           UNCHANGED <<execution_vertices, required>>,
           NEW n \in Nodes, NEW k \in Resources
    PROVE  /\ Used(n, k) \in Int
           /\ Used(n, k)' = Used(n, k) + (IF n = m THEN Needs(p, k) ELSE 0)
<1> DEFINE F == [q \in Vertices |-> IF assignment[q] = n THEN Needs(q, k) ELSE 0]
           G == [q \in Vertices |-> IF assignment'[q] = n THEN Needs(q, k) ELSE 0]
<1>1. Used(n, k) = SumFunction(F)
  BY DEF Used
<1>2. Vertices' = Vertices /\ \A q \in Vertices : Needs(q, k)' = Needs(q, k)
  BY DEF Vertices, Needs, Op
<1>3. Used(n, k)' = SumFunction(G)
  BY <1>2 DEF Used
<1>4. \A q \in Vertices : Needs(q, k) \in Nat
  BY NeedsType
<1>5. F \in [Vertices -> Int] /\ G \in [Vertices -> Int]
  BY <1>4
<1>6. IsFiniteSet(Vertices)
  BY FiniteVertices
<1>7. assignment'[p] = m /\ \A q \in Vertices \ {p} : assignment'[q] = assignment[q]
  BY DEF PlaceInv
<1>8. Same(F, G, Vertices \ {p})
  BY <1>7 DEF Same
<1>9. F[p] = 0 /\ G[p] = (IF n = m THEN Needs(p, k) ELSE 0)
  BY <1>7, NoneAssumption
<1> HIDE DEF F, G
<1>10. SumFunction(G) = SumFunction(F) - F[p] + G[p]
  <2>1. \A q \in Vertices :
          Same(F, G, Vertices \ {q}) => SumFunction(G) = SumFunction(F) - F[q] + G[q]
    BY ONLY <1>5, <1>6, SumExcept
  <2>2. QED
    BY Zenon, <1>8, <2>1
<1>11. SumFunction(F) \in Int
  BY ONLY <1>5, <1>6, SumType
<1>12. QED
  BY <1>1, <1>3, <1>4, <1>9, <1>10, <1>11

(* A node that Matches has what the vertex needs. *)
LEMMA AssignFits ==
    ASSUME JobInv, PlaceInv, FitInv, NEW p \in Vertices, Assign(p)
    PROVE  FitInv'
<1>1. UNCHANGED <<nodes, execution_vertices, required, capacity>> /\ assignment[p] = None
  BY DEF Assign, jobVars, IsNext
<1>2. PICK i \in DOMAIN nodes :
        /\ Matches(p, i)
        /\ resources' = acquire_resources(required[Op(p)], nodes[i])
        /\ assignment' = [assignment EXCEPT ![p] = nodes[i]]
  BY Zenon DEF Assign
<1> DEFINE m == nodes[i]
           req == required[Op(p)]
<1>3. m \in Nodes /\ m \in Range(nodes) /\ req \in Amounts
  BY OpType DEF JobInv, Range
<1>4. \A k \in Resources : req[k] # None => resources[m][k] # None /\ req[k] <= resources[m][k]
  BY <1>2 DEF Matches, _has_enough_resources
<1>5. resources' = [resources EXCEPT ![m] =
        [k \in Resources |-> IF req[k] = None THEN resources[m][k] ELSE resources[m][k] - req[k]]]
  BY <1>2, <1>3 DEF acquire_resources, PlaceInv
<1>6. assignment' = [assignment EXCEPT ![p] = m]
  BY <1>2
<1>7. \A k \in Resources : Needs(p, k) = IF req[k] = None THEN 0 ELSE req[k]
  BY DEF Needs
<1> HIDE DEF m, req
<1>8. ASSUME NEW n \in Nodes, NEW k \in Resources
      PROVE  Left(n, k)'
  <2>1. /\ Used(n, k) \in Int
        /\ Used(n, k)' = Used(n, k) + (IF n = m THEN Needs(p, k) ELSE 0)
    BY Zenon, <1>1, <1>3, <1>6, UsedByAssigned
  <2>2. Left(n, k) /\ capacity'[n][k] = capacity[n][k]
    BY <1>1 DEF FitInv
  <2>3. /\ capacity[n][k] \in Nat \cup {None} /\ resources[n][k] \in Nat \cup {None}
        /\ req[k] \in Nat \cup {None}
    BY <1>3 DEF FitInv, PlaceInv, Amounts
  <2>4. CASE n # m
    <3>1. resources'[n][k] = resources[n][k] /\ Used(n, k)' = Used(n, k)
      BY <1>5, <2>1, <2>4 DEF PlaceInv
    <3>2. QED
      BY ONLY <2>2, <3>1 DEF Left
  <2>5. CASE n = m
    <3>1. resources'[n][k] = IF req[k] = None THEN resources[n][k] ELSE resources[n][k] - req[k]
      BY <1>3, <1>5, <2>5 DEF PlaceInv
    <3>2. CASE req[k] = None
      <4>1. resources'[n][k] = resources[n][k] /\ Used(n, k)' = Used(n, k)
        BY <1>7, <2>1, <3>1, <3>2
      <4>2. QED
        BY ONLY <2>2, <4>1 DEF Left
    <3>3. CASE req[k] # None
      <4>1. /\ Used(n, k)' = Used(n, k) + req[k] /\ resources'[n][k] = resources[n][k] - req[k]
            /\ resources[n][k] \in Nat /\ req[k] \in Nat
        BY <1>4, <1>7, <2>1, <2>3, <2>5, <3>1, <3>3
      <4>2. /\ capacity[n][k] # None /\ capacity[n][k] \in Nat
            /\ resources[n][k] = capacity[n][k] - Used(n, k)
        BY ONLY <2>2, <2>3, <4>1, NoneAssumption DEF Left
      <4>3. resources'[n][k] = capacity[n][k] - Used(n, k)' /\ resources'[n][k] \in Int
        BY ONLY <2>1, <4>1, <4>2
      <4>4. resources'[n][k] # None
        BY <4>3, NoneAssumption
      <4>5. QED
        BY ONLY <2>2, <4>2, <4>3, <4>4 DEF Left
    <3>4. QED
      BY <3>2, <3>3
  <2>6. QED
    BY <2>4, <2>5
<1>9. \A q \in Vertices : assignment'[q] # None => assignment'[q] \in Range(nodes)
  BY <1>3, <1>6 DEF FitInv, PlaceInv
<1>10. capacity' \in [Nodes -> Amounts] /\ Vertices' = Vertices /\ nodes' = nodes
  BY <1>1 DEF FitInv, Vertices
<1>11. QED
  BY <1>8, <1>9, <1>10 DEF FitInv

(* A step that places nothing keeps it. *)
LEMMA OthersFit ==
    ASSUME FitInv, UNCHANGED <<nodes, jobVars, resources, assignment>>
    PROVE  FitInv'
<1>1. UNCHANGED <<nodes, execution_vertices, required, capacity, resources, assignment>>
  BY DEF jobVars
<1>2. Vertices' = Vertices /\ \A n, k : Used(n, k)' = Used(n, k)
  BY <1>1 DEF Vertices, Used, Needs, Op
<1>3. \A n \in Nodes, k \in Resources : Left(n, k)' <=> Left(n, k)
  BY <1>1, <1>2 DEF Left
<1>4. QED
  BY <1>1, <1>2, <1>3 DEF FitInv

(* PlacementFits with what it rests on. *)
LEMMA FitInvariant == PlanSpec => [](phase = "idle" \/ FitInv)
<1> DEFINE Fits == phase = "idle" \/ FitInv
<1>1. PlanInit => Fits
  BY DEF PlanInit
<1>2. PlanInv /\ Fits /\ [AnySubmit \/ PlanNext]_planVars => Fits'
  <2> SUFFICES ASSUME PlanInv, Fits, [AnySubmit \/ PlanNext]_planVars PROVE Fits'
    OBVIOUS
  <2>1. CASE UNCHANGED planVars
    <3>1. UNCHANGED <<phase, nodes, jobVars, resources, assignment>>
      BY <2>1 DEF planVars, assignVars
    <3>2. CASE phase = "idle"
      BY <3>1, <3>2
    <3>3. CASE FitInv
      BY Zenon, <3>1, <3>3, OthersFit
    <3>4. QED
      BY <3>2, <3>3
  <2>2. CASE AnySubmit
    <3>1. phase = "idle"
      BY <2>2 DEF AnySubmit, SubmitJob
    <3>2. Idle
      BY <3>1 DEF PlanInv, JobInv
    <3>3. QED
      BY <2>2, <3>2, SubmitFits
  <2>3. CASE PlanNext
    <3>1. phase # "idle"
      BY Zenon, <2>3 DEF PlanNext, Assign, AssignFails, CreateWorkers, ConnectLocal,
                  ConnectRemote, ConnectFails, InitWorkers
    <3>2. JobInv /\ PlaceInv /\ FitInv
      BY <3>1 DEF PlanInv, Idle
    <3>3. CASE \E p \in Vertices : Assign(p)
      BY Zenon, <3>2, <3>3, AssignFits
    <3>4. CASE ~ \E p \in Vertices : Assign(p)
      <4>1. UNCHANGED <<nodes, jobVars, resources, assignment>>
        BY Zenon, <2>3, <3>4 DEF PlanNext, AssignFails, CreateWorkers, ConnectLocal,
                    ConnectRemote, ConnectFails, InitWorkers, assignVars
      <4>2. QED
        BY Zenon, <3>2, <4>1, OthersFit
    <3>5. QED
      BY <3>3, <3>4
  <2>4. QED
    BY <2>1, <2>2, <2>3
<1>3. QED
  BY <1>1, <1>2, PlanInvariant, PTL DEF PlanSpec

(* The vertices on a node fit, a dead node has none, and under             *)
(* OperatorFirst a node is "not shared", whatever the cluster and the job. *)
THEOREM VerticesFit == PlanSpec => []PlacementFits
<1>1. PlanInv /\ (phase = "idle" \/ FitInv) => PlacementFits
  <2> SUFFICES ASSUME PlanInv, phase # "idle", FitInv, NEW n \in Nodes
               PROVE  /\ (\E p \in Vertices : assignment[p] = n) => n \in Range(nodes)
                      /\ \A k \in Resources :
                           IF capacity[n][k] = None
                           THEN Used(n, k) = 0 /\ resources[n][k] = None
                           ELSE /\ resources[n][k] >= 0
                                /\ resources[n][k] = capacity[n][k] - Used(n, k)
                      /\ strategy = "OperatorFirst" =>
                           \A p, q \in Vertices :
                             assignment[p] = n /\ assignment[q] = n => Op(p) = Op(q)
    BY DEF PlacementFits
  <2>1. PlaceInv
    BY DEF PlanInv, Idle
  <2>2. n # None
    BY NoneAssumption
  <2>3. (\E p \in Vertices : assignment[p] = n) => n \in Range(nodes)
    BY <2>2 DEF FitInv
  <2>4. \A k \in Resources : Left(n, k) /\ resources[n][k] \in Nat \cup {None}
    BY <2>1 DEF FitInv, PlaceInv, Amounts
  <2>5. strategy = "OperatorFirst" =>
          \A p, q \in Vertices : assignment[p] = n /\ assignment[q] = n => Op(p) = Op(q)
    BY <2>1, <2>2 DEF PlaceInv
  <2>6. QED
    BY <2>3, <2>4, <2>5 DEF Left
<1>2. QED
  BY PlanInvariant, FitInvariant, <1>1, PTL

------------------------------------------------------------------------------
(***************************************************************************)
(* The start-up of an IO loop.  The caller's test that everything is       *)
(* connected goes through three threads: an IO thread registers, the       *)
(* monitor attaches and raises `ready', and events fill the map that the   *)
(* caller reads.  StartupInv carries the knowledge from one thread to the  *)
(* next.                                                                   *)
(***************************************************************************)

(* The caller has seen `ready', and has found every known socket marked. *)
SawReady == {"wait_connected", "join_monitor_ok", "join_monitor_err", "connected",
             "failed", "started"}
SawConnected == {"join_monitor_ok", "connected", "started"}

StartupInv ==
    /\ TypeOK
    /\ marked \subseteq connected
    /\ monitor = "attaching" => registered # {}
    /\ ready => known = Connects
    /\ dialled # {} => ready
    /\ caller \in SawReady => ready
    /\ caller \in SawConnected => AllConnected

(* A loop on which connect was not yet called satisfies the invariant. *)
LEMMA InitStartup == Init => StartupInv
BY Zenon DEF Init, StartupInv, TypeOK, CallerStates, IOStates, ThreadIds, SawReady,
       SawConnected

(* The steps of the caller preserve the invariant. *)
LEMMA CallerStartup == StartupInv /\ Caller => StartupInv'
<1> SUFFICES ASSUME StartupInv, Caller PROVE StartupInv'
  OBVIOUS
<1> USE DEF StartupInv, TypeOK, CallerStates, IOStates, ThreadIds, SawReady,
            SawConnected, AllConnected, CallerGoes, monitorVars
<1>1. CASE Connect
  <2>1. io' \in [DOMAIN io' -> IOStates] /\ DOMAIN io' \subseteq ThreadIds
    BY <1>1 DEF Connect
  <2>2. QED
    BY <1>1, <2>1 DEF Connect
<1>2. CASE CallerReady
  BY <1>2 DEF CallerReady
<1>3. CASE CallerReadyTimeout
  BY <1>3 DEF CallerReadyTimeout
<1>4. CASE CallerConnected
  BY Zenon, <1>4 DEF CallerConnected
<1>5. CASE ConnectReturns
  BY <1>5 DEF ConnectReturns
<1>6. CASE Start
  BY Zenon, <1>6 DEF Start
<1>7. CASE Close
  BY Zenon, <1>7 DEF Close
<1>8. CASE CloseReturns
  BY <1>8 DEF CloseReturns
<1>9. QED
  BY Zenon, <1>1, <1>2, <1>3, <1>4, <1>5, <1>6, <1>7, <1>8 DEF Caller

(* The steps of the monitor thread preserve the invariant: `ready' is      *)
(* raised only once every connecting socket is in the map.                 *)
LEMMA MonitorStartup == StartupInv /\ Monitor => StartupInv'
<1> SUFFICES ASSUME StartupInv, Monitor PROVE StartupInv'
  OBVIOUS
<1> USE DEF StartupInv, TypeOK, CallerStates, IOStates, ThreadIds, SawReady,
            SawConnected, AllConnected
<1>1. CASE MonitorRegistered
  <2>1. registered # {}
    BY <1>1, FS_EmptySet, SocketsAssumption DEF MonitorRegistered
  <2>2. QED
    BY <1>1, <2>1 DEF MonitorRegistered
<1>2. CASE MonitorTimeout
  BY <1>2 DEF MonitorTimeout
<1>3. CASE MonitorReady
  <2>1. 0 \in registered
    BY <1>3 DEF MonitorReady
  <2>2. known = Connects
    BY Zenon, <1>3, <2>1 DEF MonitorReady, ConnectsOf
  <2>3. QED
    BY <1>3, <2>2 DEF MonitorReady
<1>4. CASE MonitorDone
  BY <1>4 DEF MonitorDone
<1>5. ASSUME NEW s \in Connects \cup Binds, MonitorAttach(s) PROVE StartupInv'
  <2>1. s \in Connects /\ s \notin known
    BY <1>5 DEF MonitorAttach, ConnectsOf
  <2>2. ~ready
    BY <2>1
  <2>3. QED
    BY <1>5, <2>1, <2>2 DEF MonitorAttach
<1>6. ASSUME NEW s \in Connects \cup Binds, MonitorSees(s) PROVE StartupInv'
  BY <1>6 DEF MonitorSees
<1>7. QED
  BY <1>1, <1>2, <1>3, <1>4, <1>5, <1>6 DEF Monitor

(* The steps of an IO thread preserve the invariant: it dials only when it *)
(* has seen `ready'.                                                       *)
LEMMA IOStartup ==
    ASSUME StartupInv, NEW t \in ThreadIds, IOThread(t)
    PROVE  StartupInv'
<1> USE DEF StartupInv, TypeOK, SawReady, SawConnected, AllConnected, monitorVars
<1>1. \A from, to : to \in IOStates /\ IOGoes(t, from, to) =>
         /\ io' \in [DOMAIN io' -> IOStates]
         /\ DOMAIN io' = DOMAIN io
         /\ t \in DOMAIN io
  BY DEF IOGoes
<1>2. CASE IORegister(t)
  <2>1. IOGoes(t, "created", "wait_ready") /\ "wait_ready" \in IOStates
    BY <1>2 DEF IORegister, IOStates
  <2>2. QED
    BY <1>1, <1>2, <2>1 DEF IORegister
<1>3. CASE IODial(t)
  <2>1. PICK to \in IOStates : IOGoes(t, "wait_ready", to)
    BY <1>3 DEF IODial, IOStates
  <2>2. dialled \subseteq dialled' /\ dialled' \subseteq Connects
    BY <1>3 DEF IODial
  <2>3. QED
    BY <1>1, <1>3, <2>1, <2>2 DEF IODial
<1>4. CASE IOReadyTimeout(t)
  <2>1. IOGoes(t, "wait_ready", "panicked") /\ "panicked" \in IOStates
    BY <1>4 DEF IOReadyTimeout, IOStates
  <2>2. QED
    BY <1>1, <1>4, <2>1 DEF IOReadyTimeout
<1>5. CASE IOConnected(t)
  <2>1. PICK to \in IOStates : IOGoes(t, "wait_connected", to)
    BY <1>5 DEF IOConnected, IOStates
  <2>2. QED
    BY <1>1, <1>5, <2>1 DEF IOConnected
<1>6. CASE IOStart(t)
  <2>1. IOGoes(t, "wait_start", "polling") /\ "polling" \in IOStates
    BY <1>6 DEF IOStart, IOStates
  <2>2. QED
    BY <1>1, <1>6, <2>1 DEF IOStart
<1>7. CASE IOExit(t)
  <2>1. IOGoes(t, "polling", "exited") /\ "exited" \in IOStates
    BY <1>7 DEF IOExit, IOStates
  <2>2. QED
    BY <1>1, <1>7, <2>1 DEF IOExit
<1>8. QED
  BY <1>2, <1>3, <1>4, <1>5, <1>6, <1>7 DEF IOThread

(* Every step of every thread preserves the invariant. *)
LEMMA NextStartup == StartupInv /\ [Next]_vars => StartupInv'
<1> SUFFICES ASSUME StartupInv, [Next]_vars PROVE StartupInv'
  OBVIOUS
<1>1. ASSUME NEW s \in Connects, PeerAccepts(s) PROVE StartupInv'
  BY <1>1 DEF PeerAccepts, StartupInv, TypeOK, AllConnected, monitorVars
<1>2. CASE UNCHANGED vars
  BY <1>2 DEF vars, monitorVars, StartupInv, TypeOK, AllConnected
<1>3. QED
  BY <1>1, <1>2, CallerStartup, MonitorStartup, IOStartup DEF Next

(* The knowledge that threads gain in start-up stays true of the loop. *)
THEOREM StartupInvariance == Spec => []StartupInv
BY InitStartup, NextStartup, PTL DEF Spec

(* Every flag and set of the start-up keeps its type. *)
THEOREM StartupTypes == Spec => []TypeOK
<1>1. StartupInv => TypeOK
  BY DEF StartupInv
<1>2. QED
  BY <1>1, StartupInvariance, PTL

(* connect succeeds only if every connecting socket has reached its peer,  *)
(* for any number of sockets and any order of the threads' steps.          *)
THEOREM SuccessIsReal == Spec => []ConnectedIsReal
<1>1. StartupInv => ConnectedIsReal
  BY DEF StartupInv, TypeOK, ConnectedIsReal, SawReady, SawConnected, AllConnected
<1>2. QED
  BY <1>1, StartupInvariance, PTL

(* The monitor is attached to every socket before any is dialled. *)
THEOREM NoEventMissed == Spec => []MonitoredBeforeDialled
<1>1. StartupInv => MonitoredBeforeDialled
  BY DEF StartupInv, MonitoredBeforeDialled
<1>2. QED
  BY <1>1, StartupInvariance, PTL

------------------------------------------------------------------------------
(* f is the concatenation, step by step, of the first N of seqs. *)
Concats(f, seqs, N) == f = [n \in 0 .. N |-> IF n = 0 THEN <<>> ELSE f[n - 1] \o seqs[n]]

(* There is such an f. *)
LEMMA ConcatsExist ==
    ASSUME NEW seqs, NEW N \in Nat
    PROVE  \E f : Concats(f, seqs, N)
<1> DEFINE S == {k \in Nat : \E f : Concats(f, seqs, k)}
<1>1. 0 \in S
  <2> DEFINE f == [n \in 0 .. 0 |-> <<>>]
  <2>1. Concats(f, seqs, 0)
    BY DEF Concats
  <2>2. QED
    BY <2>1
<1>2. ASSUME NEW k \in Nat, k \in S
      PROVE  k + 1 \in S
  <2>1. PICK f : Concats(f, seqs, k)
    BY <1>2
  <2> DEFINE g == [n \in 0 .. k + 1 |-> IF n = k + 1 THEN f[k] \o seqs[k + 1] ELSE f[n]]
  <2>2. /\ DOMAIN g = 0 .. k + 1 /\ g[k + 1] = f[k] \o seqs[k + 1]
        /\ \A n \in 0 .. k : g[n] = f[n]
    OBVIOUS
  <2>3. ASSUME NEW n \in 0 .. k + 1
        PROVE  g[n] = IF n = 0 THEN <<>> ELSE g[n - 1] \o seqs[n]
    <3> HIDE DEF g
    <3>1. CASE n = k + 1
      <4>1. n # 0 /\ n - 1 = k /\ k \in 0 .. k
        BY <3>1
      <4>2. g[n - 1] = f[k]
        BY <2>2, <4>1
      <4>3. QED
        BY Zenon, <2>2, <3>1, <4>1, <4>2
    <3>2. CASE n # k + 1
      <4>1. n \in 0 .. k /\ (n # 0 => n - 1 \in 0 .. k)
        BY <3>2
      <4>2. f[n] = IF n = 0 THEN <<>> ELSE f[n - 1] \o seqs[n]
        BY <2>1, <4>1 DEF Concats
      <4>3. QED
        BY Zenon, <2>2, <4>1, <4>2
    <3>3. QED
      BY <3>1, <3>2
  <2>4. g = [n \in 0 .. k + 1 |-> IF n = 0 THEN <<>> ELSE g[n - 1] \o seqs[n]]
    BY Zenon, <2>3
  <2>5. Concats(g, seqs, k + 1)
    BY Zenon, <2>4 DEF Concats
  <2>6. QED
    BY <2>5
<1> HIDE DEF S
<1>3. N \in S
  BY <1>1, <1>2, Induction
<1>4. QED
  BY <1>3 DEF S

LEMMA ConcatSteps ==
    ASSUME NEW seqs, NEW N \in Nat, Len(seqs) = N
    PROVE  \E f : /\ Concat(seqs) = f[N] /\ f[0] = <<>>
                  /\ \A n \in Nat : n + 1 <= N => f[n + 1] = f[n] \o seqs[n + 1]
<1> DEFINE f == CHOOSE g : Concats(g, seqs, N)
<1>1. Concats(f, seqs, N)
  BY ConcatsExist
<1>2. Concat(seqs) = f[N]
  BY DEF Concat, Concats
<1> HIDE DEF f
<1>3. \A n \in 0 .. N : f[n] = IF n = 0 THEN <<>> ELSE f[n - 1] \o seqs[n]
  BY <1>1 DEF Concats
<1>4. ASSUME NEW n \in Nat, n + 1 <= N
      PROVE  f[n + 1] = f[n] \o seqs[n + 1]
  <2>1. n + 1 \in 0 .. N /\ n + 1 # 0 /\ (n + 1) - 1 = n
    BY <1>4
  <2>2. QED
    BY Zenon, <1>3, <2>1
<1>5. f[0] = <<>>
  BY <1>3
<1>6. QED
  BY Zenon, <1>2, <1>4, <1>5

(* f has, step by step, the members of S up to N. *)
Ascends(f, S, N) == f = [n \in 0 .. N |-> IF n = 0 THEN <<>>
                                          ELSE IF n \in S THEN Append(f[n - 1], n) ELSE f[n - 1]]

LEMMA AscendsExist ==
    ASSUME NEW S, NEW N \in Nat
    PROVE  \E f : Ascends(f, S, N)
<1> DEFINE Next1(x, n) == IF n \in S THEN Append(x, n) ELSE x
           T == {k \in Nat : \E f : Ascends(f, S, k)}
<1>1. 0 \in T
  <2> DEFINE f == [n \in 0 .. 0 |-> <<>>]
  <2>1. Ascends(f, S, 0)
    BY DEF Ascends
  <2>2. QED
    BY <2>1
<1>2. ASSUME NEW k \in Nat, k \in T
      PROVE  k + 1 \in T
  <2>1. PICK f : Ascends(f, S, k)
    BY <1>2
  <2> DEFINE g == [n \in 0 .. k + 1 |-> IF n = k + 1 THEN Next1(f[k], k + 1) ELSE f[n]]
  <2>2. /\ DOMAIN g = 0 .. k + 1 /\ g[k + 1] = Next1(f[k], k + 1)
        /\ \A n \in 0 .. k : g[n] = f[n]
    OBVIOUS
  <2>3. ASSUME NEW n \in 0 .. k + 1
        PROVE  g[n] = IF n = 0 THEN <<>> ELSE Next1(g[n - 1], n)
    <3> HIDE DEF g
    <3>1. CASE n = k + 1
      <4>1. n # 0 /\ n - 1 = k /\ k \in 0 .. k
        BY <3>1
      <4>2. g[n - 1] = f[k]
        BY <2>2, <4>1
      <4>3. QED
        BY <2>2, <3>1, <4>1, <4>2
    <3>2. CASE n # k + 1
      <4>1. n \in 0 .. k /\ (n # 0 => n - 1 \in 0 .. k)
        BY <3>2
      <4>2. f[n] = IF n = 0 THEN <<>> ELSE Next1(f[n - 1], n)
        BY Zenon, <2>1, <4>1 DEF Ascends
      <4>3. QED
        BY Zenon, <2>2, <4>1, <4>2
    <3>3. QED
      BY <3>1, <3>2
  <2>4. g = [n \in 0 .. k + 1 |-> IF n = 0 THEN <<>> ELSE Next1(g[n - 1], n)]
    BY <2>3
  <2>5. Ascends(g, S, k + 1)
    BY <2>4 DEF Ascends
  <2>6. QED
    BY <2>5
<1> HIDE DEF T
<1>3. N \in T
  BY <1>1, <1>2, Induction
<1>4. QED
  BY <1>3 DEF T

(* Ascending has all members of a set once, in their order. *)
LEMMA AscendingIs ==
    ASSUME NEW N \in Nat, NEW S \in SUBSET (1 .. N)
    PROVE  /\ Ascending(S, N) \in Seq(S) /\ Rising(Ascending(S, N))
           /\ \A x \in S : \E i \in DOMAIN Ascending(S, N) : Ascending(S, N)[i] = x
<1> DEFINE f == CHOOSE g : Ascends(g, S, N)
           Good(n) == /\ f[n] \in Seq(S) /\ Rising(f[n])
                      /\ \A i \in DOMAIN f[n] : f[n][i] <= n
                      /\ \A x \in S : x <= n => \E i \in DOMAIN f[n] : f[n][i] = x
           T == {n \in Nat : n <= N => Good(n)}
<1>1. Ascends(f, S, N)
  BY AscendsExist
<1>2. Ascending(S, N) = f[N]
  BY DEF Ascending, Ascends
<1> HIDE DEF f
<1>3. \A n \in 0 .. N : f[n] = IF n = 0 THEN <<>>
                              ELSE IF n \in S THEN Append(f[n - 1], n) ELSE f[n - 1]
  BY Zenon, <1>1 DEF Ascends
<1>4. \A x \in S : x \in Nat /\ x # 0 /\ x <= N
  OBVIOUS
<1>5. 0 \in T
  <2>1. f[0] = <<>>
    BY <1>3
  <2>2. f[0] \in Seq(S) /\ DOMAIN f[0] = {}
    BY <2>1
  <2>3. \A x \in S : ~(x <= 0)
    BY <1>4
  <2>4. QED
    BY <2>2, <2>3 DEF Rising
<1>6. ASSUME NEW n \in Nat, n \in T
      PROVE  n + 1 \in T
  <2>1. SUFFICES ASSUME n + 1 <= N
                 PROVE  Good(n + 1)
    OBVIOUS
  <2>2. Good(n)
    BY <1>6, <2>1
  <2>3. f[n + 1] = IF n + 1 \in S THEN Append(f[n], n + 1) ELSE f[n]
    <3>1. n + 1 \in 0 .. N /\ n + 1 # 0 /\ (n + 1) - 1 = n
      BY <2>1
    <3>2. QED
      BY <1>3, <3>1
  <2> DEFINE old == f[n]
             new == f[n + 1]
  <2>4. /\ old \in Seq(S) /\ Rising(old) /\ \A i \in DOMAIN old : old[i] \in S /\ old[i] <= n
        /\ \A x \in S : x <= n => \E i \in DOMAIN old : old[i] = x
    BY <2>2
  <2> HIDE DEF old, new
  <2>5. CASE n + 1 \in S
    <3> DEFINE k == Len(old) + 1
    <3>1. /\ new \in Seq(S) /\ DOMAIN new = DOMAIN old \cup {k} /\ new[k] = n + 1
          /\ \A i \in DOMAIN old : i \in Nat /\ i < k /\ new[i] = old[i]
          /\ k \in Nat
      <4>1. new = Append(old, n + 1)
        BY <2>3, <2>5 DEF old, new
      <4>2. Len(old) \in Nat
        BY <2>4
      <4>3. QED
        BY <2>4, <2>5, <4>1, <4>2, AppendIs
    <3> HIDE DEF k
    <3>2. Rising(new)
      <4>1. SUFFICES ASSUME NEW i \in DOMAIN new, NEW j \in DOMAIN new, i < j
                     PROVE  new[i] < new[j]
        BY DEF Rising
      <4>2. i \in DOMAIN old
        BY <3>1, <4>1
      <4>3. CASE j \in DOMAIN old
        BY <2>4, <3>1, <4>1, <4>2, <4>3 DEF Rising
      <4>4. CASE j = k
        <5>1. old[i] \in Nat /\ old[i] <= n
          BY Zenon, <1>4, <2>4, <4>2
        <5>2. new[i] = old[i] /\ new[j] = n + 1
          BY <3>1, <4>2, <4>4
        <5>3. QED
          BY <5>1, <5>2
      <4>5. QED
        BY <3>1, <4>3, <4>4
    <3>3. ASSUME NEW i \in DOMAIN new
          PROVE  new[i] <= n + 1
      <4>1. CASE i = k
        BY <3>1, <4>1
      <4>2. CASE i \in DOMAIN old
        <5>1. old[i] \in Nat /\ old[i] <= n
          BY Zenon, <1>4, <2>4, <4>2
        <5>2. old[i] <= n + 1
          BY <5>1
        <5>3. QED
          BY <3>1, <4>2, <5>2
      <4>3. QED
        BY <3>1, <4>1, <4>2
    <3>4. ASSUME NEW x \in S, x <= n + 1
          PROVE  \E i \in DOMAIN new : new[i] = x
      <4>1. x <= n \/ x = n + 1
        BY <1>4, <3>4
      <4>2. QED
        BY <2>4, <3>1, <4>1
    <3>5. QED
      BY <3>1, <3>2, <3>3, <3>4 DEF new
  <2>6. CASE n + 1 \notin S
    <3>1. new = old
      BY <2>3, <2>6 DEF old, new
    <3>2. \A x \in S : x <= n + 1 => x <= n
      BY <1>4, <2>6
    <3>3. ASSUME NEW i \in DOMAIN old
          PROVE  old[i] <= n + 1
      <4>1. old[i] \in Nat /\ old[i] <= n
        BY Zenon, <1>4, <2>4
      <4>2. QED
        BY <4>1
    <3>4. QED
      BY <2>4, <3>1, <3>2, <3>3 DEF new
  <2>7. QED
    BY <2>5, <2>6
<1>7. N \in T
  BY Zenon, <1>5, <1>6, Induction
<1>8. N <= N
  OBVIOUS
<1> HIDE DEF Good
<1>9. Good(N)
  BY <1>7, <1>8
<1>10. QED
  BY <1>2, <1>4, <1>9 DEF Good

(* Rising sequences of the same numbers are equal. *)
LEMMA SameRising ==
    ASSUME NEW a \in Seq(Nat), NEW b \in Seq(Nat), Rising(a), Rising(b),
           \A i \in DOMAIN a : \E j \in DOMAIN b : b[j] = a[i],
           \A j \in DOMAIN b : \E i \in DOMAIN a : a[i] = b[j]
    PROVE  a = b
<1> DEFINE T == {n \in Nat : /\ n \in DOMAIN a \cup DOMAIN b
                             /\ ~(n \in DOMAIN a /\ n \in DOMAIN b /\ a[n] = b[n])}
<1>1. /\ DOMAIN a = 1 .. Len(a) /\ DOMAIN b = 1 .. Len(b) /\ Len(a) \in Nat /\ Len(b) \in Nat
      /\ \A i \in DOMAIN a : a[i] \in Nat
      /\ \A i \in DOMAIN b : b[i] \in Nat
  <2>1. DOMAIN a = 1 .. Len(a) /\ Len(a) \in Nat
    BY ONLY a \in Seq(Nat)
  <2>2. DOMAIN b = 1 .. Len(b) /\ Len(b) \in Nat
    BY ONLY b \in Seq(Nat)
  <2>3. (\A i \in DOMAIN a : a[i] \in Nat) /\ (\A i \in DOMAIN b : b[i] \in Nat)
    BY Zenon, ElementIs
  <2>4. QED
    BY Zenon, <2>1, <2>2, <2>3
<1>2. SUFFICES ASSUME T # {} PROVE FALSE
  <2>1. ASSUME T = {} PROVE a = b
    <3>1. \A n \in Nat : n \in DOMAIN a \cup DOMAIN b =>
            n \in DOMAIN a /\ n \in DOMAIN b /\ a[n] = b[n]
      BY Zenon, <2>1
    <3>2. DOMAIN a \subseteq Nat /\ DOMAIN b \subseteq Nat
      BY <1>1
    <3>3. DOMAIN a = DOMAIN b /\ \A n \in DOMAIN a : a[n] = b[n]
      BY Zenon, <3>1, <3>2
    <3>4. QED
      BY <3>3
  <2>2. QED
    BY <2>1
<1>3. PICK n \in T : \A m \in T : n <= m
  BY Zenon, <1>2, LeastNumber
<1>4. \A m \in Nat : m < n /\ m \in DOMAIN a \cup DOMAIN b =>
        m \in DOMAIN a /\ m \in DOMAIN b /\ a[m] = b[m]
  <2>1. n \in Nat
    OBVIOUS
  <2>2. \A m \in Nat : m < n => m \notin T
    BY <1>3, <2>1
  <2>3. QED
    BY Zenon, <2>2
<1>5. n \in DOMAIN a => n \in DOMAIN b /\ b[n] <= a[n]
  <2>1. SUFFICES ASSUME n \in DOMAIN a PROVE n \in DOMAIN b /\ b[n] <= a[n]
    OBVIOUS
  <2>2. PICK m \in DOMAIN b : b[m] = a[n]
    BY <2>1
  <2>3. ~(m < n)
    <3>1. SUFFICES ASSUME m < n PROVE FALSE
      OBVIOUS
    <3>2. m \in Nat
      BY <1>1
    <3>3. m \in DOMAIN a /\ a[m] = b[m]
      BY <1>4, <3>1, <3>2
    <3>4. a[m] < a[n]
      BY <2>1, <3>1, <3>3 DEF Rising
    <3>5. QED
      BY <1>1, <2>1, <2>2, <3>3, <3>4
  <2>4. n \in DOMAIN b
    BY <1>1, <2>1, <2>3
  <2>5. b[n] <= b[m]
    <3>1. n = m \/ n < m
      BY <1>1, <2>1, <2>3
    <3>2. b[n] \in Nat /\ b[m] \in Nat
      BY <1>1, <2>4
    <3>3. n < m => b[n] < b[m]
      BY <2>4 DEF Rising
    <3> DEFINE x == b[n]
               y == b[m]
    <3>4. x = y \/ x < y
      BY Zenon, <3>1, <3>3
    <3>5. x \in Nat /\ y \in Nat
      BY <3>2
    <3> HIDE DEF x, y
    <3>6. x <= y
      BY ONLY <3>4, <3>5
    <3>7. QED
      BY Zenon, <3>6 DEF x, y
  <2>6. QED
    BY <2>2, <2>4, <2>5
<1>6. n \in DOMAIN b => n \in DOMAIN a /\ a[n] <= b[n]
  <2>1. SUFFICES ASSUME n \in DOMAIN b PROVE n \in DOMAIN a /\ a[n] <= b[n]
    OBVIOUS
  <2>2. PICK m \in DOMAIN a : a[m] = b[n]
    BY <2>1
  <2>3. ~(m < n)
    <3>1. SUFFICES ASSUME m < n PROVE FALSE
      OBVIOUS
    <3>2. m \in Nat
      BY <1>1
    <3>3. m \in DOMAIN b /\ a[m] = b[m]
      BY <1>4, <3>1, <3>2
    <3>4. b[m] < b[n]
      BY <2>1, <3>1, <3>3 DEF Rising
    <3>5. QED
      BY <1>1, <2>1, <2>2, <3>3, <3>4
  <2>4. n \in DOMAIN a
    BY <1>1, <2>1, <2>3
  <2>5. a[n] <= a[m]
    <3>1. n = m \/ n < m
      BY <1>1, <2>1, <2>3
    <3>2. a[n] \in Nat /\ a[m] \in Nat
      BY <1>1, <2>4
    <3>3. n < m => a[n] < a[m]
      BY <2>4 DEF Rising
    <3> DEFINE x == a[n]
               y == a[m]
    <3>4. x = y \/ x < y
      BY Zenon, <3>1, <3>3
    <3>5. x \in Nat /\ y \in Nat
      BY <3>2
    <3> HIDE DEF x, y
    <3>6. x <= y
      BY ONLY <3>4, <3>5
    <3>7. QED
      BY Zenon, <3>6 DEF x, y
  <2>6. QED
    BY <2>2, <2>4, <2>5
<1>7. n \in DOMAIN a /\ n \in DOMAIN b /\ a[n] <= b[n] /\ b[n] <= a[n]
  BY <1>5, <1>6
<1>8. a[n] = b[n]
  BY <1>1, <1>7
<1>9. QED
  BY <1>7, <1>8

------------------------------------------------------------------------------
(* es has the edges from p to all instances of op, in the order of these,  *)
(* for every <<p, op>> of D, and no others.                                *)
Within(es, vs, D) == \A m \in DOMAIN es : <<es[m].source, vs[es[m].target].op>> \in D
Leads(es, p, q) == \E m \in DOMAIN es : es[m].source = p /\ es[m].target = q
Covers(es, vs, D) == \A d \in D : \A q \in DOMAIN vs : vs[q].op = d[2] => Leads(es, d[1], q)
Parallel(vs, e, f) == e.source = f.source /\ vs[e.target].op = vs[f.target].op
InOrder(es, vs) == \A m, n \in DOMAIN es :
    m < n /\ Parallel(vs, es[m], es[n]) => es[m].target < es[n].target
Lists(es, vs, D) == Within(es, vs, D) /\ Covers(es, vs, D) /\ InOrder(es, vs)

(* One after another, lists of different edges make a list. *)
LEMMA ListsJoin ==
    ASSUME NEW E, NEW vs, NEW a \in Seq(E), NEW b \in Seq(E), NEW C, NEW D,
           Lists(a, vs, C), Lists(b, vs, D), C \cap D = {}
    PROVE  a \o b \in Seq(E) /\ Lists(a \o b, vs, C \cup D)
<1> DEFINE c == a \o b
           L == Len(a)
<1>1. /\ c \in Seq(E) /\ L \in Nat
      /\ \A n \in DOMAIN c : \/ n \in DOMAIN a /\ c[n] = a[n]
                             \/ n > L /\ n - L \in DOMAIN b /\ c[n] = b[n - L]
      /\ \A n \in DOMAIN a : n \in Nat /\ n <= L /\ n \in DOMAIN c /\ c[n] = a[n]
      /\ \A n \in DOMAIN b : n \in Nat /\ L + n \in DOMAIN c /\ c[L + n] = b[n]
  <2>1. c \in Seq(E) /\ L \in Nat /\ Concatenates(c, a, b, L)
    BY Zenon, ConcatIs
  <2> HIDE DEF c, L
  <2>2. QED
    BY Zenon, <2>1 DEF Concatenates
<1> HIDE DEF c, L
<1>2. Within(c, vs, C \cup D)
  <2>1. SUFFICES ASSUME NEW n \in DOMAIN c
                 PROVE  <<c[n].source, vs[c[n].target].op>> \in C \cup D
    BY DEF Within
  <2>2. CASE n \in DOMAIN a /\ c[n] = a[n]
    BY Zenon, <2>2 DEF Lists, Within
  <2>3. CASE n - L \in DOMAIN b /\ c[n] = b[n - L]
    BY <2>3 DEF Lists, Within
  <2>4. QED
    BY <1>1, <2>2, <2>3
<1>3. Covers(c, vs, C \cup D)
  <2>1. \A p, q : Leads(a, p, q) \/ Leads(b, p, q) => Leads(c, p, q)
    BY <1>1 DEF Leads
  <2>2. QED
    BY <2>1 DEF Lists, Covers
<1>4. InOrder(c, vs)
  <2>1. SUFFICES ASSUME NEW m \in DOMAIN c, NEW n \in DOMAIN c, m < n, Parallel(vs, c[m], c[n])
                 PROVE  c[m].target < c[n].target
    BY DEF InOrder
  <2>2. m \in Nat /\ n \in Nat
    BY <1>1
  <2>3. CASE m \in DOMAIN a /\ n \in DOMAIN a
    <3>1. c[m] = a[m] /\ c[n] = a[n]
      BY <1>1, <2>3
    <3>2. QED
      BY <2>1, <2>3, <3>1 DEF Lists, InOrder
  <2>4. CASE m \in DOMAIN a /\ n - L \in DOMAIN b /\ c[n] = b[n - L]
    <3>1. c[m] = a[m]
      BY <1>1, <2>4
    <3>2. <<a[m].source, vs[a[m].target].op>> \in C
      BY <2>4 DEF Lists, Within
    <3>3. <<b[n - L].source, vs[b[n - L].target].op>> \in D
      BY <2>4 DEF Lists, Within
    <3>4. QED
      BY Zenon, <2>1, <2>4, <3>1, <3>2, <3>3 DEF Parallel
  <2>5. CASE /\ m - L \in DOMAIN b /\ c[m] = b[m - L]
             /\ n - L \in DOMAIN b /\ c[n] = b[n - L]
    <3>1. m - L < n - L
      BY ONLY <1>1, <2>1, <2>2
    <3>2. QED
      BY <2>1, <2>5, <3>1 DEF Lists, InOrder
  <2>6. ~(m > L /\ n \in DOMAIN a)
    <3>1. n \in DOMAIN a => n <= L
      BY Zenon, <1>1
    <3>2. L \in Nat
      BY <1>1
    <3>3. QED
      BY ONLY <2>1, <2>2, <3>1, <3>2
  <2>7. QED
    BY <1>1, <2>3, <2>4, <2>5, <2>6
<1>5. QED
  BY <1>1, <1>2, <1>3, <1>4 DEF Lists, c

(* seqs are lists of different edges. *)
Apart(seqs, E, vs, D, N) ==
    /\ Len(seqs) = N
    /\ \A i \in 1 .. N : seqs[i] \in Seq(E) /\ Lists(seqs[i], vs, D[i])
    /\ \A i, j \in 1 .. N : i # j => D[i] \cap D[j] = {}

AllOf(D, N) == UNION {D[i] : i \in 1 .. N}

(* So does the concatenation of any number of them. *)
LEMMA ListsConcat ==
    ASSUME NEW E, NEW vs, NEW seqs, NEW N \in Nat, NEW D, Apart(seqs, E, vs, D, N)
    PROVE  /\ Concat(seqs) \in Seq(E)
           /\ Lists(Concat(seqs), vs, AllOf(D, N))
<1> DEFINE Joined(n) == AllOf(D, n)
<1> USE DEF Apart
<1>1. PICK f : /\ Concat(seqs) = f[N] /\ f[0] = <<>>
               /\ \A n \in Nat : n + 1 <= N => f[n + 1] = f[n] \o seqs[n + 1]
  BY Zenon, ConcatSteps
<1> DEFINE Good(n) == f[n] \in Seq(E) /\ Lists(f[n], vs, Joined(n))
           T == {n \in Nat : n <= N => Good(n)}
<1>2. 0 \in T
  <2>1. f[0] \in Seq(E) /\ DOMAIN f[0] = {}
    BY <1>1
  <2>2. Joined(0) = {}
    BY DEF AllOf
  <2>3. Lists(f[0], vs, Joined(0))
    BY <2>1, <2>2 DEF Lists, Within, Covers, InOrder
  <2>4. QED
    BY <2>1, <2>3
<1>3. ASSUME NEW n \in Nat, n \in T
      PROVE  n + 1 \in T
  <2>1. SUFFICES ASSUME n + 1 <= N
                 PROVE  Good(n + 1)
    <3> HIDE DEF Good
    <3>1. QED
      OBVIOUS
  <2>2. Good(n) /\ n + 1 \in 1 .. N
    BY <1>3, <2>1
  <2>3. Joined(n + 1) = Joined(n) \cup D[n + 1]
    <3>1. 1 .. n + 1 = (1 .. n) \cup {n + 1}
      OBVIOUS
    <3>2. QED
      BY <3>1 DEF AllOf
  <2>4. Joined(n) \cap D[n + 1] = {}
    <3>1. \A i \in 1 .. n : i \in 1 .. N /\ i # n + 1
      BY <2>2
    <3>2. QED
      BY <2>2, <3>1 DEF AllOf
  <2>5. f[n + 1] = f[n] \o seqs[n + 1]
    BY Zenon, <1>1, <2>1
  <2>6. f[n] \in Seq(E) /\ Lists(f[n], vs, Joined(n))
    BY <2>2
  <2>7. seqs[n + 1] \in Seq(E) /\ Lists(seqs[n + 1], vs, D[n + 1])
    BY <2>2
  <2> HIDE DEF Joined
  <2>8. /\ f[n] \o seqs[n + 1] \in Seq(E)
        /\ Lists(f[n] \o seqs[n + 1], vs, Joined(n) \cup D[n + 1])
    BY Zenon, <2>4, <2>6, <2>7, ListsJoin
  <2>9. QED
    BY Zenon, <2>3, <2>5, <2>8
<1> HIDE DEF Good, T
<1>4. N \in T
  BY Zenon, <1>2, <1>3, Induction
<1>5. N <= N
  OBVIOUS
<1>6. Good(N)
  BY <1>4, <1>5 DEF T
<1>7. QED
  BY <1>1, <1>6 DEF Good

------------------------------------------------------------------------------
ExecutionEdges(vs) == [source : DOMAIN vs, target : DOMAIN vs, partition : Partitions]

(* to lists the instances of op, in their order. *)
AreInstances(to, vs, op) ==
    /\ to \in Seq(DOMAIN vs) /\ to \in Seq(Nat) /\ Rising(to)
    /\ \A i \in DOMAIN to : vs[to[i]].op = op
    /\ \A q \in DOMAIN vs : vs[q].op = op => \E i \in DOMAIN to : to[i] = q

(* Instances of an operator. *)
LEMMA InstancesAre ==
    ASSUME NEW vs \in Seq(VertexRecords), NEW op
    PROVE  AreInstances(InstancesOf(vs, op), vs, op)
<1> DEFINE S == {p \in DOMAIN vs : vs[p].op = op}
           N == Len(vs)
<1>1. N \in Nat /\ S \in SUBSET (1 .. N) /\ S \subseteq DOMAIN vs /\ S \subseteq Nat
  OBVIOUS
<1>2. InstancesOf(vs, op) = Ascending(S, N)
  BY DEF InstancesOf
<1>3. \A p \in S : vs[p].op = op
  OBVIOUS
<1>4. \A p \in DOMAIN vs : vs[p].op = op => p \in S
  OBVIOUS
<1> HIDE DEF S, N
<1>5. /\ Ascending(S, N) \in Seq(S) /\ Rising(Ascending(S, N))
      /\ \A x \in S : \E i \in DOMAIN Ascending(S, N) : Ascending(S, N)[i] = x
  BY <1>1, AscendingIs
<1>6. Ascending(S, N) \in Seq(DOMAIN vs) /\ Ascending(S, N) \in Seq(Nat)
  BY Zenon, <1>1, <1>5, SeqWiden
<1>7. \A i \in DOMAIN Ascending(S, N) : Ascending(S, N)[i] \in S
  BY Zenon, <1>5, ElementIs
<1>8. AreInstances(Ascending(S, N), vs, op)
  BY <1>3, <1>4, <1>5, <1>6, <1>7 DEF AreInstances
<1>9. QED
  BY Zenon, <1>2, <1>8

(* The edges of one instance to the instances of an operator. *)
LEMMA FanLists ==
    ASSUME NEW vs \in Seq(VertexRecords), NEW p \in DOMAIN vs, NEW op, NEW partition \in Partitions
    PROVE  LET fan == Fan(p, InstancesOf(vs, op), partition)
           IN  fan \in Seq(ExecutionEdges(vs)) /\ Lists(fan, vs, {<<p, op>>})
<1> DEFINE to == InstancesOf(vs, op)
           fan == Fan(p, to, partition)
<1>1. /\ to \in Seq(DOMAIN vs) /\ Rising(to)
      /\ \A i \in DOMAIN to : vs[to[i]].op = op
      /\ \A q \in DOMAIN vs : vs[q].op = op => \E i \in DOMAIN to : to[i] = q
  <2>1. AreInstances(to, vs, op)
    BY Zenon, InstancesAre
  <2> HIDE DEF to
  <2>2. QED
    BY Zenon, <2>1 DEF AreInstances
<1> HIDE DEF to
<1>2. /\ DOMAIN fan = DOMAIN to
      /\ \A i \in DOMAIN to : fan[i] = [source |-> p, target |-> to[i], partition |-> partition]
  BY DEF Fan
<1>3. \A i \in DOMAIN to : to[i] \in DOMAIN vs
  BY Zenon, <1>1, ElementIs
<1>4. fan \in Seq(ExecutionEdges(vs))
  <2>1. \A i \in DOMAIN to : fan[i] \in ExecutionEdges(vs)
    <3>1. \A q \in DOMAIN vs :
            [source |-> p, target |-> q, partition |-> partition] \in ExecutionEdges(vs)
      BY DEF ExecutionEdges
    <3> HIDE DEF fan
    <3>2. QED
      BY <1>2, <1>3, <3>1
  <2>2. DOMAIN to = 1 .. Len(to) /\ Len(to) \in Nat
    BY <1>1
  <2>3. fan = [i \in 1 .. Len(to) |-> fan[i]]
    BY <2>2 DEF Fan
  <2> HIDE DEF fan
  <2>4. QED
    BY <2>1, <2>2, <2>3
<1> HIDE DEF fan
<1>5. \A i \in DOMAIN to : fan[i].source = p /\ fan[i].target = to[i]
  <2>1. ASSUME NEW i \in DOMAIN to
        PROVE  fan[i].source = p /\ fan[i].target = to[i]
    <3>1. fan[i] = [source |-> p, target |-> to[i], partition |-> partition]
      BY Zenon, <1>2
    <3>2. QED
      BY <3>1
  <2>2. QED
    BY <2>1
<1>6. Within(fan, vs, {<<p, op>>})
  <2>1. ASSUME NEW i \in DOMAIN to
        PROVE  fan[i].source = p /\ vs[fan[i].target].op = op
    <3>1. fan[i].source = p /\ fan[i].target = to[i]
      BY Zenon, <1>5
    <3>2. vs[to[i]].op = op
      BY Zenon, <1>1
    <3>3. QED
      BY Zenon, <3>1, <3>2
  <2>2. QED
    BY <1>2, <2>1 DEF Within
<1>7. Covers(fan, vs, {<<p, op>>})
  <2>1. ASSUME NEW q \in DOMAIN vs, vs[q].op = op
        PROVE  Leads(fan, p, q)
    <3>1. PICK i \in DOMAIN to : to[i] = q
      BY Zenon, <1>1, <2>1
    <3>2. QED
      BY Zenon, <1>2, <1>5, <3>1 DEF Leads
  <2>2. QED
    BY <2>1 DEF Covers
<1>8. InOrder(fan, vs)
  <2>1. SUFFICES ASSUME NEW m \in DOMAIN fan, NEW n \in DOMAIN fan, m < n
                 PROVE  fan[m].target < fan[n].target
    BY Zenon DEF InOrder
  <2>2. /\ m \in DOMAIN to /\ n \in DOMAIN to
        /\ fan[m].target = to[m] /\ fan[n].target = to[n]
    BY Zenon, <1>2, <1>5
  <2>3. to[m] < to[n]
    BY Zenon, <1>1, <2>1, <2>2 DEF Rising
  <2>4. QED
    BY Zenon, <2>2, <2>3
<1>9. QED
  BY <1>4, <1>6, <1>7, <1>8 DEF Lists, fan, to

(* An edge of the job graph, as execution_graph.py looks at it. *)
JobEdges == [source : Nat, target : Nat, partition : Partitions, is_join_right_edge : BOOLEAN]
JobVertices == [id : Nat, parallelism : Nat, type : STRING, operators : Seq(Nat)]

(* The instances of the source of an edge, each with the target. *)
Pairs(e, vs) == {p \in DOMAIN vs : vs[p].op = e.source} \X {e.target}

LEMMA ExpandEdgeLists ==
    ASSUME NEW vs \in Seq(VertexRecords), NEW e \in JobEdges
    PROVE  /\ ExpandEdge(e, vs) \in Seq(ExecutionEdges(vs))
           /\ Lists(ExpandEdge(e, vs), vs, Pairs(e, vs))
<1> DEFINE sources == InstancesOf(vs, e.source)
           targets == InstancesOf(vs, e.target)
           partition == IF e.partition = "Forward" /\ Len(targets) > 1
                        THEN "RoundRobin" ELSE e.partition
           fans == [s \in DOMAIN sources |-> Fan(sources[s], targets, partition)]
           D == [s \in DOMAIN sources |-> {<<sources[s], e.target>>}]
           N == Len(sources)
<1>1. ExpandEdge(e, vs) = Concat(fans)
  BY DEF ExpandEdge
<1>2. partition \in Partitions
  <2>1. e.partition \in Partitions
    BY DEF JobEdges
  <2> HIDE DEF targets
  <2>2. QED
    BY <2>1 DEF Partitions
<1>3. /\ sources \in Seq(DOMAIN vs) /\ sources \in Seq(Nat) /\ Rising(sources)
      /\ \A i \in DOMAIN sources : vs[sources[i]].op = e.source
      /\ \A q \in DOMAIN vs : vs[q].op = e.source => \E i \in DOMAIN sources : sources[i] = q
  <2>1. AreInstances(sources, vs, e.source)
    BY Zenon, InstancesAre
  <2> HIDE DEF sources
  <2>2. QED
    BY Zenon, <2>1 DEF AreInstances
<1> HIDE DEF sources, partition
<1>4. /\ N \in Nat /\ DOMAIN sources = 1 .. N /\ \A i \in 1 .. N : sources[i] \in Nat
  BY <1>3
<1>5. \A i \in 1 .. N : sources[i] \in DOMAIN vs
  BY Zenon, <1>3, <1>4, ElementIs
<1>6. DOMAIN fans = 1 .. N /\ Len(fans) = N
  BY <1>4
<1>7. \A i \in 1 .. N : /\ fans[i] = Fan(sources[i], targets, partition)
                        /\ D[i] = {<<sources[i], e.target>>}
  BY <1>4
<1>8. ASSUME NEW i \in 1 .. N
      PROVE  fans[i] \in Seq(ExecutionEdges(vs)) /\ Lists(fans[i], vs, D[i])
  <2> DEFINE fan == Fan(sources[i], targets, partition)
  <2>1. fan \in Seq(ExecutionEdges(vs)) /\ Lists(fan, vs, {<<sources[i], e.target>>})
    BY Zenon, <1>2, <1>5, FanLists
  <2>2. fans[i] = fan /\ D[i] = {<<sources[i], e.target>>}
    BY <1>7
  <2> HIDE DEF fans, fan, D
  <2>3. QED
    BY <2>1, <2>2
<1>9. \A i, j \in 1 .. N : i # j => D[i] \cap D[j] = {}
  <2>1. \A i, j \in 1 .. N : i # j => sources[i] # sources[j]
    <3>1. ASSUME NEW i \in 1 .. N, NEW j \in 1 .. N, i # j
          PROVE  sources[i] # sources[j]
      <4>1. i < j \/ j < i
        BY <1>4, <3>1
      <4>2. sources[i] < sources[j] \/ sources[j] < sources[i]
        BY <1>3, <1>4, <4>1 DEF Rising
      <4>3. QED
        BY <1>4, <4>2
    <3>2. QED
      BY <3>1
  <2>2. QED
    BY <1>7, <2>1
<1>10. AllOf(D, N) = Pairs(e, vs)
  <2>1. \A x \in AllOf(D, N) : x \in Pairs(e, vs)
    <3>1. ASSUME NEW i \in 1 .. N
          PROVE  <<sources[i], e.target>> \in Pairs(e, vs)
      BY Zenon, <1>3, <1>4, <1>5 DEF Pairs
    <3> HIDE DEF D, N
    <3>2. ASSUME NEW x \in AllOf(D, N)
          PROVE  x \in Pairs(e, vs)
      <4>1. PICK i \in 1 .. N : x \in D[i]
        BY DEF AllOf
      <4>2. x = <<sources[i], e.target>>
        BY Zenon, <1>7, <4>1
      <4>3. QED
        BY Zenon, <3>1, <4>2
    <3>3. QED
      BY Zenon, <3>2
  <2>2. \A x \in Pairs(e, vs) : x \in AllOf(D, N)
    <3>1. ASSUME NEW x \in Pairs(e, vs)
          PROVE  \E i \in 1 .. N : x \in D[i]
      <4>1. PICK p \in DOMAIN vs : vs[p].op = e.source /\ x = <<p, e.target>>
        BY DEF Pairs
      <4>2. PICK i \in 1 .. N : sources[i] = p
        BY <1>3, <1>4, <4>1
      <4>3. QED
        BY <1>7, <4>1, <4>2
    <3> HIDE DEF D, N
    <3>2. QED
      BY <3>1 DEF AllOf
  <2>3. QED
    BY Zenon, <2>1, <2>2
<1> HIDE DEF fans, D, N
<1>11. Apart(fans, ExecutionEdges(vs), vs, D, N)
  BY Zenon, <1>6, <1>8, <1>9 DEF Apart
<1>12. /\ Concat(fans) \in Seq(ExecutionEdges(vs))
       /\ Lists(Concat(fans), vs, AllOf(D, N))
  BY Zenon, <1>4, <1>11, ListsConcat
<1>13. QED
  BY <1>1, <1>10, <1>12

(* No two edges have the same ends. *)
Simple(g) == \A i, j \in DOMAIN g.edges :
    g.edges[i].source = g.edges[j].source /\ g.edges[i].target = g.edges[j].target => i = j

LEMMA ExpandEdgesLists ==
    ASSUME NEW vs \in Seq(VertexRecords), NEW g, g.edges \in Seq(JobEdges), Simple(g)
    PROVE  /\ ExpandEdges(g, vs) \in Seq(ExecutionEdges(vs))
           /\ \E D : /\ Lists(ExpandEdges(g, vs), vs, D)
                     /\ \A d \in D : \E i \in DOMAIN g.edges : d \in Pairs(g.edges[i], vs)
<1> DEFINE seqs == [i \in DOMAIN g.edges |-> ExpandEdge(g.edges[i], vs)]
           D == [i \in DOMAIN g.edges |-> Pairs(g.edges[i], vs)]
           N == Len(g.edges)
<1>1. ExpandEdges(g, vs) = Concat(seqs)
  BY DEF ExpandEdges
<1>2. N \in Nat /\ DOMAIN g.edges = 1 .. N /\ DOMAIN seqs = 1 .. N /\ Len(seqs) = N
  <2>1. N \in Nat /\ DOMAIN g.edges = 1 .. N
    BY ONLY g.edges \in Seq(JobEdges)
  <2>2. DOMAIN seqs = 1 .. N
    BY Zenon, <2>1
  <2>3. Len(seqs) = N
    BY ONLY <2>1
  <2>4. QED
    BY Zenon, <2>1, <2>2, <2>3
<1>3. \A i \in 1 .. N : g.edges[i] \in JobEdges
  BY Zenon, <1>2, ElementIs
<1>4. \A i \in 1 .. N : seqs[i] = ExpandEdge(g.edges[i], vs) /\ D[i] = Pairs(g.edges[i], vs)
  BY <1>2
<1>5. \A i \in 1 .. N : seqs[i] \in Seq(ExecutionEdges(vs)) /\ Lists(seqs[i], vs, D[i])
  BY Zenon, <1>3, <1>4, ExpandEdgeLists
<1> HIDE DEF seqs, D, N
<1>6. ASSUME NEW i \in 1 .. N, NEW j \in 1 .. N, i # j
      PROVE  D[i] \cap D[j] = {}
  <2>1. \/ g.edges[i].source # g.edges[j].source
        \/ g.edges[i].target # g.edges[j].target
    BY <1>2, <1>6 DEF Simple
  <2>2. D[i] = Pairs(g.edges[i], vs) /\ D[j] = Pairs(g.edges[j], vs)
    BY <1>4
  <2>3. \A x \in D[i] : x \notin D[j]
    BY <2>1, <2>2 DEF Pairs
  <2>4. QED
    BY <2>3
<1>7. Apart(seqs, ExecutionEdges(vs), vs, D, N)
  BY <1>2, <1>5, <1>6 DEF Apart
<1>8. /\ Concat(seqs) \in Seq(ExecutionEdges(vs))
      /\ Lists(Concat(seqs), vs, AllOf(D, N))
  BY Zenon, <1>2, <1>7, ListsConcat
<1>9. \A d \in AllOf(D, N) : \E i \in DOMAIN g.edges : d \in Pairs(g.edges[i], vs)
  BY <1>2, <1>4 DEF AllOf
<1>10. QED
  BY Zenon, <1>1, <1>8, <1>9

(* The instances of a vertex are numbered. *)
LEMMA ExpandVerticesAre ==
    ASSUME NEW g, g.vertices \in Seq(JobVertices)
    PROVE  ExpandVertices(g) \in Seq(VertexRecords)
<1> DEFINE Of(i) == [k \in 1 .. g.vertices[i].parallelism |->
                      [op |-> g.vertices[i].id, index |-> k - 1]]
           seqs == [i \in DOMAIN g.vertices |-> Of(i)]
           N == Len(g.vertices)
<1>1. ExpandVertices(g) = Concat(seqs)
  BY DEF ExpandVertices
<1>2. N \in Nat /\ DOMAIN g.vertices = 1 .. N /\ Len(seqs) = N
  OBVIOUS
<1>3. \A i \in 1 .. N : g.vertices[i] \in JobVertices
  BY Zenon, <1>2, ElementIs
<1>4. \A i \in 1 .. N : g.vertices[i].id \in Nat /\ g.vertices[i].parallelism \in Nat
  BY <1>3 DEF JobVertices
<1>5. ASSUME NEW i \in 1 .. N
      PROVE  seqs[i] \in Seq(VertexRecords)
  <2>1. g.vertices[i].id \in Nat /\ g.vertices[i].parallelism \in Nat
    BY <1>4
  <2>2. \A k \in 1 .. g.vertices[i].parallelism : k - 1 \in Nat
    BY <2>1
  <2>3. Of(i) \in Seq(VertexRecords)
    <3> DEFINE P == g.vertices[i].parallelism
               x == g.vertices[i].id
    <3>1. P \in Nat /\ x \in Nat /\ \A k \in 1 .. P : k - 1 \in Nat
      BY <2>1, <2>2
    <3>2. Of(i) = [k \in 1 .. P |-> [op |-> x, index |-> k - 1]]
      OBVIOUS
    <3> HIDE DEF P, x
    <3>3. \A k \in 1 .. P : [op |-> x, index |-> k - 1] \in VertexRecords
      BY <3>1 DEF VertexRecords
    <3>4. [k \in 1 .. P |-> [op |-> x, index |-> k - 1]] \in Seq(VertexRecords)
      BY <3>1, <3>3
    <3>5. QED
      BY Zenon, <3>2, <3>4
  <2>4. seqs[i] = Of(i)
    BY <1>2
  <2>5. QED
    BY <2>3, <2>4
<1> HIDE DEF seqs, N
<1>6. PICK f : /\ Concat(seqs) = f[N] /\ f[0] = <<>>
               /\ \A n \in Nat : n + 1 <= N => f[n + 1] = f[n] \o seqs[n + 1]
  BY Zenon, <1>2, ConcatSteps
<1> DEFINE T == {n \in Nat : n <= N => f[n] \in Seq(VertexRecords)}
<1>7. 0 \in T
  <2>1. f[0] \in Seq(VertexRecords)
    BY <1>6
  <2>2. QED
    BY <2>1
<1>8. ASSUME NEW n \in Nat, n \in T
      PROVE  n + 1 \in T
  <2>1. SUFFICES ASSUME n + 1 <= N
                 PROVE  f[n + 1] \in Seq(VertexRecords)
    OBVIOUS
  <2>2. n <= N /\ n + 1 \in 1 .. N
    BY <1>2, <2>1
  <2>3. f[n] \in Seq(VertexRecords) /\ seqs[n + 1] \in Seq(VertexRecords)
    BY <1>5, <1>8, <2>2
  <2>4. f[n + 1] = f[n] \o seqs[n + 1]
    BY Zenon, <1>6, <2>1
  <2>5. QED
    BY Zenon, <2>3, <2>4, ConcatIs
<1> HIDE DEF T
<1>9. N \in T
  BY <1>2, <1>7, <1>8, Induction
<1>10. N <= N
  BY <1>2
<1>11. QED
  BY <1>1, <1>6, <1>9, <1>10 DEF T

(* The edges from p to op, in order, lead to the instances of op. *)
Meets(es, vs, p, op) ==
    LET to == Ascending({m \in DOMAIN es : es[m].source = p /\ vs[es[m].target].op = op}, Len(es))
    IN  [i \in DOMAIN to |-> es[to[i]].target] = InstancesOf(vs, op)

(* In a list, the channels from an instance to an operator lead to all     *)
(* instances of it, in their order.                                        *)
LEMMA ListsMeet ==
    ASSUME NEW vs \in Seq(VertexRecords), NEW es \in Seq(ExecutionEdges(vs)),
           NEW D, Lists(es, vs, D), NEW e \in DOMAIN es
    PROVE  Meets(es, vs, es[e].source, vs[es[e].target].op)
<1> DEFINE p == es[e].source
           op == vs[es[e].target].op
           S == {m \in DOMAIN es : es[m].source = p /\ vs[es[m].target].op = op}
           N == Len(es)
           to == Ascending(S, N)
           a == [i \in DOMAIN to |-> es[to[i]].target]
           b == InstancesOf(vs, op)
<1>1. /\ b \in Seq(Nat) /\ Rising(b)
      /\ \A i \in DOMAIN b : b[i] \in DOMAIN vs /\ vs[b[i]].op = op
      /\ \A q \in DOMAIN vs : vs[q].op = op => \E i \in DOMAIN b : b[i] = q
  <2>1. AreInstances(b, vs, op)
    BY Zenon, InstancesAre
  <2> HIDE DEF b
  <2>2. b \in Seq(DOMAIN vs)
    BY Zenon, <2>1 DEF AreInstances
  <2>3. \A i \in DOMAIN b : b[i] \in DOMAIN vs
    BY Zenon, <2>2, ElementIs
  <2>4. QED
    BY Zenon, <2>1, <2>3 DEF AreInstances
<1>2. N \in Nat /\ S \in SUBSET (1 .. N) /\ DOMAIN vs \subseteq Nat
  OBVIOUS
<1>3. /\ \A m \in S : m \in DOMAIN es /\ es[m].source = p /\ vs[es[m].target].op = op
      /\ \A m \in DOMAIN es : es[m].source = p /\ vs[es[m].target].op = op => m \in S
  OBVIOUS
<1>4. \A m \in DOMAIN es : es[m].target \in DOMAIN vs
  <2>1. \A m \in DOMAIN es : es[m] \in ExecutionEdges(vs)
    BY Zenon, ElementIs
  <2>2. QED
    BY <2>1 DEF ExecutionEdges
<1>5. <<p, op>> \in D
  BY DEF Lists, Within
<1> HIDE DEF S, N, p, op, b
<1>6. /\ to \in Seq(S) /\ Rising(to)
      /\ \A x \in S : \E i \in DOMAIN to : to[i] = x
  BY Zenon, <1>2, AscendingIs
<1> HIDE DEF to
<1>7. \A i \in DOMAIN to : to[i] \in S
  BY Zenon, <1>6, ElementIs
<1>8. DOMAIN a = DOMAIN to /\ \A i \in DOMAIN to : a[i] = es[to[i]].target
  OBVIOUS
<1>9. a \in Seq(Nat)
  <2>1. \A i \in DOMAIN to : es[to[i]].target \in Nat
    BY <1>2, <1>3, <1>4, <1>7
  <2>2. DOMAIN to = 1 .. Len(to) /\ Len(to) \in Nat
    BY <1>6
  <2>3. QED
    BY <2>1, <2>2
<1> HIDE DEF a
<1>10. Rising(a)
  <2>1. SUFFICES ASSUME NEW i \in DOMAIN to, NEW j \in DOMAIN to, i < j
                 PROVE  es[to[i]].target < es[to[j]].target
    BY <1>8 DEF Rising
  <2>2. to[i] < to[j]
    BY <1>6, <2>1 DEF Rising
  <2>3. Parallel(vs, es[to[i]], es[to[j]])
    BY <1>3, <1>7 DEF Parallel
  <2>4. QED
    BY <1>3, <1>7, <2>2, <2>3 DEF Lists, InOrder
<1>11. ASSUME NEW i \in DOMAIN a
       PROVE  \E j \in DOMAIN b : b[j] = a[i]
  <2>1. a[i] \in DOMAIN vs /\ vs[a[i]].op = op
    <3>1. i \in DOMAIN to /\ to[i] \in S
      BY <1>7, <1>8
    <3>2. to[i] \in DOMAIN es /\ vs[es[to[i]].target].op = op
      BY <1>3, <3>1
    <3>3. a[i] = es[to[i]].target
      BY <1>8, <3>1
    <3>4. es[to[i]].target \in DOMAIN vs
      BY <1>4, <3>2
    <3>5. QED
      BY <3>2, <3>3, <3>4
  <2>2. QED
    BY <1>1, <2>1
<1>12. ASSUME NEW j \in DOMAIN b
       PROVE  \E i \in DOMAIN a : a[i] = b[j]
  <2>1. Leads(es, p, b[j])
    <3>1. \A q \in DOMAIN vs : vs[q].op = <<p, op>>[2] => Leads(es, <<p, op>>[1], q)
      BY <1>5 DEF Lists, Covers
    <3>2. QED
      BY <1>1, <3>1
  <2>2. PICK m \in DOMAIN es : es[m].source = p /\ es[m].target = b[j]
    BY <2>1 DEF Leads
  <2>3. m \in S
    BY <1>1, <1>3, <2>2
  <2>4. PICK i \in DOMAIN to : to[i] = m
    BY <1>6, <2>3
  <2>5. QED
    BY <1>8, <2>2, <2>4
<1>13. a = b
  BY Zenon, <1>1, <1>9, <1>10, <1>11, <1>12, SameRising
<1>14. QED
  BY Zenon, <1>13 DEF a, b, to, S, N, p, op, Meets

------------------------------------------------------------------------------
(* A job graph: no two of its edges have the same ends, and none leads     *)
(* back.                                                                   *)
IsGraph(g) ==
    /\ g.vertices \in Seq(JobVertices) /\ g.edges \in Seq(JobEdges)
    /\ Simple(g)
    /\ \A i, j \in DOMAIN g.edges :
         ~(g.edges[i].source = g.edges[j].target /\ g.edges[i].target = g.edges[j].source)

(* The submission of a job graph, to a cluster in any state. *)
GraphSubmit ==
    \E g, alive, res, amounts :
      LET vs == ExpandVertices(g)
      IN  /\ IsGraph(g)
          /\ alive \in Seq(Nodes) /\ res \in [Nodes -> Amounts]
          /\ amounts \in [OpsOf(vs) -> Amounts]
          /\ SubmitJob(alive, res, vs, ExpandEdges(g, vs), amounts)

GraphSpec == PlanInit /\ [][GraphSubmit \/ PlanNext]_planVars

(* The execution graph of a job graph is of its type, lists what it        *)
(* connects, and has no two operators that send to each other.             *)
LEMMA GraphExpands ==
    ASSUME NEW g, IsGraph(g)
    PROVE  LET vs == ExpandVertices(g)
               es == ExpandEdges(g, vs)
           IN  /\ vs \in Seq(VertexRecords) /\ es \in Seq(ExecutionEdges(vs))
               /\ \E D : Lists(es, vs, D)
               /\ OneWay(vs, es)
<1> DEFINE vs == ExpandVertices(g)
           es == ExpandEdges(g, vs)
<1>1. vs \in Seq(VertexRecords)
  BY ExpandVerticesAre DEF IsGraph
<1> HIDE DEF vs
<1>2. /\ es \in Seq(ExecutionEdges(vs))
      /\ \E D : /\ Lists(es, vs, D)
                /\ \A d \in D : \E i \in DOMAIN g.edges : d \in Pairs(g.edges[i], vs)
  BY Zenon, <1>1, ExpandEdgesLists DEF IsGraph
<1> HIDE DEF es
<1>3. PICK D : /\ Lists(es, vs, D)
               /\ \A d \in D : \E i \in DOMAIN g.edges : d \in Pairs(g.edges[i], vs)
  BY <1>2
<1>4. ASSUME NEW m \in DOMAIN es
      PROVE  \E i \in DOMAIN g.edges : /\ vs[es[m].source].op = g.edges[i].source
                                       /\ vs[es[m].target].op = g.edges[i].target
  <2>1. <<es[m].source, vs[es[m].target].op>> \in D
    BY <1>3 DEF Lists, Within
  <2>2. PICK i \in DOMAIN g.edges : <<es[m].source, vs[es[m].target].op>> \in Pairs(g.edges[i], vs)
    BY <1>3, <2>1
  <2>3. QED
    BY <2>2 DEF Pairs
<1>5. OneWay(vs, es)
  <2>1. SUFFICES ASSUME NEW e \in DOMAIN es, NEW f \in DOMAIN es,
                        vs[es[e].source].op = vs[es[f].target].op,
                        vs[es[e].target].op = vs[es[f].source].op
                 PROVE  FALSE
    BY DEF OneWay
  <2>2. PICK i \in DOMAIN g.edges : /\ vs[es[e].source].op = g.edges[i].source
                                    /\ vs[es[e].target].op = g.edges[i].target
    BY <1>4
  <2>3. PICK j \in DOMAIN g.edges : /\ vs[es[f].source].op = g.edges[j].source
                                    /\ vs[es[f].target].op = g.edges[j].target
    BY <1>4
  <2>4. QED
    BY Zenon, <2>1, <2>2, <2>3 DEF IsGraph
<1>6. QED
  BY <1>1, <1>2, <1>3, <1>5 DEF vs, es

(* What the theorems above say of jobs they say of job graphs: planning    *)
(* the execution graph of a job graph is planning a job.                   *)
THEOREM GraphsAreJobs == GraphSpec => PlanSpec
<1>1. GraphSubmit => AnySubmit
  <2>1. SUFFICES ASSUME GraphSubmit
                 PROVE  AnySubmit
    OBVIOUS
  <2>2. PICK g, alive, res, amounts :
          /\ IsGraph(g)
          /\ alive \in Seq(Nodes) /\ res \in [Nodes -> Amounts]
          /\ amounts \in [OpsOf(ExpandVertices(g)) -> Amounts]
          /\ SubmitJob(alive, res, ExpandVertices(g), ExpandEdges(g, ExpandVertices(g)), amounts)
    BY <2>1 DEF GraphSubmit
  <2> DEFINE vs == ExpandVertices(g)
             es == ExpandEdges(g, vs)
  <2>3. vs \in Seq(VertexRecords) /\ es \in Seq(ExecutionEdges(vs)) /\ OneWay(vs, es)
    BY <2>2, GraphExpands
  <2>4. amounts \in [OpsOf(vs) -> Amounts] /\ SubmitJob(alive, res, vs, es, amounts)
    BY <2>2
  <2> HIDE DEF vs, es
  <2>5. IsJob(alive, res, vs, es, amounts)
    BY <2>2, <2>3, <2>4 DEF IsJob, ExecutionEdges
  <2>6. QED
    BY <2>4, <2>5 DEF AnySubmit
<1>2. [GraphSubmit \/ PlanNext]_planVars => [AnySubmit \/ PlanNext]_planVars
  BY <1>1
<1>3. QED
  BY <1>2, PTL DEF GraphSpec, PlanSpec

(* After submit_job the execution graph lists what it connects. *)
ListedInv ==
    phase # "idle" =>
      /\ execution_vertices \in Seq(VertexRecords)
      /\ execution_edges \in Seq(ExecutionEdges(execution_vertices))
      /\ \E D : Lists(execution_edges, execution_vertices, D)

(* The execution graph of a job graph lists what it connects in order. *)
THEOREM GraphListed == GraphSpec => []ListedInv
<1>1. PlanInit => ListedInv
  BY DEF PlanInit, ListedInv
<1>2. ListedInv /\ [GraphSubmit \/ PlanNext]_planVars => ListedInv'
  <2> SUFFICES ASSUME ListedInv, [GraphSubmit \/ PlanNext]_planVars
               PROVE  ListedInv'
    OBVIOUS
  <2>1. CASE GraphSubmit
    <3>1. PICK g, alive, res, amounts :
            /\ IsGraph(g)
            /\ SubmitJob(alive, res, ExpandVertices(g), ExpandEdges(g, ExpandVertices(g)), amounts)
      BY <2>1 DEF GraphSubmit
    <3> DEFINE vs == ExpandVertices(g)
               es == ExpandEdges(g, vs)
    <3>2. execution_vertices' = vs /\ execution_edges' = es
      BY <3>1 DEF SubmitJob
    <3>3. vs \in Seq(VertexRecords) /\ es \in Seq(ExecutionEdges(vs)) /\ \E D : Lists(es, vs, D)
      BY <3>1, GraphExpands
    <3> HIDE DEF vs
    <3> HIDE DEF es
    <3>4. QED
      BY <3>2, <3>3 DEF ListedInv
  <2>2. CASE PlanNext
    <3>1. phase # "idle" /\ UNCHANGED <<execution_vertices, execution_edges>>
      <4>1. CASE \E q \in Vertices : Assign(q) \/ AssignFails(q)
        BY <4>1 DEF Assign, AssignFails, jobVars
      <4>2. CASE CreateWorkers
        BY <4>2 DEF CreateWorkers, jobVars
      <4>3. CASE \E e \in Edges : ConnectLocal(e) \/ ConnectRemote(e) \/ ConnectFails(e)
        BY Zenon, <4>3 DEF ConnectLocal, ConnectRemote, ConnectFails, jobVars
      <4>4. CASE InitWorkers
        BY <4>4 DEF InitWorkers, jobVars
      <4>5. QED
        BY <2>2, <4>1, <4>2, <4>3, <4>4 DEF PlanNext
    <3>2. QED
      BY <3>1 DEF ListedInv
  <2>3. CASE UNCHANGED planVars
    <3>1. UNCHANGED <<phase, execution_vertices, execution_edges>>
      BY <2>3 DEF planVars, jobVars
    <3>2. QED
      BY <3>1 DEF ListedInv
  <2>4. QED
    BY <2>1, <2>2, <2>3
<1>3. QED
  BY <1>1, <1>2, PTL DEF GraphSpec

(* Records with one key meet, whatever the job graph and the cluster. *)
THEOREM KeysAlwaysMeet == GraphSpec => []KeysMeet
<1>1. ListedInv => KeysMeet
  <2>1. SUFFICES ASSUME ListedInv, phase = "ready", NEW p \in Vertices, NEW e \in Outputs(p)
                 PROVE  LET op == Op(execution_edges[e].target)
                            to == ChannelsTo(p, op)
                        IN  [i \in DOMAIN to |-> execution_edges[to[i]].target]
                              = InstancesOf(execution_vertices, op)
    BY Zenon DEF KeysMeet
  <2>2. PICK D : /\ execution_vertices \in Seq(VertexRecords)
                 /\ execution_edges \in Seq(ExecutionEdges(execution_vertices))
                 /\ Lists(execution_edges, execution_vertices, D)
    BY <2>1 DEF ListedInv
  <2> DEFINE op == execution_vertices[execution_edges[e].target].op
             S == {m \in DOMAIN execution_edges :
                     /\ execution_edges[m].source = p
                     /\ execution_vertices[execution_edges[m].target].op = op}
             to == Ascending(S, Len(execution_edges))
  <2>3. e \in DOMAIN execution_edges /\ execution_edges[e].source = p
    BY <2>1 DEF Outputs, Edges
  <2>4. [i \in DOMAIN to |-> execution_edges[to[i]].target] = InstancesOf(execution_vertices, op)
    <3>1. Meets(execution_edges, execution_vertices, execution_edges[e].source, op)
      BY Zenon, <2>2, <2>3, ListsMeet
    <3>2. Meets(execution_edges, execution_vertices, p, op)
      BY <2>3, <3>1
    <3>3. QED
      BY Zenon, <3>2 DEF Meets
  <2>5. op = Op(execution_edges[e].target)
    BY DEF Op
  <2>6. {f \in Outputs(p) : Op(execution_edges[f].target) = op} = S
    BY DEF Outputs, Edges, Op
  <2>7. ChannelsTo(p, op) = to
    BY Zenon, <2>6 DEF ChannelsTo
  <2> HIDE DEF op, to
  <2>8. QED
    BY <2>4, <2>5, <2>7
<1>2. QED
  BY <1>1, GraphListed, PTL

==============================================================================
