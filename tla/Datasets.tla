------------------------------- MODULE Datasets ------------------------------
(***************************************************************************)
(* The dataset API (api/dataset, client.py): the nodes that a pipeline     *)
(* function declares, the schemas they derive, and the streams that a      *)
(* client makes of them.                                                   *)
(*                                                                         *)
(* A node is [op, parents, arg, schema]; its schema is None when schema()  *)
(* raises.  A schema is [keys, values, timestamp], without types.          *)
(***************************************************************************)
EXTENDS StreamOperators

CONSTANTS
    Datasets,       \* sequence of [fields: sequence of [name, key, datetime, timestamp],
                    \* tags: tags of its connectors]
    SourceTags,     \* source_tags of the client: function from positions in Datasets
    Aggregates      \* sequence of [name, agg_type, on, length]

------------------------------------------------------------------------------
(* Dataset.__init__.  The timestamp is the field declared to be one, else  *)
(* the one of type datetime; anything but one of them raises.              *)
Timestamps(fields) ==
    LET declared == {i \in DOMAIN fields : fields[i].timestamp}
    IN  {fields[i].name : i \in IF declared # {} THEN declared
                                ELSE {i \in DOMAIN fields : fields[i].datetime}}

ASSUME DatasetsAssumption ==
    \A d \in DOMAIN Datasets :
      LET fields == Datasets[d].fields
      IN  /\ Cardinality(Timestamps(fields)) = 1
          /\ \A i, j \in DOMAIN fields : fields[i].name = fields[j].name => i = j

dataset_schema(d) ==
    LET fields == Datasets[d].fields
        timestamp == CHOOSE f \in Timestamps(fields) : TRUE
        keys == {fields[i].name : i \in {j \in DOMAIN fields : fields[j].key}}
    IN  [keys |-> keys, timestamp |-> timestamp,
         values |-> {fields[i].name : i \in DOMAIN fields} \ (keys \cup {timestamp})]

SchemaFields(s) == s.keys \cup s.values \cup {s.timestamp}

(* Join._joined_schema: fields of the same name are prefixed, apart from   *)
(* the key of the join and the timestamp of the left side.  Here left_on   *)
(* stands for on too.                                                      *)
joined_schema(ls, rs, left_on) ==
    LET same == SchemaFields(ls) \cap SchemaFields(rs)
        Renamed(prefix, s) == {IF f \in same THEN <<prefix>> \o f ELSE f :
                                 f \in SchemaFields(s) \ {ls.timestamp, left_on}}
        lv == Renamed("left", ls)
        rv == Renamed("right", rs)
    IN  IF left_on \notin ls.keys \/ lv \cap rv # {} THEN None
        ELSE [keys |-> {left_on}, values |-> lv \cup rv, timestamp |-> ls.timestamp]

------------------------------------------------------------------------------
(* The nodes a pipeline function may add. *)

Node(op, parents, arg, schema) == [op |-> op, parents |-> parents, arg |-> arg, schema |-> schema]

DatasetNodes == [d \in DOMAIN Datasets |-> Node("dataset", <<>>, d, dataset_schema(d))]

IsOperatorNode(node) == node.op # "group_by"

(* transform, filter; and assign, rename, drop, dropnull, which have no    *)
(* schema and raise at the first event.                                    *)
Transform(nodes, p) == Node("transform", <<p>>, None, nodes[p].schema)
FilterNode(nodes, p) == Node("filter", <<p>>, None, nodes[p].schema)
Unfinished(nodes, p) == Node("unfinished", <<p>>, None, None)

GroupBy(nodes, p, key) == Node("group_by", <<p>>, key, nodes[p].schema)

Aggregate(nodes, p) == Node("aggregate", <<p>>, Aggregates, None)

(* Join.__init__ asks both sides for their schemas. *)
CanJoin(nodes, l, r) == nodes[l].schema # None /\ nodes[r].schema # None

JoinNode(nodes, l, r, left_on, right_on) ==
    LET ls == nodes[l].schema
        rs == nodes[r].schema
    IN  Node("join", <<l, r>>,
             [left_on |-> left_on, right_on |-> right_on,
              same_fields |-> SetToSeq(SchemaFields(ls) \cap SchemaFields(rs))],
             joined_schema(ls, rs, left_on))

------------------------------------------------------------------------------
(* Client._init_stream_graph: depth first, parents before their child.     *)
(* build is [streams, of: stream of each node, inited: datasets with a     *)
(* stream, raised].                                                        *)

Stream(kind, inputs, arg) == [kind |-> kind, inputs |-> inputs, arg |-> arg]

AddStream(build, n, stream) ==
    [build EXCEPT !.streams = Append(@, stream), !.of = n :> Len(build.streams) + 1 @@ @]

(* Seeded fault: a dataset that has a stream already gets another one. *)
init_source_again(build, nodes, n) ==
    LET d == nodes[n].arg
    IN  [AddStream(build, n, Stream("source", <<>>, d)) EXCEPT !.inited = @ \cup {d}]

(* Dataset.init_stream. *)
init_source(build, nodes, n) ==
    LET d == nodes[n].arg
        tags == Datasets[d].tags
        tagged == IF d \in DOMAIN SourceTags THEN SourceTags[d] \in tags ELSE Cardinality(tags) = 1
    IN  IF tags = {} \/ d \in build.inited \/ ~tagged THEN [build EXCEPT !.raised = TRUE]
        ELSE [AddStream(build, n, Stream("source", <<>>, d)) EXCEPT !.inited = @ \cup {d}]

(* init_stream of the operators. *)
init_stream(build, nodes, n, output_schema) ==
    LET node == nodes[n]
        first == build.of[node.parents[1]]
        at == Len(build.streams)
    IN  CASE node.op = "transform" -> AddStream(build, n, Stream("map", <<first>>, None))
          [] node.op = "filter" -> AddStream(build, n, Stream("filter", <<first>>, None))
          [] node.op = "unfinished" -> AddStream(build, n, Stream("unfinished", <<first>>, None))
          [] node.op = "group_by" -> AddStream(build, n, Stream("key_by", <<first>>, node.arg))
          [] node.op = "aggregate" ->
               AddStream(build, n, Stream("window", <<first>>, [configs |-> node.arg,
                                                                schema |-> output_schema]))
          [] node.op = "join" ->
               LET left == AddStream(build, n, Stream("key_by", <<first>>, node.arg.left_on))
                   right == AddStream(left, n, Stream("key_by", <<build.of[node.parents[2]]>>,
                                                      node.arg.right_on))
               IN  AddStream(right, n, Stream("join", <<at + 1, at + 2>>, node.arg.same_fields))

RECURSIVE _init_stream_graph(_, _, _, _)
_init_stream_graph(build, nodes, n, output_schema) ==
    LET ready == FoldLeft(LAMBDA b, p : _init_stream_graph(b, nodes, p, output_schema),
                          build, nodes[n].parents)
    IN  IF ready.raised THEN ready
        ELSE IF nodes[n].op = "dataset" THEN init_source(ready, nodes, n)
        ELSE init_stream(ready, nodes, n, output_schema)

(* Client._build_stream. *)
_build_stream(nodes, n, output_schema, inited) ==
    _init_stream_graph([streams |-> <<>>, of |-> <<>>, inited |-> inited, raised |-> FALSE],
                       nodes, n, output_schema)

==============================================================================
