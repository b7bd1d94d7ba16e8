------------------------------ MODULE MCJobPlan ------------------------------
(* Programs with up to six streams, on a cluster of a few nodes, one of    *)
(* them dead and one without MEM, and on one with a node per vertex.       *)
EXTENDS JobPlan, TLC

CONSTANTS n1, n2, n3, n4, n5

MCMaxOf == [source |-> 2, process |-> 1, key_by |-> 2, join |-> 1, sink |-> 2]

Node(id, alive, cpu, mem) ==
    [id |-> id, alive |-> alive, resources |-> [CPU |-> cpu, MEM |-> mem]]

MCClusters ==
    {<<Node(n1, TRUE, 3, None), Node(n2, FALSE, 4, 2), Node(n3, TRUE, 4, 2),
       Node(n4, TRUE, 2, 1), Node(n5, TRUE, 2, 0)>>,
     <<Node(n1, TRUE, 1, 0), Node(n2, TRUE, 1, 0), Node(n3, TRUE, 1, 0),
       Node(n4, TRUE, 1, 0), Node(n5, TRUE, 1, 0)>>}

MCDefault == [CPU |-> 1]

(* The first stream, when it is a source that is not chained. *)
MCProposed == <<1, "SOURCE", FALSE>> :> [CPU |-> 2, MEM |-> 1]

==============================================================================
