--------------------------- MODULE MCJobLifecycle ----------------------------
(* A split and a collection source of parallelism 2, each chained with its *)
(* sink, so that all workers are those of sources and no channel is        *)
(* dialled.                                                                *)
EXTENDS JobLifecycle

CONSTANTS l1, l2

MCListTasks == <<l1, l2>>

MCDials == [a \in Actors |-> {}]

==============================================================================
