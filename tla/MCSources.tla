----------------------------- MODULE MCSources -------------------------------
(* A collection source of parallelism 2. *)
EXTENDS Sources

CONSTANTS l1, l2

MCTwoListTasks == <<l1, l2>>

==============================================================================
