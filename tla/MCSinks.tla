------------------------------- MODULE MCSinks -------------------------------
(* Four records of three keys, two of them out of order.                   *)
EXTENDS CacheQueries

CONSTANTS src, snk

Record(a, b, ts) == [keys |-> [a |-> a, b |-> b], ts |-> ts]
MCRecords == <<Record(1, 1, 2), Record(1, 1, 1), Record(1, 2, 1), Record(1, 1, 2)>>

Instance(k, n, s, behind) == [kind |-> k, records |-> n, seconds |-> s, skew |-> behind]
MCInstances == {Instance("bulk", 3, 0, 0), Instance("list", 2, 0, 0), Instance("dict", 2, 0, 0),
                Instance("single", 4, 0, 0), Instance("simple", 3, 2, 0),
                Instance("simple", 2, 1, 1)}

MCRegistered == <<src, snk>>

==============================================================================
