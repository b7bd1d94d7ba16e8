---------------------------- MODULE MCStreamTask -----------------------------
(* An instance of StreamTask: one operator feeds a broadcast and, after    *)
(* it, a round-robin edge.                                                 *)
EXTENDS StreamTask

CONSTANTS c1, c2, c3, c4

MCCollectors ==
    << [channels |-> <<c1, c2>>, partition |-> "broadcast"],
       [channels |-> <<c3, c4>>, partition |-> "round_robin"] >>

MCKeyHash == [r \in 1 .. NumRecords |-> r]

==============================================================================
