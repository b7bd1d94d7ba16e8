-------------------------- MODULE MCRemoteTransfer ---------------------------
(* RemoteTransfer for TLC: a writer node that sends two channels to one    *)
(* node.                                                                   *)
EXTENDS RemoteTransfer

CONSTANTS c1, c2, n1, n2

MCChannels == {c1, c2}
MCNodes == {n1, n2}
MCSourceNode == [c \in MCChannels |-> n1]
MCTargetNode == [c \in MCChannels |-> n2]
MCNumBuffers == [c \in MCChannels |-> IF c = c1 THEN 3 ELSE 2]

==============================================================================
