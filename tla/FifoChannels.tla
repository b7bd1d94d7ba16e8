---------------------------- MODULE FifoChannels -----------------------------
(***************************************************************************)
(* What the transport promises to the operators above it: every channel is *)
(* a bounded first-in first-out queue.  Payloads come out in the order in  *)
(* which they were accepted, each exactly once, and a writer is refused    *)
(* while Capacity accepted payloads of its channel are unread.             *)
(***************************************************************************)
EXTENDS Naturals, Sequences

CONSTANTS Channels, Capacity

VARIABLES
    sent,       \* [channel -> sequence of payloads accepted by write_bytes]
    received    \* [channel -> sequence of payloads returned by read_bytes]

fifoVars == <<sent, received>>

Init ==
    /\ sent = [c \in Channels |-> << >>]
    /\ received = [c \in Channels |-> << >>]

(* The payload of a write is the number of writes before it. *)
Put(c) ==
    /\ Len(sent[c]) - Len(received[c]) < Capacity
    /\ sent' = [sent EXCEPT ![c] = Append(@, Len(@))]
    /\ UNCHANGED received

Get(c) ==
    /\ Len(received[c]) < Len(sent[c])
    /\ received' = [received EXCEPT ![c] = Append(@, sent[c][Len(@) + 1])]
    /\ UNCHANGED sent

Next == \E c \in Channels : Put(c) \/ Get(c)

Spec == Init /\ [][Next]_fifoVars

FairSpec == Spec /\ \A c \in Channels : WF_fifoVars(Get(c))

==============================================================================
