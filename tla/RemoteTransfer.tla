--------------------------- MODULE RemoteTransfer ----------------------------
(***************************************************************************)
(* The remote path of a channel (remote_transfer_handler.rs).  Buffers of  *)
(* a DataWriter reach the transfer sender of its node over a local socket, *)
(* share one remote socket with every other channel to the same peer node, *)
(* and leave the transfer receiver of that node over a local socket to the *)
(* DataReader; acks take the same way back.                                *)
(*                                                                         *)
(* Both directions have the same four stages, so the state is indexed by   *)
(* the side ("sender" or "receiver") whose handler holds it:               *)
(*                                                                         *)
(*   client -> local_recv[side] -> remote_send[side]                       *)
(*          -> remote_recv[other] -> held[other] -> local_send[other]      *)
(*          -> client                                                      *)
(*                                                                         *)
(* A socket between two stages only adds room to them and is not modelled  *)
(* as a stage.  A message is its channel and its number on that channel.   *)
(* The clients are a DataWriter that has at most MaxBuffers unacknowledged *)
(* buffers under way and a DataReader that acknowledges in order.          *)
(***************************************************************************)
EXTENDS Integers, Sequences, FiniteSets

CONSTANTS
    Channels,
    Nodes,
    SourceNode,         \* [channel -> node of its writer]
    TargetNode,         \* [channel -> node of its reader]
    TransferQueueSize,  \* transfer_queue_size
    MaxBuffers,         \* max_buffers_per_channel of the writers
    NumBuffers,         \* bound: [channel -> buffers its writer sends]
    Stopped,            \* channels whose application has stopped reading
    None                \* no message

(* Two nodes do not both send to each other: the sockets of a node are     *)
(* created once per peer (sockets.rs), for the sender or for the receiver. *)
ASSUME TopologyAssumption ==
    /\ SourceNode \in [Channels -> Nodes]
    /\ TargetNode \in [Channels -> Nodes]
    /\ \A c, d \in Channels : ~ /\ SourceNode[c] = TargetNode[d]
                                /\ TargetNode[c] = SourceNode[d]

ASSUME SizesAssumption ==
    /\ TransferQueueSize \in Nat \ {0}
    /\ MaxBuffers \in Nat \ {0}
    /\ NumBuffers \in [Channels -> Nat]
    /\ Stopped \subseteq Channels

Sides == {"sender", "receiver"}
Other(side) == IF side = "sender" THEN "receiver" ELSE "sender"

(* The pairs of nodes joined by a remote socket, the route of a channel,   *)
(* and the handler at one side of a route.                                 *)
Route(c) == <<SourceNode[c], TargetNode[c]>>
Routes == {Route(c) : c \in Channels}
Handler(side, r) == <<side, IF side = "sender" THEN r[1] ELSE r[2]>>
Handlers == {Handler(side, r) : side \in Sides, r \in Routes}

Message == [channel : Channels, n : Nat]

ASSUME NoneAssumption == None \notin Message

VARIABLES
    local_recv,     \* [side -> [channel -> messages from the client]]
    remote_send,    \* [side -> [route -> messages for the peer]]
    remote_recv,    \* [side -> [route -> messages from the peer]]
    local_send,     \* [side -> [channel -> messages for the client]]
    held,           \* [handler -> message its input loop is blocked on]
    status,         \* [handler -> "created", "running", "closing", "closed"]
    alive,          \* threads <<handler, "in" or "out">> that are running
    given,          \* [side -> [channel -> messages the client handed over]]
    taken           \* [side -> [channel -> numbers the client received]]

queues == <<local_recv, remote_send, remote_recv, local_send, held>>
lifecycle == <<status, alive>>
clients == <<given, taken>>
vars == <<queues, lifecycle, clients>>

PerChannel(x) == [side \in Sides |-> [c \in Channels |-> x]]
PerRoute(x) == [side \in Sides |-> [r \in Routes |-> x]]

Init ==
    /\ local_recv = PerChannel(<< >>)
    /\ local_send = PerChannel(<< >>)
    /\ remote_send = PerRoute(<< >>)
    /\ remote_recv = PerRoute(<< >>)
    /\ held = [h \in Handlers |-> None]
    /\ status = [h \in Handlers |-> "created"]
    /\ alive = {}
    /\ given = PerChannel(0)
    /\ taken = PerChannel(<< >>)

HasRoom(chan) == Len(chan) < TransferQueueSize

------------------------------------------------------------------------------
(* Life of a handler. *)

Start(h) ==
    /\ status[h] = "created"
    /\ status' = [status EXCEPT ![h] = "running"]
    /\ alive' = alive \cup {<<h, "in">>, <<h, "out">>}
    /\ UNCHANGED <<queues, clients>>

(* close: running is cleared. *)
Close(h) ==
    /\ status[h] = "running"
    /\ status' = [status EXCEPT ![h] = "closing"]
    /\ UNCHANGED <<queues, alive, clients>>

(* Seeded fault: the input loop does not look at the flag. *)
ThreadExitOutOnly(h, t) ==
    /\ status[h] = "closing"
    /\ <<h, t>> \in alive
    /\ t = "out"
    /\ alive' = alive \ {<<h, t>>}
    /\ UNCHANGED <<queues, status, clients>>

(* A thread notices at the head of its loop, where the input loop holds no *)
(* message.                                                                *)
ThreadExit(h, t) ==
    /\ status[h] = "closing"
    /\ <<h, t>> \in alive
    /\ t = "in" => held[h] = None
    /\ alive' = alive \ {<<h, t>>}
    /\ UNCHANGED <<queues, status, clients>>

(* close has joined both threads and returns. *)
Joined(h) ==
    /\ status[h] = "closing"
    /\ alive \cap {<<h, "in">>, <<h, "out">>} = {}
    /\ status' = [status EXCEPT ![h] = "closed"]
    /\ UNCHANGED <<queues, alive, clients>>

------------------------------------------------------------------------------
(* Threads of a handler. *)

(* The body of output_loop for one channel. *)
OutputLoop(side, c) ==
    LET r == Route(c)
    IN  /\ <<Handler(side, r), "out">> \in alive
        /\ HasRoom(remote_send[side][r])
        /\ local_recv[side][c] # << >>
        /\ remote_send' = [remote_send EXCEPT
                             ![side][r] = Append(@, Head(local_recv[side][c]))]
        /\ local_recv' = [local_recv EXCEPT ![side][c] = Tail(@)]
        /\ UNCHANGED <<remote_recv, local_send, held, lifecycle, clients>>

(* The body of input_loop for one peer, up to the blocking send. *)
InputLoop(side, r) ==
    LET h == Handler(side, r)
    IN  /\ <<h, "in">> \in alive
        /\ held[h] = None
        /\ remote_recv[side][r] # << >>
        /\ held' = [held EXCEPT ![h] = Head(remote_recv[side][r])]
        /\ remote_recv' = [remote_recv EXCEPT ![side][r] = Tail(@)]
        /\ UNCHANGED <<local_recv, remote_send, local_send, lifecycle, clients>>

(* Seeded fault: instead of blocking, a message whose channel is full goes *)
(* back to the end of the queue it came from.                              *)
InputLoopSendRequeue(h) ==
    /\ held[h] # None
    /\ held' = [held EXCEPT ![h] = None]
    /\ LET c == held[h].channel
       IN  IF HasRoom(local_send[h[1]][c])
           THEN /\ local_send' = [local_send EXCEPT ![h[1]][c] = Append(@, held[h])]
                /\ UNCHANGED remote_recv
           ELSE /\ remote_recv' = [remote_recv EXCEPT
                                     ![h[1]][Route(c)] = Append(@, held[h])]
                /\ UNCHANGED local_send
    /\ UNCHANGED <<local_recv, remote_send, lifecycle, clients>>

(* Seeded fault: a try_send whose failure is ignored. *)
InputLoopSendDrops(h) ==
    /\ held[h] # None
    /\ LET c == held[h].channel
       IN  local_send' = [local_send EXCEPT ![h[1]][c] =
                            IF HasRoom(@) THEN Append(@, held[h]) ELSE @]
    /\ held' = [held EXCEPT ![h] = None]
    /\ UNCHANGED <<local_recv, remote_send, remote_recv, lifecycle, clients>>

(* The blocking send of input_loop completes. *)
InputLoopSend(h) ==
    /\ held[h] # None
    /\ LET c == held[h].channel
       IN  /\ HasRoom(local_send[h[1]][c])
           /\ local_send' = [local_send EXCEPT ![h[1]][c] = Append(@, held[h])]
    /\ held' = [held EXCEPT ![h] = None]
    /\ UNCHANGED <<local_recv, remote_send, remote_recv, lifecycle, clients>>

------------------------------------------------------------------------------
(* IO threads, which a node runs only after it has started its handlers    *)
(* (connect_and_start).  A message is read from a socket only if there is  *)
(* room for it in the handler's channel.                                   *)

Polled(side, r) == status[Handler(side, r)] # "created"

RemoteSocket(side, r) ==
    /\ Polled(Other(side), r)
    /\ remote_send[side][r] # << >>
    /\ HasRoom(remote_recv[Other(side)][r])
    /\ remote_recv' = [remote_recv EXCEPT
                         ![Other(side)][r] = Append(@, Head(remote_send[side][r]))]
    /\ remote_send' = [remote_send EXCEPT ![side][r] = Tail(@)]
    /\ UNCHANGED <<local_recv, local_send, held, lifecycle, clients>>

(* What the client at one side may hand over next: the writer's next       *)
(* buffer within its window, or the reader's ack of a buffer it has read.  *)
MayGive(side, c) ==
    IF side = "sender"
    THEN /\ given[side][c] < NumBuffers[c]
         /\ given[side][c] - Len(taken[side][c]) < MaxBuffers
    ELSE /\ c \notin Stopped
         /\ given[side][c] < Len(taken[side][c])

ClientGives(side, c) ==
    /\ MayGive(side, c)
    /\ Polled(side, Route(c))
    /\ HasRoom(local_recv[side][c])
    /\ local_recv' = [local_recv EXCEPT
                        ![side][c] = Append(@, [channel |-> c, n |-> given[side][c]])]
    /\ given' = [given EXCEPT ![side][c] = @ + 1]
    /\ UNCHANGED <<remote_send, remote_recv, local_send, held, lifecycle, taken>>

(* Seeded fault: the reader's receive channel holds one unread buffer only. *)
ClientTakesBounded(side, c) ==
    /\ local_send[side][c] # << >>
    /\ side = "receiver" => Len(taken[side][c]) <= given[side][c]
    /\ taken' = [taken EXCEPT ![side][c] = Append(@, Head(local_send[side][c]).n)]
    /\ local_send' = [local_send EXCEPT ![side][c] = Tail(@)]
    /\ UNCHANGED <<local_recv, remote_send, remote_recv, held, lifecycle, given>>

(* The reader's receive channel is unbounded; the writer's holds all the   *)
(* acks that its window allows.                                            *)
ClientTakes(side, c) ==
    /\ local_send[side][c] # << >>
    /\ taken' = [taken EXCEPT ![side][c] = Append(@, Head(local_send[side][c]).n)]
    /\ local_send' = [local_send EXCEPT ![side][c] = Tail(@)]
    /\ UNCHANGED <<local_recv, remote_send, remote_recv, held, lifecycle, given>>

------------------------------------------------------------------------------
Next ==
    \/ \E h \in Handlers :
         \/ Start(h) \/ Close(h) \/ Joined(h) \/ InputLoopSend(h)
         \/ \E t \in {"in", "out"} : ThreadExit(h, t)
    \/ \E side \in Sides :
         \/ \E c \in Channels : \/ OutputLoop(side, c)
                                \/ ClientGives(side, c) \/ ClientTakes(side, c)
         \/ \E r \in Routes : InputLoop(side, r) \/ RemoteSocket(side, r)

Spec == Init /\ [][Next]_vars

(* The threads: the two of a handler, and the IO threads, which poll every *)
(* socket in every round.                                                  *)
OutThread(h) ==
    \/ ThreadExit(h, "out")
    \/ \E c \in Channels : h = Handler(h[1], Route(c)) /\ OutputLoop(h[1], c)
InThread(h) ==
    \/ ThreadExit(h, "in") \/ InputLoopSend(h)
    \/ \E r \in Routes : h = Handler(h[1], r) /\ InputLoop(h[1], r)
IOThreads ==
    \E side \in Sides : \/ \E r \in Routes : RemoteSocket(side, r)
                         \/ \E c \in Channels : ClientTakes(side, c)

(* Handlers are started before their IO loop, threads keep running, and    *)
(* readers that have not stopped acknowledge what they read.  Nothing      *)
(* forces a writer to write nor a handler to be closed.                    *)
Fairness ==
    /\ \A h \in Handlers : /\ WF_vars(Start(h)) /\ WF_vars(Joined(h))
                          /\ WF_vars(InThread(h)) /\ WF_vars(OutThread(h))
    /\ WF_vars(IOThreads)
    /\ WF_vars(\E c \in Channels : ClientGives("receiver", c))

FairSpec == Spec /\ Fairness

------------------------------------------------------------------------------
(* The messages of channel c in a sequence of messages of several. *)
Of(c, chan) == Cardinality({i \in DOMAIN chan : chan[i].channel = c})

(* Messages of channel c under way from one side to the other. *)
UnderWay(side, c) ==
    LET r == Route(c)
        blocked == held[Handler(Other(side), r)]
    IN    Len(local_recv[side][c]) + Of(c, remote_send[side][r])
        + Of(c, remote_recv[Other(side)][r]) + Len(local_send[Other(side)][c])
        + IF blocked # None /\ blocked.channel = c THEN 1 ELSE 0

(* No message is dropped or copied on the shared path: what a client has   *)
(* handed over and the other has not received is in one of the queues of   *)
(* the two handlers, or is the message an input loop is blocked on, also   *)
(* while a handler is being closed and after it was.                       *)
Conserved ==
    \A side \in Sides, c \in Channels :
        given[side][c] = Len(taken[Other(side)][c]) + UnderWay(side, c)

Numbers(n) == [i \in 1 .. n |-> i - 1]

Data == INSTANCE FifoChannels WITH
            Capacity <- MaxBuffers,
            sent <- [c \in Channels |-> Numbers(given["sender"][c])],
            received <- taken["receiver"]
Acks == INSTANCE FifoChannels WITH
            Capacity <- MaxBuffers,
            sent <- [c \in Channels |-> Numbers(given["receiver"][c])],
            received <- taken["sender"]

(* Although channels share queues, sockets and threads, each sees a        *)
(* bounded first-in first-out link in both directions: the link a          *)
(* DataWriter and a DataReader are connected by on one node.               *)
PathIsFifo == Data!Spec /\ Acks!Spec

Closing == \E h \in Handlers : status[h] \in {"closing", "closed"}

(* Every buffer and every ack handed over arrives, unless a handler is     *)
(* closed.  That the blocking send of an input loop holds up the other     *)
(* channels of its handler is never for good, even when the application    *)
(* behind one of them has stopped reading.  (Writers send finitely many    *)
(* buffers, so time and again everything handed over has arrived.)         *)
Delivered ==
    []<>(\/ Closing
         \/ \A side \in Sides, c \in Channels :
              given[side][c] = Len(taken[Other(side)][c]))

(* close joins both threads of a handler: an input loop that is blocked on *)
(* a full channel is released, as the IO threads are closed later.         *)
CloseReturns == \A h \in Handlers : status[h] = "closing" ~> status[h] = "closed"

==============================================================================
