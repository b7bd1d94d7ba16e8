------------------------------- MODULE IOLoop --------------------------------
(***************************************************************************)
(* Start-up and shutdown of an IO loop (io_loop.rs, sockets_monitor.rs).   *)
(* The caller's connect launches a monitor thread and IO threads.  An IO   *)
(* thread creates its sockets, registers them and waits; the monitor       *)
(* attaches to every connecting socket and raises `ready'; only then the   *)
(* IO threads bind and connect, so that no connection event is missed.     *)
(* The caller and the IO threads wait for all sockets to be connected,     *)
(* each on its own, and the caller's start lets the poll loops run.        *)
(*                                                                         *)
(* Every wait polls a condition until a timeout: the wait ends when the    *)
(* condition holds, or at the last poll that still finds it false.  How    *)
(* long peers, threads and timeouts take is left open.                     *)
(***************************************************************************)
EXTENDS Integers, FiniteSets

CONSTANTS
    Connects,       \* sockets of kind Connect
    Binds,          \* sockets of kind Bind
    NumIOThreads    \* num_io_threads, the argument of connect

ASSUME SocketsAssumption ==
    /\ IsFiniteSet(Connects) /\ IsFiniteSet(Binds)
    /\ Connects \cap Binds = {} /\ Connects \cup Binds # {}
    /\ NumIOThreads \in Nat \ {0}

VARIABLES
    caller,             \* where the thread that calls connect, start, close is
    io,                 \* [thread -> where it is], for launched IO threads
    monitor,            \* where the monitor thread is
    ready,              \* the monitor's ready flag
    monitor_running,    \* the monitor's running flag
    running,            \* the IO loop's running flag
    registered,         \* IO threads whose sockets are registered
    known,              \* keys of sockets_connected_status
    marked,             \* the keys among them whose value is true
    dialled,            \* sockets on which connect was called
    connected           \* connecting sockets that have reached their peer

monitorVars == <<monitor, ready, monitor_running, registered, known, marked>>
vars == <<caller, io, running, monitorVars, dialled, connected>>

CallerStates == {"idle", "wait_ready", "wait_connected", "join_monitor_ok",
                 "join_monitor_err", "connected", "failed", "started",
                 "closing", "closed", "panicked"}
IOStates == {"created", "wait_ready", "wait_connected", "wait_start", "polling",
             "exited", "panicked"}

(* cur_thread_id stays 0 in the loop that distributes the sockets, so one  *)
(* thread gets all of them and no other thread is launched.                *)
ThreadIds == {0}

(* register_sockets: the connecting sockets of the given threads.  Thread  *)
(* 0 has all of them, see ThreadIds.                                       *)
ConnectsOf(threads) == IF 0 \in threads THEN Connects ELSE {}

TypeOK ==
    /\ caller \in CallerStates
    /\ io \in [DOMAIN io -> IOStates] /\ DOMAIN io \subseteq ThreadIds
    /\ monitor \in {"none", "registering", "attaching", "watching", "done", "panicked"}
    /\ {ready, monitor_running, running} \subseteq BOOLEAN
    /\ registered \subseteq DOMAIN io
    /\ marked \subseteq known /\ known \subseteq Connects
    /\ connected \subseteq dialled /\ dialled \subseteq Connects

Init ==
    /\ caller = "idle"
    /\ io = [t \in {} |-> "created"]
    /\ monitor = "none"
    /\ ready = FALSE /\ monitor_running = FALSE /\ running = FALSE
    /\ registered = {} /\ known = {} /\ marked = {}
    /\ dialled = {} /\ connected = {}

AllConnected == marked = known

CallerGoes(from, to) == caller = from /\ caller' = to
IOGoes(t, from, to) ==
    t \in DOMAIN io /\ io[t] = from /\ io' = [io EXCEPT ![t] = to]

------------------------------------------------------------------------------
(* The caller. *)

(* connect, up to its first wait. *)
Connect ==
    /\ CallerGoes("idle", "wait_ready")
    /\ monitor' = "registering"
    /\ monitor_running' = TRUE
    /\ io' = [t \in ThreadIds |-> "created"]
    /\ UNCHANGED <<running, ready, registered, known, marked, dialled, connected>>

CallerReady ==
    /\ ready
    /\ CallerGoes("wait_ready", "wait_connected")
    /\ UNCHANGED <<io, running, monitorVars, dialled, connected>>

CallerReadyTimeout ==
    /\ ~ready
    /\ CallerGoes("wait_ready", "panicked")
    /\ UNCHANGED <<io, running, monitorVars, dialled, connected>>

(* The end of wait_for_all_connected and the first half of the monitor's   *)
(* close.                                                                  *)
CallerConnected ==
    /\ \/ AllConnected /\ CallerGoes("wait_connected", "join_monitor_ok")
       \/ ~AllConnected /\ CallerGoes("wait_connected", "join_monitor_err")
    /\ monitor_running' = FALSE
    /\ UNCHANGED <<io, running, monitor, ready, registered, known, marked,
                   dialled, connected>>

ConnectReturns ==
    /\ monitor = "done"
    /\ \/ CallerGoes("join_monitor_ok", "connected")
       \/ CallerGoes("join_monitor_err", "failed")
    /\ UNCHANGED <<io, running, monitorVars, dialled, connected>>

(* start: connect has succeeded, the sockets are still all connected. *)
Start ==
    /\ IF AllConnected
       THEN CallerGoes("connected", "started") /\ running' = TRUE
       ELSE CallerGoes("connected", "panicked") /\ UNCHANGED running
    /\ UNCHANGED <<io, monitorVars, dialled, connected>>

(* Seeded fault: running is not cleared. *)
CloseKeepRunning ==
    /\ CallerGoes("started", "closing") \/ CallerGoes("failed", "closing")
    /\ UNCHANGED <<io, running, monitorVars, dialled, connected>>

(* close, up to the join of the IO threads. *)
Close ==
    /\ CallerGoes("started", "closing") \/ CallerGoes("failed", "closing")
    /\ running' = FALSE
    /\ UNCHANGED <<io, monitorVars, dialled, connected>>

(* join().unwrap() passes on the panic of an IO thread. *)
CloseReturns ==
    /\ \A t \in DOMAIN io : io[t] \in {"exited", "panicked"}
    /\ IF \A t \in DOMAIN io : io[t] = "exited"
       THEN CallerGoes("closing", "closed")
       ELSE CallerGoes("closing", "panicked")
    /\ UNCHANGED <<io, running, monitorVars, dialled, connected>>

------------------------------------------------------------------------------
(* The monitor thread. *)

MonitorRegistered ==
    /\ monitor = "registering"
    /\ Cardinality(registered) = NumIOThreads
    /\ monitor' = "attaching"
    /\ UNCHANGED <<caller, io, running, ready, monitor_running, registered, known,
                   marked, dialled, connected>>

MonitorTimeout ==
    /\ monitor = "registering"
    /\ Cardinality(registered) # NumIOThreads
    /\ monitor' = "panicked"
    /\ UNCHANGED <<caller, io, running, ready, monitor_running, registered, known,
                   marked, dialled, connected>>

MonitorAttach(s) ==
    /\ monitor = "attaching"
    /\ s \in ConnectsOf(registered) \ known
    /\ known' = known \cup {s}
    /\ UNCHANGED <<caller, io, running, monitor, ready, monitor_running, registered,
                   marked, dialled, connected>>

(* Seeded fault: ready is raised before every monitor is attached. *)
MonitorReadyEarly ==
    /\ monitor = "attaching"
    /\ ready' = TRUE
    /\ monitor' = IF ConnectsOf(registered) \subseteq known THEN "watching" ELSE monitor
    /\ UNCHANGED <<caller, io, running, monitor_running, registered, known, marked,
                   dialled, connected>>

MonitorReady ==
    /\ monitor = "attaching"
    /\ ConnectsOf(registered) \subseteq known
    /\ ready' = TRUE
    /\ monitor' = "watching"
    /\ UNCHANGED <<caller, io, running, monitor_running, registered, known, marked,
                   dialled, connected>>

(* A CONNECTED event.  A pass that has begun is finished before the        *)
(* running flag is looked at again.                                        *)
MonitorSees(s) ==
    /\ monitor = "watching"
    /\ s \in (connected \cap known) \ marked
    /\ marked' = marked \cup {s}
    /\ UNCHANGED <<caller, io, running, monitor, ready, monitor_running, registered,
                   known, dialled, connected>>

(* Seeded fault: the event loop ends only when all sockets are connected. *)
MonitorDoneNoFlag ==
    /\ monitor = "watching"
    /\ AllConnected
    /\ monitor' = "done"
    /\ UNCHANGED <<caller, io, running, ready, monitor_running, registered, known,
                   marked, dialled, connected>>

MonitorDone ==
    /\ monitor = "watching"
    /\ ~monitor_running \/ AllConnected
    /\ monitor' = "done"
    /\ UNCHANGED <<caller, io, running, ready, monitor_running, registered, known,
                   marked, dialled, connected>>

------------------------------------------------------------------------------
(* An IO thread. *)

IORegister(t) ==
    /\ IOGoes(t, "created", "wait_ready")
    /\ registered' = registered \cup {t}
    /\ UNCHANGED <<caller, running, monitor, ready, monitor_running, known, marked,
                   dialled, connected>>

(* bind_and_connect, which panics if an address is in use.  Sockets are    *)
(* handled in their order, so any of them may have been dialled by then.   *)
IODial(t) ==
    /\ ready
    /\ \/ /\ IOGoes(t, "wait_ready", "wait_connected")
          /\ dialled' = dialled \cup Connects
       \/ /\ Binds # {}
          /\ IOGoes(t, "wait_ready", "panicked")
          /\ \E some \in SUBSET Connects : dialled' = dialled \cup some
    /\ UNCHANGED <<caller, running, monitorVars, connected>>

IOReadyTimeout(t) ==
    /\ ~ready
    /\ IOGoes(t, "wait_ready", "panicked")
    /\ UNCHANGED <<caller, running, monitorVars, dialled, connected>>

IOConnected(t) ==
    /\ \/ AllConnected /\ IOGoes(t, "wait_connected", "wait_start")
       \/ ~AllConnected /\ IOGoes(t, "wait_connected", "exited")
    /\ UNCHANGED <<caller, running, monitorVars, dialled, connected>>

(* The end of _wait_to_start_running, whose result is ignored. *)
IOStart(t) ==
    /\ IOGoes(t, "wait_start", "polling")
    /\ UNCHANGED <<caller, running, monitorVars, dialled, connected>>

IOExit(t) ==
    /\ ~running
    /\ IOGoes(t, "polling", "exited")
    /\ UNCHANGED <<caller, running, monitorVars, dialled, connected>>

(* External: the peer of a dialled socket is there. *)
PeerAccepts(s) ==
    /\ s \in dialled \ connected
    /\ connected' = connected \cup {s}
    /\ UNCHANGED <<caller, io, running, monitorVars, dialled>>

------------------------------------------------------------------------------
Caller == \/ Connect \/ CallerReady \/ CallerReadyTimeout \/ CallerConnected
          \/ ConnectReturns \/ Start \/ Close \/ CloseReturns
Monitor == \/ MonitorRegistered \/ MonitorTimeout \/ MonitorReady \/ MonitorDone
           \/ \E s \in Connects \cup Binds : MonitorAttach(s) \/ MonitorSees(s)
IOThread(t) == \/ IORegister(t) \/ IODial(t) \/ IOReadyTimeout(t) \/ IOConnected(t)
               \/ IOStart(t) \/ IOExit(t)

Next ==
    \/ Caller
    \/ Monitor
    \/ \E t \in ThreadIds : IOThread(t)
    \/ \E s \in Connects : PeerAccepts(s)

Spec == Init /\ [][Next]_vars

(* Threads that are not waiting make progress, and waits end, by their     *)
(* condition or by their timeout.  Nothing makes the caller call connect,  *)
(* start or close, nor a peer accept.                                      *)
Fairness ==
    /\ WF_vars(CallerReady \/ CallerReadyTimeout \/ CallerConnected)
    /\ WF_vars(ConnectReturns) /\ WF_vars(CloseReturns)
    /\ WF_vars(Monitor)
    /\ \A t \in ThreadIds : WF_vars(IOThread(t))

FairSpec == Spec /\ Fairness

------------------------------------------------------------------------------
(* When connect reports success, and data is about to flow, every          *)
(* connecting socket has in fact reached its peer: the check over the      *)
(* status map is neither vacuous nor made before the map is filled.        *)
ConnectedIsReal == caller \in {"connected", "started"} => connected = Connects

(* No connection event is missed: sockets are dialled only after the       *)
(* monitor has attached to all of them.                                    *)
MonitoredBeforeDialled == dialled # {} => known = Connects

(* connect always returns or panics: no wait of the caller, and no join of *)
(* the monitor thread, lasts for ever, also when peers never appear.       *)
ConnectEnds ==
    caller = "wait_ready" ~> caller \in {"connected", "failed", "panicked"}

(* close joins the IO threads wherever they are in their start-up. *)
CloseEnds == caller = "closing" ~> caller \in {"closed", "panicked"}

(* "Started data flow": once start has returned, the IO threads poll their *)
(* sockets until the loop is closed.                                       *)
DataFlows ==
    caller = "started" ~> \/ caller # "started"
                          \/ \A t \in ThreadIds : io[t] = "polling"

==============================================================================
