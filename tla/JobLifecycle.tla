----------------------------- MODULE JobLifecycle ----------------------------
(***************************************************************************)
(* The life of a job that StreamingContext.execute() runs, around its      *)
(* sources: the job master has created a worker for each vertex of the     *)
(* execution graph and a transfer actor for each node with remote channels *)
(* (worker_lifecycle_controller.py, transfer_controller.py); it gives the  *)
(* workers their vertices, starts everything, and when the sources have    *)
(* ended closes the workers and removes them (job_master.py, job_worker.py,*)
(* stream_task.py).                                                        *)
(*                                                                         *)
(* Calls to an actor are sent in order, but an actor serves up to ten at a *)
(* time: a start may overtake the init that was sent before it.  Whether   *)
(* an IO loop connects is the business of IOLoop; here a connect succeeds  *)
(* only if all that the loop dials to is there, and may fail at any time.  *)
(***************************************************************************)
EXTENDS Sources

CONSTANTS
    OtherWorkers,   \* workers whose vertex is not a source
    TransferActors,
    Dials           \* [actor -> actors that its connecting sockets dial]

Workers == Tasks \cup OtherWorkers
Actors == Workers \cup TransferActors

ASSUME DialsAssumption == Dials \in [Actors -> SUBSET Actors]

VARIABLES
    inits,      \* workers whose init() is under way
    starts,     \* actors whose start is under way
    loop,       \* [actor -> state of its IO loop and of the task above it]
    timed_out,  \* workers that raised "Init timeout"
    errs,       \* actors whose start returned an error
    master      \* where submit_job() and then destroy() of the job master are

sourceVars == <<splitVars, listVars, finished, notices, sources_finished, client>>
startVars == <<inits, starts, loop, timed_out, errs>>
allVars == <<sourceVars, startVars, master>>

(* submit_job() has sent every worker its init(). *)
LifecycleInit ==
    /\ Init
    /\ inits = Workers
    /\ starts = {}
    /\ loop = [a \in Actors |-> "off"]
    /\ timed_out = {}
    /\ errs = {}
    /\ master = "inits"

------------------------------------------------------------------------------
(* The job master starts the job. *)

(* ray.wait(f) returns as soon as one init() has; start_workers() sends    *)
(* every actor its start.                                                  *)
ConnectAndInitWorkers ==
    /\ master = "inits"
    /\ inits # Workers
    /\ master' = "starts"
    /\ starts' = Actors
    /\ UNCHANGED <<sourceVars, inits, loop, timed_out, errs>>

(* Seeded fault: what the starts return is not looked at. *)
AllStartedUnread == starts = {} /\ timed_out = {}

AllStarted == starts = {} /\ timed_out = {} /\ errs = {}

(* start_workers() returns when every start has returned without error:    *)
(* the job is RUNNING and statistics are collected.                        *)
StartWorkers ==
    /\ master = "starts"
    /\ AllStarted
    /\ master' = "running"
    /\ UNCHANGED <<sourceVars, startVars>>

(* It raises when all have returned and one with an error, or as soon as   *)
(* one has raised.  Nothing undoes what was started.                       *)
StartWorkersRaises ==
    /\ master = "starts"
    /\ timed_out # {} \/ (starts = {} /\ errs # {})
    /\ master' = "raised"
    /\ UNCHANGED <<sourceVars, startVars>>

------------------------------------------------------------------------------
(* An actor: JobWorker, or TransferActor for which only the IO loop counts.*)

init(w) ==
    /\ w \in inits
    /\ inits' = inits \ {w}
    /\ UNCHANGED <<sourceVars, starts, loop, timed_out, errs, master>>

(* start_or_rollback: waits for the vertex, makes the task and its IO      *)
(* handlers, and goes into connect_and_start().                            *)
start(a) ==
    /\ a \in starts
    /\ a \notin inits
    /\ loop[a] = "off"
    /\ loop' = [loop EXCEPT ![a] = "connects"]
    /\ UNCHANGED <<sourceVars, inits, starts, timed_out, errs, master>>

(* _create_stream_task gives up on a vertex that does not come. *)
InitTimeout(w) ==
    /\ w \in starts \cap inits
    /\ timed_out' = timed_out \cup {w}
    /\ starts' = starts \ {w}
    /\ UNCHANGED <<sourceVars, inits, loop, errs, master>>

(* The loop is connected: the processor is opened, the threads of the task *)
(* and of the watcher start, and so does the answer.                       *)
Connected(a) ==
    /\ loop[a] = "connects"
    /\ \A b \in Dials[a] : loop[b] # "off"
    /\ loop' = [loop EXCEPT ![a] = "runs"]
    /\ starts' = starts \ {a}
    /\ UNCHANGED <<sourceVars, inits, timed_out, errs, master>>

ConnectFails(a) ==
    /\ loop[a] = "connects"
    /\ loop' = [loop EXCEPT ![a] = "failed"]
    /\ starts' = starts \ {a}
    /\ errs' = errs \cup {a}
    /\ UNCHANGED <<sourceVars, inits, timed_out, master>>

------------------------------------------------------------------------------
(* The job is destroyed: execute() waited for the sources, and some time   *)
(* for what they sent to arrive.                                           *)

(* destroy(): the statistics stop, and every worker is sent its close(). *)
Destroy ==
    /\ master = "running"
    /\ client = "destroys"
    /\ master' = "closes"
    /\ UNCHANGED <<sourceVars, startVars>>

(* close(): the task, its IO loop and the threads. *)
close(w) ==
    /\ master \in {"closes", "exits"}
    /\ loop[w] = "runs"
    /\ loop' = [loop EXCEPT ![w] = "closed"]
    /\ UNCHANGED <<sourceVars, inits, starts, timed_out, errs, master>>

(* delete_workers() has waited until all are closed, or 5 s: it sends      *)
(* every worker its exit(), and execute() returns.                         *)
DeleteWorkers ==
    /\ master = "closes"
    /\ master' = "exits"
    /\ UNCHANGED <<sourceVars, startVars>>

exit(w) ==
    /\ master = "exits"
    /\ loop[w] # "exited"
    /\ loop' = [loop EXCEPT ![w] = "exited"]
    /\ UNCHANGED <<sourceVars, inits, starts, timed_out, errs, master>>

------------------------------------------------------------------------------
(* The sources of workers that run, the calls they make, and the client,   *)
(* which waits for the sources once submit() has returned.                 *)

SourceTask(t) ==
    /\ loop[t] = "runs"
    /\ \/ t \in SplitTasks /\ SplitTask(t)
       \/ \E i \in Lists : ListTasks[i] = t /\ FetchValue(i)
       \/ WatchTaskState(t)
    /\ UNCHANGED <<startVars, master>>

Notified(t) == NotifySourceFinished(t) /\ UNCHANGED <<startVars, master>>

ClientGoesOn ==
    /\ master = "running"
    /\ WaitSourcesFinished
    /\ UNCHANGED <<startVars, master>>

JobMasterStep ==
    ConnectAndInitWorkers \/ StartWorkers \/ StartWorkersRaises \/ Destroy \/ DeleteWorkers

ConnectEnds(a) == Connected(a) \/ ConnectFails(a)

LifecycleNext ==
    \/ JobMasterStep
    \/ \E w \in Workers : init(w) \/ InitTimeout(w) \/ close(w) \/ exit(w)
    \/ \E a \in Actors : start(a) \/ ConnectEnds(a)
    \/ \E t \in Tasks : SourceTask(t) \/ Notified(t)
    \/ ClientGoesOn

LifecycleSpec == LifecycleInit /\ [][LifecycleNext]_allVars

(* As long as a thread can go on or a call is under way, one of them goes  *)
(* on or is delivered, which is less than fairness of each; a connect      *)
(* ends, one way or the other, as IOLoop shows.  Nothing is assumed of     *)
(* close().                                                                *)
LifecycleFairness ==
    WF_allVars(\/ JobMasterStep \/ ClientGoesOn
               \/ \E w \in Workers : init(w) \/ exit(w)
               \/ \E a \in Actors : start(a) \/ ConnectEnds(a)
               \/ \E t \in Tasks : SourceTask(t) \/ Notified(t))

FairLifecycleSpec == LifecycleSpec /\ LifecycleFairness

------------------------------------------------------------------------------
(* When the job is RUNNING, or has been, every worker has its vertex and   *)
(* every worker and transfer actor was started and is connected, although  *)
(* connect_and_init_workers() waits for one init() of several.             *)
RunningIsStarted ==
    /\ master = "running" =>
         inits = {} /\ starts = {} /\ \A a \in Actors : loop[a] = "runs"
    /\ client = "destroys" => master \in {"running", "closes", "exits"}

(* execute() "blocks until job is finished" (streaming_context.py:106) and *)
(* then returns with every worker removed, also those that did not close   *)
(* in time; or it raises because the job was not started.  Only where a    *)
(* task of the collection source has an empty chunk is there no end: it    *)
(* never reports one, and execute() never returns.                         *)
ExecuteEnds ==
    IF \A i \in Lists : num_records(i) # 0
    THEN <>(master = "raised" \/ (master = "exits" /\ \A w \in Workers : loop[w] = "exited"))
    ELSE [](client = "waits")

==============================================================================
