-------------------------------- MODULE Stats --------------------------------
(***************************************************************************)
(* Statistics of a running job (stats_manager.py, hist.py): source workers *)
(* count the messages they emit per second, sink workers keep a histogram  *)
(* of latencies per second, and the job master collects from all of them   *)
(* in rounds, one after the other, and aggregates over a sliding window.   *)
(*                                                                         *)
(* An ordered dict from seconds is a sequence of [s, v] in the order in    *)
(* which its keys were inserted.                                           *)
(***************************************************************************)
EXTENDS Integers, Sequences, FiniteSets, Functions

CONSTANTS
    SourceWorkers, SinkWorkers,     \* workers with statistics
    Registered,         \* sequence of them, in the order of register_worker
    Bins,               \* LATENCY_BINS_MS: upper bounds of the bins
    LatencyWindow,      \* LATENCY_AGGREGATION_WINDOW_S
    ThroughputWindow,   \* THROUGHPUT_AGGREGATION_WINDOW_S
    MaxClock            \* bound: the clock stops there

ASSUME StatsAssumption ==
    /\ IsFiniteSet(SourceWorkers) /\ IsFiniteSet(SinkWorkers) /\ SourceWorkers \cap SinkWorkers = {}
    /\ Registered \in Seq(SourceWorkers \cup SinkWorkers) /\ IsInjective(Registered)
    /\ Range(Registered) = SourceWorkers \cup SinkWorkers
    /\ Bins # {} /\ IsFiniteSet(Bins) /\ Bins \subseteq Nat \ {0}
    /\ LatencyWindow \in Nat /\ ThroughputWindow \in Nat /\ MaxClock \in Nat

Workers == SourceWorkers \cup SinkWorkers
Rounds == {"loop", "stop"}      \* of _collect_loop, and the last one in stop()
Seconds == 0 .. MaxClock

VARIABLES
    clock,                  \* seconds
    cur_bucket_id, cur_bucket_val, num_messages_per_s,  \* [source worker -> ...]
    latency_hists_per_s,    \* [sink worker -> ...]
    stuck,                  \* sink workers whose lock is never released
    round,                  \* [round -> "idle", "asks", "over"]
    asked,                  \* [round -> workers that have not answered]
    updates,                \* [round -> [worker -> its answer]]
    job_latency, job_throughput,    \* the windows of the job
    incs, observed,         \* [second -> messages counted, latencies observed], history
    expired                 \* seconds removed from a window, history

workerVars == <<cur_bucket_id, cur_bucket_val, num_messages_per_s, latency_hists_per_s, stuck>>
roundVars == <<round, updates, asked>>
jobVars == <<job_latency, job_throughput, expired>>
statsVars == <<clock, workerVars, roundVars, jobVars, incs, observed>>

StatsInit ==
    /\ clock = 0
    /\ cur_bucket_id = [w \in SourceWorkers |-> -1]
    /\ cur_bucket_val = [w \in SourceWorkers |-> 0]
    /\ num_messages_per_s = [w \in SourceWorkers |-> <<>>]
    /\ latency_hists_per_s = [w \in SinkWorkers |-> <<>>]
    /\ stuck = {}
    /\ round = [r \in Rounds |-> "idle"]
    /\ updates = [r \in Rounds |-> [w \in Workers |-> <<>>]]
    /\ asked = [r \in Rounds |-> {}]
    /\ job_latency = <<>> /\ job_throughput = <<>> /\ expired = {}
    /\ incs = [s \in Seconds |-> 0] /\ observed = [s \in Seconds |-> 0]

------------------------------------------------------------------------------
(* Ordered dicts and histograms. *)

Has(od, s) == \E i \in DOMAIN od : od[i].s = s
Get(od, s) == od[CHOOSE i \in DOMAIN od : od[i].s = s].v

Put(od, s, v) ==
    IF Has(od, s) THEN [i \in DOMAIN od |-> IF od[i].s = s THEN [s |-> s, v |-> v] ELSE od[i]]
                  ELSE Append(od, [s |-> s, v |-> v])

(* Seeded fault: a merge returns the first histogram as it was. *)
FirstHist(h, g) == h

PlusHists(h, g) == [b \in Bins |-> h[b] + g[b]]

(* The entries of od2 added to those of od1: numbers, and histograms. *)
AddNumber(od, e) == Put(od, e.s, IF Has(od, e.s) THEN Get(od, e.s) + e.v ELSE e.v)

MergeNumbers(od1, od2) ==
    LET merged[n \in 0 .. Len(od2)] == IF n = 0 THEN od1 ELSE AddNumber(merged[n - 1], od2[n])
    IN  merged[Len(od2)]

AddHist(od, e) == Put(od, e.s, IF Has(od, e.s) THEN PlusHists(Get(od, e.s), e.v) ELSE e.v)

MergeHists(od1, od2) ==
    LET merged[n \in 0 .. Len(od2)] == IF n = 0 THEN od1 ELSE AddHist(merged[n - 1], od2[n])
    IN  merged[Len(od2)]

NoHist == [b \in Bins |-> 0]
Total(h) == SumFunction(h)

(* Hist.observe: the first bin that is no less, or the last. *)
Bin(latency) ==
    IF \A b \in Bins : b < latency THEN CHOOSE b \in Bins : \A c \in Bins : c <= b
    ELSE CHOOSE b \in Bins : b >= latency /\ \A c \in Bins : c >= latency => b <= c

Observe(h, latency) == [h EXCEPT ![Bin(latency)] = @ + 1]

------------------------------------------------------------------------------
(* Workers. *)

Tick ==
    /\ clock < MaxClock
    /\ clock' = clock + 1
    /\ round' = [round EXCEPT !["loop"] = IF @ = "over" THEN "idle" ELSE @]
    /\ UNCHANGED <<workerVars, updates, asked, jobVars, incs, observed>>

(* Seeded fault: the message that opens a bucket is not counted. *)
BucketFromZero(w) == IF cur_bucket_id[w] \in {-1, clock} THEN cur_bucket_val[w] + 1 ELSE 0

Bucket(w) == IF cur_bucket_id[w] \in {-1, clock} THEN cur_bucket_val[w] + 1 ELSE 1

(* WorkerThroughputStatsState.inc: the bucket of a second is handed over   *)
(* by the first message of a later one.                                    *)
inc(w) ==
    /\ cur_bucket_id' = [cur_bucket_id EXCEPT ![w] = clock]
    /\ cur_bucket_val' = [cur_bucket_val EXCEPT ![w] = Bucket(w)]
    /\ num_messages_per_s' = IF cur_bucket_id[w] \in {-1, clock} THEN num_messages_per_s
         ELSE [num_messages_per_s EXCEPT ![w] = Put(@, cur_bucket_id[w], cur_bucket_val[w])]
    /\ incs' = [incs EXCEPT ![clock] = @ + 1]
    /\ UNCHANGED <<clock, latency_hists_per_s, stuck, roundVars, jobVars, observed>>

(* Seeded fault: a latency below the resolution of the clock raises. *)
RaisesAtZero(latency) == latency <= 0

(* Hist.observe rejects a negative value. *)
Raises(latency) == latency < 0

(* WorkerLatencyStatsState.observe.  A negative latency raises with the    *)
(* lock held.                                                              *)
observe(w, latency, ts) ==
    /\ w \notin stuck
    /\ IF Raises(latency)
       THEN stuck' = stuck \cup {w} /\ UNCHANGED <<latency_hists_per_s, observed>>
       ELSE LET od == latency_hists_per_s[w]
                h == IF Has(od, ts) THEN Get(od, ts) ELSE NoHist
            IN  /\ latency_hists_per_s' = [latency_hists_per_s EXCEPT ![w] =
                                             Put(od, ts, Observe(h, latency))]
                /\ observed' = [observed EXCEPT ![ts] = @ + 1]
                /\ UNCHANGED stuck
    /\ UNCHANGED <<clock, cur_bucket_id, cur_bucket_val, num_messages_per_s, roundVars,
                   jobVars, incs>>

------------------------------------------------------------------------------
(* The job master. *)

(* _collect_stats_updates asks all workers, *)
Ask(r) ==
    /\ round' = [round EXCEPT ![r] = "asks"]
    /\ asked' = [asked EXCEPT ![r] = Workers]
    /\ UNCHANGED <<clock, workerVars, updates, jobVars, incs, observed>>

(* each hands over what it has (StreamTask.collect_stats), under its lock, *)
Held(w) == IF w \in SourceWorkers THEN num_messages_per_s[w] ELSE latency_hists_per_s[w]

Emptied(ods, w) == [v \in DOMAIN ods |-> IF v = w THEN <<>> ELSE ods[v]]

collect(r, w) ==
    /\ w \in asked[r] /\ w \notin stuck
    /\ asked' = [asked EXCEPT ![r] = @ \ {w}]
    /\ updates' = [updates EXCEPT ![r][w] = Held(w)]
    /\ num_messages_per_s' = Emptied(num_messages_per_s, w)
    /\ latency_hists_per_s' = Emptied(latency_hists_per_s, w)
    /\ UNCHANGED <<clock, cur_bucket_id, cur_bucket_val, stuck, round, jobVars, incs, observed>>

(* What is left of a window: the second inserted last is taken for the     *)
(* present.                                                                *)
InWindow(od, length) ==
    LET kept[n \in 0 .. Len(od)] ==
          IF n = 0 THEN <<>>
          ELSE IF od[Len(od)].s - od[n].s <= length THEN Append(kept[n - 1], od[n])
          ELSE kept[n - 1]
    IN  kept[Len(od)]

(* The answers of a round, of one kind, merged per second. *)
MergedNumbers(ups) ==
    LET merged[n \in 0 .. Len(Registered)] ==
          IF n = 0 THEN <<>>
          ELSE IF Registered[n] \in SourceWorkers THEN MergeNumbers(merged[n - 1], ups[Registered[n]])
          ELSE merged[n - 1]
    IN  merged[Len(Registered)]

MergedHists(ups) ==
    LET merged[n \in 0 .. Len(Registered)] ==
          IF n = 0 THEN <<>>
          ELSE IF Registered[n] \in SinkWorkers THEN MergeHists(merged[n - 1], ups[Registered[n]])
          ELSE merged[n - 1]
    IN  merged[Len(Registered)]

(* The histogram of the window is merged into that of its first second,    *)
(* which the window keeps.                                                 *)
WindowHist(od) ==
    LET sum[n \in 0 .. Len(od)] == IF n = 0 THEN NoHist ELSE PlusHists(sum[n - 1], od[n].v)
    IN  sum[Len(od)]

MergeWindow(od) ==
    [i \in DOMAIN od |-> IF i = 1 THEN [s |-> od[1].s, v |-> WindowHist(od)] ELSE od[i]]

(* and when all have answered, the updates are merged per second, and then *)
(* into both windows.  The figures that are printed are derived from them. *)
Aggregate(r) ==
    LET latency == MergeHists(job_latency, MergedHists(updates[r]))
        throughput == MergeNumbers(job_throughput, MergedNumbers(updates[r]))
    IN  /\ round[r] = "asks" /\ asked[r] = {}
        /\ job_latency' = MergeWindow(InWindow(latency, LatencyWindow))
        /\ job_throughput' = InWindow(throughput, ThroughputWindow)
        /\ expired' = expired \cup {s \in Seconds :
                        \/ Has(latency, s) /\ ~Has(job_latency', s)
                        \/ Has(throughput, s) /\ ~Has(job_throughput', s)}
        /\ round' = [round EXCEPT ![r] = "over"]
        /\ updates' = [updates EXCEPT ![r] = [w \in Workers |-> <<>>]]
        /\ UNCHANGED <<clock, workerVars, asked, incs, observed>>

(* _collect_loop begins another round a second later, until stop(). *)
CollectLoop(running) == running /\ round["loop"] = "idle" /\ Ask("loop")

(* stop() waits at most 5 s for a round of the loop, and then collects     *)
(* once more.                                                              *)
Stop(running) == ~running /\ round["stop"] = "idle" /\ Ask("stop")
StatsStopped == round["stop"] = "over"

(* What may happen to statistics: a latency may be of any size and second. *)
StatsNext ==
    \/ Tick
    \/ \E running \in BOOLEAN : CollectLoop(running) \/ Stop(running)
    \/ \E r \in Rounds : Aggregate(r) \/ \E w \in Workers : collect(r, w)
    \/ \E w \in SourceWorkers : inc(w)
    \/ \E w \in SinkWorkers, latency \in Int, ts \in Seconds : observe(w, latency, ts)

StatsSpec == StatsInit /\ [][StatsNext]_statsVars

------------------------------------------------------------------------------
(* Messages, and latencies, of a second in an ordered dict; and those of a *)
(* worker that are being counted, handed over or on their way.             *)
CountIn(od, s) == IF Has(od, s) THEN Get(od, s) ELSE 0
CountOf(w, s) ==
    (IF cur_bucket_id[w] = s THEN cur_bucket_val[w] ELSE 0) + CountIn(num_messages_per_s[w], s)
      + CountIn(updates["loop"][w], s) + CountIn(updates["stop"][w], s)

TotalIn(od, s) == IF Has(od, s) THEN Total(Get(od, s)) ELSE 0
TotalOf(w, s) ==
    TotalIn(latency_hists_per_s[w], s) + TotalIn(updates["loop"][w], s)
      + TotalIn(updates["stop"][w], s)

(* No message is counted twice, and none is forgotten while its second is  *)
(* in the window, whatever rounds and counting interleave: a second's      *)
(* messages are being counted, handed over, on their way or in the window. *)
ThroughputCounted ==
    \A s \in Seconds :
      LET counted == CountIn(job_throughput, s)
                       + SumFunction([w \in SourceWorkers |-> CountOf(w, s)])
      IN  IF s \in expired THEN counted <= incs[s] ELSE counted = incs[s]

(* No latency is lost while its second is in the window.  That the first   *)
(* second of a window also accumulates the others, once per round, is how  *)
(* Hist.merge is written.                                                  *)
LatencyCounted ==
    \A s \in Seconds \ expired :
      TotalIn(job_latency, s) + SumFunction([w \in SinkWorkers |-> TotalOf(w, s)]) >= observed[s]

==============================================================================
