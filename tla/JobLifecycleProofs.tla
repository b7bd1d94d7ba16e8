-------------------------- MODULE JobLifecycleProofs -------------------------
(***************************************************************************)
(* A job is reported RUNNING only when all of it was started, for any      *)
(* workers, transfer actors and sockets between them, and it is destroyed  *)
(* only when its sources have emitted all they have, for any sources.      *)
(***************************************************************************)
EXTENDS JobLifecycle, DataLemmas

MasterStates == {"inits", "starts", "running", "raised", "closes", "exits"}

LoopStates == {"off", "connects", "runs", "failed", "closed", "exited"}

(* Once the starts are sent every actor is accounted for: its start is     *)
(* under way, or has failed, or its loop was started.                      *)
Accounted(a) ==
    \/ a \in starts
    \/ a \in timed_out
    \/ a \in errs
    \/ loop[a] = "runs"

(* The inductive invariant.  A loop leaves "off" only with a vertex, and   *)
(* what connects still owes its answer.                                    *)
StartInv ==
    /\ master \in MasterStates
    /\ loop \in [Actors -> LoopStates]
    /\ inits \subseteq Workers
    /\ starts \subseteq Actors
    /\ master = "inits" => starts = {} /\ \A a \in Actors : loop[a] = "off"
    /\ master \in {"starts", "running"} => \A a \in Actors : Accounted(a)
    /\ master \in {"inits", "starts", "running"} =>
         \A a \in Actors :
           /\ loop[a] # "off" => a \notin inits
           /\ loop[a] = "connects" => a \in starts
           /\ a \in starts => loop[a] \in {"off", "connects"}
    /\ master = "running" => AllStarted
    /\ client = "destroys" => master \in {"running", "closes", "exits"}

(* A job that was just submitted satisfies the invariant. *)
LEMMA InitStart == LifecycleInit => StartInv
BY DEF LifecycleInit, Init, StartInv, MasterStates, LoopStates

(* The steps of the job master preserve the invariant: it goes to RUNNING  *)
(* only on AllStarted.                                                     *)
LEMMA MasterStart == StartInv /\ JobMasterStep => StartInv'
<1> SUFFICES ASSUME StartInv, JobMasterStep PROVE StartInv'
  OBVIOUS
<1> USE DEF StartInv, MasterStates, LoopStates, Accounted, AllStarted, sourceVars, startVars
<1>1. CASE ConnectAndInitWorkers
  BY <1>1 DEF ConnectAndInitWorkers
<1>2. CASE StartWorkers
  BY <1>2 DEF StartWorkers
<1>3. CASE StartWorkersRaises
  BY <1>3 DEF StartWorkersRaises
<1>4. CASE Destroy
  BY <1>4 DEF Destroy
<1>5. CASE DeleteWorkers
  BY <1>5 DEF DeleteWorkers
<1>6. QED
  BY <1>1, <1>2, <1>3, <1>4, <1>5 DEF JobMasterStep

(* The steps of an actor preserve the invariant: a loop that goes on       *)
(* connects only with a vertex, and answers when it leaves "connects".     *)
LEMMA ActorStart ==
    ASSUME StartInv, NEW a \in Actors,
           start(a) \/ ConnectEnds(a)
    PROVE  StartInv'
<1> USE DEF StartInv, MasterStates, LoopStates, Accounted, AllStarted, sourceVars
<1>1. CASE start(a)
  BY <1>1 DEF start
<1>2. CASE Connected(a)
  BY <1>2 DEF Connected
<1>3. CASE ConnectFails(a)
  BY <1>3 DEF ConnectFails
<1>4. QED
  BY <1>1, <1>2, <1>3 DEF ConnectEnds

(* The steps of a worker preserve the invariant: an init that comes too    *)
(* late leaves the worker among those that timed out.                      *)
LEMMA WorkerStart ==
    ASSUME StartInv, NEW w \in Workers,
           init(w) \/ InitTimeout(w) \/ close(w) \/ exit(w)
    PROVE  StartInv'
<1> USE DEF StartInv, MasterStates, LoopStates, Accounted, AllStarted, sourceVars
<1>1. CASE init(w)
  BY <1>1 DEF init
<1>2. CASE InitTimeout(w)
  BY <1>2 DEF InitTimeout
<1>3. CASE close(w)
  BY Zenon, <1>3 DEF close
<1>4. CASE exit(w)
  BY Zenon, <1>4 DEF exit
<1>5. QED
  BY <1>1, <1>2, <1>3, <1>4

(* The sources and the client preserve the invariant: execute() goes on to *)
(* destroy only a job whose submission has returned.                       *)
LEMMA SourceStart ==
    ASSUME StartInv,
           (\E t \in Tasks : SourceTask(t) \/ Notified(t)) \/ ClientGoesOn
    PROVE  StartInv'
<1> USE DEF StartInv, Accounted, AllStarted, startVars
<1>1. CASE \E t \in Tasks : SourceTask(t) \/ Notified(t)
  <2>1. UNCHANGED <<startVars, master>> /\ client' = client
    BY Zenon, <1>1 DEF SourceTask, Notified, SplitTask, PollNextSplit, PollWhile, PollBody,
                PollTake, Fetch, FetchValue, WatchTaskState, NotifySourceFinished
  <2>2. QED
    BY <2>1
<1>2. CASE ClientGoesOn
  BY <1>2 DEF ClientGoesOn, WaitSourcesFinished
<1>3. QED
  BY <1>1, <1>2

(* StartInv holds in every state of a job. *)
THEOREM StartInvariant == LifecycleSpec => []StartInv
<1>1. StartInv /\ [LifecycleNext]_allVars => StartInv'
  <2> SUFFICES ASSUME StartInv, [LifecycleNext]_allVars PROVE StartInv'
    OBVIOUS
  <2>1. CASE UNCHANGED allVars
    BY <2>1 DEF StartInv, Accounted, AllStarted, allVars, startVars, sourceVars
  <2>2. CASE LifecycleNext
    BY <2>2, MasterStart, ActorStart, WorkerStart, SourceStart DEF LifecycleNext
  <2>3. QED
    BY <2>1, <2>2
<1>2. QED
  BY InitStart, <1>1, PTL DEF LifecycleSpec

(* A job that is RUNNING has every worker and transfer actor started and   *)
(* connected (submit_job, start_workers), for any number of them.          *)
THEOREM RunningMeansStarted == LifecycleSpec => []RunningIsStarted
<1>1. StartInv => RunningIsStarted
  BY DEF StartInv, RunningIsStarted, Accounted, AllStarted, Actors, Workers
<1>2. QED
  BY StartInvariant, <1>1, PTL

------------------------------------------------------------------------------
(* The sources of a job: what they emit, and when they are finished. *)

Steps == {"poll", "while", "body", "take", "emit", "end"}
TaskOfList == {ListTasks[i] : i \in Lists}

(* A word summed over the tasks of the split source. *)
OverTasks(f, w) == SumFunction([t \in SplitTasks |-> f[t][w]])

(* Every message of a word is still to be given to a split, in a split or  *)
(* emitted; a task that polls or is at its end has emitted its split; the  *)
(* last task to meet the end of the input finds every count at 0.          *)
SplitInv ==
    /\ counts_per_word \in [Words -> Int]
    /\ pc \in [SplitTasks -> Steps]
    /\ split \in [SplitTasks -> [Words -> Nat]]
    /\ emitted \in [SplitTasks -> [Words -> Nat]]
    /\ index \in [SplitTasks -> Nat]
    /\ \A t \in SplitTasks : pc[t] = "take" => index[t] + 1 \in Words
    /\ \A t \in SplitTasks : pc[t] \in {"poll", "end"} => split[t] = NoWords
    /\ (\A t \in SplitTasks : pc[t] = "end") => _all_done
    /\ \A w \in Words :
         counts_per_word[w] + OverTasks(split, w) + OverTasks(emitted, w) = CountPerWord

(* A task is reported finished only at its end. *)
ReportInv ==
    /\ num_values \in Nat \ {0}
    /\ num_fetched \in [TaskOfList -> Nat]
    /\ finished \in [Tasks -> BOOLEAN]
    /\ sources_finished \in [Tasks -> BOOLEAN]
    /\ \A t \in SplitTasks : finished[t] => pc[t] = "end"
    /\ \A i \in Lists : finished[ListTasks[i]] => num_fetched[ListTasks[i]] = num_records(i)
    /\ notices \subseteq Tasks
    /\ \A t \in Tasks : t \in notices \/ sources_finished[t] => finished[t]
    /\ client = "destroys" => \A t \in Tasks : sources_finished[t]

SourcesInv == SplitInv /\ ReportInv

(* The words of one task count in the sums over all. *)
LEMMA AddToTask ==
    ASSUME NEW f \in [SplitTasks -> [Words -> Nat]], NEW g \in [SplitTasks -> [Words -> Nat]],
           NEW t \in SplitTasks, NEW w \in Words, \A u \in SplitTasks \ {t} : g[u] = f[u]
    PROVE  OverTasks(g, w) = OverTasks(f, w) - f[t][w] + g[t][w]
<1> DEFINE F == [u \in SplitTasks |-> f[u][w]]
           G == [u \in SplitTasks |-> g[u][w]]
<1>1. F \in [SplitTasks -> Int] /\ G \in [SplitTasks -> Int] /\ IsFiniteSet(SplitTasks)
  BY TasksAssumption
<1>2. Same(F, G, SplitTasks \ {t})
  BY DEF Same
<1>3. t \in SplitTasks
  OBVIOUS
<1>4. F[t] = f[t][w] /\ G[t] = g[t][w]
  OBVIOUS
<1>5. OverTasks(f, w) = SumFunction(F) /\ OverTasks(g, w) = SumFunction(G)
  BY DEF OverTasks
<1> HIDE DEF F, G
<1>6. SumFunction(G) = SumFunction(F) - F[t] + G[t]
  <2>1. \A x \in SplitTasks :
          Same(F, G, SplitTasks \ {x}) => SumFunction(G) = SumFunction(F) - F[x] + G[x]
    BY ONLY Zenon, <1>1, SumExcept
  <2>2. QED
    BY Zenon, <1>2, <1>3, <2>1
<1>7. QED
  BY <1>4, <1>5, <1>6

(* Sums of words are numbers. *)
LEMMA OverTasksType ==
    ASSUME NEW f \in [SplitTasks -> [Words -> Nat]], NEW w \in Words
    PROVE  OverTasks(f, w) \in Nat
<1> DEFINE F == [u \in SplitTasks |-> f[u][w]]
<1>1. F \in [SplitTasks -> Nat] /\ IsFiniteSet(SplitTasks)
  BY TasksAssumption
<1> HIDE DEF F
<1>2. SumFunction(F) \in Nat
  BY <1>1, SumNat
<1>3. QED
  BY <1>2 DEF F, OverTasks

(* What is emitted by all is none if nothing is by any. *)
LEMMA OverTasksNone ==
    ASSUME NEW f \in [SplitTasks -> [Words -> Nat]], NEW w \in Words,
           \A t \in SplitTasks : f[t] = NoWords
    PROVE  OverTasks(f, w) = 0
<1> DEFINE F == [u \in SplitTasks |-> f[u][w]]
<1>1. F \in [SplitTasks -> Int] /\ IsFiniteSet(SplitTasks) /\ \A t \in SplitTasks : F[t] = 0
  BY TasksAssumption DEF NoWords
<1> HIDE DEF F
<1>2. SumFunction(F) = 0
  BY <1>1, SumZero
<1>3. QED
  BY <1>2 DEF F, OverTasks

(* The job has just been submitted. *)
LEMMA InitSources == Init => SourcesInv
<1> SUFFICES ASSUME Init
             PROVE  SourcesInv
  OBVIOUS
<1>1. NoWords \in [Words -> Nat]
  BY DEF NoWords
<1>2. /\ counts_per_word \in [Words -> Int] /\ pc \in [SplitTasks -> Steps]
      /\ split \in [SplitTasks -> [Words -> Nat]] /\ emitted \in [SplitTasks -> [Words -> Nat]]
      /\ index \in [SplitTasks -> Nat]
      /\ \A t \in SplitTasks : pc[t] = "poll" /\ split[t] = NoWords /\ emitted[t] = NoWords
  BY <1>1, SizesAssumption DEF Init, Steps
<1>3. ASSUME NEW w \in Words
      PROVE  counts_per_word[w] + OverTasks(split, w) + OverTasks(emitted, w) = CountPerWord
  <2>1. OverTasks(split, w) = 0 /\ OverTasks(emitted, w) = 0
    BY <1>2, OverTasksNone
  <2>2. counts_per_word[w] = CountPerWord
    BY DEF Init
  <2>3. QED
    BY <2>1, <2>2, SizesAssumption
<1>4. SplitInv
  BY <1>2, <1>3, TasksAssumption DEF SplitInv
<1>5. ReportInv
  <2>1. num_values \in Nat \ {0}
    BY SizesAssumption DEF Init
  <2>2. num_fetched \in [TaskOfList -> Nat]
    BY DEF Init, TaskOfList
  <2>3. \A t \in SplitTasks : t \in Tasks
    BY DEF Tasks
  <2>4. \A i \in Lists : ListTasks[i] \in Tasks
    BY DEF Tasks
  <2>5. QED
    BY <2>1, <2>2, <2>3, <2>4 DEF ReportInv, Init
<1>6. QED
  BY <1>4, <1>5 DEF SourcesInv

(* A step that leaves the words alone keeps their sums. *)
LEMMA SameWords ==
    ASSUME SplitInv, counts_per_word' = counts_per_word, split' = split, emitted' = emitted
    PROVE  \A w \in Words :
             counts_per_word'[w] + OverTasks(split', w) + OverTasks(emitted', w) = CountPerWord
BY DEF SplitInv

(* The tests of poll_next_split. *)
LEMMA PollsKeepWords ==
    ASSUME SplitInv, NEW t \in SplitTasks, PollNextSplit(t) \/ PollWhile(t) \/ PollBody(t)
    PROVE  SplitInv'
<1>1. /\ counts_per_word \in [Words -> Int] /\ pc \in [SplitTasks -> Steps]
      /\ split \in [SplitTasks -> [Words -> Nat]] /\ emitted \in [SplitTasks -> [Words -> Nat]]
      /\ index \in [SplitTasks -> Nat]
  BY DEF SplitInv
<1>2. /\ \A u \in SplitTasks : pc[u] = "take" => index[u] + 1 \in Words
      /\ \A u \in SplitTasks : pc[u] \in {"poll", "end"} => split[u] = NoWords
  BY DEF SplitInv
<1>3. counts_per_word' = counts_per_word /\ emitted' = emitted
  BY DEF PollNextSplit, PollWhile, PollBody
<1>4. split' = split
  <2>1. CASE PollNextSplit(t)
    <3>1. split[t] = NoWords
      BY <1>2, <2>1 DEF PollNextSplit
    <3>2. split' = split \/ split' = [split EXCEPT ![t] = NoWords]
      BY <2>1 DEF PollNextSplit
    <3>3. QED
      BY <1>1, <3>1, <3>2
  <2>2. QED
    BY <2>1 DEF PollWhile, PollBody
<1>5. index' \in [SplitTasks -> Nat] /\ \A u \in SplitTasks \ {t} : index'[u] = index[u]
  <2>1. CASE PollNextSplit(t)
    BY <1>1, <2>1 DEF PollNextSplit
  <2>2. CASE PollWhile(t)
    BY <1>1, <2>2 DEF PollWhile
  <2>3. CASE PollBody(t)
    <3>1. index[t] % NumWords \in Nat /\ (index[t] % NumWords) + 1 \in Nat
      BY <1>1, SizesAssumption
    <3>2. index' = [index EXCEPT ![t] = index[t] % NumWords]
          \/ index' = [index EXCEPT ![t] = (index[t] % NumWords) + 1]
      BY Zenon, <2>3 DEF PollBody
    <3>3. QED
      BY <1>1, <3>1, <3>2
  <2>4. QED
    BY <2>1, <2>2, <2>3
<1>6. /\ pc' \in [SplitTasks -> Steps] /\ \A u \in SplitTasks \ {t} : pc'[u] = pc[u]
      /\ pc'[t] # "poll"
      /\ pc'[t] = "end" => pc[t] = "poll" /\ _all_done
      /\ pc'[t] = "take" => PollBody(t)
  <2>1. CASE PollNextSplit(t)
    BY Zenon, <1>1, <2>1 DEF PollNextSplit, Steps
  <2>2. CASE PollWhile(t)
    BY <1>1, <2>2 DEF PollWhile, Steps
  <2>3. CASE PollBody(t)
    BY <1>1, <2>3 DEF PollBody, Steps
  <2>4. QED
    BY <2>1, <2>2, <2>3
<1>7. pc'[t] = "take" => index'[t] + 1 \in Words
  <2> SUFFICES ASSUME pc'[t] = "take"
               PROVE  index'[t] + 1 \in Words
    OBVIOUS
  <2>1. PollBody(t)
    BY <1>6
  <2>2. index'[t] = index[t] % NumWords
    BY <1>1, <2>1 DEF PollBody
  <2>3. index[t] \in Nat /\ NumWords \in Nat \ {0}
    BY <1>1, SizesAssumption
  <2>4. index[t] % NumWords \in 0 .. NumWords - 1
    BY <2>3
  <2>5. QED
    BY <2>2, <2>3, <2>4 DEF Words
<1>8. \A u \in SplitTasks : pc'[u] = "take" => index'[u] + 1 \in Words
  BY <1>2, <1>5, <1>6, <1>7
<1>9. \A u \in SplitTasks : pc'[u] \in {"poll", "end"} => split'[u] = NoWords
  BY <1>2, <1>4, <1>6
<1>10. (\A u \in SplitTasks : pc'[u] = "end") => _all_done'
  BY <1>3, <1>6 DEF _all_done
<1>11. \A w \in Words :
         counts_per_word'[w] + OverTasks(split', w) + OverTasks(emitted', w) = CountPerWord
  BY <1>3, <1>4, SameWords
<1>12. QED
  BY <1>1, <1>3, <1>4, <1>5, <1>6, <1>8, <1>9, <1>10, <1>11 DEF SplitInv

(* A message goes from the counts to a split. *)
LEMMA TakeKeepsWords ==
    ASSUME SplitInv, NEW t \in SplitTasks, PollTake(t)
    PROVE  SplitInv'
<1> DEFINE word == index[t] + 1
<1>1. /\ counts_per_word \in [Words -> Int] /\ pc \in [SplitTasks -> Steps]
      /\ split \in [SplitTasks -> [Words -> Nat]] /\ emitted \in [SplitTasks -> [Words -> Nat]]
      /\ index \in [SplitTasks -> Nat]
  BY DEF SplitInv
<1>2. /\ word \in Words /\ index[t] \in Nat
      /\ \A u \in SplitTasks : pc[u] = "take" => index[u] + 1 \in Words
      /\ \A u \in SplitTasks : pc[u] \in {"poll", "end"} => split[u] = NoWords
  BY DEF SplitInv, PollTake
<1>3. /\ split' = [split EXCEPT ![t] = [split[t] EXCEPT ![word] = split[t][word] + 1]]
      /\ counts_per_word' = [counts_per_word EXCEPT ![word] = counts_per_word[word] - 1]
      /\ index' = [index EXCEPT ![t] = index[t] + 1]
      /\ pc' = [pc EXCEPT ![t] = "while"]
      /\ emitted' = emitted
  BY <1>1, <1>2 DEF PollTake
<1>4. pc' \in [SplitTasks -> Steps] /\ index' \in [SplitTasks -> Nat]
  BY <1>1, <1>2, <1>3 DEF Steps
<1> HIDE DEF word
<1>5. /\ counts_per_word' \in [Words -> Int]
      /\ \A w \in Words : counts_per_word'[w] = counts_per_word[w] - IF w = word THEN 1 ELSE 0
  BY <1>1, <1>2, <1>3
<1>6. /\ split' \in [SplitTasks -> [Words -> Nat]]
      /\ split'[t][word] = split[t][word] + 1
      /\ \A u \in SplitTasks \ {t} : split'[u] = split[u]
      /\ \A x \in Words : x # word => split'[t][x] = split[t][x]
  <2>1. [split[t] EXCEPT ![word] = split[t][word] + 1] \in [Words -> Nat]
    BY <1>1, <1>2
  <2>2. QED
    BY <1>1, <1>2, <1>3, <2>1
<1>7. \A u \in SplitTasks : pc'[u] = "take" => index'[u] + 1 \in Words
  BY <1>1, <1>2, <1>3
<1>8. \A u \in SplitTasks : pc'[u] \in {"poll", "end"} => split'[u] = NoWords
  BY <1>1, <1>2, <1>3, <1>6
<1>9. ~ \A u \in SplitTasks : pc'[u] = "end"
  BY <1>1, <1>3
<1>10. ASSUME NEW w \in Words
       PROVE  counts_per_word'[w] + OverTasks(split', w) + OverTasks(emitted', w) = CountPerWord
  <2>1. OverTasks(split', w) = OverTasks(split, w) - split[t][w] + split'[t][w]
    <3> DEFINE f == split
               g == split'
    <3>1. /\ f \in [SplitTasks -> [Words -> Nat]] /\ g \in [SplitTasks -> [Words -> Nat]]
          /\ \A u \in SplitTasks \ {t} : g[u] = f[u]
      BY <1>1, <1>6
    <3> HIDE DEF f, g
    <3>2. OverTasks(g, w) = OverTasks(f, w) - f[t][w] + g[t][w]
      BY <3>1, AddToTask
    <3>3. QED
      BY <3>2 DEF f, g
  <2>7. split[t][w] \in Nat /\ split'[t][w] = split[t][w] + IF w = word THEN 1 ELSE 0
    BY <1>1, <1>6
  <2>2. OverTasks(split, w) \in Nat /\ OverTasks(emitted, w) \in Nat
    BY <1>1, OverTasksType
  <2>3. counts_per_word[w] + OverTasks(split, w) + OverTasks(emitted, w) = CountPerWord
    BY DEF SplitInv
  <2>4. counts_per_word'[w] = counts_per_word[w] - IF w = word THEN 1 ELSE 0
    BY <1>5
  <2>5. counts_per_word[w] \in Int /\ OverTasks(emitted', w) = OverTasks(emitted, w)
    BY <1>1, <1>3
  <2>6. QED
    BY ONLY <2>1, <2>2, <2>3, <2>4, <2>5, <2>7
<1>11. QED
  BY Zenon, <1>1, <1>3, <1>4, <1>5, <1>6, <1>7, <1>8, <1>9, <1>10 DEF SplitInv

(* A message of a split is emitted, or the split is done. *)
LEMMA FetchKeepsWords ==
    ASSUME SplitInv, NEW t \in SplitTasks, Fetch(t)
    PROVE  SplitInv'
<1>1. /\ counts_per_word \in [Words -> Int] /\ pc \in [SplitTasks -> Steps]
      /\ split \in [SplitTasks -> [Words -> Nat]] /\ emitted \in [SplitTasks -> [Words -> Nat]]
      /\ index \in [SplitTasks -> Nat] /\ pc[t] = "emit"
  BY DEF SplitInv, Fetch
<1>2. /\ \A u \in SplitTasks : pc[u] = "take" => index[u] + 1 \in Words
      /\ \A u \in SplitTasks : pc[u] \in {"poll", "end"} => split[u] = NoWords
  BY DEF SplitInv
<1>3. counts_per_word' = counts_per_word /\ index' = index
  BY DEF Fetch
<1>4. CASE split[t] = NoWords
  <2>1. pc' = [pc EXCEPT ![t] = "poll"] /\ split' = split /\ emitted' = emitted
    BY <1>4 DEF Fetch
  <2>2. pc' \in [SplitTasks -> Steps]
    BY <1>1, <2>1 DEF Steps
  <2>3. /\ \A u \in SplitTasks : pc'[u] = "take" => index'[u] + 1 \in Words
        /\ \A u \in SplitTasks : pc'[u] \in {"poll", "end"} => split'[u] = NoWords
    BY <1>1, <1>2, <1>3, <1>4, <2>1
  <2>4. ~ \A u \in SplitTasks : pc'[u] = "end"
    BY <1>1, <2>1
  <2>5. \A w \in Words :
          counts_per_word'[w] + OverTasks(split', w) + OverTasks(emitted', w) = CountPerWord
    BY <1>3, <2>1, SameWords
  <2>6. QED
    BY <1>1, <1>3, <2>1, <2>2, <2>3, <2>4, <2>5 DEF SplitInv
<1>5. CASE split[t] # NoWords
  <2>1. PICK word \in Words :
          /\ split[t][word] # 0
          /\ split' = [split EXCEPT ![t] = [split[t] EXCEPT ![word] = split[t][word] - 1]]
          /\ emitted' = [emitted EXCEPT ![t] = [emitted[t] EXCEPT ![word] = emitted[t][word] + 1]]
    BY <1>1, <1>5 DEF Fetch
  <2>2. pc' = pc
    BY <1>5 DEF Fetch
  <2>3. split[t][word] \in Nat \ {0} /\ emitted[t][word] \in Nat
    BY <1>1, <2>1
  <2>4. /\ split' \in [SplitTasks -> [Words -> Nat]]
        /\ split'[t][word] = split[t][word] + (-1)
        /\ \A u \in SplitTasks \ {t} : split'[u] = split[u]
        /\ \A x \in Words : x # word => split'[t][x] = split[t][x]
    <3>1. [split[t] EXCEPT ![word] = split[t][word] - 1] \in [Words -> Nat]
      BY <1>1, <2>3
    <3>2. QED
      BY <1>1, <2>1, <2>3, <3>1
  <2>5. /\ emitted' \in [SplitTasks -> [Words -> Nat]]
        /\ emitted'[t][word] = emitted[t][word] + 1
        /\ \A u \in SplitTasks \ {t} : emitted'[u] = emitted[u]
        /\ \A x \in Words : x # word => emitted'[t][x] = emitted[t][x]
    <3>1. [emitted[t] EXCEPT ![word] = emitted[t][word] + 1] \in [Words -> Nat]
      BY <1>1, <2>3
    <3>2. QED
      BY <1>1, <2>1, <2>3, <3>1
  <2>6. ASSUME NEW w \in Words
        PROVE  counts_per_word'[w] + OverTasks(split', w) + OverTasks(emitted', w) = CountPerWord
    <3>1. OverTasks(split', w) = OverTasks(split, w) - split[t][w] + split'[t][w]
      <4> DEFINE f == split
                 g == split'
      <4>1. /\ f \in [SplitTasks -> [Words -> Nat]] /\ g \in [SplitTasks -> [Words -> Nat]]
            /\ \A u \in SplitTasks \ {t} : g[u] = f[u]
        BY <1>1, <2>4
      <4> HIDE DEF f, g
      <4>2. OverTasks(g, w) = OverTasks(f, w) - f[t][w] + g[t][w]
        BY <4>1, AddToTask
      <4>3. QED
        BY <4>2 DEF f, g
    <3>2. OverTasks(emitted', w) = OverTasks(emitted, w) - emitted[t][w] + emitted'[t][w]
      <4> DEFINE f == emitted
                 g == emitted'
      <4>1. /\ f \in [SplitTasks -> [Words -> Nat]] /\ g \in [SplitTasks -> [Words -> Nat]]
            /\ \A u \in SplitTasks \ {t} : g[u] = f[u]
        BY <1>1, <2>5
      <4> HIDE DEF f, g
      <4>2. OverTasks(g, w) = OverTasks(f, w) - f[t][w] + g[t][w]
        BY <4>1, AddToTask
      <4>3. QED
        BY <4>2 DEF f, g
    <3>7. /\ split[t][w] \in Nat /\ split'[t][w] = split[t][w] + IF w = word THEN -1 ELSE 0
          /\ emitted[t][w] \in Nat /\ emitted'[t][w] = emitted[t][w] + IF w = word THEN 1 ELSE 0
      BY <1>1, <2>4, <2>5
    <3>3. OverTasks(split, w) \in Nat /\ OverTasks(emitted, w) \in Nat
      BY <1>1, OverTasksType
    <3>4. counts_per_word[w] + OverTasks(split, w) + OverTasks(emitted, w) = CountPerWord
      BY DEF SplitInv
    <3>5. counts_per_word[w] \in Int /\ counts_per_word'[w] = counts_per_word[w]
      BY <1>1, <1>3
    <3>6. QED
      BY ONLY <3>1, <3>2, <3>3, <3>4, <3>5, <3>7
  <2>7. \A u \in SplitTasks : pc'[u] \in {"poll", "end"} => split'[u] = NoWords
    BY <1>1, <1>2, <2>2, <2>4
  <2>8. ~ \A u \in SplitTasks : pc'[u] = "end"
    BY <1>1, <2>2
  <2>9. QED
    BY <1>1, <1>2, <1>3, <2>2, <2>4, <2>5, <2>6, <2>7, <2>8 DEF SplitInv
<1>6. QED
  BY <1>4, <1>5

(* Reports: no step of another task than t touches the end of a task. *)
LEMMA TaskFacts ==
    /\ \A t \in SplitTasks : t \in Tasks /\ t \notin TaskOfList
    /\ \A i \in Lists : /\ ListTasks[i] \in Tasks /\ ListTasks[i] \in TaskOfList
                         /\ ListTasks[i] \notin SplitTasks
    /\ \A i, j \in Lists : ListTasks[i] = ListTasks[j] => i = j
BY TasksAssumption DEF Tasks, TaskOfList, Lists

(* The step of a task of the split source: it is finished when it meets    *)
(* the end, and stays there.                                               *)
LEMMA SplitTaskReports ==
    ASSUME SplitInv, ReportInv, NEW t \in SplitTasks, SplitTask(t)
    PROVE  ReportInv'
<1>1. pc \in [SplitTasks -> Steps] /\ finished \in [Tasks -> BOOLEAN]
  BY DEF SplitInv, ReportInv
<1>2. UNCHANGED <<listVars, notices, sources_finished, client>>
  BY DEF SplitTask, PollNextSplit, PollWhile, PollBody, PollTake, Fetch
<1>3. \/ finished' = finished
      \/ finished' = [finished EXCEPT ![t] = TRUE] /\ pc' = [pc EXCEPT ![t] = "end"]
  BY DEF SplitTask, PollNextSplit, PollWhile, PollBody, PollTake, Fetch
<1>4. pc[t] # "end" /\ \A u \in SplitTasks \ {t} : pc'[u] = pc[u]
  BY <1>1 DEF SplitTask, PollNextSplit, PollWhile, PollBody, PollTake, Fetch
<1>5. \A u \in SplitTasks : finished'[u] => pc'[u] = "end"
  <2>1. \A u \in SplitTasks : finished[u] => pc[u] = "end"
    BY DEF ReportInv
  <2>2. CASE finished' = finished
    BY <1>4, <2>1, <2>2
  <2>3. CASE finished' = [finished EXCEPT ![t] = TRUE] /\ pc' = [pc EXCEPT ![t] = "end"]
    BY <1>1, <1>4, <2>1, <2>3, TaskFacts
  <2>4. QED
    BY <1>3, <2>2, <2>3
<1>6. /\ finished' \in [Tasks -> BOOLEAN]
      /\ \A u \in Tasks : finished[u] => finished'[u]
      /\ \A u \in Tasks \ {t} : finished'[u] = finished[u]
  BY Zenon, <1>1, <1>3, TaskFacts
<1>7. \A i \in Lists : num_records(i)' = num_records(i)
  BY <1>2 DEF num_records, ChunkLength, listVars
<1>8. \A i \in Lists : finished'[ListTasks[i]] => num_fetched'[ListTasks[i]] = num_records(i)'
  <2>1. \A i \in Lists : finished[ListTasks[i]] => num_fetched[ListTasks[i]] = num_records(i)
    BY DEF ReportInv
  <2>2. num_fetched' = num_fetched
    BY <1>2 DEF listVars
  <2>3. \A i \in Lists : finished'[ListTasks[i]] = finished[ListTasks[i]]
    BY <1>6, TaskFacts
  <2>4. QED
    BY <1>7, <2>1, <2>2, <2>3
<1>9. QED
  BY <1>2, <1>5, <1>6, <1>8 DEF ReportInv, listVars

(* A value of the collection: finished with the last one. *)
LEMMA FetchValueReports ==
    ASSUME ReportInv, NEW i \in Lists, FetchValue(i)
    PROVE  ReportInv'
<1> DEFINE t == ListTasks[i]
           last == num_fetched[t] + 1 = num_records(i)
<1>1. /\ num_fetched \in [TaskOfList -> Nat] /\ finished \in [Tasks -> BOOLEAN]
      /\ t \in Tasks /\ t \in TaskOfList /\ t \notin SplitTasks
      /\ \A j \in Lists : j # i => /\ ListTasks[j] # t /\ ListTasks[j] \in Tasks
                                    /\ ListTasks[j] \in TaskOfList
  BY TaskFacts DEF ReportInv
<1>2. /\ num_fetched' = [num_fetched EXCEPT ![t] = num_fetched[t] + 1]
      /\ num_fetched[t] < num_records(i)
      /\ UNCHANGED <<splitVars, num_values, notices, sources_finished, client>>
  BY DEF FetchValue
<1>3. finished' = [finished EXCEPT ![t] = finished[t] \/ last]
  BY DEF FetchValue
<1>4. \A j \in Lists : finished[ListTasks[j]] => num_fetched[ListTasks[j]] = num_records(j)
  BY DEF ReportInv
<1>5. ~ finished[t]
  <2>1. finished[t] => num_fetched[t] = num_records(i)
    BY <1>4
  <2>2. num_fetched[t] \in Nat
    BY <1>1
  <2>3. QED
    BY <1>2, <2>1, <2>2
<1>6. /\ finished' \in [Tasks -> BOOLEAN] /\ finished'[t] = last
      /\ \A u \in Tasks \ {t} : finished'[u] = finished[u]
  <2> HIDE DEF t
  <2>1. last \in BOOLEAN /\ (finished[t] \/ last) = last
    BY <1>5
  <2> HIDE DEF last
  <2>2. finished' = [finished EXCEPT ![t] = last]
    BY Zenon, <1>3, <2>1
  <2>3. QED
    BY Zenon, <1>1, <2>1, <2>2
<1>7. \A j \in Lists : num_records(j)' = num_records(j)
  BY <1>2 DEF num_records, ChunkLength
<1>8. ASSUME NEW j \in Lists, finished'[ListTasks[j]]
      PROVE  num_fetched'[ListTasks[j]] = num_records(j)'
  <2>1. CASE j = i
    <3>1. last
      BY Zenon, <1>6, <1>8, <2>1
    <3>2. num_fetched'[t] = num_fetched[t] + 1
      BY <1>1, <1>2
    <3>3. QED
      BY <1>7, <2>1, <3>1, <3>2
  <2>2. CASE j # i
    <3>1. ListTasks[j] # t /\ ListTasks[j] \in Tasks /\ ListTasks[j] \in TaskOfList
      BY <1>1, <2>2
    <3>2. finished[ListTasks[j]]
      BY <1>6, <1>8, <3>1
    <3>3. num_fetched'[ListTasks[j]] = num_fetched[ListTasks[j]]
      BY <1>1, <1>2, <3>1
    <3>4. QED
      BY <1>4, <1>7, <3>2, <3>3
  <2>3. QED
    BY <2>1, <2>2
<1>9. num_fetched' \in [TaskOfList -> Nat]
  BY <1>1, <1>2
<1>10. \A u \in SplitTasks : finished'[u] => pc'[u] = "end"
  <2>1. \A u \in SplitTasks : finished[u] => pc[u] = "end"
    BY DEF ReportInv
  <2>2. \A u \in SplitTasks : finished'[u] = finished[u]
    BY <1>1, <1>6, TaskFacts
  <2>3. QED
    BY <1>2, <2>1, <2>2 DEF splitVars
<1>11. \A u \in Tasks : u \in notices' \/ sources_finished'[u] => finished'[u]
  <2>1. \A u \in Tasks : u \in notices \/ sources_finished[u] => finished[u]
    BY DEF ReportInv
  <2>2. \A u \in Tasks : finished[u] => finished'[u]
    BY <1>5, <1>6
  <2>3. QED
    BY <1>2, <2>1, <2>2
<1>12. QED
  BY <1>2, <1>6, <1>8, <1>9, <1>10, <1>11 DEF ReportInv

(* Watchers, the job master and the client pass reports on. *)
LEMMA ReportsPass ==
    ASSUME ReportInv,
           \/ \E t \in Tasks : WatchTaskState(t) \/ NotifySourceFinished(t)
           \/ WaitSourcesFinished
    PROVE  ReportInv'
<1>1. finished' = finished /\ UNCHANGED splitVars /\ UNCHANGED listVars
  BY DEF WatchTaskState, NotifySourceFinished, WaitSourcesFinished
<1>2. \A i \in Lists : num_records(i)' = num_records(i)
  BY <1>1 DEF num_records, ChunkLength, listVars
<1>3. \A i \in Lists : finished'[ListTasks[i]] => num_fetched'[ListTasks[i]] = num_records(i)'
  BY <1>1, <1>2 DEF ReportInv, listVars
<1>4. /\ sources_finished \in [Tasks -> BOOLEAN] /\ notices \subseteq Tasks
      /\ \A u \in Tasks : u \in notices \/ sources_finished[u] => finished[u]
      /\ client = "destroys" => \A u \in Tasks : sources_finished[u]
  BY DEF ReportInv
<1>5. /\ sources_finished' \in [Tasks -> BOOLEAN] /\ notices' \subseteq Tasks
      /\ \A u \in Tasks : u \in notices' \/ sources_finished'[u] => finished'[u]
      /\ client' = "destroys" => \A u \in Tasks : sources_finished'[u]
  <2>1. CASE \E t \in Tasks : WatchTaskState(t)
    BY <1>1, <1>4, <2>1 DEF WatchTaskState
  <2>2. ASSUME NEW t \in Tasks, NotifySourceFinished(t)
        PROVE  /\ sources_finished' \in [Tasks -> BOOLEAN] /\ notices' \subseteq Tasks
               /\ \A u \in Tasks : u \in notices' \/ sources_finished'[u] => finished'[u]
               /\ client' = "destroys" => \A u \in Tasks : sources_finished'[u]
    <3>1. /\ t \in notices /\ notices' = notices \ {t} /\ client' = client
          /\ sources_finished' = [sources_finished EXCEPT ![t] = TRUE]
      BY <2>2 DEF NotifySourceFinished
    <3>2. /\ sources_finished' \in [Tasks -> BOOLEAN]
          /\ \A u \in Tasks : sources_finished'[u] <=> u = t \/ sources_finished[u]
      BY Zenon, <1>4, <3>1
    <3>3. QED
      BY <1>1, <1>4, <3>1, <3>2
  <2>3. CASE WaitSourcesFinished
    BY <1>1, <1>4, <2>3 DEF WaitSourcesFinished
  <2>4. QED
    BY <2>1, <2>2, <2>3
<1>6. QED
  BY <1>1, <1>3, <1>5 DEF ReportInv, splitVars, listVars

(* SourcesInv is inductive. *)
LEMMA NextSources == SourcesInv /\ [Next]_vars => SourcesInv'
<1> SUFFICES ASSUME SourcesInv, [Next]_vars
             PROVE  SourcesInv'
  OBVIOUS
<1>1. SplitInv /\ ReportInv
  BY DEF SourcesInv
<1>2. ASSUME UNCHANGED splitVars
      PROVE  SplitInv'
  BY <1>1, <1>2 DEF SplitInv, splitVars, _all_done
<1>3. CASE \E t \in SplitTasks : SplitTask(t)
  <2>1. PICK t \in SplitTasks : SplitTask(t)
    BY <1>3
  <2>2. SplitInv'
    BY <1>1, <2>1, PollsKeepWords, TakeKeepsWords, FetchKeepsWords DEF SplitTask
  <2>3. ReportInv'
    BY <1>1, <2>1, SplitTaskReports
  <2>4. QED
    BY <2>2, <2>3 DEF SourcesInv
<1>4. CASE \E i \in Lists : FetchValue(i)
  <2>1. UNCHANGED splitVars
    BY <1>4 DEF FetchValue
  <2>2. QED
    BY <1>1, <1>2, <1>4, <2>1, FetchValueReports DEF SourcesInv
<1>5. CASE (\E t \in Tasks : WatchTaskState(t) \/ NotifySourceFinished(t)) \/ WaitSourcesFinished
  <2>1. UNCHANGED splitVars
    BY <1>5 DEF WatchTaskState, NotifySourceFinished, WaitSourcesFinished
  <2>2. QED
    BY <1>1, <1>2, <1>5, <2>1, ReportsPass DEF SourcesInv
<1>6. CASE UNCHANGED vars
  <2>1. UNCHANGED splitVars
    BY <1>6 DEF vars
  <2>2. ReportInv'
    BY Zenon, <1>1, <1>6 DEF ReportInv, vars, splitVars, listVars, num_records, ChunkLength
  <2>3. QED
    BY <1>2, <2>1, <2>2 DEF SourcesInv
<1>7. QED
  BY <1>3, <1>4, <1>5, <1>6 DEF Next

------------------------------------------------------------------------------
(* The chunks make up the collection. *)

Least(a, b) == IF a <= b THEN a ELSE b

(* Division rounds up. *)
LEMMA ChunksReach ==
    ASSUME NEW v \in Nat, NEW k \in Nat \ {0}
    PROVE  (v + k - 1) \div k \in Nat /\ v <= k * ((v + k - 1) \div k)
<1> DEFINE a == v + k - 1
           q == a \div k
<1>1. a \in Nat /\ q \in Nat
  OBVIOUS
<1>2. a = k * q + (a % k) /\ a % k \in 0 .. k - 1
  OBVIOUS
<1>3. k * q \in Nat
  BY <1>1
<1> HIDE DEF q
<1>4. v <= k * q
  BY <1>2, <1>3
<1>5. QED
  BY <1>1, <1>4 DEF q

(* The chunk of the i-th task is what the first i cover beyond those       *)
(* before it.                                                              *)
LEMMA ChunkOf ==
    ASSUME NEW i \in Nat \ {0}, num_values \in Nat, ChunkLength \in Nat
    PROVE  /\ num_records(i) = Least(num_values, i * ChunkLength)
                              - Least(num_values, (i - 1) * ChunkLength)
           /\ i * ChunkLength \in Nat /\ (i - 1) * ChunkLength \in Nat
<1> DEFINE v == num_values
           a == (i - 1) * ChunkLength
           b == i * ChunkLength
           m == Least(v, b)
<1>1. a \in Nat /\ b \in Nat /\ b = a + ChunkLength
  OBVIOUS
<1>2. Min({v, b}) = m
  <2> HIDE DEF a, b
  <2>1. QED
    BY <1>1 DEF Min, Least
<1> HIDE DEF a, b
<1>3. m \in Nat /\ m - a \in Int
  BY <1>1 DEF Least
<1> HIDE DEF m
<1>4. Max({0, m - a}) = IF m - a >= 0 THEN m - a ELSE 0
  BY <1>3 DEF Max
<1>5. num_records(i) = IF m - a >= 0 THEN m - a ELSE 0
  BY Zenon, <1>2, <1>4 DEF num_records, a, b
<1>6. num_records(i) = Least(v, b) - Least(v, a)
  BY <1>1, <1>3, <1>5 DEF Least, m
<1>7. QED
  BY <1>1, <1>6 DEF a, b

(* The first n chunks cover the collection up to there. *)
LEMMA ChunksCover ==
    ASSUME num_values \in Nat, ChunkLength \in Nat
    PROVE  \A n \in Nat : SumFunction([i \in 1 .. n |-> num_records(i)])
                            = Least(num_values, n * ChunkLength)
<1> DEFINE F(n) == [i \in 1 .. n |-> num_records(i)]
           G == {n \in Nat : SumFunction(F(n)) = Least(num_values, n * ChunkLength)}
<1>1. \A i \in Nat \ {0} : num_records(i) \in Int
  <2> SUFFICES ASSUME NEW i \in Nat \ {0}
               PROVE  num_records(i) \in Int
    OBVIOUS
  <2>1. /\ num_records(i) = Least(num_values, i * ChunkLength)
                              - Least(num_values, (i - 1) * ChunkLength)
        /\ i * ChunkLength \in Nat /\ (i - 1) * ChunkLength \in Nat
    BY ChunkOf
  <2>2. QED
    BY <2>1 DEF Least
<1>2. 0 \in G
  <2>1. F(0) \in [{} -> Int]
    <3>1. 1 .. 0 = {}
      OBVIOUS
    <3>2. QED
      BY <3>1
  <2>2. SumFunction(F(0)) = 0
    <3> HIDE DEF F
    <3>1. QED
      BY <2>1, SumEmpty
  <2>3. Least(num_values, 0 * ChunkLength) = 0
    BY DEF Least
  <2>4. QED
    BY <2>2, <2>3
<1>3. ASSUME NEW n \in Nat, n \in G
      PROVE  n + 1 \in G
  <2> DEFINE S == 1 .. (n + 1)
             x == n + 1
             f == F(n + 1)
             g == F(n)
  <2>1. x \in S /\ S \ {x} = 1 .. n
    OBVIOUS
  <2>2. IsFiniteSet(S)
    BY FS_Interval
  <2>3. f \in [S -> Int]
    BY <1>1
  <2>4. g \in [S \ {x} -> Int] /\ \A y \in S \ {x} : g[y] = f[y]
    BY <1>1, <2>1
  <2>5. f[x] = num_records(n + 1)
    BY <2>1
  <2>6. SumFunction(f) = f[x] + SumFunction(g)
    <3> HIDE DEF S, x, f, g
    <3>1. QED
      BY <2>1, <2>2, <2>3, <2>4, SumRest
  <2>7. SumFunction(g) = Least(num_values, n * ChunkLength)
    BY <1>3
  <2>8. /\ num_records(n + 1) = Least(num_values, (n + 1) * ChunkLength)
                                - Least(num_values, ((n + 1) - 1) * ChunkLength)
        /\ (n + 1) * ChunkLength \in Nat
    BY ChunkOf
  <2>9. (n + 1) - 1 = n /\ n * ChunkLength \in Nat
    OBVIOUS
  <2>10. SumFunction(f) = Least(num_values, (n + 1) * ChunkLength)
    <3> HIDE DEF f, g, x
    <3>1. QED
      BY <2>5, <2>6, <2>7, <2>8, <2>9 DEF Least
  <2>11. QED
    BY <2>10
<1> HIDE DEF G
<1>4. \A n \in Nat : n \in G
  BY <1>2, <1>3, Induction
<1>5. QED
  BY <1>4 DEF G

(* When every task has reported its end, everything has been emitted. *)
LEMMA SourcesDone == SourcesInv => DestroyedWhenDone
<1> SUFFICES ASSUME SourcesInv, client = "destroys"
             PROVE  /\ \A w \in Words : EmittedOf(w) = CountPerWord
                    /\ ValuesEmitted = num_values
  BY DEF DestroyedWhenDone
<1>1. \A t \in Tasks : finished[t]
  BY DEF SourcesInv, ReportInv
<1>2. \A t \in SplitTasks : pc[t] = "end"
  BY <1>1, TaskFacts DEF SourcesInv, ReportInv
<1>3. \A i \in Lists : num_fetched[ListTasks[i]] = num_records(i)
  BY <1>1, TaskFacts DEF SourcesInv, ReportInv
<1>4. ASSUME NEW w \in Words
      PROVE  EmittedOf(w) = CountPerWord
  <2>1. /\ split \in [SplitTasks -> [Words -> Nat]] /\ emitted \in [SplitTasks -> [Words -> Nat]]
        /\ counts_per_word[w] + OverTasks(split, w) + OverTasks(emitted, w) = CountPerWord
    BY DEF SourcesInv, SplitInv
  <2>2. \A t \in SplitTasks : split[t] = NoWords
    BY <1>2 DEF SourcesInv, SplitInv
  <2>3. counts_per_word[w] = 0
    BY <1>2 DEF SourcesInv, SplitInv, _all_done
  <2>4. OverTasks(split, w) = 0
    BY <2>1, <2>2, OverTasksNone
  <2>5. OverTasks(emitted, w) \in Nat
    BY <2>1, OverTasksType
  <2>6. EmittedOf(w) = OverTasks(emitted, w)
    BY DEF EmittedOf, OverTasks
  <2>7. QED
    BY <2>1, <2>3, <2>4, <2>5, <2>6
<1>5. ValuesEmitted = num_values
  <2>1. num_values \in Nat /\ Len(ListTasks) \in Nat \ {0}
    BY TasksAssumption DEF SourcesInv, ReportInv
  <2>2. ChunkLength \in Nat /\ num_values <= Len(ListTasks) * ChunkLength
    BY <2>1, ChunksReach DEF ChunkLength
  <2>3. [i \in Lists |-> num_fetched[ListTasks[i]]] = [i \in 1 .. Len(ListTasks) |-> num_records(i)]
    BY <1>3 DEF Lists
  <2>4. ValuesEmitted = Least(num_values, Len(ListTasks) * ChunkLength)
    BY <2>1, <2>2, <2>3, ChunksCover DEF ValuesEmitted
  <2>5. QED
    BY <2>2, <2>4 DEF Least
<1>6. QED
  BY <1>4, <1>5

(* Every word is accounted for in every state of the sources, also where   *)
(* polls are interrupted, and no report of a finished source is early.     *)
THEOREM SourcesInvariant == Spec => []SourcesInv
BY InitSources, NextSources, PTL DEF Spec

(* A job is destroyed only when its sources have emitted all they have, for *)
(* any number of source tasks, words and values, and however polls are      *)
(* interrupted.                                                             *)
THEOREM DestroyedOnlyWhenDone == Spec => []DestroyedWhenDone
BY SourcesInvariant, SourcesDone, PTL

------------------------------------------------------------------------------
(* Where a poll is not interrupted between test and decrement, one poll at *)
(* a time is about to decrement, and what it decrements is not 0.          *)
OnePoll ==
    /\ \A w \in Words : counts_per_word[w] >= 0
    /\ \A t \in SplitTasks : pc[t] = "take" => counts_per_word[index[t] + 1] # 0
    /\ \A t, u \in SplitTasks : pc[t] = "take" /\ pc[u] = "take" => t = u

(* OnePoll is preserved. *)
LEMMA NextOnePoll ==
    ASSUME ~Preempts, SourcesInv, OnePoll, [Next]_vars
    PROVE  OnePoll'
<1>1. /\ counts_per_word \in [Words -> Int] /\ pc \in [SplitTasks -> Steps]
      /\ index \in [SplitTasks -> Nat]
      /\ \A t \in SplitTasks : pc[t] = "take" => index[t] + 1 \in Words
  BY DEF SourcesInv, SplitInv
<1>2. ASSUME counts_per_word' = counts_per_word,
             \A t \in SplitTasks : pc'[t] = "take" => pc[t] = "take" /\ index'[t] = index[t]
      PROVE  OnePoll'
  BY <1>2 DEF OnePoll
<1>3. CASE \E t \in SplitTasks : PollNextSplit(t) \/ PollWhile(t) \/ Fetch(t)
  <2>1. PICK t \in SplitTasks : PollNextSplit(t) \/ PollWhile(t) \/ Fetch(t)
    BY <1>3
  <2>2. /\ counts_per_word' = counts_per_word
        /\ \A u \in SplitTasks \ {t} : pc'[u] = pc[u] /\ index'[u] = index[u]
        /\ pc'[t] # "take"
    BY <1>1, <2>1 DEF PollNextSplit, PollWhile, Fetch
  <2>3. QED
    BY <1>2, <2>2
<1>4. ASSUME NEW t \in SplitTasks, PollBody(t)
      PROVE  OnePoll'
  <2>1. \A u \in SplitTasks \ {t} : pc[u] # "take"
    BY <1>4 DEF PollBody, MayRun
  <2>2. /\ counts_per_word' = counts_per_word
        /\ \A u \in SplitTasks \ {t} : pc'[u] = pc[u] /\ index'[u] = index[u]
    BY <1>1, <1>4 DEF PollBody
  <2>3. pc'[t] = "take" => counts_per_word[index'[t] + 1] # 0
    BY <1>1, <1>4 DEF PollBody
  <2>4. QED
    BY <2>1, <2>2, <2>3 DEF OnePoll
<1>5. ASSUME NEW t \in SplitTasks, PollTake(t)
      PROVE  OnePoll'
  <2>1. \A u \in SplitTasks \ {t} : pc[u] # "take"
    BY <1>5 DEF PollTake, OnePoll
  <2>2. pc'[t] = "while" /\ \A u \in SplitTasks \ {t} : pc'[u] = pc[u]
    BY <1>1, <1>5 DEF PollTake
  <2>3. \A u \in SplitTasks : pc'[u] # "take"
    BY <2>1, <2>2
  <2>4. ASSUME NEW w \in Words
        PROVE  counts_per_word'[w] >= 0
    <3> DEFINE word == index[t] + 1
    <3>1. word \in Words /\ counts_per_word[word] # 0 /\ counts_per_word[w] >= 0
      BY <1>1, <1>5 DEF PollTake, OnePoll
    <3>2. counts_per_word' = [counts_per_word EXCEPT ![word] = counts_per_word[word] - 1]
      BY <1>5 DEF PollTake
    <3> HIDE DEF word
    <3>3. counts_per_word'[w] = IF w = word THEN counts_per_word[w] - 1 ELSE counts_per_word[w]
      BY <1>1, <3>1, <3>2
    <3>4. counts_per_word[w] \in Int
      BY <1>1
    <3>5. QED
      BY <3>1, <3>3, <3>4
  <2>5. QED
    BY <2>3, <2>4 DEF OnePoll
<1>6. CASE UNCHANGED splitVars
  BY <1>6 DEF OnePoll, splitVars
<1>7. CASE \E i \in Lists : FetchValue(i)
  BY <1>6, <1>7 DEF FetchValue
<1>8. CASE (\E t \in Tasks : WatchTaskState(t) \/ NotifySourceFinished(t)) \/ WaitSourcesFinished
  BY <1>6, <1>8 DEF WatchTaskState, NotifySourceFinished, WaitSourcesFinished
<1>9. QED
  BY <1>3, <1>4, <1>5, <1>6, <1>7, <1>8 DEF Next, SplitTask, vars

(* What is emitted comes from the counts. *)
LEMMA NotTooOften == SourcesInv /\ OnePoll => NoWordTooOften
<1> SUFFICES ASSUME SourcesInv, OnePoll, NEW w \in Words
             PROVE  EmittedOf(w) <= CountPerWord
  BY DEF NoWordTooOften
<1>1. /\ split \in [SplitTasks -> [Words -> Nat]] /\ emitted \in [SplitTasks -> [Words -> Nat]]
      /\ counts_per_word[w] \in Int /\ counts_per_word[w] >= 0
      /\ counts_per_word[w] + OverTasks(split, w) + OverTasks(emitted, w) = CountPerWord
  BY DEF SourcesInv, SplitInv, OnePoll
<1>2. OverTasks(split, w) \in Nat /\ OverTasks(emitted, w) \in Nat
  BY <1>1, OverTasksType
<1>3. EmittedOf(w) = OverTasks(emitted, w)
  BY DEF EmittedOf, OverTasks
<1>4. QED
  BY <1>1, <1>2, <1>3

(* Where a poll is not interrupted between its test and its decrement      *)
(* (CPython after 3.10), poll_next_split needs no lock: no word is emitted *)
(* too often, for any number of tasks, words and messages.                 *)
THEOREM UninterruptedPolls ==
    ASSUME ~Preempts
    PROVE  Spec => []NoWordTooOften
<1>1. Init => OnePoll
  <2>1. SUFFICES ASSUME Init PROVE OnePoll
    OBVIOUS
  <2>2. \A w \in Words : counts_per_word[w] = CountPerWord
    BY <2>1 DEF Init
  <2>3. \A t \in SplitTasks : pc[t] # "take"
    BY <2>1 DEF Init
  <2>4. CountPerWord >= 0
    BY SizesAssumption
  <2>5. QED
    BY Zenon, <2>2, <2>3, <2>4 DEF OnePoll
<1>2. SourcesInv /\ OnePoll /\ [Next]_vars => OnePoll'
  BY NextOnePoll
<1>3. QED
  BY <1>1, <1>2, SourcesInvariant, NotTooOften, PTL DEF Spec

------------------------------------------------------------------------------
(* Of a job that is started, runs and is destroyed, the sources see the    *)
(* steps they see on their own.                                            *)
LEMMA LifecycleSources == [LifecycleNext]_allVars => [Next]_vars
<1> SUFFICES ASSUME [LifecycleNext]_allVars PROVE [Next]_vars
  OBVIOUS
<1>1. sourceVars = vars /\ sourceVars' = vars'
  BY Zenon DEF sourceVars, vars
<1>2. CASE UNCHANGED sourceVars
  BY Zenon, <1>1, <1>2
<1>3. CASE JobMasterStep
  BY Zenon, <1>2, <1>3 DEF JobMasterStep, ConnectAndInitWorkers, StartWorkers,
     StartWorkersRaises, Destroy, DeleteWorkers
<1>4. CASE \E w \in Workers : init(w) \/ InitTimeout(w) \/ close(w) \/ exit(w)
  BY Zenon, <1>2, <1>4 DEF init, InitTimeout, close, exit
<1>5. CASE \E a \in Actors : start(a) \/ ConnectEnds(a)
  BY Zenon, <1>2, <1>5 DEF start, ConnectEnds, Connected, ConnectFails
<1>6. CASE \E t \in Tasks : SourceTask(t) \/ Notified(t)
  BY Zenon, <1>6 DEF SourceTask, Notified, Next
<1>7. CASE ClientGoesOn
  BY Zenon, <1>7 DEF ClientGoesOn, Next
<1>8. CASE UNCHANGED allVars
  BY Zenon, <1>2, <1>8 DEF allVars
<1>9. QED
  BY Zenon, <1>3, <1>4, <1>5, <1>6, <1>7, <1>8 DEF LifecycleNext

(* Starting and destroying a job leaves its sources as Sources has them:   *)
(* the lifecycle implements the sources.                                   *)
THEOREM LifecycleImplementsSources == LifecycleSpec => Spec
<1>1. LifecycleInit => Init
  BY Zenon DEF LifecycleInit
<1>2. QED
  BY <1>1, LifecycleSources, PTL DEF LifecycleSpec, Spec

(* execute() destroys the job it has started only when the sources have    *)
(* emitted everything.                                                     *)
THEOREM JobDestroyedOnlyWhenDone == LifecycleSpec => []DestroyedWhenDone
BY LifecycleImplementsSources, DestroyedOnlyWhenDone, PTL

==============================================================================
