------------------------------ MODULE Sources --------------------------------
(***************************************************************************)
(* How a job's sources come to their end: the tasks of a split source poll *)
(* one enumerator that lives on the job master (wordcount/source.py,       *)
(* SourceContextImpl of operators.py), the tasks of a collection source    *)
(* emit their chunk of it (function.py), and the client waits until every  *)
(* source task has been reported finished (job_worker.py, job_master.py,   *)
(* job_client.py).                                                         *)
(*                                                                         *)
(* The job master serves up to 1000 calls at a time on threads of one      *)
(* interpreter, and poll_next_split takes no lock.  CPython 3.10, with     *)
(* which the project is developed, lets another thread run after a call    *)
(* and after a jump that is taken: between _all_done() and the body of the *)
(* loop, and in the body between the test of the count and its decrement,  *)
(* but not within the decrement.  Later versions let it run after a call   *)
(* and a backward jump only, so there the body is not interrupted; the     *)
(* constant Preempts tells the two apart.  The scan of _all_done() is one  *)
(* step: where counts stop at 0 its answer is right at some moment of the  *)
(* scan; where they do not, its interruption is left out.                  *)
(***************************************************************************)
EXTENDS Integers, Sequences, FiniteSetsExt

CONSTANTS
    SplitTasks,     \* tasks of the split source
    ListTasks,      \* sequence of the tasks of the collection source
    NumWords,       \* size of the dictionary; a word is its position
    CountPerWord,   \* count_per_word
    MsgsPerSplit,   \* num_msgs_per_split
    Collections,    \* possible lengths of the collection
    Preempts        \* may a poll be interrupted between a count's test and decrement?

ASSUME SizesAssumption ==
    /\ NumWords \in Nat \ {0} /\ MsgsPerSplit \in Nat \ {0}
    /\ CountPerWord \in Nat /\ Collections \subseteq Nat \ {0}
    /\ Preempts \in BOOLEAN

(* A source has a task, and no two sources have one in common. *)
ASSUME TasksAssumption ==
    /\ IsFiniteSet(SplitTasks) /\ SplitTasks # {}
    /\ Len(ListTasks) \in Nat \ {0}
    /\ \A i \in 1 .. Len(ListTasks) : ListTasks[i] \notin SplitTasks
    /\ \A i, j \in 1 .. Len(ListTasks) : ListTasks[i] = ListTasks[j] => i = j

Words == 1 .. NumWords
Lists == 1 .. Len(ListTasks)
Tasks == SplitTasks \cup {ListTasks[i] : i \in Lists}

VARIABLES
    counts_per_word,    \* [word -> messages not yet given to a split]
    pc,                 \* [split task -> where it is]
    split,              \* [split task -> [word -> messages of its split]]
    num_msgs, index,    \* [split task -> locals of poll_next_split on its behalf]
    emitted,            \* [split task -> [word -> messages collected]], history
    num_values,         \* length of the collection
    num_fetched,        \* [list task -> num_fetched_records]
    finished,           \* [task -> SourceContextImpl.finished]
    notices,            \* tasks whose notify_source_finished is under way
    sources_finished,   \* [task -> BOOLEAN], on the job master
    client              \* "waits" in execute(), then "destroys" the job

splitVars == <<counts_per_word, pc, split, num_msgs, index, emitted>>
listVars == <<num_values, num_fetched>>
vars == <<splitVars, listVars, finished, notices, sources_finished, client>>

NoWords == [w \in Words |-> 0]

(* The job has been submitted: submit_job() enters every source task into  *)
(* sources_finished before it schedules the workers.                       *)
Init ==
    /\ counts_per_word = [w \in Words |-> CountPerWord]
    /\ pc = [t \in SplitTasks |-> "poll"]
    /\ split = [t \in SplitTasks |-> NoWords]
    /\ num_msgs = [t \in SplitTasks |-> 0]
    /\ index = [t \in SplitTasks |-> 0]
    /\ emitted = [t \in SplitTasks |-> NoWords]
    /\ num_values \in Collections
    /\ num_fetched = [t \in {ListTasks[i] : i \in Lists} |-> 0]
    /\ finished = [t \in Tasks |-> FALSE]
    /\ notices = {}
    /\ sources_finished = [t \in Tasks |-> FALSE]
    /\ client = "waits"

------------------------------------------------------------------------------
(* The split source. *)

(* The interpreter may run the poll of task t: no other poll is in a       *)
(* stretch of code that it does not interrupt.                             *)
MayRun(t) == Preempts \/ \A u \in SplitTasks \ {t} : pc[u] # "take"

_all_done == \A w \in Words : counts_per_word[w] = 0

(* poll_next_split on the job master, called by get_current_split for the  *)
(* first split and by fetch() after each one: its first test.              *)
PollNextSplit(t) ==
    /\ pc[t] = "poll" /\ MayRun(t)
    /\ IF _all_done
       THEN /\ pc' = [pc EXCEPT ![t] = "end"]
            /\ finished' = [finished EXCEPT ![t] = TRUE]
            /\ UNCHANGED <<split, num_msgs, index>>
       ELSE /\ pc' = [pc EXCEPT ![t] = "while"]
            /\ split' = [split EXCEPT ![t] = NoWords]
            /\ num_msgs' = [num_msgs EXCEPT ![t] = 0]
            /\ index' = [index EXCEPT ![t] = 0]
            /\ UNCHANGED finished
    /\ UNCHANGED <<counts_per_word, emitted, listVars, notices, sources_finished, client>>

(* Seeded fault: the loop only stops at a split of full size. *)
SplitGoesOnUntilFull(t) == num_msgs[t] # MsgsPerSplit

(* The condition of the loop. *)
SplitGoesOn(t) == num_msgs[t] # MsgsPerSplit /\ ~_all_done

(* Seeded fault: the source is finished as soon as its last split is made. *)
PollWhileFinishesEarly(t) ==
    /\ pc[t] = "while" /\ MayRun(t)
    /\ pc' = [pc EXCEPT ![t] = IF SplitGoesOn(t) THEN "body" ELSE "emit"]
    /\ finished' = [finished EXCEPT ![t] = _all_done]
    /\ UNCHANGED <<counts_per_word, split, num_msgs, index, emitted, listVars,
                   notices, sources_finished, client>>

PollWhile(t) ==
    /\ pc[t] = "while" /\ MayRun(t)
    /\ pc' = [pc EXCEPT ![t] = IF SplitGoesOn(t) THEN "body" ELSE "emit"]
    /\ UNCHANGED <<counts_per_word, split, num_msgs, index, emitted, listVars,
                   finished, notices, sources_finished, client>>

(* The body of the loop looks at the next word round the dictionary, *)
PollBody(t) ==
    LET i == index[t] % NumWords
        none_left == counts_per_word[i + 1] = 0
    IN  /\ pc[t] = "body" /\ MayRun(t)
        /\ index' = [index EXCEPT ![t] = IF none_left THEN i + 1 ELSE i]
        /\ pc' = [pc EXCEPT ![t] = IF none_left THEN "while" ELSE "take"]
        /\ UNCHANGED <<counts_per_word, split, num_msgs, emitted, listVars,
                       finished, notices, sources_finished, client>>

(* and if any of it was left takes one for the split. *)
PollTake(t) ==
    LET word == index[t] + 1
    IN  /\ pc[t] = "take"
        /\ split' = [split EXCEPT ![t][word] = @ + 1]
        /\ counts_per_word' = [counts_per_word EXCEPT ![word] = @ - 1]
        /\ index' = [index EXCEPT ![t] = @ + 1]
        /\ num_msgs' = [num_msgs EXCEPT ![t] = @ + 1]
        /\ pc' = [pc EXCEPT ![t] = "while"]
        /\ UNCHANGED <<emitted, listVars, finished, notices, sources_finished, client>>

(* fetch() on the worker: collects the words of the split one at a time,   *)
(* then polls.  A task that has met the end of the input fetches on, to no *)
(* effect.                                                                 *)
Fetch(t) ==
    /\ pc[t] = "emit"
    /\ IF split[t] = NoWords
       THEN pc' = [pc EXCEPT ![t] = "poll"] /\ UNCHANGED <<split, emitted>>
       ELSE /\ \E w \in Words :
                 /\ split[t][w] # 0
                 /\ split' = [split EXCEPT ![t][w] = @ - 1]
                 /\ emitted' = [emitted EXCEPT ![t][w] = @ + 1]
            /\ UNCHANGED pc
    /\ UNCHANGED <<counts_per_word, num_msgs, index, listVars, finished, notices,
                   sources_finished, client>>

------------------------------------------------------------------------------
(* The collection source: collection_chunk_at_index. *)

ChunkLength == (num_values + Len(ListTasks) - 1) \div Len(ListTasks)

num_records(i) == Max({0, Min({num_values, i * ChunkLength}) - (i - 1) * ChunkLength})

(* fetch() of the i-th task collects a value of its chunk.  The source is  *)
(* finished by the collect() that makes num_fetched_records num_records.   *)
FetchValue(i) ==
    LET t == ListTasks[i]
    IN  /\ num_fetched[t] < num_records(i)
        /\ num_fetched' = [num_fetched EXCEPT ![t] = @ + 1]
        /\ finished' = [finished EXCEPT ![t] = @ \/ num_fetched[t] + 1 = num_records(i)]
        /\ UNCHANGED <<splitVars, num_values, notices, sources_finished, client>>

------------------------------------------------------------------------------
(* _watch_task_state_loop: tells the job master, once, and ends. *)
WatchTaskState(t) ==
    /\ finished[t]
    /\ ~sources_finished[t]
    /\ t \notin notices
    /\ notices' = notices \cup {t}
    /\ UNCHANGED <<splitVars, listVars, finished, sources_finished, client>>

NotifySourceFinished(t) ==
    /\ t \in notices
    /\ notices' = notices \ {t}
    /\ sources_finished' = [sources_finished EXCEPT ![t] = TRUE]
    /\ UNCHANGED <<splitVars, listVars, finished, client>>

(* wait_sources_finished returns; execute() goes on to destroy the job. *)
WaitSourcesFinished ==
    /\ client = "waits"
    /\ \A t \in Tasks : sources_finished[t]
    /\ client' = "destroys"
    /\ UNCHANGED <<splitVars, listVars, finished, notices, sources_finished>>

SplitTask(t) ==
    PollNextSplit(t) \/ PollWhile(t) \/ PollBody(t) \/ PollTake(t) \/ Fetch(t)

Next ==
    \/ \E t \in SplitTasks : SplitTask(t)
    \/ \E i \in Lists : FetchValue(i)
    \/ \E t \in Tasks : WatchTaskState(t) \/ NotifySourceFinished(t)
    \/ WaitSourcesFinished

Spec == Init /\ [][Next]_vars

------------------------------------------------------------------------------
(* How often the split source has emitted a word, over all its tasks, and  *)
(* how much of the collection was emitted.                                 *)
EmittedOf(w) == SumFunction([t \in SplitTasks |-> emitted[t][w]])
ValuesEmitted == SumFunction([i \in Lists |-> num_fetched[ListTasks[i]]])

(* No word is emitted more often than the enumerator was asked to          *)
(* (test_wordcount.py: "counts[w] == count_per_word").                     *)
NoWordTooOften == \A w \in Words : EmittedOf(w) <= CountPerWord

(* When execute() goes on to destroy the job, every word has been emitted  *)
(* as often as it should be and every value of the collection has been     *)
(* emitted, although each task reports only its own end.                   *)
DestroyedWhenDone ==
    client = "destroys" =>
      /\ \A w \in Words : EmittedOf(w) = CountPerWord
      /\ ValuesEmitted = num_values

==============================================================================
