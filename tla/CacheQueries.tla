----------------------------- MODULE CacheQueries ----------------------------
(***************************************************************************)
(* Queries of the in-memory storage (get_values and get_latest of the      *)
(* actor in simple_in_memory_actor_storage.py), and what they return while *)
(* sinks write to it.                                                      *)
(***************************************************************************)
EXTENDS Sinks, SequencesExt

(* None stands for an argument left out, a result that is not there, and a *)
(* call that raises.                                                       *)

(* The scans from both ends of a sorted list.  One that finds nothing to   *)
(* stop at runs past the other end, which raises.                          *)
RunsOver(entries, start, end) ==
    \/ start # None /\ \A e \in ToSet(entries) : e.ts < start
    \/ end # None /\ \A e \in ToSet(entries) : e.ts > end

FirstFrom(entries, start) ==
    IF start = None THEN 1
    ELSE CHOOSE i \in DOMAIN entries : entries[i].ts >= start
           /\ \A j \in DOMAIN entries : j < i => entries[j].ts < start

LastTo(entries, end) ==
    IF end = None THEN Len(entries)
    ELSE CHOOSE i \in DOMAIN entries : entries[i].ts <= end
           /\ \A j \in DOMAIN entries : j > i => entries[j].ts > end

possible_keys(store, keys) ==
    IF keys = None THEN DOMAIN store.per_key ELSE IndexGet(store.index, keys)

(* Entries of all keys in question, sorted by time. *)
get_values(store, keys, start, end) ==
    LET found == SetToSeq(possible_keys(store, keys))
        Slice(k) == SubSeq(store.per_key[k], FirstFrom(store.per_key[k], start),
                           LastTo(store.per_key[k], end))
    IN  IF \E i \in DOMAIN found : RunsOver(store.per_key[found[i]], start, end) THEN None
        ELSE FoldLeft(InsortRight, <<>>,
                      FlattenSeq([i \in DOMAIN found |-> Slice(found[i])]))

get_latest(store, keys) ==
    LET vals == get_values(store, keys, None, None)
    IN  IF vals = <<>> THEN None
        ELSE {e.value : e \in {d \in ToSet(vals) : d.ts = Last(vals).ts}}

------------------------------------------------------------------------------
(* What a client may ask for. *)
Queries == {None} \cup UNION {UNION {[fs -> {Records[i].keys[f] : f \in fs}] :
             fs \in SUBSET DOMAIN Records[i].keys \ {{}}} : i \in DOMAIN Records}
Times == {None} \cup {Records[i].ts : i \in DOMAIN Records}

ExactIn(store, stored) ==
    \A keys \in Queries :
      LET Matches(k) == keys = None \/ \A f \in DOMAIN keys : f \in DOMAIN k /\ k[f] = keys[f]
          full == keys # None /\ \E i \in stored : Records[i].keys = keys
                                    /\ Cardinality(DOMAIN keys) > 1
          hits == IF full THEN {} ELSE {i \in stored : Matches(Records[i].keys)}
          latest == {i \in hits : \A j \in hits : Records[j].ts <= Records[i].ts}
          Of(i) == {j \in hits : Records[j].keys = Records[i].keys}
          Past(start, end) ==
            \E i \in hits : \/ start # None /\ \A j \in Of(i) : Records[j].ts < start
                            \/ end # None /\ \A j \in Of(i) : Records[j].ts > end
          InRange(start, end) == {i \in hits : /\ start # None => Records[i].ts >= start
                                               /\ end # None => Records[i].ts <= end}
      IN  /\ get_latest(store, keys) = IF hits = {} THEN None ELSE latest
          /\ \A start, end \in Times :
               LET found == get_values(store, keys, start, end)
               IN  IF Past(start, end) THEN found = None
                   ELSE /\ {e.value : e \in ToSet(found)} = InRange(start, end)
                        /\ \A m, n \in DOMAIN found : m < n => found[m].ts <= found[n].ts

(* What get_values returns for some of the key fields is the stored        *)
(* records that have these values and a time in the range, in the order of *)
(* time, in whatever order they came, and get_latest returns those of the  *)
(* latest time among them.  Two ways out are in the code: all of two or    *)
(* more key fields find nothing (range(2, depth) in key_index.py), and a   *)
(* range that begins after the last or ends before the first record of     *)
(* some matching key raises.                                               *)
LookupsExact ==
    [][cache' # cache /\ kind \in {"bulk", "single"} => ExactIn(cache', Stored')]_vars

==============================================================================
