----------------------------- MODULE CacheStorage ----------------------------
(***************************************************************************)
(* The in-memory hot and cold storage (simple_in_memory_actor_storage.py,  *)
(* key_index.py): an actor that keeps, per composed key of a dataset, a    *)
(* list of values sorted by time, and an index from parts of keys to keys. *)
(*                                                                         *)
(* A dict of key fields is a function; the string composed of it, "k1=v1-  *)
(* k2=v2" with its parts sorted, is the set of its pairs (values hold no   *)
(* separators).  A record is [keys, ts, value].                            *)
(***************************************************************************)
EXTENDS Integers, Sequences, FiniteSets, Functions

CONSTANT None

_kv_strings(keys) == {<<f, keys[f]>> : f \in DOMAIN keys}
compose_main_key(keys) == _kv_strings(keys)

(* Every combination of the pairs, and of two pairs or more only those     *)
(* that leave one out.                                                     *)
compose_possible_keys(keys) ==
    LET kv == _kv_strings(keys)
    IN  {part \in SUBSET kv : part # {} /\ (Cardinality(kv) > 1 => part # kv)}

(* index: set of <<part, main key>>; per_key: [main key -> sequence of     *)
(* [ts, value]].                                                           *)
EmptyStore == [index |-> {}, per_key |-> <<>>]

IndexPut(index, keys) == index \cup (compose_possible_keys(keys) \X {compose_main_key(keys)})
IndexGet(index, keys) == {p[2] : p \in {q \in index : q[1] = compose_main_key(keys)}}

Values(store, key) == IF key \in DOMAIN store.per_key THEN store.per_key[key] ELSE <<>>

(* Two dicts of values cannot be compared: inserting one at the time of    *)
(* another that differs raises.                                            *)
Clashes(store, record) ==
    \E e \in Range(Values(store, compose_main_key(record.keys))) :
      e.ts = record.ts /\ e.value # record.value

(* Seeded fault: values are kept in the order of their arrival. *)
AppendRight(seq, e) == Append(seq, e)

(* bisect.insort_right. *)
InsortRight(seq, e) ==
    LET n == CHOOSE n \in 0 .. Len(seq) : /\ \A i \in 1 .. n : seq[i].ts <= e.ts
                                          /\ n < Len(seq) => seq[n + 1].ts > e.ts
    IN  SubSeq(seq, 1, n) \o <<e>> \o SubSeq(seq, n + 1, Len(seq))

PutOne(store, record) ==
    LET key == compose_main_key(record.keys)
        values == InsortRight(Values(store, key), [ts |-> record.ts, value |-> record.value])
    IN  [index |-> IndexPut(store.index, record.keys),
         per_key |-> [k \in DOMAIN store.per_key \cup {key} |->
                        IF k = key THEN values ELSE store.per_key[k]]]

(* When an insertion raises, the rest of the batch is lost, and nobody     *)
(* waits for the answer.                                                   *)
PutNext(s, record) ==
    IF s.raised \/ Clashes(s.store, record) THEN [store |-> s.store, raised |-> TRUE]
    ELSE [store |-> PutOne(s.store, record), raised |-> FALSE]

put_records(store, records) ==
    LET put[n \in 0 .. Len(records)] ==
          IF n = 0 THEN [store |-> store, raised |-> FALSE] ELSE PutNext(put[n - 1], records[n])
    IN  put[Len(records)].store

==============================================================================
