--------------------------- MODULE StreamOperators ---------------------------
(***************************************************************************)
(* What the operators of a stream do with one record (operators.py,        *)
(* window_operator.py, aggregate_function.py).                             *)
(*                                                                         *)
(* A dict is a sequence of <<field, value>> in the order of insertion; a   *)
(* field is a sequence of strings, so that <<"left", "x">> is "left_x"; a  *)
(* value is [time, n], time telling strings that parse as a time.  A       *)
(* record without a key is not a KeyRecord.  process_element returns the   *)
(* new state of an operator and what it collects, or None when it raises.  *)
(***************************************************************************)
EXTENDS Integers, Sequences, FiniteSets, SequencesExt, TLC

CONSTANTS
    None,
    MapFunc(_), FlatMapFunc(_), FilterFunc(_), ReduceFunc(_, _)     \* of the user

Fields(d) == {d[i][1] : i \in DOMAIN d}
Field(d, f) == d[CHOOSE i \in DOMAIN d : d[i][1] = f][2]
Del(d, f) == SelectSeq(d, LAMBDA e : e[1] # f)
Set(d, f, v) == IF f \in Fields(d) THEN [i \in DOMAIN d |-> IF d[i][1] = f THEN <<f, v>> ELSE d[i]]
                ELSE Append(d, <<f, v>>)
Update(d, e) == FoldLeft(LAMBDA acc, p : Set(acc, p[1], p[2]), d, e)

Record(key, value, event_time) == [key |-> key, value |-> value, event_time |-> event_time]
Result(state, out) == [state |-> state, out |-> out]

Lookup(state, key, default) == IF key \in DOMAIN state THEN state[key] ELSE default

------------------------------------------------------------------------------
(* Operators with one input and no state, and ReduceOperator. *)

Map(record) == <<Record(None, MapFunc(record.value), record.event_time)>>

(* CollectionCollector makes records of bare values. *)
FlatMap(record) ==
    LET values == FlatMapFunc(record.value)
    IN  [i \in DOMAIN values |-> Record(None, values[i], None)]

Filter(record) == IF FilterFunc(record.value) THEN <<record>> ELSE <<>>

KeyBy(field, state, record) ==
    IF field \notin Fields(record.value) THEN None
    ELSE Result(state, <<Record(Field(record.value, field), record.value, record.event_time)>>)

Reduce(state, record) ==
    LET new == ReduceFunc(state[record.key], record.value)
    IN  IF record.key \in DOMAIN state
        THEN Result(record.key :> new @@ state, <<Record(None, new, record.event_time)>>)
        ELSE Result(record.key :> record.value @@ state, <<record>>)

------------------------------------------------------------------------------
(* JoinOperator.  The records of both sides are kept by reference, and the *)
(* join function of a dataset (_stream_join_func) moves fields that both   *)
(* sides have: those of the right dict into the left one.                  *)

JoinFunc(same_fields, left, right) ==
    LET Move(s, k) ==
          LET l == IF k \in Fields(s.left)
                   THEN Set(Del(s.left, k), <<"left">> \o k, Field(s.left, k)) ELSE s.left
          IN  IF k \in Fields(s.right)
              THEN [left |-> Set(l, <<"right">> \o k, Field(s.right, k)), right |-> Del(s.right, k)]
              ELSE [left |-> l, right |-> s.right]
    IN  FoldLeft(Move, [left |-> left, right |-> right], same_fields)

(* It returns the left dict, updated with what is left of the right one. *)
JoinedRecord(moved, event_time) == Record(None, Update(moved.left, moved.right), event_time)

NoRecords == [left |-> <<>>, right |-> <<>>]

(* Seeded fault: a key keeps the newest record of each side only. *)
KeepNewest(records, record) == <<record>>

KeepAll(records, record) == Append(records, record)

(* Seeded fault: a joined record has the time of its right side. *)
TimeOfRight(left, right) == right.event_time

JoinedTime(left, right) == left.event_time

JoinLeft(same_fields, records, record) ==
    LET Step(s, i) ==
          LET j == JoinFunc(same_fields, s.value, records.right[i].value)
          IN  [value |-> j.left, rights |-> [s.rights EXCEPT ![i].value = j.right],
               out |-> Append(s.out, JoinedRecord(j, JoinedTime(record, records.right[i])))]
        done == FoldLeft(Step, [value |-> record.value, rights |-> records.right, out |-> <<>>],
                         [i \in DOMAIN records.right |-> i])
    IN  [left |-> KeepAll(records.left, [record EXCEPT !.value = done.value]),
         right |-> done.rights, out |-> done.out]

JoinRight(same_fields, records, record) ==
    LET Step(s, i) ==
          LET j == JoinFunc(same_fields, records.left[i].value, s.value)
          IN  [value |-> j.right, lefts |-> [s.lefts EXCEPT ![i].value = j.left],
               out |-> Append(s.out, JoinedRecord(j, JoinedTime(records.left[i], record)))]
        done == FoldLeft(Step, [value |-> record.value, lefts |-> records.left, out |-> <<>>],
                         [i \in DOMAIN records.left |-> i])
    IN  [left |-> done.lefts,
         right |-> KeepAll(records.right, [record EXCEPT !.value = done.value]), out |-> done.out]

Join(same_fields, state, side, record) ==
    LET records == Lookup(state, record.key, NoRecords)
        done == IF side = 1 THEN JoinLeft(same_fields, records, record)
                            ELSE JoinRight(same_fields, records, record)
    IN  Result(record.key :> [left |-> done.left, right |-> done.right] @@ state, done.out)

------------------------------------------------------------------------------
(* MultiWindowOperator.  A config is [name, agg_type, on, length]. *)

NoAccumulator == [type \in {"min", "max", "count", "sum", "avg"} |-> None]

(* AllAggregateFunction.add. *)
Add(agg_type, acc, v) ==
    LET Best(type, better) == IF acc[type] = None \/ better THEN v ELSE acc[type]
        count == IF acc["count"] = None THEN 1 ELSE acc["count"] + 1
        sum == IF acc["sum"] = None THEN v ELSE acc["sum"] + v
    IN  CASE agg_type = "min" -> [acc EXCEPT !["min"] = Best("min", v < acc["min"])]
          [] agg_type = "max" -> [acc EXCEPT !["max"] = Best("max", v > acc["max"])]
          [] agg_type = "count" -> [acc EXCEPT !["count"] = count]
          [] agg_type = "sum" -> [acc EXCEPT !["sum"] = sum]
          [] agg_type = "avg" -> [acc EXCEPT !["count"] = count, !["sum"] = sum,
                                             !["avg"] = <<sum, count>>]

InsortByTime(records, record) ==
    LET before == SelectSeq(records, LAMBDA r : r.event_time <= record.event_time)
    IN  before \o <<record>> \o SubSeq(records, Len(before) + 1, Len(records))

(* Seeded fault: expiry is measured from the record that just came. *)
ExpireFromNewest(records, record, length) ==
    SelectSeq(records, LAMBDA r : record.event_time - r.event_time <= length)

(* Records older than the window are removed from the front. *)
Expire(records, record, length) ==
    SelectSeq(records, LAMBDA r : Last(records).event_time - r.event_time <= length)

Aggregated(config, records) ==
    FoldLeft(LAMBDA acc, r : Add(config.agg_type, acc,
                                 IF config.agg_type = "count" THEN 0 ELSE Field(r.value, config.on).n),
             NoAccumulator, records)[config.agg_type]

(* _output_window_func of a dataset: key fields, the first value that      *)
(* parses as a time, and the aggregates; it raises when one is not there.  *)
OutputWindow(schema, aggs, record) ==
    LET d == record.value
        times == SelectSeq(d, LAMBDA e : e[2].time)
    IN  IF schema.keys \subseteq Fields(d) /\ times # <<>> /\ schema.values \subseteq Fields(aggs)
        THEN SelectSeq(d, LAMBDA e : e[1] \in schema.keys)
               \o <<<<schema.timestamp, times[1][2]>>>>
               \o SelectSeq(aggs, LAMBDA e : e[1] \in schema.values)
        ELSE None

MultiWindow(configs, schema, state, record) ==
    LET windows == Lookup(state, record.key, [c \in DOMAIN configs |-> <<>>])
        updated == [c \in DOMAIN configs |->
                      Expire(InsortByTime(windows[c], record), record, configs[c].length)]
        aggs == [c \in DOMAIN configs |->
                   <<configs[c].name, [time |-> FALSE, n |-> Aggregated(configs[c], updated[c])]>>]
        value == OutputWindow(schema, aggs, record)
        readable == \A c \in DOMAIN configs : configs[c].agg_type # "count" =>
                      configs[c].on \in Fields(record.value)
    IN  IF record.key = None \/ record.event_time = None \/ ~readable THEN None
        ELSE IF value = None THEN None
        ELSE Result(record.key :> updated @@ state, <<Record(None, value, record.event_time)>>)

------------------------------------------------------------------------------
(* A stream is [kind, inputs, arg].  side is 1 for the left stream of a    *)
(* join, 2 for its right one.                                              *)
process_element(stream, state, side, record) ==
    CASE stream.kind = "source" -> Result(state, <<record>>)
      [] stream.kind = "map" -> Result(state, Map(record))
      [] stream.kind = "flat_map" -> Result(state, FlatMap(record))
      [] stream.kind = "filter" -> Result(state, Filter(record))
      [] stream.kind = "key_by" -> KeyBy(stream.arg, state, record)
      [] stream.kind = "reduce" -> Reduce(state, record)
      [] stream.kind = "join" -> Join(stream.arg, state, side, record)
      [] stream.kind = "window" -> MultiWindow(stream.arg.configs, stream.arg.schema, state, record)
      [] stream.kind = "unfinished" -> None

==============================================================================
