----------------------------- MODULE SinksProofs -----------------------------
(***************************************************************************)
(* Proofs about sinks, for any records, any kind of sink and any           *)
(* interleaving of the source, the sink, the dumper thread, close(), the   *)
(* cache actor and the statistics beside them.                             *)
(***************************************************************************)
EXTENDS Sinks, DataLemmas

Below(s, t) == \A m \in DOMAIN s, n \in DOMAIN t : s[m] < t[n]

Stores == kind \in {"bulk", "single"}

SinkTypes ==
    /\ instance \in Instances
    /\ emit_ts \in Seq(Int \cup {None}) /\ Len(emit_ts) <= instance.records
    /\ sunk \in 0 .. Len(emit_ts)
    /\ buffer \in Seq(1 .. sunk) /\ calls \in Seq(Seq(1 .. sunk))
    /\ dumper \in {"test", "swap", "done"}
    /\ closer \in {"open", "test", "swap", "join", "closed"}
    /\ kind = "list" => cache \in Seq(1 .. sunk)
    /\ ~Buffers => buffer = <<>>

(* Until the sink is closed, positions rise from the list over the calls   *)
(* on their way to the buffer, unless the buffer was just sent.            *)
ListInv ==
    kind = "list" /\ closer \in {"open", "test"} =>
      /\ Rising(cache) /\ Rising(buffer)
      /\ \A n \in DOMAIN calls : Rising(calls[n]) /\ Below(cache, calls[n])
      /\ \A m, n \in DOMAIN calls : m < n => Below(calls[m], calls[n])
      /\ dumper # "swap" => /\ Below(cache, buffer)
                            /\ \A n \in DOMAIN calls : Below(calls[n], buffer)

(* A storage has every record, of the first N, under its keys and with its *)
(* time, and gets them in the order of sinking.                            *)
Filings(N) == [ts : Int, value : 1 .. N]
FiledAs(e, k) == k = compose_main_key(Records[e.value].keys) /\ e.ts = Records[e.value].ts
Filed(per_key, N) ==
    \A k \in DOMAIN per_key : /\ per_key[k] \in Seq(Filings(N))
                              /\ \A n \in DOMAIN per_key[k] : FiledAs(per_key[k][n], k)

StoreInv ==
    Stores => /\ Filed(cache.per_key, sunk)
              /\ Rising(buffer) /\ \A n \in DOMAIN calls : Rising(calls[n])

(* For a dict no sequence has two records of a key, and a later one has    *)
(* none that is older.                                                     *)
OnePerKey(s) == \A m, n \in DOMAIN s : SameKeys(s[m], s[n]) => m = n
NotOlder(s, t) == \A m \in DOMAIN s, n \in DOMAIN t : SameKeys(s[m], t[n]) => s[m] <= t[n]
DictNotOlder(t) == \A n \in DOMAIN t : LET k == Records[t[n]].keys
                                       IN  k \in DOMAIN cache => cache[k] <= t[n]

DictInv ==
    kind = "dict" =>
      /\ \A k \in DOMAIN cache : cache[k] \in 1 .. sunk /\ Records[cache[k]].keys = k
      /\ OnePerKey(buffer) /\ DictNotOlder(buffer)
      /\ \A n \in DOMAIN calls : /\ OnePerKey(calls[n]) /\ DictNotOlder(calls[n])
                                 /\ NotOlder(calls[n], buffer)
      /\ \A m, n \in DOMAIN calls : m < n => NotOlder(calls[m], calls[n])

(* A record that needs the buffer no more. *)
Accounted(i) ==
    \/ i \in Sent \cup Stored \cup swapped
    \/ Replaced(i)
    \/ \E j \in 1 .. i : Tied(j)

LossInv ==
    /\ \A i \in 1 .. sunk : \/ i \in Range(buffer) \/ Accounted(i)
                            \/ kind = "simple"
                            \/ i = sunk /\ Sink \in stuck
    /\ "swap" \in {dumper, closer} => \A i \in Range(buffer) : Accounted(i)

SinkInv == SinkTypes /\ ListInv /\ StoreInv /\ DictInv /\ LossInv

ClockInv == clock \in Seconds

------------------------------------------------------------------------------
(* The storage. *)

(* An element is put after the first p of a sequence. *)
Inserted(seq, p, e) == SubSeq(seq, 1, p) \o <<e>> \o SubSeq(seq, p + 1, Len(seq))

(* new has the elements of seq and e. *)
HasAlso(new, seq, e) ==
    /\ \A m \in DOMAIN seq : \E n \in DOMAIN new : new[n] = seq[m]
    /\ \E n \in DOMAIN new : new[n] = e
    /\ \A n \in DOMAIN new : new[n] = e \/ \E m \in DOMAIN seq : new[n] = seq[m]

(* Inserting loses nothing. *)
LEMMA InsertAt ==
    ASSUME NEW V, NEW seq \in Seq(V), NEW e \in V, NEW p \in 0 .. Len(seq)
    PROVE  Inserted(seq, p, e) \in Seq(V) /\ HasAlso(Inserted(seq, p, e), seq, e)
<1> DEFINE new == Inserted(seq, p, e)
<1>1. Len(seq) \in Nat /\ DOMAIN seq = 1 .. Len(seq) /\ \A i \in 1 .. Len(seq) : seq[i] \in V
  OBVIOUS
<1>3. p \in 0 .. Len(seq)
  OBVIOUS
<1>5. /\ new \in Seq(V) /\ Len(new) = Len(seq) + 1 /\ DOMAIN new = 1 .. Len(seq) + 1
      /\ \A i \in 1 .. Len(seq) + 1 : new[i] = IF i <= p THEN seq[i] ELSE IF i = p + 1 THEN e ELSE seq[i - 1]
  <2> DEFINE a == SubSeq(seq, 1, p)
             c == SubSeq(seq, p + 1, Len(seq))
  <2>1. /\ a \in Seq(V) /\ Len(a) = p /\ \A i \in 1 .. p : a[i] = seq[i]
    BY <1>1, <1>3
  <2>2. /\ c \in Seq(V) /\ Len(c) = Len(seq) - p /\ \A i \in 1 .. Len(seq) - p : c[i] = seq[p + i]
    <3>1. Len(c) = Len(seq) - p
      OBVIOUS
    <3>2. ASSUME NEW i \in 1 .. Len(seq) - p
          PROVE  c[i] = seq[p + i] /\ p + i \in 1 .. Len(seq)
      BY <1>1, <1>3
    <3>3. c \in Seq(V)
      BY <1>1, <1>3
    <3>4. QED
      BY <3>1, <3>2, <3>3
  <2> HIDE DEF a, c
  <2>3. new = (a \o <<e>>) \o c
    BY DEF a, c, Inserted
  <2> DEFINE d == a \o <<e>>
  <2>4. d \in Seq(V) /\ Len(d) = p + 1 /\ \A i \in 1 .. p + 1 : d[i] = IF i <= p THEN seq[i] ELSE e
    BY <1>3, <2>1
  <2> HIDE DEF d
  <2>5. new = d \o c
    BY <2>3 DEF d
  <2> HIDE DEF new
  <2>6. new \in Seq(V) /\ Len(new) = Len(seq) + 1
    <3>1. new \in Seq(V) /\ Len(new) = Len(d) + Len(c)
      BY <2>2, <2>4, <2>5
    <3>2. QED
      BY <1>1, <1>3, <2>2, <2>4, <3>1
  <2>7. \A i \in 1 .. Len(seq) + 1 : new[i] = IF i <= p + 1 THEN d[i] ELSE c[i - (p + 1)]
    BY <1>1, <1>3, <2>2, <2>4, <2>5
  <2>8. ASSUME NEW i \in 1 .. Len(seq) + 1
        PROVE  new[i] = IF i <= p THEN seq[i] ELSE IF i = p + 1 THEN e ELSE seq[i - 1]
    <3>1. CASE i <= p + 1
      BY <1>3, <2>4, <2>7, <3>1
    <3>2. CASE ~(i <= p + 1)
      <4>1. i - (p + 1) \in 1 .. Len(seq) - p /\ p + (i - (p + 1)) = i - 1
        BY <1>1, <1>3, <3>2
      <4>2. c[i - (p + 1)] = seq[i - 1]
        BY <2>2, <4>1
      <4>3. QED
        BY <1>3, <2>7, <3>2, <4>2
    <3>3. QED
      BY <3>1, <3>2
  <2>9. QED
    BY <1>1, <2>6, <2>8
<1> HIDE DEF new
<1>6. ASSUME NEW m \in DOMAIN seq
      PROVE  \E n \in DOMAIN new : new[n] = seq[m]
  <2>1. CASE m <= p
    <3>1. m \in DOMAIN new /\ new[m] = seq[m]
      BY <1>1, <1>3, <1>5, <2>1
    <3>2. QED
      BY <3>1
  <2>2. CASE ~(m <= p)
    <3>1. m + 1 \in DOMAIN new /\ new[m + 1] = seq[m]
      BY <1>1, <1>3, <1>5, <2>2
    <3>2. QED
      BY <3>1
  <2>3. QED
    BY <2>1, <2>2
<1>7. p + 1 \in DOMAIN new /\ new[p + 1] = e
  BY <1>1, <1>3, <1>5
<1>8. ASSUME NEW n \in DOMAIN new
      PROVE  new[n] = e \/ \E m \in DOMAIN seq : new[n] = seq[m]
  <2>1. CASE n <= p
    <3>1. n \in DOMAIN seq /\ new[n] = seq[n]
      BY <1>1, <1>3, <1>5, <2>1
    <3>2. QED
      BY <3>1
  <2>2. CASE n = p + 1
    BY <1>7, <2>2
  <2>3. CASE ~(n <= p) /\ n # p + 1
    <3>1. n - 1 \in DOMAIN seq /\ new[n] = seq[n - 1]
      BY <1>1, <1>3, <1>5, <2>3
    <3>2. QED
      BY <3>1
  <2>4. QED
    BY <2>1, <2>2, <2>3
<1>9. QED
  BY Zenon, <1>5, <1>6, <1>7, <1>8 DEF HasAlso, new

(* An entry goes before the first one that is later, and none is lost. *)
LEMMA InsortRightIs ==
    ASSUME NEW V, \A v \in V : v.ts \in Int, NEW seq \in Seq(V), NEW e \in V
    PROVE  InsortRight(seq, e) \in Seq(V) /\ HasAlso(InsortRight(seq, e), seq, e)
<1> DEFINE At(n) == /\ \A i \in 1 .. n : seq[i].ts <= e.ts
                    /\ n < Len(seq) => seq[n + 1].ts > e.ts
           p == CHOOSE n \in 0 .. Len(seq) : At(n)
<1>1. Len(seq) \in Nat /\ DOMAIN seq = 1 .. Len(seq) /\ \A i \in 1 .. Len(seq) : seq[i] \in V
  OBVIOUS
<1>2. e.ts \in Int /\ \A i \in 1 .. Len(seq) : seq[i].ts \in Int
  BY <1>1
<1>3. p \in 0 .. Len(seq)
  <2> DEFINE T == {n \in 0 .. Len(seq) : n < Len(seq) => seq[n + 1].ts > e.ts}
  <2>1. T \in SUBSET Nat /\ T # {}
    <3>1. Len(seq) \in T
      BY <1>1
    <3>2. QED
      BY <3>1
  <2>2. PICK n \in T : \A y \in T : n <= y
    <3> HIDE DEF T
    <3>1. QED
      BY <2>1, LeastNumber
  <2>3. ASSUME NEW i \in 1 .. n
        PROVE  seq[i].ts <= e.ts
    <3>0. n \in 0 .. Len(seq)
      BY <2>2
    <3>1. i - 1 \in 0 .. Len(seq) /\ i - 1 \notin T /\ i \in 1 .. Len(seq)
      <4> HIDE DEF T
      <4>1. i - 1 \in 0 .. Len(seq) /\ i \in 1 .. Len(seq) /\ ~(n <= i - 1)
        BY <1>1, <3>0
      <4>2. QED
        BY <2>2, <4>1
    <3>2. ~(seq[i].ts > e.ts)
      BY <1>1, <3>1
    <3>3. QED
      BY <1>2, <3>1, <3>2
  <2>4. n \in 0 .. Len(seq) /\ At(n)
    BY <2>2, <2>3
  <2> HIDE DEF At
  <2>5. QED
    BY <2>4
<1>4. InsortRight(seq, e) = Inserted(seq, p, e)
  BY DEF InsortRight, Inserted
<1> HIDE DEF p
<1>5. QED
  BY <1>3, <1>4, InsertAt

(* Keys that are composed alike are alike. *)
LEMMA MainKeyInjective ==
    ASSUME NEW i \in DOMAIN Records, NEW j \in DOMAIN Records,
           compose_main_key(Records[i].keys) = compose_main_key(Records[j].keys)
    PROVE  SameKeys(i, j)
<1> DEFINE f == Records[i].keys
           g == Records[j].keys
<1>1. f = [x \in DOMAIN f |-> f[x]] /\ g = [x \in DOMAIN g |-> g[x]]
  BY Zenon, SinksAssumption
<1> HIDE DEF f, g
<1>2. {<<x, f[x]>> : x \in DOMAIN f} = {<<x, g[x]>> : x \in DOMAIN g}
  BY DEF f, g, compose_main_key, _kv_strings
<1>3. ASSUME NEW x \in DOMAIN f
      PROVE  x \in DOMAIN g /\ g[x] = f[x]
  <2>1. <<x, f[x]>> \in {<<y, g[y]>> : y \in DOMAIN g}
    BY Zenon, <1>2
  <2>2. QED
    BY <2>1
<1>4. ASSUME NEW x \in DOMAIN g
      PROVE  x \in DOMAIN f
  <2>1. <<x, g[x]>> \in {<<y, f[y]>> : y \in DOMAIN f}
    BY Zenon, <1>2
  <2>2. QED
    BY <2>1
<1>5. f = g
  BY <1>1, <1>3, <1>4
<1>6. QED
  BY <1>5 DEF f, g, SameKeys

(* The positions of the records that a storage holds. *)
Holding(store) == UNION {{e.value : e \in Range(store.per_key[k])} : k \in DOMAIN store.per_key}

RecordOf(i) == [keys |-> Records[i].keys, ts |-> Records[i].ts, value |-> i]

(* Another of the first N records has the same keys and time. *)
Twin(i, N) == \E j \in 1 .. N : j # i /\ SameKeys(j, i) /\ Records[j].ts = Records[i].ts

(* A record that is held is an entry under some key. *)
LEMMA HoldingIs ==
    ASSUME NEW store, NEW i
    PROVE  i \in Holding(store) <=>
             \E k \in DOMAIN store.per_key : \E n \in DOMAIN store.per_key[k] :
               store.per_key[k][n].value = i
BY DEF Holding, Range

(* Records have times. *)
LEMMA RecordsIs ==
    /\ Len(Records) \in Nat /\ DOMAIN Records = 1 .. Len(Records)
    /\ \A i \in 1 .. Len(Records) : Records[i].ts \in Int
<1> DEFINE R == [keys : {Records[i].keys : i \in DOMAIN Records}, ts : Int]
<1>1. Records \in Seq(R)
  BY SinksAssumption
<1>2. \A r \in R : r.ts \in Int
  OBVIOUS
<1> HIDE DEF R
<1>3. QED
  BY <1>1, <1>2

(* The entries under a key. *)
LEMMA ValuesIs ==
    ASSUME NEW N, NEW store, Filed(store.per_key, N), NEW key
    PROVE  /\ Values(store, key) \in Seq(Filings(N))
           /\ \A n \in DOMAIN Values(store, key) : FiledAs(Values(store, key)[n], key)
<1>1. CASE key \in DOMAIN store.per_key
  BY <1>1 DEF Values, Filed
<1>2. CASE key \notin DOMAIN store.per_key
  <2>1. Values(store, key) = <<>>
    BY <1>2 DEF Values
  <2>2. QED
    BY <2>1
<1>3. QED
  BY <1>1, <1>2

(* put_records stores a record and loses none. *)
LEMMA PutOneIs ==
    ASSUME NEW N \in 0 .. Len(Records), NEW store, Filed(store.per_key, N), NEW i \in 1 .. N
    PROVE  LET new == PutOne(store, RecordOf(i))
           IN  /\ Filed(new.per_key, N) /\ i \in Holding(new)
               /\ \A j \in Holding(store) : j \in Holding(new)
<1> DEFINE new == PutOne(store, RecordOf(i))
           per_key == store.per_key
           key == compose_main_key(Records[i].keys)
           e == [ts |-> Records[i].ts, value |-> i]
           old == Values(store, key)
           values == InsortRight(old, e)
<1>1. i \in 1 .. Len(Records) /\ Records[i].ts \in Int
  BY RecordsIs
<1>2. e \in Filings(N) /\ e.value = i /\ FiledAs(e, key)
  BY <1>1 DEF Filings, FiledAs
<1>3. old \in Seq(Filings(N)) /\ \A n \in DOMAIN old : FiledAs(old[n], key)
  <2> HIDE DEF key
  <2>1. QED
    BY ValuesIs
<1>4. \A v \in Filings(N) : v.ts \in Int
  BY DEF Filings
<1> HIDE DEF e, key, old
<1>5. values \in Seq(Filings(N)) /\ HasAlso(values, old, e)
  BY <1>2, <1>3, <1>4, InsortRightIs
<1>6. new.per_key = [k \in DOMAIN per_key \cup {key} |-> IF k = key THEN values ELSE per_key[k]]
  BY DEF PutOne, RecordOf, e, key, old
<1> HIDE DEF new, values
<1>7. /\ DOMAIN new.per_key = DOMAIN per_key \cup {key} /\ new.per_key[key] = values
      /\ \A k \in DOMAIN per_key : k # key => new.per_key[k] = per_key[k]
  BY <1>6
<1>8. \A n \in DOMAIN values : FiledAs(values[n], key)
  BY <1>2, <1>3, <1>5 DEF HasAlso
<1>9. Filed(new.per_key, N)
  BY <1>5, <1>7, <1>8 DEF Filed
<1>10. i \in Holding(new)
  BY <1>2, <1>5, <1>7, HoldingIs DEF HasAlso
<1>11. ASSUME NEW j \in Holding(store)
       PROVE  j \in Holding(new)
  <2>1. PICK k \in DOMAIN per_key : \E n \in DOMAIN per_key[k] : per_key[k][n].value = j
    BY HoldingIs
  <2>2. CASE k # key
    BY <1>7, <2>1, <2>2, HoldingIs
  <2>3. CASE k = key
    <3>1. old = per_key[k]
      BY <2>3 DEF old, Values
    <3>2. \E n \in DOMAIN values : values[n].value = j
      BY <1>5, <2>1, <3>1 DEF HasAlso
    <3>3. QED
      BY <1>7, <3>2, HoldingIs
  <2>4. QED
    BY <2>2, <2>3
<1>12. QED
  BY <1>9, <1>10, <1>11 DEF new

(* An insertion raises only at a record with the keys and time of another. *)
LEMMA ClashIs ==
    ASSUME NEW N \in 0 .. Len(Records), NEW store, Filed(store.per_key, N), NEW i \in 1 .. N,
           Clashes(store, RecordOf(i))
    PROVE  Twin(i, N)
<1> DEFINE key == compose_main_key(Records[i].keys)
           old == Values(store, key)
<1>1. PICK n \in DOMAIN old : old[n].ts = Records[i].ts /\ old[n].value # i
  BY DEF Clashes, RecordOf, Range
<1>2. old \in Seq(Filings(N)) /\ FiledAs(old[n], key)
  <2> HIDE DEF key
  <2>1. QED
    BY <1>1, ValuesIs
<1>3. old[n].value \in 1 .. N
  <2>1. \A v \in Filings(N) : v.value \in 1 .. N
    BY DEF Filings
  <2> HIDE DEF old
  <2>2. QED
    BY <1>1, <1>2, <2>1
<1> DEFINE j == old[n].value
<1>4. /\ j \in DOMAIN Records /\ i \in DOMAIN Records /\ j # i /\ j \in 1 .. N
      /\ compose_main_key(Records[j].keys) = compose_main_key(Records[i].keys)
      /\ Records[j].ts = Records[i].ts
  <2>1. /\ FiledAs(old[n], key) /\ j \in 1 .. N /\ j # i /\ old[n].ts = Records[i].ts
    BY <1>1, <1>2, <1>3
  <2>2. key = compose_main_key(Records[j].keys) /\ old[n].ts = Records[j].ts
    BY Zenon, <2>1 DEF FiledAs, j
  <2>3. \A m \in 1 .. N : m \in DOMAIN Records
    BY RecordsIs
  <2> HIDE DEF j, old
  <2>4. QED
    BY <2>1, <2>2, <2>3 DEF key
<1> HIDE DEF j
<1>5. SameKeys(j, i)
  BY <1>4, MainKeyInjective
<1>6. QED
  BY <1>4, <1>5 DEF Twin

(* f gives what put_records has done after n records. *)
Puts(f, store, records, N) ==
    f = [n \in 0 .. N |-> IF n = 0 THEN [store |-> store, raised |-> FALSE]
                          ELSE PutNext(f[n - 1], records[n])]

(* There is such an f. *)
LEMMA PutsExist ==
    ASSUME NEW store, NEW records, NEW N \in Nat
    PROVE  \E f : Puts(f, store, records, N)
<1> DEFINE S == {k \in Nat : \E f : Puts(f, store, records, k)}
<1>1. 0 \in S
  <2> DEFINE f == [n \in 0 .. 0 |-> [store |-> store, raised |-> FALSE]]
  <2>1. Puts(f, store, records, 0)
    BY DEF Puts
  <2>2. QED
    BY <2>1
<1>2. ASSUME NEW k \in Nat, k \in S
      PROVE  k + 1 \in S
  <2>1. PICK f : Puts(f, store, records, k)
    BY <1>2
  <2> DEFINE g == [n \in 0 .. k + 1 |-> IF n = k + 1 THEN PutNext(f[k], records[k + 1]) ELSE f[n]]
  <2>2. /\ DOMAIN g = 0 .. k + 1 /\ g[k + 1] = PutNext(f[k], records[k + 1])
        /\ \A n \in 0 .. k : g[n] = f[n]
    OBVIOUS
  <2>3. ASSUME NEW n \in 0 .. k + 1
        PROVE  g[n] = IF n = 0 THEN [store |-> store, raised |-> FALSE]
                      ELSE PutNext(g[n - 1], records[n])
    <3> HIDE DEF g
    <3>1. CASE n = k + 1
      BY <2>2, <3>1
    <3>2. CASE n # k + 1
      <4>1. n \in 0 .. k /\ (n # 0 => n - 1 \in 0 .. k)
        BY <3>2
      <4>2. f[n] = IF n = 0 THEN [store |-> store, raised |-> FALSE]
                   ELSE PutNext(f[n - 1], records[n])
        BY Zenon, <2>1, <4>1 DEF Puts
      <4>3. QED
        BY <2>2, <4>1, <4>2
    <3>3. QED
      BY <3>1, <3>2
  <2>4. Puts(g, store, records, k + 1)
    BY Zenon, <2>3 DEF Puts
  <2> HIDE DEF g
  <2>5. QED
    BY <2>4
<1> HIDE DEF S
<1>3. \A k \in Nat : k \in S
  BY <1>1, <1>2, Induction
<1>4. QED
  BY <1>3 DEF S

(* What becomes of a batch: a record is stored, unless it or an earlier    *)
(* one has a twin.                                                         *)
Taken(l, ids, store, N) == ids[l] \in Holding(store) \/ \E j \in 1 .. ids[l] : Twin(j, N)

LEMMA put_recordsIs ==
    ASSUME NEW N \in 0 .. Len(Records), NEW store, Filed(store.per_key, N),
           NEW ids \in Seq(1 .. N), Rising(ids)
    PROVE  LET new == put_records(store, RecordsOf(ids))
           IN  /\ Filed(new.per_key, N)
               /\ \A j \in Holding(store) : j \in Holding(new)
               /\ \A l \in DOMAIN ids : Taken(l, ids, new, N)
<1> DEFINE L == Len(ids)
           records == RecordsOf(ids)
           m == CHOOSE g : Puts(g, store, records, L)
           Good(n) == /\ Filed(m[n].store.per_key, N)
                      /\ \A j \in Holding(store) : j \in Holding(m[n].store)
                      /\ \A l \in 1 .. n : Taken(l, ids, m[n].store, N)
                      /\ m[n].raised => \A l \in 1 .. L : l > n => \E j \in 1 .. ids[l] : Twin(j, N)
           S == {n \in Nat : n <= L => Good(n)}
<1>1. /\ L \in Nat /\ DOMAIN ids = 1 .. L /\ \A l \in 1 .. L : ids[l] \in 1 .. N
      /\ Len(records) = L /\ \A l \in 1 .. L : records[l] = RecordOf(ids[l])
  BY DEF RecordsOf, RecordOf
<1>2. Puts(m, store, records, L)
  BY Zenon, <1>1, PutsExist
<1>3. put_records(store, records) = m[L].store
  <2> HIDE DEF L, records
  <2>1. Len(records) = L
    BY <1>1
  <2>2. QED
    BY <2>1 DEF put_records, Puts
<1> HIDE DEF m, records, L
<1>4. m[0] = [store |-> store, raised |-> FALSE]
      /\ \A n \in 1 .. L : m[n] = PutNext(m[n - 1], records[n])
  <2>1. \A n \in 0 .. L : m[n] = IF n = 0 THEN [store |-> store, raised |-> FALSE]
                                 ELSE PutNext(m[n - 1], records[n])
    BY Zenon, <1>2 DEF Puts
  <2>2. 0 \in 0 .. L /\ \A n \in 1 .. L : n \in 0 .. L /\ n # 0
    BY <1>1
  <2>3. QED
    BY Zenon, <2>1, <2>2
<1>5. 0 \in S
  BY <1>4
<1>6. ASSUME NEW n \in Nat, n \in S
      PROVE  n + 1 \in S
  <2>1. SUFFICES ASSUME n + 1 <= L
                 PROVE  Good(n + 1)
    OBVIOUS
  <2>2. /\ Filed(m[n].store.per_key, N)
        /\ \A j \in Holding(store) : j \in Holding(m[n].store)
        /\ \A l \in 1 .. n : Taken(l, ids, m[n].store, N)
        /\ m[n].raised => \A l \in 1 .. L : l > n => \E j \in 1 .. ids[l] : Twin(j, N)
    BY <1>1, <1>6, <2>1
  <2> DEFINE i == ids[n + 1]
             s == m[n].store
             t == m[n + 1].store
  <2>3. n + 1 \in 1 .. L /\ i \in 1 .. N /\ m[n + 1] = PutNext(m[n], RecordOf(i))
    <3>1. n + 1 \in 1 .. L /\ (n + 1) - 1 = n
      BY <1>1, <2>1
    <3>2. m[n + 1] = PutNext(m[(n + 1) - 1], records[n + 1])
      BY Zenon, <1>4, <3>1
    <3>3. i \in 1 .. N /\ records[n + 1] = RecordOf(i)
      BY Zenon, <1>1, <3>1
    <3>4. QED
      BY <3>1, <3>2, <3>3
  <2>4. \A l \in 1 .. n + 1 : l \in 1 .. n \/ l = n + 1
    OBVIOUS
  <2>5. CASE m[n].raised
    <3>1. t = s /\ m[n + 1].raised
      BY <2>3, <2>5 DEF PutNext
    <3>2. \A l \in 1 .. L : l > n => \E j \in 1 .. ids[l] : Twin(j, N)
      BY <2>2, <2>5
    <3>3. \E j \in 1 .. i : Twin(j, N)
      BY <2>3, <3>2
    <3>4. \A l \in 1 .. L : l > n + 1 => l > n
      BY <1>1
    <3>5. \A l \in 1 .. n + 1 : Taken(l, ids, t, N)
      BY Zenon, <2>2, <2>4, <3>1, <3>3 DEF Taken
    <3> HIDE DEF s, t
    <3>6. QED
      BY <2>2, <3>1, <3>2, <3>4, <3>5 DEF s, t
  <2>6. CASE ~m[n].raised /\ Clashes(s, RecordOf(i))
    <3>1. t = s /\ m[n + 1].raised
      BY <2>3, <2>6 DEF PutNext
    <3>2. Twin(i, N)
      BY Zenon, <2>2, <2>3, <2>6, ClashIs
    <3>3. ASSUME NEW l \in 1 .. L, l > n
          PROVE  \E j \in 1 .. ids[l] : Twin(j, N)
      <4>1. i <= ids[l]
        <5>1. n + 1 = l \/ n + 1 < l
          BY <1>1, <3>3
        <5>2. n + 1 < l => i < ids[l]
          BY Zenon, <1>1, <2>3 DEF Rising
        <5>3. i \in Nat /\ ids[l] \in Nat
          BY <1>1, <2>3
        <5>4. QED
          BY <5>1, <5>2, <5>3
      <4>2. i \in 1 .. ids[l]
        BY <1>1, <2>3, <4>1
      <4>3. QED
        BY <3>2, <4>2
    <3>4. \A l \in 1 .. L : l > n + 1 => l > n
      BY <1>1
    <3>5. \A l \in 1 .. n + 1 : Taken(l, ids, t, N)
      <4>1. Taken(n + 1, ids, t, N)
        BY <2>3, <3>3 DEF Taken
      <4>2. QED
        BY <2>2, <2>4, <3>1, <4>1
    <3> HIDE DEF s, t
    <3>6. QED
      BY <2>2, <3>1, <3>3, <3>4, <3>5 DEF s, t
  <2>7. CASE ~m[n].raised /\ ~Clashes(s, RecordOf(i))
    <3>1. t = PutOne(s, RecordOf(i)) /\ m[n + 1].raised = FALSE
      BY <2>3, <2>7 DEF PutNext
    <3>2. /\ Filed(t.per_key, N) /\ i \in Holding(t)
          /\ \A j \in Holding(s) : j \in Holding(t)
      <4>1. Filed(s.per_key, N)
        BY <2>2
      <4> HIDE DEF s, t, i
      <4>2. QED
        BY <2>3, <3>1, <4>1, PutOneIs
    <3>3. \A l \in 1 .. n + 1 : Taken(l, ids, t, N)
      BY <2>2, <2>4, <3>2 DEF Taken
    <3> HIDE DEF t
    <3>4. QED
      BY <2>2, <3>1, <3>2, <3>3 DEF t
  <2>8. QED
    BY <2>5, <2>6, <2>7
<1>7. Good(L)
  <2>1. L \in S
    <3> HIDE DEF S
    <3>1. QED
      BY Zenon, <1>1, <1>5, <1>6, Induction
  <2>2. QED
    BY <1>1, <2>1
<1>8. QED
  BY <1>1, <1>3, <1>7 DEF records

------------------------------------------------------------------------------
(* Steps of the sink. *)

(* A sequence without its first element. *)
LEMMA TailIs ==
    ASSUME NEW V, NEW s \in Seq(V), s # <<>>
    PROVE  /\ 1 \in DOMAIN s /\ Head(s) = s[1] /\ Head(s) \in V /\ Tail(s) \in Seq(V)
           /\ \A n \in DOMAIN Tail(s) : /\ n \in Nat /\ n + 1 \in DOMAIN s /\ Tail(s)[n] = s[n + 1]
                                        /\ n + 1 > 1
           /\ \A m \in DOMAIN s : m = 1 \/ (m - 1 \in DOMAIN Tail(s) /\ s[m] = Tail(s)[m - 1])
<1>1. Len(s) \in Nat /\ Len(s) # 0 /\ DOMAIN s = 1 .. Len(s)
  OBVIOUS
<1>2. Tail(s) \in Seq(V) /\ DOMAIN Tail(s) = 1 .. Len(s) - 1
      /\ \A n \in 1 .. Len(s) - 1 : Tail(s)[n] = s[n + 1]
  BY <1>1
<1>3. 1 \in DOMAIN s /\ Head(s) = s[1] /\ Head(s) \in V
  BY <1>1
<1>4. ASSUME NEW m \in DOMAIN s, m # 1
      PROVE  m - 1 \in DOMAIN Tail(s) /\ s[m] = Tail(s)[m - 1]
  <2>1. m - 1 \in 1 .. Len(s) - 1 /\ (m - 1) + 1 = m
    BY <1>1, <1>4
  <2>2. QED
    BY <1>2, <2>1
<1>5. ASSUME NEW n \in DOMAIN Tail(s)
      PROVE  n \in Nat /\ n + 1 \in DOMAIN s /\ Tail(s)[n] = s[n + 1] /\ n + 1 > 1
  BY <1>1, <1>2
<1>6. QED
  BY <1>2, <1>3, <1>4, <1>5

(* A record is on its way in one of the calls. *)
LEMMA SentIs ==
    ASSUME NEW i
    PROVE  /\ i \in Sent <=> \E n \in DOMAIN calls : i \in Range(calls[n])
           /\ i \in Sent' <=> \E n \in DOMAIN calls' : i \in Range(calls'[n])
BY DEF Sent

(* What a record that needs the buffer no more comes down to. *)
LEMMA TiedIs ==
    ASSUME NEW i
    PROVE  /\ Tied(i) <=> Stores /\ Twin(i, sunk)
           /\ Tied(i)' <=> Stores' /\ Twin(i, sunk')
BY DEF Tied, Stores, Twin

(* A record that needs the buffer no more will not need it later. *)
LEMMA AccountedGrows ==
    ASSUME SinkTypes, instance' = instance, sunk' \in Nat, sunk <= sunk', NEW i \in 1 .. sunk,
           Accounted(i), Sent \subseteq Sent', Stored \subseteq Stored', swapped \subseteq swapped'
    PROVE  Accounted(i)'
<1>1. sunk \in Nat
  BY DEF SinkTypes
<1>2. CASE i \in Sent \cup Stored \cup swapped
  BY <1>2 DEF Accounted
<1>3. CASE Replaced(i)
  <2>1. kind = "dict" /\ kind' = "dict"
    BY <1>3 DEF Replaced, kind
  <2>2. PICK j \in i + 1 .. sunk : SameKeys(j, i)
    BY <1>3 DEF Replaced
  <2>3. j \in i + 1 .. sunk'
    BY <1>1
  <2>4. Replaced(i)'
    BY <2>1, <2>2, <2>3 DEF Replaced, SameKeys
  <2>5. QED
    BY <2>4 DEF Accounted
<1>4. CASE \E j \in 1 .. i : Tied(j)
  <2>1. PICK j \in 1 .. i : Stores /\ Twin(j, sunk)
    BY <1>4, TiedIs
  <2>2. 1 .. sunk \subseteq 1 .. sunk'
    BY <1>1
  <2>3. Stores' /\ Twin(j, sunk')
    BY <2>1, <2>2 DEF Stores, kind, Twin
  <2>4. Tied(j)'
    BY <2>3, TiedIs
  <2>5. QED
    BY <2>4 DEF Accounted
<1>5. QED
  BY <1>2, <1>3, <1>4 DEF Accounted

(* Steps that change neither buffer nor calls nor cache. *)
LEMMA FlagsSink ==
    ASSUME SinkInv, UNCHANGED <<instance, sunk, buffer, calls, cache, swapped, stuck>>,
           emit_ts' \in Seq(Int \cup {None}), Len(emit_ts') \in Len(emit_ts) .. instance.records,
           dumper' \in {"test", "swap", "done"}, closer' \in {"open", "test", "swap", "join", "closed"},
           closer' \in {"open", "test"} => closer \in {"open", "test"} /\ (dumper = "swap" => dumper' = "swap"),
           "swap" \in {dumper', closer'} => "swap" \in {dumper, closer}
    PROVE  SinkInv'
<1>1. SinkTypes'
  <2>1. sunk \in 0 .. Len(emit_ts')
    BY DEF SinkInv, SinkTypes
  <2>2. QED
    BY <2>1 DEF SinkInv, SinkTypes, kind, Buffers
<1>2. ListInv'
  BY DEF SinkInv, ListInv, kind
<1>3. StoreInv'
  BY DEF SinkInv, StoreInv, Stores, kind
<1>4. DictInv'
  BY DEF SinkInv, DictInv, kind, DictNotOlder
<1>5. LossInv'
  <2>1. Sent' = Sent /\ Stored' = Stored /\ kind' = kind /\ Sink' = Sink
    BY DEF Sent, Stored, kind, Sink
  <2>2. \A i \in 1 .. sunk : Accounted(i)' <=> Accounted(i)
    <3>1. \A i : Replaced(i)' <=> Replaced(i)
      BY DEF Replaced, kind, SameKeys
    <3>2. \A i : Tied(i)' <=> Tied(i)
      BY DEF Tied, kind, SameKeys
    <3>3. QED
      BY <2>1, <3>1, <3>2 DEF Accounted
  <2>3. \A i \in Range(buffer) : i \in 1 .. sunk
    BY DEF SinkInv, SinkTypes, Range
  <2>4. QED
    BY <2>1, <2>2, <2>3 DEF SinkInv, LossInv
<1>6. QED
  BY <1>1, <1>2, <1>3, <1>4, <1>5 DEF SinkInv

(* The buffer is sent. *)
LEMMA SendSink ==
    ASSUME SinkInv, UNCHANGED <<instance, emit_ts, sunk, buffer, cache, swapped, stuck>>,
           calls' = Append(calls, buffer),
           dumper' \in {"test", "swap", "done"}, closer' \in {"open", "test", "swap", "join", "closed"},
           closer' \in {"open", "test"} =>
             closer \in {"open", "test"} /\ dumper # "swap" /\ dumper' = "swap"
    PROVE  SinkInv'
<1> DEFINE N == Len(calls) + 1
<1>1. calls \in Seq(Seq(1 .. sunk)) /\ buffer \in Seq(1 .. sunk) /\ kind' = kind
  BY DEF SinkInv, SinkTypes, kind
<1>2. /\ calls' \in Seq(Seq(1 .. sunk)) /\ DOMAIN calls' = DOMAIN calls \cup {N}
      /\ calls'[N] = buffer
      /\ \A n \in DOMAIN calls : n \in Nat /\ n < N /\ calls'[n] = calls[n]
      /\ N \in Nat
  <2> DEFINE V == Seq(1 .. sunk)
  <2>1. calls \in Seq(V) /\ buffer \in V
    BY <1>1
  <2> HIDE DEF V
  <2>2. /\ Append(calls, buffer) \in Seq(V) /\ DOMAIN Append(calls, buffer) = DOMAIN calls \cup {N}
        /\ Append(calls, buffer)[N] = buffer
        /\ \A n \in DOMAIN calls : n \in Nat /\ n < N /\ Append(calls, buffer)[n] = calls[n]
        /\ Len(calls) \in Nat
    BY <2>1, AppendIs
  <2>3. QED
    BY <2>2 DEF V
<1> HIDE DEF N
<1>3. SinkTypes'
  BY <1>2 DEF SinkInv, SinkTypes, kind, Buffers
<1>4. ListInv'
  <2>1. SUFFICES ASSUME kind = "list", closer' \in {"open", "test"}
                 PROVE  ListInv'
    BY <1>1 DEF ListInv
  <2>2. /\ Rising(cache) /\ Rising(buffer)
        /\ \A n \in DOMAIN calls : Rising(calls[n]) /\ Below(cache, calls[n])
        /\ \A m, n \in DOMAIN calls : m < n => Below(calls[m], calls[n])
        /\ Below(cache, buffer) /\ \A n \in DOMAIN calls : Below(calls[n], buffer)
    BY <2>1 DEF SinkInv, ListInv
  <2>3. \A n \in DOMAIN calls' : Rising(calls'[n]) /\ Below(cache, calls'[n])
    BY <1>2, <2>2
  <2>4. ASSUME NEW m \in DOMAIN calls', NEW n \in DOMAIN calls', m < n
        PROVE  Below(calls'[m], calls'[n])
    <3>1. m \in DOMAIN calls
      BY <1>2, <2>4
    <3>2. QED
      BY <1>2, <2>2, <2>4, <3>1
  <2>5. QED
    BY <2>1, <2>2, <2>3, <2>4 DEF ListInv
<1>5. StoreInv'
  BY <1>2 DEF SinkInv, StoreInv, Stores, kind
<1>6. DictInv'
  <2>1. SUFFICES ASSUME kind = "dict"
                 PROVE  DictInv'
    BY <1>1 DEF DictInv
  <2>2. /\ \A k \in DOMAIN cache : cache[k] \in 1 .. sunk /\ Records[cache[k]].keys = k
        /\ OnePerKey(buffer) /\ DictNotOlder(buffer)
        /\ \A n \in DOMAIN calls : /\ OnePerKey(calls[n]) /\ DictNotOlder(calls[n])
                                   /\ NotOlder(calls[n], buffer)
        /\ \A m, n \in DOMAIN calls : m < n => NotOlder(calls[m], calls[n])
    BY <2>1 DEF SinkInv, DictInv
  <2>3. NotOlder(buffer, buffer)
    <3>1. \A n \in DOMAIN buffer : buffer[n] \in 1 .. sunk
      BY Zenon, <1>1, ElementIs
    <3>2. \A n \in DOMAIN buffer : buffer[n] <= buffer[n]
      BY <3>1
    <3>3. QED
      BY <2>2, <3>2 DEF OnePerKey, NotOlder
  <2>4. \A t : DictNotOlder(t)' <=> DictNotOlder(t)
    BY DEF DictNotOlder
  <2>5. \A n \in DOMAIN calls' : /\ OnePerKey(calls'[n]) /\ DictNotOlder(calls'[n])
                                 /\ NotOlder(calls'[n], buffer)
    BY <1>2, <2>2, <2>3
  <2>6. ASSUME NEW m \in DOMAIN calls', NEW n \in DOMAIN calls', m < n
        PROVE  NotOlder(calls'[m], calls'[n])
    <3>1. m \in DOMAIN calls
      BY <1>2, <2>6
    <3>2. QED
      BY <1>2, <2>2, <2>6, <3>1
  <2>7. QED
    BY <1>1, <2>1, <2>2, <2>4, <2>5, <2>6 DEF DictInv, DictNotOlder
<1>7. LossInv'
  <2>1. Stored' = Stored /\ Sink' = Sink /\ sunk \in Nat
    BY DEF SinkInv, SinkTypes, Stored, kind, Sink
  <2>2. Sent \subseteq Sent' /\ Range(buffer) \subseteq Sent'
    BY Zenon, <1>2, SentIs
  <2>3. \A i \in 1 .. sunk : Accounted(i) => Accounted(i)'
    BY <2>1, <2>2, AccountedGrows DEF SinkInv
  <2>4. \A i \in Range(buffer) : Accounted(i)'
    BY <2>2 DEF Accounted
  <2>5. QED
    BY <1>1, <2>1, <2>3, <2>4 DEF SinkInv, LossInv
<1>8. QED
  BY <1>3, <1>4, <1>5, <1>6, <1>7 DEF SinkInv

(* The buffer is replaced after it was sent. *)
LEMMA SwapSink ==
    ASSUME SinkInv, UNCHANGED <<instance, emit_ts, sunk, calls, cache, swapped, stuck>>,
           buffer' = <<>>, "swap" \in {dumper, closer},
           dumper' \in {"test", "swap", "done"}, closer' \in {"open", "test", "swap", "join", "closed"},
           closer' \in {"open", "test"} => closer \in {"open", "test"}
    PROVE  SinkInv'
<1>1. kind' = kind /\ buffer' \in Seq(1 .. sunk) /\ DOMAIN buffer' = {}
  BY DEF kind
<1>2. SinkTypes'
  BY <1>1 DEF SinkInv, SinkTypes, kind, Buffers
<1>3. ListInv'
  BY <1>1 DEF SinkInv, ListInv, Rising, Below
<1>4. StoreInv'
  BY <1>1 DEF SinkInv, StoreInv, Stores, Rising
<1>5. DictInv'
  <2>1. OnePerKey(buffer') /\ DictNotOlder(buffer') /\ \A s : NotOlder(s, buffer')
    BY Zenon, <1>1 DEF OnePerKey, DictNotOlder, NotOlder
  <2>2. QED
    BY <1>1, <2>1 DEF SinkInv, DictInv, DictNotOlder
<1>6. LossInv'
  <2>1. Sent' = Sent /\ Stored' = Stored /\ Sink' = Sink /\ sunk \in Nat
    BY DEF SinkInv, SinkTypes, Sent, Stored, kind, Sink
  <2>2. \A i \in 1 .. sunk : Accounted(i) => Accounted(i)'
    BY <2>1, AccountedGrows DEF SinkInv
  <2>3. \A i \in Range(buffer) : Accounted(i)
    BY DEF SinkInv, LossInv
  <2>4. Range(buffer') = {}
    BY <1>1 DEF Range
  <2>5. QED
    BY <1>1, <2>1, <2>2, <2>3, <2>4 DEF SinkInv, LossInv
<1>7. QED
  BY <1>2, <1>3, <1>4, <1>5, <1>6 DEF SinkInv

(* A record goes into the buffer. *)
LEMMA BufferedIs ==
    ASSUME SinkInv, Buffers, NEW i, i = sunk + 1, i <= Len(Records)
    PROVE  /\ Buffered(i) \in Seq(1 .. i)
           /\ i \in Range(Buffered(i))
           /\ \A n \in DOMAIN Buffered(i) : \/ Buffered(i)[n] = i
                                            \/ n \in DOMAIN buffer /\ Buffered(i)[n] = buffer[n]
           /\ \A n \in DOMAIN buffer : \/ buffer[n] \in Range(Buffered(i))
                                       \/ kind = "dict" /\ SameKeys(buffer[n], i)
           /\ kind # "dict" /\ Rising(buffer) => Rising(Buffered(i))
           /\ kind = "dict" => OnePerKey(Buffered(i))
<1>1. /\ sunk \in Nat /\ buffer \in Seq(1 .. sunk) /\ buffer \in Seq(1 .. i) /\ i \in 1 .. i
      /\ \A n \in DOMAIN buffer : buffer[n] \in 1 .. sunk /\ buffer[n] < i
  <2>1. sunk \in Nat /\ buffer \in Seq(1 .. sunk)
    BY DEF SinkInv, SinkTypes
  <2>2. 1 .. sunk \subseteq 1 .. i /\ \A j \in 1 .. sunk : j < i
    BY <2>1
  <2>3. \A n \in DOMAIN buffer : buffer[n] \in 1 .. sunk
    BY Zenon, <2>1, ElementIs
  <2>4. buffer \in Seq(1 .. i)
    BY <2>1, <2>2, SeqWiden
  <2>5. QED
    BY <2>1, <2>2, <2>3, <2>4
<1>2. kind = "dict" => OnePerKey(buffer)
  BY DEF SinkInv, DictInv
<1>3. CASE kind = "dict" /\ HasKeys(i)
  <2> DEFINE new == Overwritten(i)
  <2>1. Buffered(i) = new
    BY <1>3 DEF Buffered
  <2>2. /\ DOMAIN new = DOMAIN buffer
        /\ \A n \in DOMAIN buffer : new[n] = IF SameKeys(buffer[n], i) THEN i ELSE buffer[n]
    BY DEF Overwritten
  <2>3. new \in Seq(1 .. i)
    BY <1>1 DEF Overwritten
  <2> HIDE DEF new
  <2>4. i \in Range(new)
    BY <1>3, <2>2 DEF HasKeys, Range
  <2>5. \A n \in DOMAIN buffer : buffer[n] \in Range(new) \/ SameKeys(buffer[n], i)
    BY <2>2 DEF Range
  <2>6. OnePerKey(new)
    <3>1. \A n \in DOMAIN buffer : Records[new[n]].keys = Records[buffer[n]].keys
      BY <2>2 DEF SameKeys
    <3>2. QED
      BY <1>2, <1>3, <2>2, <3>1 DEF OnePerKey, SameKeys
  <2>7. \A n \in DOMAIN new : new[n] = i \/ (n \in DOMAIN buffer /\ new[n] = buffer[n])
    BY <2>2
  <2>8. QED
    BY <1>3, <2>1, <2>3, <2>4, <2>5, <2>6, <2>7
<1>4. CASE ~(kind = "dict" /\ HasKeys(i))
  <2> DEFINE new == Append(buffer, i)
             N == Len(buffer) + 1
  <2>1. Buffered(i) = new
    BY <1>4 DEF Buffered
  <2>2. /\ new \in Seq(1 .. i) /\ DOMAIN new = DOMAIN buffer \cup {N} /\ new[N] = i
        /\ \A n \in DOMAIN buffer : n \in Nat /\ n < N /\ new[n] = buffer[n]
        /\ N \in Nat
    <3> DEFINE V == 1 .. i
    <3>1. buffer \in Seq(V) /\ i \in V
      BY <1>1
    <3> HIDE DEF V
    <3>2. /\ new \in Seq(V) /\ DOMAIN new = DOMAIN buffer \cup {N} /\ new[N] = i
          /\ \A n \in DOMAIN buffer : n \in Nat /\ n < N /\ new[n] = buffer[n]
          /\ Len(buffer) \in Nat
      BY <3>1, AppendIs
    <3>3. QED
      BY <3>2 DEF V
  <2> HIDE DEF new, N
  <2>3. i \in Range(new) /\ \A n \in DOMAIN buffer : buffer[n] \in Range(new)
    BY <2>2 DEF Range
  <2>4. Rising(buffer) => Rising(new)
    <3>1. ASSUME Rising(buffer), NEW m \in DOMAIN new, NEW n \in DOMAIN new, m < n
          PROVE  new[m] < new[n]
      <4>1. m \in DOMAIN buffer
        BY <2>2, <3>1
      <4>2. CASE n \in DOMAIN buffer
        BY <2>2, <3>1, <4>1, <4>2 DEF Rising
      <4>3. CASE n = N
        BY <1>1, <2>2, <4>1, <4>3
      <4>4. QED
        BY <2>2, <4>2, <4>3
    <3>2. QED
      BY <3>1 DEF Rising
  <2>5. kind = "dict" => OnePerKey(new)
    <3>1. SUFFICES ASSUME kind = "dict", NEW m \in DOMAIN new, NEW n \in DOMAIN new,
                          SameKeys(new[m], new[n])
                   PROVE  m = n
      BY DEF OnePerKey
    <3>2. \A k \in DOMAIN buffer : ~SameKeys(buffer[k], i) /\ ~SameKeys(i, buffer[k])
      BY <1>4, <3>1 DEF HasKeys, SameKeys
    <3>3. QED
      BY <1>2, <2>2, <3>1, <3>2 DEF OnePerKey
  <2>6. \A n \in DOMAIN new : new[n] = i \/ (n \in DOMAIN buffer /\ new[n] = buffer[n])
    BY <2>2
  <2>7. QED
    BY <2>1, <2>2, <2>3, <2>4, <2>5, <2>6
<1>5. QED
  BY <1>3, <1>4

(* Sequences over the records before, and over one more. *)
LEMMA MoreSunk ==
    ASSUME SinkTypes, NEW i, i = sunk + 1
    PROVE  /\ i \in Nat /\ 1 .. sunk \subseteq 1 .. i /\ i \in 1 .. i
           /\ calls \in Seq(Seq(1 .. i)) /\ buffer \in Seq(1 .. i)
           /\ kind = "list" => cache \in Seq(1 .. i)
           /\ \A n \in DOMAIN calls : \A m \in DOMAIN calls[n] : calls[n][m] \in Nat /\ calls[n][m] < i
<1>1. sunk \in Nat
  BY DEF SinkTypes
<1>2. i \in Nat /\ 1 .. sunk \subseteq 1 .. i /\ i \in 1 .. i /\ \A j \in 1 .. sunk : j \in Nat /\ j < i
  BY <1>1
<1>3. Seq(1 .. sunk) \subseteq Seq(1 .. i)
  BY Zenon, <1>2, SeqWiden
<1>4. calls \in Seq(Seq(1 .. sunk)) /\ buffer \in Seq(1 .. sunk)
  BY DEF SinkTypes
<1>5. \A n \in DOMAIN calls : calls[n] \in Seq(1 .. sunk)
  BY Zenon, <1>4, ElementIs
<1>6. \A n \in DOMAIN calls : \A m \in DOMAIN calls[n] : calls[n][m] \in 1 .. sunk
  BY Zenon, <1>5, ElementIs
<1>7. calls \in Seq(Seq(1 .. i))
  BY <1>3, <1>4, SeqWiden
<1>8. QED
  BY <1>2, <1>3, <1>4, <1>6, <1>7 DEF SinkTypes

(* A storage of the first N records is one of the first M. *)
LEMMA FiledWiden ==
    ASSUME NEW pk, NEW N \in Nat, NEW M \in Nat, N <= M, Filed(pk, N)
    PROVE  Filed(pk, M)
<1>1. Filings(N) \subseteq Filings(M)
  BY DEF Filings
<1>2. Seq(Filings(N)) \subseteq Seq(Filings(M))
  BY Zenon, <1>1, SeqWiden
<1>3. QED
  BY <1>2 DEF Filed

(* One more record has come to the sink. *)
LEMMA ProcessAll ==
    ASSUME SinkInv, Process, NEW i, i = sunk + 1
    PROVE  /\ sunk \in Nat /\ sunk' = i /\ i \in 1 .. Len(emit_ts) /\ i <= Len(Records)
           /\ kind' = kind /\ (Buffers' <=> Buffers) /\ (Stores' <=> Stores)
           /\ Stored' = Stored /\ Sink' = Sink /\ Sink \notin stuck
           /\ UNCHANGED <<instance, emit_ts, dumper, closer, cache>>
           /\ Stores => Filed(cache.per_key, i)
           /\ kind = "dict" => \A k \in DOMAIN cache : cache[k] \in 1 .. i /\ Records[cache[k]].keys = k
           /\ Sent \subseteq Sent' /\ swapped \subseteq swapped' =>
                \A j \in 1 .. sunk : Accounted(j) => Accounted(j)'
<1>1. /\ sunk' = i /\ sunk < Len(emit_ts) /\ Sink \notin stuck
      /\ UNCHANGED <<instance, emit_ts, dumper, closer, cache>>
  BY DEF Process
<1>2. /\ sunk \in Nat /\ Len(emit_ts) \in Nat /\ Len(emit_ts) <= instance.records
      /\ instance \in Instances
  BY DEF SinkInv, SinkTypes
<1>3. instance.records \in 0 .. Len(Records) /\ Len(Records) \in Nat
  BY <1>2, SinksAssumption
<1>4. i \in 1 .. Len(emit_ts) /\ i <= Len(Records) /\ i \in Nat /\ sunk <= i
  BY ONLY <1>1, <1>2, <1>3, i = sunk + 1
<1>5. /\ kind' = kind /\ (Buffers' <=> Buffers) /\ (Stores' <=> Stores)
      /\ Stored' = Stored /\ Sink' = Sink
  BY <1>1 DEF kind, Buffers, Stores, Stored, Sink
<1>6. Stores => Filed(cache.per_key, i)
  BY <1>2, <1>4, FiledWiden DEF SinkInv, StoreInv
<1>7. kind = "dict" => \A k \in DOMAIN cache : cache[k] \in 1 .. i /\ Records[cache[k]].keys = k
  <2>1. 1 .. sunk \subseteq 1 .. i
    BY <1>2, <1>4
  <2>2. QED
    BY <2>1 DEF SinkInv, DictInv
<1>8. Sent \subseteq Sent' /\ swapped \subseteq swapped' =>
        \A j \in 1 .. sunk : Accounted(j) => Accounted(j)'
  BY <1>1, <1>2, <1>4, <1>5, AccountedGrows DEF SinkInv
<1>9. QED
  BY <1>1, <1>2, <1>4, <1>5, <1>6, <1>7, <1>8

(* The thread of the sink is gone with the record. *)
LEMMA StuckSink ==
    ASSUME SinkInv, Process, Sink \in stuck'
    PROVE  SinkInv'
<1> DEFINE i == sunk + 1
<1>1. UNCHANGED <<buffer, calls, swapped>>
  BY DEF Process
<1>2. /\ sunk \in Nat /\ sunk' = i /\ i \in 1 .. Len(emit_ts)
      /\ kind' = kind /\ (Buffers' <=> Buffers) /\ (Stores' <=> Stores)
      /\ Sink' = Sink /\ Sink \notin stuck
      /\ UNCHANGED <<instance, emit_ts, dumper, closer, cache>>
      /\ Stores => Filed(cache.per_key, i)
      /\ kind = "dict" => \A k \in DOMAIN cache : cache[k] \in 1 .. i /\ Records[cache[k]].keys = k
      /\ Sent \subseteq Sent' /\ swapped \subseteq swapped' =>
           \A j \in 1 .. sunk : Accounted(j) => Accounted(j)'
  BY ProcessAll
<1>3. /\ calls \in Seq(Seq(1 .. i)) /\ buffer \in Seq(1 .. i)
      /\ kind = "list" => cache \in Seq(1 .. i)
  BY MoreSunk DEF SinkInv
<1> HIDE DEF i
<1>4. SinkTypes'
  <2>1. i \in 0 .. Len(emit_ts)
    BY <1>2
  <2>2. QED
    BY <1>1, <1>2, <1>3, <2>1 DEF SinkInv, SinkTypes
<1>5. ListInv'
  BY Zenon, <1>1, <1>2 DEF SinkInv, ListInv
<1>6. StoreInv'
  BY <1>1, <1>2 DEF SinkInv, StoreInv
<1>7. DictInv'
  BY Zenon, <1>1, <1>2 DEF SinkInv, DictInv, DictNotOlder
<1>8. LossInv'
  <2>1. \A j \in 1 .. sunk : Accounted(j) => Accounted(j)'
    BY Zenon, <1>1, <1>2 DEF Sent
  <2>2. \A j \in 1 .. i : j \in 1 .. sunk \/ j = i
    BY <1>2 DEF i
  <2>3. \A j \in 1 .. sunk : \/ j \in Range(buffer) \/ Accounted(j)
                             \/ kind = "simple"
    BY <1>2 DEF SinkInv, LossInv
  <2>4. \A j \in 1 .. i : \/ j \in Range(buffer') \/ Accounted(j)'
                          \/ kind' = "simple" \/ (j = sunk' /\ Sink' \in stuck')
    BY <1>1, <1>2, <2>1, <2>2, <2>3
  <2>5. \A j \in Range(buffer) : j \in 1 .. sunk
    <3>1. buffer \in Seq(1 .. sunk)
      BY DEF SinkInv, SinkTypes
    <3>2. \A n \in DOMAIN buffer : buffer[n] \in 1 .. sunk
      BY Zenon, <3>1, ElementIs
    <3>3. QED
      BY <3>2 DEF Range
  <2>6. "swap" \in {dumper', closer'} => \A j \in Range(buffer') : Accounted(j)'
    BY <1>1, <1>2, <2>1, <2>5 DEF SinkInv, LossInv
  <2>7. QED
    BY Zenon, <1>2, <2>4, <2>6 DEF LossInv
<1>9. QED
  BY <1>4, <1>5, <1>6, <1>7, <1>8 DEF SinkInv

(* A record goes at once to the storage, or nowhere. *)
LEMMA CallSink ==
    ASSUME SinkInv, Process, Sink \notin stuck', ~Buffers
    PROVE  SinkInv'
<1> DEFINE i == sunk + 1
           N == Len(calls) + 1
<1>1. /\ UNCHANGED <<buffer, swapped>>
      /\ calls' = IF kind = "single" THEN Append(calls, <<i>>) ELSE calls
  BY DEF Process
<1>2. /\ sunk \in Nat /\ sunk' = i /\ i \in 1 .. Len(emit_ts)
      /\ kind' = kind /\ (Buffers' <=> Buffers) /\ (Stores' <=> Stores)
      /\ Sink \notin stuck
      /\ UNCHANGED <<instance, emit_ts, dumper, closer, cache>>
      /\ Stores => Filed(cache.per_key, i)
      /\ Sent \subseteq Sent' /\ swapped \subseteq swapped' =>
           \A j \in 1 .. sunk : Accounted(j) => Accounted(j)'
  BY ProcessAll
<1>3. /\ calls \in Seq(Seq(1 .. i)) /\ buffer \in Seq(1 .. i) /\ i \in 1 .. i /\ i \in Nat
  BY MoreSunk DEF SinkInv
<1>4. kind \in {"single", "simple"} /\ buffer = <<>>
  <2>1. instance.kind \in {"bulk", "single", "list", "dict", "simple"}
    BY SinksAssumption DEF SinkInv, SinkTypes
  <2>2. QED
    BY <2>1 DEF kind, Buffers, SinkInv, SinkTypes
<1>5. kind = "single" => /\ calls' \in Seq(Seq(1 .. i)) /\ DOMAIN calls' = DOMAIN calls \cup {N}
                         /\ calls'[N] = <<i>>
                         /\ \A n \in DOMAIN calls : calls'[n] = calls[n]
  <2> DEFINE V == Seq(1 .. i)
             one == <<i>>
  <2>1. calls \in Seq(V) /\ one \in V
    BY <1>3
  <2> HIDE DEF V, one
  <2>2. /\ Append(calls, one) \in Seq(V) /\ DOMAIN Append(calls, one) = DOMAIN calls \cup {N}
        /\ Append(calls, one)[N] = one
        /\ \A n \in DOMAIN calls : Append(calls, one)[n] = calls[n]
    BY <2>1, AppendIs
  <2>3. QED
    BY <1>1, <2>2 DEF V, one
<1> HIDE DEF i, N
<1>6. SinkTypes'
  <2>1. i \in 0 .. Len(emit_ts)
    BY <1>2
  <2>2. QED
    BY <1>1, <1>2, <1>3, <1>4, <1>5, <2>1 DEF SinkInv, SinkTypes
<1>7. ListInv' /\ DictInv'
  BY Zenon, <1>2, <1>4 DEF ListInv, DictInv
<1>8. StoreInv'
  <2>1. Rising(<<i>>) /\ Rising(buffer')
    BY <1>1, <1>4 DEF Rising
  <2>2. kind = "single" => \A n \in DOMAIN calls' : Rising(calls'[n])
    BY Zenon, <1>5, <2>1 DEF SinkInv, StoreInv, Stores
  <2>3. QED
    BY <1>2, <1>4, <2>1, <2>2 DEF StoreInv, Stores
<1>9. LossInv'
  <2>1. \A j \in Range(buffer') : FALSE
    BY <1>1, <1>4 DEF Range
  <2>2. SUFFICES ASSUME kind = "single", NEW j \in 1 .. i
                 PROVE  Accounted(j)'
    BY <1>2, <1>4, <2>1 DEF LossInv
  <2>3. Sent \subseteq Sent' /\ i \in Sent'
    <3>1. i \in Range(<<i>>)
      BY DEF Range
    <3>2. QED
      BY <1>5, <2>2, <3>1, SentIs
  <2>4. CASE j = i
    BY <2>3, <2>4 DEF Accounted
  <2>5. CASE j \in 1 .. sunk
    <3>1. j \notin Range(buffer)
      BY <1>4 DEF Range
    <3>2. Accounted(j)
      BY <1>2, <2>2, <2>5, <3>1 DEF SinkInv, LossInv
    <3>3. QED
      BY <1>1, <1>2, <2>3, <2>5, <3>2
  <2>6. j \in 1 .. sunk \/ j = i
    BY <1>2 DEF i
  <2>7. QED
    BY <2>4, <2>5, <2>6
<1>10. QED
  BY <1>6, <1>7, <1>8, <1>9 DEF SinkInv

(* A record goes into the buffer, which may have been sent already. *)
LEMMA BufferSink ==
    ASSUME SinkInv, Process, Sink \notin stuck', Buffers
    PROVE  SinkInv'
<1> DEFINE i == sunk + 1
<1>1. /\ buffer' = Buffered(i) /\ UNCHANGED calls
      /\ swapped' = IF "swap" \in {dumper, closer} THEN swapped \cup {i} ELSE swapped
  BY DEF Process
<1>2. /\ sunk \in Nat /\ sunk' = i /\ i \in 1 .. Len(emit_ts) /\ i <= Len(Records)
      /\ kind' = kind /\ (Buffers' <=> Buffers) /\ (Stores' <=> Stores)
      /\ Sink \notin stuck
      /\ UNCHANGED <<instance, emit_ts, dumper, closer, cache>>
      /\ Stores => Filed(cache.per_key, i)
      /\ kind = "dict" => \A k \in DOMAIN cache : cache[k] \in 1 .. i /\ Records[cache[k]].keys = k
      /\ Sent \subseteq Sent' /\ swapped \subseteq swapped' =>
           \A j \in 1 .. sunk : Accounted(j) => Accounted(j)'
  BY ProcessAll
<1>3. /\ calls \in Seq(Seq(1 .. i)) /\ i \in 1 .. i /\ i \in Nat
      /\ kind = "list" => cache \in Seq(1 .. i)
      /\ \A n \in DOMAIN calls : \A m \in DOMAIN calls[n] : calls[n][m] \in Nat /\ calls[n][m] < i
  BY MoreSunk DEF SinkInv
<1>4. /\ buffer' \in Seq(1 .. i)
      /\ i \in Range(buffer')
      /\ \A n \in DOMAIN buffer' : buffer'[n] = i \/ (n \in DOMAIN buffer /\ buffer'[n] = buffer[n])
      /\ \A n \in DOMAIN buffer : \/ buffer[n] \in Range(buffer')
                                  \/ kind = "dict" /\ SameKeys(buffer[n], i)
      /\ kind # "dict" /\ Rising(buffer) => Rising(buffer')
      /\ kind = "dict" => OnePerKey(buffer')
  BY Zenon, <1>1, <1>2, BufferedIs
<1>5. \A n \in DOMAIN buffer : buffer[n] \in 1 .. sunk
  <2>1. buffer \in Seq(1 .. sunk)
    BY DEF SinkInv, SinkTypes
  <2>2. QED
    BY Zenon, <2>1, ElementIs
<1>6. \A j \in 1 .. i : j \in 1 .. sunk \/ j = i
  BY <1>2
<1>7. \A j \in 1 .. sunk : j \in Nat /\ j < i /\ i \in j + 1 .. i
  BY <1>2
<1>a. i \in 0 .. Len(emit_ts)
  BY <1>2, <1>3
<1> HIDE DEF i
<1>8. SinkTypes'
  <2>1. i \in 0 .. Len(emit_ts)
    BY <1>a
  <2>2. QED
    BY Zenon, <1>1, <1>2, <1>3, <1>4, <2>1 DEF SinkInv, SinkTypes
<1>9. ListInv'
  <2>1. SUFFICES ASSUME kind = "list", closer \in {"open", "test"}
                 PROVE  ListInv'
    BY Zenon, <1>2 DEF ListInv
  <2>2. /\ Rising(cache) /\ Rising(buffer)
        /\ \A n \in DOMAIN calls : Rising(calls[n]) /\ Below(cache, calls[n])
        /\ \A m, n \in DOMAIN calls : m < n => Below(calls[m], calls[n])
        /\ dumper # "swap" => /\ Below(cache, buffer)
                              /\ \A n \in DOMAIN calls : Below(calls[n], buffer)
    BY <2>1 DEF SinkInv, ListInv
  <2>3. \A m \in DOMAIN cache : cache[m] < i
    <3>1. cache \in Seq(1 .. sunk)
      BY <2>1 DEF SinkInv, SinkTypes
    <3>2. \A m \in DOMAIN cache : cache[m] \in 1 .. sunk
      BY Zenon, <3>1, ElementIs
    <3>3. QED
      BY <1>7, <3>2
  <2>4. dumper # "swap" => /\ Below(cache, buffer')
                           /\ \A n \in DOMAIN calls : Below(calls[n], buffer')
    BY Zenon, <1>3, <1>4, <2>2, <2>3 DEF Below
  <2>5. QED
    BY Zenon, <1>1, <1>2, <1>4, <2>1, <2>2, <2>4 DEF ListInv
<1>10. StoreInv'
  BY Zenon, <1>1, <1>2, <1>4 DEF SinkInv, StoreInv, Stores
<1>11. DictInv'
  <2>1. SUFFICES ASSUME kind = "dict"
                 PROVE  DictInv'
    BY Zenon, <1>2 DEF DictInv
  <2>2. /\ OnePerKey(buffer) /\ DictNotOlder(buffer)
        /\ \A n \in DOMAIN calls : /\ OnePerKey(calls[n]) /\ DictNotOlder(calls[n])
                                   /\ NotOlder(calls[n], buffer)
        /\ \A m, n \in DOMAIN calls : m < n => NotOlder(calls[m], calls[n])
    BY Zenon, <2>1 DEF SinkInv, DictInv
  <2>3. \A k \in DOMAIN cache : cache[k] <= i
    BY <1>2, <1>3, <2>1
  <2>4. DictNotOlder(buffer')
    BY Zenon, <1>4, <2>2, <2>3 DEF DictNotOlder
  <2>5. \A n \in DOMAIN calls : NotOlder(calls[n], buffer')
    <3>1. \A n \in DOMAIN calls : \A m \in DOMAIN calls[n] : calls[n][m] <= i
      BY <1>3
    <3>2. QED
      BY Zenon, <1>4, <2>2, <3>1 DEF NotOlder
  <2>6. \A t : DictNotOlder(t)' <=> DictNotOlder(t)
    BY Zenon, <1>2 DEF DictNotOlder
  <2>7. QED
    BY Zenon, <1>1, <1>2, <1>4, <2>1, <2>2, <2>4, <2>5 DEF DictInv, DictNotOlder
<1>12. LossInv'
  <2>1. \A j \in 1 .. sunk : Accounted(j) => Accounted(j)'
    BY <1>1, <1>2 DEF Sent
  <2>2. ASSUME NEW j \in 1 .. i
        PROVE  j \in Range(buffer') \/ Accounted(j)' \/ kind' = "simple"
    <3>1. CASE j = i
      BY <1>4, <3>1
    <3>2. CASE j \in 1 .. sunk
      <4>1. j \in Range(buffer) \/ Accounted(j) \/ kind = "simple"
        BY <1>2, <3>2 DEF SinkInv, LossInv
      <4>2. CASE j \in Range(buffer)
        <5>1. j \in Range(buffer') \/ (kind = "dict" /\ SameKeys(j, i))
          BY <1>4, <4>2 DEF Range
        <5>2. kind = "dict" /\ SameKeys(j, i) => Replaced(j)'
          BY <1>2, <1>7, <3>2 DEF Replaced, SameKeys
        <5>3. QED
          BY <5>1, <5>2 DEF Accounted
      <4>3. QED
        BY Zenon, <1>2, <2>1, <3>2, <4>1, <4>2
    <3>3. QED
      BY <1>6, <3>1, <3>2
  <2>3. ASSUME "swap" \in {dumper', closer'}, NEW j \in Range(buffer')
        PROVE  Accounted(j)'
    <3>1. "swap" \in {dumper, closer} /\ i \in swapped'
      BY <1>1, <1>2, <2>3
    <3>2. j = i \/ j \in Range(buffer)
      BY <1>4 DEF Range
    <3>3. CASE j = i
      BY <3>1, <3>3 DEF Accounted
    <3>4. CASE j \in Range(buffer)
      <4>1. j \in 1 .. sunk
        BY <1>5, <3>4 DEF Range
      <4>2. Accounted(j)
        BY <3>1, <3>4 DEF SinkInv, LossInv
      <4>3. QED
        BY <2>1, <4>1, <4>2
    <3>5. QED
      BY <3>2, <3>3, <3>4
  <2>4. QED
    BY <1>2, <2>2, <2>3 DEF LossInv
<1>13. QED
  BY <1>8, <1>9, <1>10, <1>11, <1>12 DEF SinkInv

(* A record comes to the sink. *)
LEMMA ProcessSink ==
    ASSUME SinkInv, Process
    PROVE  SinkInv'
BY StuckSink, CallSink, BufferSink

(* The first call leaves the queue. *)
LEMMA ServeAll ==
    ASSUME SinkInv, ServeCall
    PROVE  /\ calls # <<>> /\ 1 \in DOMAIN calls /\ Head(calls) = calls[1]
           /\ Head(calls) \in Seq(1 .. sunk) /\ calls' \in Seq(Seq(1 .. sunk))
           /\ \A n \in DOMAIN calls' : /\ n \in Nat /\ n + 1 \in DOMAIN calls /\ calls'[n] = calls[n + 1]
                                       /\ 1 < n + 1
           /\ \A n \in DOMAIN calls : n = 1 \/ (n - 1 \in DOMAIN calls' /\ calls[n] = calls'[n - 1])
           /\ UNCHANGED <<instance, emit_ts, sunk, buffer, dumper, closer, swapped, stuck>>
           /\ kind' = kind /\ sunk \in 0 .. Len(Records)
<1>1. /\ calls # <<>> /\ calls' = Tail(calls)
      /\ UNCHANGED <<instance, emit_ts, sunk, buffer, dumper, closer, swapped, stuck>>
  <2>1. UNCHANGED statsVars
    BY DEF ServeCall
  <2>2. UNCHANGED stuck
    BY <2>1 DEF statsVars, workerVars
  <2>3. QED
    BY <2>2 DEF ServeCall
<1>2. /\ sunk \in Nat /\ sunk <= Len(emit_ts) /\ Len(emit_ts) \in Nat
      /\ Len(emit_ts) <= instance.records /\ instance \in Instances
  BY DEF SinkInv, SinkTypes
<1>3. instance.records \in 0 .. Len(Records) /\ Len(Records) \in Nat
  BY <1>2, SinksAssumption
<1>4. sunk \in 0 .. Len(Records)
  BY ONLY <1>2, <1>3
<1>5. kind' = kind
  BY <1>1 DEF kind
<1>6. calls \in Seq(Seq(1 .. sunk))
  BY DEF SinkInv, SinkTypes
<1> DEFINE V == Seq(1 .. sunk)
<1>7. calls \in Seq(V)
  BY <1>6
<1> HIDE DEF V
<1>8. /\ 1 \in DOMAIN calls /\ Head(calls) = calls[1] /\ Head(calls) \in V /\ Tail(calls) \in Seq(V)
      /\ \A n \in DOMAIN Tail(calls) : /\ n \in Nat /\ n + 1 \in DOMAIN calls
                                       /\ Tail(calls)[n] = calls[n + 1] /\ n + 1 > 1
      /\ \A n \in DOMAIN calls : n = 1 \/ (n - 1 \in DOMAIN Tail(calls) /\ calls[n] = Tail(calls)[n - 1])
  BY <1>1, <1>7, TailIs
<1>9. \A n \in Nat : n + 1 > 1 <=> 1 < n + 1
  OBVIOUS
<1>10. QED
  BY <1>1, <1>4, <1>5, <1>8, <1>9 DEF V

(* A record that the actor takes or held needs the buffer no more. *)
LEMMA ServeLoss ==
    ASSUME SinkInv, ServeCall,
           \A i \in Stored : i \in Stored' \/ Replaced(i),
           \A i \in Range(Head(calls)) : i \in Stored' \/ \E j \in 1 .. i : Tied(j)
    PROVE  LossInv'
<1>1. /\ 1 \in DOMAIN calls /\ Head(calls) = calls[1]
      /\ \A n \in DOMAIN calls : n = 1 \/ (n - 1 \in DOMAIN calls' /\ calls[n] = calls'[n - 1])
      /\ UNCHANGED <<instance, sunk, buffer, dumper, closer, swapped, stuck>>
      /\ kind' = kind
  BY ServeAll
<1>2. Sink' = Sink
  BY DEF Sink
<1>3. \A i : (Replaced(i)' <=> Replaced(i)) /\ (Tied(i)' <=> Tied(i))
  BY <1>1 DEF Replaced, Tied, SameKeys
<1>4. \A i \in Sent : i \in Sent' \/ i \in Range(Head(calls))
  BY Zenon, <1>1, SentIs
<1>5. \A i : Accounted(i) => Accounted(i)'
  BY <1>1, <1>3, <1>4 DEF Accounted
<1>6. QED
  BY <1>1, <1>2, <1>5 DEF SinkInv, LossInv

(* What is the same for every kind of sink. *)
LEMMA ServeTypes ==
    ASSUME SinkInv, ServeCall, kind = "list" => cache' \in Seq(1 .. sunk)
    PROVE  SinkTypes'
<1>1. /\ calls' \in Seq(Seq(1 .. sunk))
      /\ UNCHANGED <<instance, emit_ts, sunk, buffer, dumper, closer, swapped, stuck>>
      /\ kind' = kind
  BY ServeAll
<1>2. QED
  BY <1>1 DEF SinkInv, SinkTypes, Buffers

(* The storage takes a batch. *)
LEMMA StorageServes ==
    ASSUME SinkInv, ServeCall, Stores
    PROVE  SinkInv'
<1> DEFINE ids == Head(calls)
<1>1. /\ 1 \in DOMAIN calls /\ ids = calls[1] /\ ids \in Seq(1 .. sunk)
      /\ \A n \in DOMAIN calls' : n + 1 \in DOMAIN calls /\ calls'[n] = calls[n + 1]
      /\ UNCHANGED <<instance, sunk, buffer>>
      /\ kind' = kind /\ sunk \in 0 .. Len(Records)
  BY ServeAll
<1>2. cache' = put_records(cache, RecordsOf(ids))
  BY DEF ServeCall, Stores
<1>3. /\ Filed(cache.per_key, sunk) /\ Rising(buffer)
      /\ \A n \in DOMAIN calls : Rising(calls[n])
  BY DEF SinkInv, StoreInv
<1> HIDE DEF ids
<1>4. /\ Filed(cache'.per_key, sunk)
      /\ \A j \in Holding(cache) : j \in Holding(cache')
      /\ \A l \in DOMAIN ids : Taken(l, ids, cache', sunk)
  BY Zenon, <1>1, <1>2, <1>3, put_recordsIs
<1>5. Stored = Holding(cache) /\ Stored' = Holding(cache')
  BY <1>1 DEF Stored, Holding, Stores
<1>6. \A i \in Range(ids) : i \in Stored' \/ \E j \in 1 .. i : Tied(j)
  <2>1. \A j : Twin(j, sunk) => Tied(j)
    BY TiedIs
  <2>2. QED
    BY <1>4, <1>5, <2>1 DEF Taken, Range
<1>7. LossInv'
  BY <1>4, <1>5, <1>6, ServeLoss DEF ids
<1>8. StoreInv'
  BY <1>1, <1>3, <1>4 DEF StoreInv
<1>9. kind # "list" /\ kind # "dict"
  BY DEF Stores
<1>10. ListInv' /\ DictInv'
  BY <1>1, <1>9 DEF ListInv, DictInv
<1>11. SinkTypes'
  BY <1>9, ServeTypes
<1>12. QED
  BY <1>7, <1>8, <1>10, <1>11 DEF SinkInv

(* The list is extended. *)
LEMMA ListServes ==
    ASSUME SinkInv, ServeCall, kind = "list"
    PROVE  SinkInv'
<1> DEFINE ids == Head(calls)
           L == Len(cache)
<1>1. /\ 1 \in DOMAIN calls /\ ids = calls[1] /\ ids \in Seq(1 .. sunk)
      /\ \A n \in DOMAIN calls' : /\ n \in Nat /\ n + 1 \in DOMAIN calls /\ calls'[n] = calls[n + 1]
                                  /\ 1 < n + 1
      /\ UNCHANGED <<instance, sunk, buffer, dumper, closer>>
      /\ kind' = kind
  BY ServeAll
<1>2. cache' = cache \o ids /\ cache \in Seq(1 .. sunk)
  BY Zenon DEF ServeCall, SinkInv, SinkTypes
<1> HIDE DEF ids
<1>3. cache' \in Seq(1 .. sunk) /\ L \in Nat /\ Concatenates(cache', cache, ids, L)
  <2> DEFINE V == 1 .. sunk
  <2>1. cache \in Seq(V) /\ ids \in Seq(V)
    BY <1>1, <1>2
  <2> HIDE DEF V
  <2>2. cache \o ids \in Seq(V) /\ L \in Nat /\ Concatenates(cache \o ids, cache, ids, L)
    BY Zenon, <2>1, ConcatIs
  <2>3. QED
    BY Zenon, <1>2, <2>2 DEF V
<1> HIDE DEF L
<1>4. /\ cache' \in Seq(1 .. sunk) /\ L \in Nat
      /\ \A n \in DOMAIN cache' : \/ n \in DOMAIN cache /\ cache'[n] = cache[n]
                                  \/ n > L /\ n - L \in DOMAIN ids /\ cache'[n] = ids[n - L]
      /\ \A n \in DOMAIN cache : n \in Nat /\ n <= L /\ n \in DOMAIN cache' /\ cache'[n] = cache[n]
      /\ \A n \in DOMAIN ids : n \in Nat /\ L + n \in DOMAIN cache' /\ cache'[L + n] = ids[n]
  BY Zenon, <1>3 DEF Concatenates
<1>5. Stored = {cache[k] : k \in DOMAIN cache} /\ Stored' = {cache'[k] : k \in DOMAIN cache'}
  BY <1>1 DEF Stored
<1>6. (\A i \in Stored : i \in Stored') /\ (\A i \in Range(ids) : i \in Stored')
  BY <1>4, <1>5 DEF Range
<1>7. LossInv'
  BY <1>6, ServeLoss DEF ids
<1>8. SinkTypes'
  BY <1>4, ServeTypes
<1>9. StoreInv' /\ DictInv'
  BY <1>1 DEF StoreInv, Stores, DictInv
<1>10. ListInv'
  <2>1. SUFFICES ASSUME closer \in {"open", "test"}
                 PROVE  ListInv'
    BY <1>1 DEF ListInv
  <2>2. /\ Rising(cache) /\ Rising(buffer)
        /\ \A n \in DOMAIN calls : Rising(calls[n]) /\ Below(cache, calls[n])
        /\ \A m, n \in DOMAIN calls : m < n => Below(calls[m], calls[n])
        /\ dumper # "swap" => /\ Below(cache, buffer)
                              /\ \A n \in DOMAIN calls : Below(calls[n], buffer)
    BY <2>1 DEF SinkInv, ListInv
  <2>3. Rising(cache')
    <3>1. SUFFICES ASSUME NEW m \in DOMAIN cache', NEW n \in DOMAIN cache', m < n
                   PROVE  cache'[m] < cache'[n]
      BY DEF Rising
    <3>2. m \in Nat /\ n \in Nat /\ L \in Nat
      BY Zenon, <1>3, <3>1 DEF Concatenates
    <3>3. CASE m \in DOMAIN cache /\ n \in DOMAIN cache
      BY <1>4, <2>2, <3>1, <3>3 DEF Rising
    <3>4. CASE m \in DOMAIN cache /\ n - L \in DOMAIN ids /\ cache'[n] = ids[n - L]
      BY <1>1, <1>4, <2>2, <3>4 DEF Below
    <3>5. CASE /\ m - L \in DOMAIN ids /\ cache'[m] = ids[m - L]
               /\ n - L \in DOMAIN ids /\ cache'[n] = ids[n - L]
      <4>1. m - L < n - L
        BY ONLY <3>1, <3>2
      <4>2. Rising(ids)
        BY <1>1, <2>2
      <4>3. QED
        BY <3>5, <4>1, <4>2 DEF Rising
    <3>6. ~(m > L /\ n \in DOMAIN cache)
      <4>1. n \in DOMAIN cache => n <= L
        BY Zenon, <1>4
      <4>2. QED
        BY ONLY <3>1, <3>2, <4>1
    <3>7. QED
      BY <1>4, <3>3, <3>4, <3>5, <3>6
  <2>4. \A t : Below(cache, t) /\ Below(ids, t) => Below(cache', t)
    BY <1>4 DEF Below
  <2>5. \A n \in DOMAIN calls' : Rising(calls'[n]) /\ Below(cache', calls'[n])
    BY <1>1, <2>2, <2>4
  <2>6. ASSUME NEW m \in DOMAIN calls', NEW n \in DOMAIN calls', m < n
        PROVE  Below(calls'[m], calls'[n])
    <3>1. m + 1 < n + 1
      BY <1>1, <2>6
    <3>2. QED
      BY <1>1, <2>2, <3>1
  <2>7. dumper # "swap" => /\ Below(cache', buffer)
                           /\ \A n \in DOMAIN calls' : Below(calls'[n], buffer)
    BY <1>1, <2>2, <2>4
  <2>8. QED
    BY <1>1, <2>2, <2>3, <2>5, <2>6, <2>7 DEF ListInv
<1>11. QED
  BY <1>7, <1>8, <1>9, <1>10 DEF SinkInv

(* The dict is updated: every key of the batch gets its record. *)
Extended(d, ids, new) ==
    /\ \A n \in DOMAIN ids : /\ Records[ids[n]].keys \in DOMAIN new
                             /\ new[Records[ids[n]].keys] = ids[n]
    /\ \A k \in DOMAIN new : \/ k \in DOMAIN d /\ new[k] = d[k]
                             \/ \E n \in DOMAIN ids : Records[ids[n]].keys = k /\ new[k] = ids[n]
    /\ \A k \in DOMAIN d : /\ k \in DOMAIN new
                           /\ \/ new[k] = d[k]
                              \/ \E n \in DOMAIN ids : Records[ids[n]].keys = k /\ new[k] = ids[n]

(* The dict after a call has what the batch asks for. *)
LEMMA extend_dictIs ==
    ASSUME NEW d, NEW ids, OnePerKey(ids)
    PROVE  Extended(d, ids, extend_dict(d, ids))
<1> DEFINE keys == {Records[i].keys : i \in Range(ids)}
           new == extend_dict(d, ids)
           At(k) == CHOOSE i \in Range(ids) : Records[i].keys = k
<1>1. /\ DOMAIN new = DOMAIN d \cup keys
      /\ \A k \in DOMAIN new : new[k] = IF k \in keys THEN At(k) ELSE d[k]
  BY DEF extend_dict
<1>2. \A k \in keys : At(k) \in Range(ids) /\ Records[At(k)].keys = k
  OBVIOUS
<1>3. \A k \in keys : \E n \in DOMAIN ids : Records[ids[n]].keys = k /\ At(k) = ids[n]
  <2> HIDE DEF At
  <2>1. QED
    BY <1>2 DEF Range
<1>4. \A n \in DOMAIN ids : Records[ids[n]].keys \in keys
  BY DEF Range
<1> HIDE DEF new, At, keys
<1>5. ASSUME NEW n \in DOMAIN ids
      PROVE  At(Records[ids[n]].keys) = ids[n]
  <2>1. PICK m \in DOMAIN ids : /\ Records[ids[m]].keys = Records[ids[n]].keys
                                /\ At(Records[ids[n]].keys) = ids[m]
    BY <1>3, <1>4
  <2>2. m = n
    BY <2>1 DEF OnePerKey, SameKeys
  <2>3. QED
    BY <2>1, <2>2
<1>6. \A n \in DOMAIN ids : /\ Records[ids[n]].keys \in DOMAIN new
                            /\ new[Records[ids[n]].keys] = ids[n]
  BY <1>1, <1>4, <1>5
<1>7. ASSUME NEW k \in keys
      PROVE  /\ k \in DOMAIN new
             /\ \E n \in DOMAIN ids : Records[ids[n]].keys = k /\ new[k] = ids[n]
  <2>1. k \in DOMAIN new /\ new[k] = At(k)
    BY <1>1
  <2>2. QED
    BY Zenon, <1>3, <2>1
<1>8. ASSUME NEW k \in DOMAIN d \ keys
      PROVE  k \in DOMAIN new /\ new[k] = d[k]
  BY <1>1
<1>9. DOMAIN new = DOMAIN d \cup keys
  BY <1>1
<1>10. QED
  <2>1. Extended(d, ids, new)
    BY Zenon, <1>6, <1>7, <1>8, <1>9 DEF Extended
  <2>2. QED
    BY <2>1 DEF new

LEMMA DictServes ==
    ASSUME SinkInv, ServeCall, kind = "dict"
    PROVE  SinkInv'
<1> DEFINE ids == Head(calls)
<1>1. /\ 1 \in DOMAIN calls /\ ids = calls[1] /\ ids \in Seq(1 .. sunk)
      /\ \A n \in DOMAIN calls' : /\ n \in Nat /\ n + 1 \in DOMAIN calls /\ calls'[n] = calls[n + 1]
                                  /\ 1 < n + 1
      /\ UNCHANGED <<instance, sunk, buffer, dumper, closer>>
      /\ kind' = kind /\ sunk \in Nat
  BY ServeAll
<1>2. cache' = extend_dict(cache, ids)
  BY DEF ServeCall
<1>3. /\ \A k \in DOMAIN cache : cache[k] \in 1 .. sunk /\ Records[cache[k]].keys = k
      /\ OnePerKey(buffer) /\ DictNotOlder(buffer)
      /\ \A n \in DOMAIN calls : /\ OnePerKey(calls[n]) /\ DictNotOlder(calls[n])
                                 /\ NotOlder(calls[n], buffer)
      /\ \A m, n \in DOMAIN calls : m < n => NotOlder(calls[m], calls[n])
  BY DEF SinkInv, DictInv
<1> HIDE DEF ids
<1>4. \A n \in DOMAIN ids : ids[n] \in 1 .. sunk
  BY Zenon, <1>1, ElementIs
<1>5. OnePerKey(ids) /\ DictNotOlder(ids) /\ NotOlder(ids, buffer)
  BY <1>1, <1>3
<1>6. /\ \A n \in DOMAIN ids : /\ Records[ids[n]].keys \in DOMAIN cache'
                               /\ cache'[Records[ids[n]].keys] = ids[n]
      /\ \A k \in DOMAIN cache' : \/ k \in DOMAIN cache /\ cache'[k] = cache[k]
                                  \/ \E n \in DOMAIN ids : Records[ids[n]].keys = k /\ cache'[k] = ids[n]
      /\ \A k \in DOMAIN cache : /\ k \in DOMAIN cache'
                                 /\ \/ cache'[k] = cache[k]
                                    \/ \E n \in DOMAIN ids : Records[ids[n]].keys = k /\ cache'[k] = ids[n]
  <2>1. Extended(cache, ids, extend_dict(cache, ids))
    BY Zenon, <1>5, extend_dictIs
  <2>2. Extended(cache, ids, cache')
    BY Zenon, <1>2, <2>1
  <2>3. QED
    BY Zenon, <2>2 DEF Extended
<1>7. Stored = {cache[k] : k \in DOMAIN cache} /\ Stored' = {cache'[k] : k \in DOMAIN cache'}
  BY <1>1 DEF Stored
<1>8. \A i \in Range(ids) : i \in Stored'
  BY <1>6, <1>7 DEF Range
<1>9. ASSUME NEW i \in Stored
      PROVE  i \in Stored' \/ Replaced(i)
  <2>1. PICK k \in DOMAIN cache : i = cache[k]
    BY <1>7
  <2>2. CASE cache'[k] = i
    BY <1>6, <1>7, <2>2
  <2>3. CASE cache'[k] # i
    <3>1. PICK n \in DOMAIN ids : Records[ids[n]].keys = k /\ cache'[k] = ids[n]
      BY <1>6, <2>1, <2>3
    <3>2. i <= ids[n]
      BY <1>5, <2>1, <3>1 DEF DictNotOlder
    <3>3. i \in 1 .. sunk /\ ids[n] \in 1 .. sunk /\ ids[n] # i
      BY <1>3, <1>4, <2>1, <2>3, <3>1
    <3>4. ids[n] \in i + 1 .. sunk
      <4> DEFINE j == ids[n]
      <4>1. i \in 1 .. sunk /\ j \in 1 .. sunk /\ j # i /\ i <= j /\ sunk \in Nat
        BY <1>1, <3>2, <3>3
      <4> HIDE DEF j
      <4>2. j \in i + 1 .. sunk
        BY ONLY <4>1
      <4>3. QED
        BY <4>2 DEF j
    <3>5. SameKeys(ids[n], i)
      BY <1>3, <2>1, <3>1 DEF SameKeys
    <3>6. QED
      BY <3>4, <3>5 DEF Replaced
  <2>4. QED
    BY <2>2, <2>3
<1>10. LossInv'
  BY <1>8, <1>9, ServeLoss DEF ids
<1>11. SinkTypes'
  BY ServeTypes
<1>12. ListInv' /\ StoreInv'
  BY <1>1 DEF StoreInv, Stores, ListInv
<1>13. DictInv'
  <2>1. \A k \in DOMAIN cache' : cache'[k] \in 1 .. sunk /\ Records[cache'[k]].keys = k
    BY Zenon, <1>3, <1>4, <1>6
  <2>2. ASSUME NEW t, DictNotOlder(t), NotOlder(ids, t), NEW n \in DOMAIN t,
               Records[t[n]].keys \in DOMAIN cache'
        PROVE  cache'[Records[t[n]].keys] <= t[n]
    BY <1>6, <2>2 DEF DictNotOlder, NotOlder, SameKeys
  <2>3. \A n \in DOMAIN calls' : NotOlder(ids, calls'[n])
    BY <1>1, <1>3
  <2>4. \A n \in DOMAIN calls' : /\ OnePerKey(calls'[n]) /\ DictNotOlder(calls'[n])
                                 /\ NotOlder(calls'[n], buffer)
    BY <1>1, <1>3
  <2>5. ASSUME NEW m \in DOMAIN calls', NEW n \in DOMAIN calls', m < n
        PROVE  NotOlder(calls'[m], calls'[n])
    <3>1. m + 1 < n + 1
      BY <1>1, <2>5
    <3>2. QED
      BY <1>1, <1>3, <3>1
  <2>6. DictNotOlder(buffer)'
    BY Zenon, <1>1, <1>3, <1>5, <2>2 DEF DictNotOlder
  <2>7. \A n \in DOMAIN calls' : DictNotOlder(calls[n])'
    BY Zenon, <2>2, <2>3, <2>4 DEF DictNotOlder
  <2>8. QED
    BY <1>1, <1>3, <2>1, <2>4, <2>5, <2>6, <2>7 DEF DictInv
<1>14. QED
  BY <1>10, <1>11, <1>12, <1>13 DEF SinkInv

(* The actor serves a call. *)
LEMMA ServeSink ==
    ASSUME SinkInv, ServeCall
    PROVE  SinkInv'
<1>1. instance.kind \in {"bulk", "single", "list", "dict", "simple"}
  BY SinksAssumption DEF SinkInv, SinkTypes
<1>2. CASE kind = "simple"
  <2>1. /\ UNCHANGED <<instance, emit_ts, sunk, buffer, dumper, closer>> /\ kind' = kind
    BY ServeAll
  <2>2. buffer = <<>>
    BY <1>2 DEF SinkInv, SinkTypes, Buffers
  <2>3. SinkTypes'
    BY <1>2, ServeTypes
  <2>4. ListInv' /\ StoreInv' /\ DictInv'
    BY Zenon, <1>2, <2>1 DEF ListInv, StoreInv, Stores, DictInv
  <2>5. LossInv'
    BY <1>2, <2>1, <2>2 DEF LossInv, Range
  <2>6. QED
    BY <2>3, <2>4, <2>5 DEF SinkInv
<1>3. QED
  BY <1>1, <1>2, StorageServes, ListServes, DictServes DEF kind, Stores

(* The buffer is sent by the dumper, or by close() unless it is empty. *)
LEMMA SendingSink ==
    ASSUME SinkInv, DumpSend \/ CloseSend
    PROVE  SinkInv'
<1>1. UNCHANGED stuck
  <2>1. UNCHANGED statsVars
    BY DEF DumpSend, CloseSend
  <2>2. QED
    BY <2>1 DEF statsVars, workerVars
<1>2. /\ dumper \in {"test", "swap", "done"}
      /\ closer \in {"open", "test", "swap", "join", "closed"}
      /\ emit_ts \in Seq(Int \cup {None}) /\ Len(emit_ts) \in Len(emit_ts) .. instance.records
  <2>1. instance.records \in Nat
    <3>1. instance \in Instances
      BY Zenon DEF SinkInv, SinkTypes
    <3>2. QED
      BY <3>1, SinksAssumption, RecordsIs
  <2>2. QED
    BY <2>1 DEF SinkInv, SinkTypes
<1>3. CASE DumpSend
  <2>1. /\ dumper = "test" /\ dumper' = "swap" /\ calls' = Append(calls, buffer)
        /\ UNCHANGED <<instance, emit_ts, sunk, buffer, closer, cache, swapped>>
    BY <1>3 DEF DumpSend, Send
  <2>2. QED
    BY <1>1, <1>2, <2>1, SendSink
<1>4. CASE CloseSend /\ buffer # <<>>
  <2>1. /\ closer' = "swap" /\ calls' = Append(calls, buffer)
        /\ UNCHANGED <<instance, emit_ts, sunk, buffer, dumper, cache, swapped>>
    BY <1>4 DEF CloseSend, Send
  <2>2. QED
    BY <1>1, <1>2, <2>1, SendSink
<1>5. CASE CloseSend /\ buffer = <<>>
  <2>1. /\ closer' = "join"
        /\ UNCHANGED <<instance, emit_ts, sunk, buffer, dumper, calls, cache, swapped>>
    BY <1>5 DEF CloseSend, Send
  <2>2. QED
    BY <1>1, <1>2, <2>1, FlagsSink
<1>6. QED
  BY <1>3, <1>4, <1>5

(* The buffer is replaced by the dumper or by close(). *)
LEMMA SwappingSink ==
    ASSUME SinkInv, DumpSwap \/ CloseSwap
    PROVE  SinkInv'
<1>1. UNCHANGED stuck
  <2>1. UNCHANGED statsVars
    BY DEF DumpSwap, CloseSwap
  <2>2. QED
    BY <2>1 DEF statsVars, workerVars
<1>2. /\ dumper \in {"test", "swap", "done"}
      /\ closer \in {"open", "test", "swap", "join", "closed"}
  BY DEF SinkInv, SinkTypes
<1>3. /\ buffer' = <<>> /\ "swap" \in {dumper, closer}
      /\ dumper' \in {"test", dumper} /\ closer' \in {"join", closer}
      /\ UNCHANGED <<instance, emit_ts, sunk, calls, cache, swapped>>
  BY DEF DumpSwap, CloseSwap
<1>4. QED
  BY <1>1, <1>2, <1>3, SwapSink

(* The dumper thread ends, the job is destroyed, the sink is told to close *)
(* and is closed.                                                          *)
LEMMA FlagSink ==
    ASSUME SinkInv, DumpEnds \/ Destroy \/ Close \/ CloseJoin \/ UNCHANGED vars
    PROVE  SinkInv'
<1>1. UNCHANGED stuck
  <2>1. UNCHANGED statsVars
    BY DEF DumpEnds, Destroy, Close, CloseJoin, vars
  <2>2. QED
    BY <2>1 DEF statsVars, workerVars
<1>2. /\ dumper \in {"test", "swap", "done"}
      /\ closer \in {"open", "test", "swap", "join", "closed"}
      /\ emit_ts \in Seq(Int \cup {None}) /\ Len(emit_ts) \in Len(emit_ts) .. instance.records
  <2>1. instance.records \in Nat
    <3>1. instance \in Instances
      BY Zenon DEF SinkInv, SinkTypes
    <3>2. QED
      BY <3>1, SinksAssumption, RecordsIs
  <2>2. QED
    BY <2>1 DEF SinkInv, SinkTypes
<1>3. UNCHANGED <<instance, emit_ts, sunk, buffer, calls, cache, swapped>>
  BY DEF DumpEnds, Destroy, Close, CloseJoin, vars, sinkVars
<1>4. /\ dumper' = dumper \/ (dumper = "test" /\ dumper' = "done")
      /\ \/ closer' = closer
         \/ closer = "open" /\ closer' \in {"test", "closed"}
         \/ closer = "join" /\ closer' = "closed"
  BY DEF DumpEnds, Destroy, Close, CloseJoin, vars, sinkVars
<1>5. QED
  BY <1>1, <1>2, <1>3, <1>4, FlagsSink

(* Dumping, closing and the actor leave the statistics alone. *)
LEMMA BesideStats ==
    ASSUME Dump \/ Destroy \/ Closing \/ ServeCall \/ UNCHANGED vars
    PROVE  UNCHANGED statsVars
BY DEF Dump, DumpSend, DumpSwap, DumpEnds, Destroy, Closing, Close, CloseSend, CloseSwap, CloseJoin,
       ServeCall, vars

(* A record is emitted, or the statistics take a step. *)
LEMMA BesideSink ==
    ASSUME SinkInv, ClockInv, Emit \/ StatsStep
    PROVE  SinkInv'
<1>1. UNCHANGED stuck
  <2>1. CASE Emit
    BY <2>1 DEF Emit, inc
  <2>2. CASE StatsStep
    <3>1. CASE Tick
      BY <3>1 DEF Tick, workerVars
    <3>2. CASE CollectLoop(~destroying) \/ Stop(~destroying)
      BY <3>2 DEF CollectLoop, Stop, Ask, workerVars
    <3>3. CASE \E r \in Rounds : Aggregate(r)
      <4>1. PICK r \in Rounds : Aggregate(r)
        BY <3>3
      <4>2. QED
        BY Zenon, <4>1 DEF Aggregate, workerVars
    <3>4. CASE \E r \in Rounds : \E w \in Workers : collect(r, w)
      BY <3>4 DEF collect
    <3>5. QED
      BY <2>2, <3>1, <3>2, <3>3, <3>4 DEF StatsStep
  <2>3. QED
    BY <2>1, <2>2
<1>2. /\ dumper \in {"test", "swap", "done"}
      /\ closer \in {"open", "test", "swap", "join", "closed"}
      /\ emit_ts \in Seq(Int \cup {None}) /\ instance.records \in Nat
      /\ Len(emit_ts) \in Nat /\ Len(emit_ts) <= instance.records /\ instance.skew \in Int
  <2>1. instance.records \in Nat /\ instance.skew \in Int
    <3>1. instance \in Instances
      BY Zenon DEF SinkInv, SinkTypes
    <3>2. QED
      BY <3>1, SinksAssumption, RecordsIs
  <2>2. QED
    BY <2>1 DEF SinkInv, SinkTypes
<1>3. UNCHANGED <<instance, sunk, buffer, calls, cache, swapped, dumper, closer>>
  BY DEF Emit, StatsStep, sinkVars
<1>4. emit_ts' \in Seq(Int \cup {None}) /\ Len(emit_ts') \in Len(emit_ts) .. instance.records
  <2>1. CASE Emit
    <3> DEFINE V == Int \cup {None}
               ts == IF (Len(emit_ts) + 1) % EmitEvery = 0 THEN clock + skew ELSE None
    <3>1. emit_ts' = Append(emit_ts, ts) /\ Len(emit_ts) < instance.records
      BY <2>1 DEF Emit
    <3>2. ts \in V
      <4>1. clock + skew \in Int
        BY <1>2 DEF ClockInv, Seconds, skew
      <4>2. QED
        BY <4>1
    <3> HIDE DEF ts, V
    <3>3. Append(emit_ts, ts) \in Seq(V) /\ Len(Append(emit_ts, ts)) = Len(emit_ts) + 1
      <4>1. emit_ts \in Seq(V)
        BY <1>2 DEF V
      <4>2. QED
        BY <3>2, <4>1
    <3>4. Len(emit_ts) + 1 \in Len(emit_ts) .. instance.records
      BY <1>2, <3>1
    <3>5. QED
      BY <3>1, <3>3, <3>4 DEF V
  <2>2. CASE StatsStep
    BY <1>2, <2>2 DEF StatsStep
  <2>3. QED
    BY <2>1, <2>2
<1>5. QED
  BY <1>1, <1>2, <1>3, <1>4, FlagsSink

(* At the beginning nothing has come to the sink. *)
LEMMA InitSink ==
    ASSUME Init
    PROVE  SinkInv
<1> USE DEF Init
<1>1. SinkTypes
  <2>1. instance.records \in Nat
    BY SinksAssumption, RecordsIs
  <2>2. QED
    BY <2>1 DEF SinkTypes, kind
<1>2. DOMAIN buffer = {} /\ DOMAIN calls = {} /\ sunk = 0
  OBVIOUS
<1>3. ListInv
  BY <1>2 DEF ListInv, Rising, Below, kind
<1>4. StoreInv
  <2>1. Stores => DOMAIN cache.per_key = {}
    <3>1. Stores => cache = EmptyStore
      BY Zenon DEF Stores
    <3>2. EmptyStore.per_key = <<>>
      BY DEF EmptyStore
    <3>3. QED
      BY <3>1, <3>2
  <2>2. QED
    BY <1>2, <2>1 DEF StoreInv, Filed, Rising
<1>5. DictInv
  <2>1. kind = "dict" => DOMAIN cache = {}
    OBVIOUS
  <2>2. QED
    BY <1>2, <2>1 DEF DictInv, OnePerKey, DictNotOlder
<1>6. LossInv
  BY <1>2 DEF LossInv, Range
<1>7. QED
  BY <1>1, <1>3, <1>4, <1>5, <1>6 DEF SinkInv

(* The clock stops in time. *)
LEMMA ClockNext ==
    ASSUME ClockInv, [Next]_vars
    PROVE  ClockInv'
<1>1. CASE clock < MaxClock /\ clock' = clock + 1
  BY <1>1, StatsAssumption DEF ClockInv, Seconds
<1>2. CASE UNCHANGED clock
  BY <1>2 DEF ClockInv
<1>3. (clock < MaxClock /\ clock' = clock + 1) \/ UNCHANGED clock
  <2>1. CASE Emit
    BY <2>1 DEF Emit, inc
  <2>2. CASE Process
    BY <2>2 DEF Process, observe, statsVars
  <2>3. CASE StatsStep
    BY <2>3 DEF StatsStep, Tick, CollectLoop, Stop, Ask, Aggregate, collect
  <2>4. CASE Dump \/ Destroy \/ Closing \/ ServeCall \/ UNCHANGED vars
    <3>1. UNCHANGED statsVars
      BY <2>4, BesideStats
    <3>2. QED
      BY <3>1 DEF statsVars
  <2>5. QED
    BY <2>1, <2>2, <2>3, <2>4 DEF Next
<1>4. QED
  BY <1>1, <1>2, <1>3

(* Every step keeps the invariant of the sink. *)
LEMMA SinkNext ==
    ASSUME ClockInv, SinkInv, [Next]_vars
    PROVE  SinkInv'
BY ProcessSink, ServeSink, SendingSink, SwappingSink, FlagSink, BesideSink
   DEF Next, Dump, Closing

------------------------------------------------------------------------------
(* Where a record is, and the order records are in, at any moment. *)
THEOREM SinksInvariant == Spec => [](ClockInv /\ SinkInv)
<1>1. Init => ClockInv /\ SinkInv
  <2>1. StatsInit => ClockInv
    BY StatsAssumption DEF StatsInit, ClockInv, Seconds
  <2>2. QED
    BY Zenon, <2>1, InitSink DEF Init
<1>2. ClockInv /\ SinkInv /\ [Next]_vars => (ClockInv /\ SinkInv)'
  BY ClockNext, SinkNext
<1>3. QED
  BY <1>1, <1>2, PTL DEF Spec

(* What is proved of statistics holds beside a sink: a sink worker         *)
(* observes only latencies of stamped records, in a second that the clock  *)
(* shows, and every other step is one of the statistics or leaves them     *)
(* alone.                                                                  *)
THEOREM SinksCount == Spec => StatsSpec
<1>1. ClockInv /\ SinkInv /\ [Next]_vars => [StatsNext]_statsVars
  <2> SUFFICES ASSUME ClockInv, SinkInv, [Next]_vars
               PROVE  StatsNext \/ UNCHANGED statsVars
    OBVIOUS
  <2>1. CASE Emit
    <3>1. Source \in SourceWorkers
      BY SinksAssumption DEF Source
    <3>2. inc(Source)
      BY <2>1 DEF Emit
    <3>3. QED
      BY <3>1, <3>2 DEF StatsNext
  <2>2. CASE Process
    <3>1. Sink \in SinkWorkers
      BY SinksAssumption DEF Sink
    <3>2. CASE emit_ts[sunk + 1] # None
      <4>1. emit_ts[sunk + 1] \in Int
        <5>1. emit_ts \in Seq(Int \cup {None}) /\ sunk \in 0 .. Len(emit_ts)
          BY Zenon DEF SinkInv, SinkTypes
        <5>2. sunk < Len(emit_ts)
          BY <2>2 DEF Process
        <5>3. sunk + 1 \in DOMAIN emit_ts
          BY ONLY <5>1, <5>2
        <5>4. emit_ts[sunk + 1] \in Int \cup {None}
          BY Zenon, <5>1, <5>3, ElementIs
        <5>5. QED
          BY Zenon, <3>2, <5>4
      <4>2. clock \in Seconds /\ clock - emit_ts[sunk + 1] \in Int
        BY <4>1 DEF ClockInv, Seconds
      <4>3. observe(Sink, clock - emit_ts[sunk + 1], clock)
        BY <2>2, <3>2 DEF Process
      <4>4. QED
        BY <3>1, <4>2, <4>3 DEF StatsNext
    <3>3. CASE emit_ts[sunk + 1] = None
      BY <2>2, <3>3 DEF Process
    <3>4. QED
      BY <3>2, <3>3
  <2>3. CASE StatsStep
    <3>1. (~destroying) \in BOOLEAN
      OBVIOUS
    <3>2. QED
      BY Zenon, <2>3, <3>1 DEF StatsStep, StatsNext
  <2>4. CASE Dump \/ Destroy \/ Closing \/ ServeCall \/ UNCHANGED vars
    BY <2>4, BesideStats
  <2>5. QED
    BY <2>1, <2>2, <2>3, <2>4 DEF Next
<1>2. Init => StatsInit
  BY DEF Init
<1>3. QED
  BY <1>1, <1>2, SinksInvariant, PTL DEF Spec, StatsSpec

(* Until the sink is closed, a list gets every record at most once and in  *)
(* the order of sinking, although the buffer is sent and replaced without  *)
(* a lock (function.py).                                                   *)
THEOREM ListSafety == Spec => []ListInOrder
<1>1. SinkInv => ListInOrder
  BY DEF SinkInv, ListInv, ListInOrder, Rising
<1>2. QED
  BY <1>1, SinksInvariant, PTL

(* A record that came to a sink is in the buffer, on its way or stored,    *)
(* unless it came between the sending and the replacing of a buffer, was   *)
(* replaced in a dict, or the storage raised at it or before it.           *)
THEOREM LossSafety == Spec => []NothingElseLost
<1>1. SinkInv => NothingElseLost
  BY DEF SinkInv, LossInv, Accounted, NothingElseLost
<1>2. QED
  BY <1>1, SinksInvariant, PTL

==============================================================================
