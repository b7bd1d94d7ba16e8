----------------------------- MODULE StatsProofs -----------------------------
(***************************************************************************)
(* Proofs about statistics, for any workers, windows and bins, and for any *)
(* interleaving of counting, observing, and the rounds of collection.      *)
(***************************************************************************)
EXTENDS Stats, DataLemmas

(* Ordered dicts from seconds to values of V. *)
Entries(V) == [s : Seconds, v : V]
ODs(V) == {od \in Seq(Entries(V)) :
             \A i, j \in DOMAIN od : od[i].s = od[j].s => i = j}

Hists == [Bins -> Nat]

(* What a worker hands over. *)
Answers(w) == IF w \in SourceWorkers THEN ODs(Nat) ELSE ODs(Hists)

StatsTypes ==
    /\ clock \in Seconds
    /\ cur_bucket_id \in [SourceWorkers -> Seconds \cup {-1}]
    /\ cur_bucket_val \in [SourceWorkers -> Nat]
    /\ num_messages_per_s \in [SourceWorkers -> ODs(Nat)]
    /\ latency_hists_per_s \in [SinkWorkers -> ODs(Hists)]
    /\ stuck \subseteq SinkWorkers
    /\ round \in [Rounds -> {"idle", "asks", "over"}]
    /\ asked \in [Rounds -> SUBSET Workers]
    /\ updates \in [Rounds -> [Workers -> ODs(Nat) \cup ODs(Hists)]]
    /\ \A r \in Rounds, w \in Workers : updates[r][w] \in Answers(w)
    /\ job_latency \in ODs(Hists) /\ job_throughput \in ODs(Nat)
    /\ expired \subseteq Seconds
    /\ incs \in [Seconds -> Nat] /\ observed \in [Seconds -> Nat]

(* A bucket is of a second that has begun, and what was handed over before *)
(* it is of earlier ones.                                                  *)
BucketsInv ==
    \A w \in SourceWorkers :
      /\ cur_bucket_id[w] <= clock
      /\ cur_bucket_id[w] = -1 => cur_bucket_val[w] = 0
      /\ \A i \in DOMAIN num_messages_per_s[w] : num_messages_per_s[w][i].s < cur_bucket_id[w]

(* An answer is there only between collect and Aggregate. *)
RoundsInv ==
    \A r \in Rounds :
      /\ round[r] # "asks" => asked[r] = {}
      /\ \A w \in Workers : round[r] # "asks" \/ w \in asked[r] => updates[r][w] = <<>>

StatsInv ==
    /\ StatsTypes /\ BucketsInv /\ RoundsInv
    /\ ThroughputCounted /\ LatencyCounted

------------------------------------------------------------------------------
(* Ordered dicts. *)

(* An entry is what Get finds for its second. *)
LEMMA GetIs ==
    ASSUME NEW V, NEW od \in ODs(V), NEW i \in DOMAIN od
    PROVE  Has(od, od[i].s) /\ Get(od, od[i].s) = od[i].v
<1> DEFINE k == CHOOSE j \in DOMAIN od : od[j].s = od[i].s
<1>1. k \in DOMAIN od /\ od[k].s = od[i].s
  OBVIOUS
<1>2. k = i
  BY <1>1 DEF ODs
<1>3. Get(od, od[i].s) = od[k].v
  BY DEF Get
<1>4. QED
  BY Zenon, <1>2, <1>3 DEF Has

(* A dict is a sequence of entries, no two of which are of one second. *)
LEMMA ODIs ==
    ASSUME NEW V, NEW od \in ODs(V)
    PROVE  /\ od \in Seq(Entries(V)) /\ Len(od) \in Nat /\ DOMAIN od = 1 .. Len(od)
           /\ \A i \in DOMAIN od : od[i] \in Entries(V) /\ od[i].s \in Seconds /\ od[i].v \in V
           /\ \A i, j \in DOMAIN od : od[i].s = od[j].s => i = j
<1>1. od \in Seq(Entries(V)) /\ \A i, j \in DOMAIN od : od[i].s = od[j].s => i = j
  BY DEF ODs
<1>2. Len(od) \in Nat /\ DOMAIN od = 1 .. Len(od) /\ \A i \in DOMAIN od : od[i] \in Entries(V)
  BY <1>1
<1>3. \A e \in Entries(V) : e.s \in Seconds /\ e.v \in V
  BY DEF Entries
<1>4. QED
  BY <1>1, <1>2, <1>3

(* What Get finds is an entry. *)
LEMMA HasIs ==
    ASSUME NEW V, NEW od \in ODs(V), NEW s, Has(od, s)
    PROVE  /\ s \in Seconds /\ Get(od, s) \in V
           /\ \E i \in DOMAIN od : od[i].s = s /\ Get(od, s) = od[i].v
<1>1. PICK i \in DOMAIN od : od[i].s = s
  BY DEF Has
<1>2. Get(od, s) = od[i].v
  BY <1>1, GetIs
<1>3. od[i].s \in Seconds /\ od[i].v \in V
  BY ODIs
<1>4. QED
  BY <1>1, <1>2, <1>3

(* There is an empty dict. *)
LEMMA EmptyOD ==
    ASSUME NEW V
    PROVE  <<>> \in ODs(V) /\ \A s : ~Has(<<>>, s)
BY DEF ODs, Has

(* Put changes the value of its second, and no other. *)
LEMMA PutIs ==
    ASSUME NEW V, NEW od \in ODs(V), NEW s \in Seconds, NEW v \in V
    PROVE  /\ Put(od, s, v) \in ODs(V)
           /\ Has(Put(od, s, v), s) /\ Get(Put(od, s, v), s) = v
           /\ \A t : t # s => /\ Has(Put(od, s, v), t) <=> Has(od, t)
                              /\ Has(od, t) => Get(Put(od, s, v), t) = Get(od, t)
<1> DEFINE new == Put(od, s, v)
           e == [s |-> s, v |-> v]
<1>1. /\ od \in Seq(Entries(V)) /\ Len(od) \in Nat /\ DOMAIN od = 1 .. Len(od)
      /\ \A i \in DOMAIN od : od[i] \in Entries(V)
      /\ \A i, j \in DOMAIN od : od[i].s = od[j].s => i = j
  BY ODIs
<1>2. e \in Entries(V) /\ e.s = s /\ e.v = v
  BY DEF Entries
<1>3. CASE Has(od, s)
  <2>1. new = [i \in DOMAIN od |-> IF od[i].s = s THEN e ELSE od[i]]
    BY <1>3 DEF Put
  <2> HIDE DEF new, e
  <2>2. /\ DOMAIN new = DOMAIN od
        /\ \A i \in DOMAIN od : /\ new[i].s = od[i].s
                                /\ new[i].v = IF od[i].s = s THEN v ELSE od[i].v
                                /\ new[i] \in Entries(V)
    BY <1>1, <1>2, <2>1
  <2>3. new \in Seq(Entries(V))
    BY <1>1, <1>2, <2>1
  <2>4. new \in ODs(V)
    BY <1>1, <2>2, <2>3 DEF ODs
  <2>5. \A t : Has(new, t) <=> Has(od, t)
    BY <2>2 DEF Has
  <2>6. ASSUME NEW t, Has(od, t)
        PROVE  Get(new, t) = IF t = s THEN v ELSE Get(od, t)
    <3>1. PICK i \in DOMAIN od : od[i].s = t /\ Get(od, t) = od[i].v
      BY <2>6, HasIs
    <3>2. Get(new, t) = new[i].v
      BY <2>2, <2>4, <3>1, GetIs
    <3>3. QED
      BY <2>2, <3>1, <3>2
  <2>7. QED
    BY <1>3, <2>4, <2>5, <2>6 DEF new
<1>4. CASE ~Has(od, s)
  <2>1. new = Append(od, e)
    BY <1>4 DEF Put
  <2>2. \A i \in DOMAIN od : od[i].s # s
    BY <1>4 DEF Has
  <2> HIDE DEF new, e
  <2>3. /\ new \in Seq(Entries(V))
        /\ DOMAIN new = DOMAIN od \cup {Len(od) + 1} /\ Len(od) + 1 \notin DOMAIN od
        /\ \A i \in DOMAIN od : new[i] = od[i]
        /\ new[Len(od) + 1] = e
    BY <1>1, <1>2, <2>1
  <2>4. new \in ODs(V)
    <3>1. ASSUME NEW i \in DOMAIN new, NEW j \in DOMAIN new, new[i].s = new[j].s
          PROVE  i = j
      BY <1>1, <1>2, <2>2, <2>3, <3>1
    <3>2. QED
      BY <2>3, <3>1 DEF ODs
  <2>5. \A t : Has(new, t) <=> Has(od, t) \/ t = s
    BY <1>2, <2>3 DEF Has
  <2>6. Get(new, s) = v
    BY <1>2, <2>3, <2>4, GetIs
  <2>7. ASSUME NEW t, Has(od, t)
        PROVE  Get(new, t) = Get(od, t)
    <3>1. PICK i \in DOMAIN od : od[i].s = t /\ Get(od, t) = od[i].v
      BY <2>7, HasIs
    <3>2. Get(new, t) = new[i].v
      BY <2>3, <2>4, <3>1, GetIs
    <3>3. QED
      BY <2>3, <3>1, <3>2
  <2>8. QED
    BY <2>4, <2>5, <2>6, <2>7 DEF new
<1>5. QED
  BY <1>3, <1>4

------------------------------------------------------------------------------
(* Merging.  Values of V, numbers or histograms, are measured by val and   *)
(* added by plus.                                                          *)

Val(val, od, t) == IF Has(od, t) THEN val[Get(od, t)] ELSE 0

Additive(V, val, plus) ==
    /\ val \in [V -> Nat] /\ plus \in [V \X V -> V]
    /\ \A x, y \in V : val[plus[<<x, y>>]] = val[x] + val[y]

AddTo(plus, od, e) == Put(od, e.s, IF Has(od, e.s) THEN plus[<<Get(od, e.s), e.v>>] ELSE e.v)

Merges(f, plus, od1, od2) ==
    f[0] = od1 /\ \A n \in 1 .. Len(od2) : f[n] = AddTo(plus, f[n - 1], od2[n])

(* A second is worth a number. *)
LEMMA ValNat ==
    ASSUME NEW V, NEW val \in [V -> Nat], NEW od \in ODs(V), NEW t
    PROVE  Val(val, od, t) \in Nat
<1>1. CASE Has(od, t)
  <2>1. Get(od, t) \in V
    BY <1>1, HasIs
  <2>2. QED
    BY <1>1, <2>1 DEF Val
<1>2. CASE ~Has(od, t)
  BY <1>2 DEF Val
<1>3. QED
  BY <1>1, <1>2

(* What Put does to the worth of seconds. *)
LEMMA PutVal ==
    ASSUME NEW V, NEW val, NEW od \in ODs(V), NEW s \in Seconds, NEW v \in V
    PROVE  /\ Val(val, Put(od, s, v), s) = val[v]
           /\ \A t : t # s => Val(val, Put(od, s, v), t) = Val(val, od, t)
BY PutIs DEF Val

(* An entry that is added adds its worth. *)
LEMMA AddToIs ==
    ASSUME NEW V, NEW val, NEW plus, Additive(V, val, plus), NEW od \in ODs(V),
           NEW e \in Entries(V)
    PROVE  /\ AddTo(plus, od, e) \in ODs(V)
           /\ Val(val, AddTo(plus, od, e), e.s) = Val(val, od, e.s) + val[e.v]
           /\ \A t : t # e.s => Val(val, AddTo(plus, od, e), t) = Val(val, od, t)
<1> DEFINE v == IF Has(od, e.s) THEN plus[<<Get(od, e.s), e.v>>] ELSE e.v
<1>1. e.s \in Seconds /\ e.v \in V
  BY DEF Entries
<1>2. v \in V /\ val[v] = Val(val, od, e.s) + val[e.v]
  <2>1. CASE Has(od, e.s)
    <3>1. Get(od, e.s) \in V
      BY <2>1, HasIs
    <3>2. plus[<<Get(od, e.s), e.v>>] \in V
      BY <1>1, <3>1 DEF Additive
    <3>3. val[plus[<<Get(od, e.s), e.v>>]] = val[Get(od, e.s)] + val[e.v]
      BY <1>1, <3>1 DEF Additive
    <3>4. QED
      BY <2>1, <3>2, <3>3 DEF Val
  <2>2. CASE ~Has(od, e.s)
    <3>1. val[e.v] \in Nat
      BY <1>1 DEF Additive
    <3>2. QED
      BY <1>1, <2>2, <3>1 DEF Val
  <2>3. QED
    BY <2>1, <2>2
<1>3. AddTo(plus, od, e) = Put(od, e.s, v)
  BY DEF AddTo
<1> HIDE DEF v
<1>4. QED
  BY <1>1, <1>2, <1>3, PutIs, PutVal

(* One of the first n entries is of second t. *)
Within(od, n, t) == \E i \in 1 .. n : od[i].s = t

(* To merge dicts is to add the worth of their seconds. *)
LEMMA MergesAdds ==
    ASSUME NEW V, NEW val, NEW plus, Additive(V, val, plus),
           NEW od1 \in ODs(V), NEW od2 \in ODs(V), NEW f, Merges(f, plus, od1, od2)
    PROVE  /\ f[Len(od2)] \in ODs(V)
           /\ \A t : Val(val, f[Len(od2)], t) = Val(val, od1, t) + Val(val, od2, t)
<1> DEFINE Part(n, t) == IF Within(od2, n, t) THEN Val(val, od2, t) ELSE 0
           Good(n) == f[n] \in ODs(V) /\ \A t : Val(val, f[n], t) = Val(val, od1, t) + Part(n, t)
           S == {n \in Nat : n <= Len(od2) => Good(n)}
<1>1. /\ Len(od2) \in Nat /\ DOMAIN od2 = 1 .. Len(od2)
      /\ \A i \in DOMAIN od2 : od2[i] \in Entries(V) /\ od2[i].s \in Seconds /\ od2[i].v \in V
      /\ \A i, j \in DOMAIN od2 : od2[i].s = od2[j].s => i = j
  BY ODIs
<1>2. /\ val \in [V -> Nat]
      /\ \A t : Val(val, od1, t) \in Nat
      /\ \A t : Val(val, od2, t) \in Nat
  BY ValNat DEF Additive
<1>3. 0 \in S
  <2>1. \A t : ~Within(od2, 0, t)
    BY DEF Within
  <2>2. f[0] = od1
    BY DEF Merges
  <2>3. \A t : Val(val, od1, t) = Val(val, od1, t) + 0
    BY <1>2
  <2>4. QED
    BY <2>1, <2>2, <2>3
<1>4. ASSUME NEW n \in Nat, n \in S
      PROVE  n + 1 \in S
  <2>1. SUFFICES ASSUME n + 1 <= Len(od2)
                 PROVE  Good(n + 1)
    OBVIOUS
  <2>2. Good(n)
    BY <1>1, <1>4, <2>1
  <2> DEFINE e == od2[n + 1]
  <2>3. n + 1 \in DOMAIN od2 /\ e \in Entries(V) /\ e.v \in V
    BY <1>1, <2>1
  <2>4. f[n + 1] = AddTo(plus, f[n], e)
    BY <1>1, <2>3 DEF Merges
  <2>5. /\ f[n + 1] \in ODs(V)
        /\ Val(val, f[n + 1], e.s) = Val(val, f[n], e.s) + val[e.v]
        /\ \A t : t # e.s => Val(val, f[n + 1], t) = Val(val, f[n], t)
    <3>1. f[n] \in ODs(V)
      BY <2>2
    <3> HIDE DEF e, Good
    <3>2. QED
      BY <2>3, <2>4, <3>1, AddToIs
  <2>6. \A t : Within(od2, n + 1, t) <=> Within(od2, n, t) \/ t = e.s
    BY DEF Within
  <2>7. ~Within(od2, n, e.s)
    BY <1>1, <2>3 DEF Within
  <2>8. Val(val, od2, e.s) = val[e.v] /\ val[e.v] \in Nat
    BY <1>2, <2>3, GetIs DEF Val
  <2>9. ASSUME NEW t
        PROVE  Val(val, f[n + 1], t) = Val(val, od1, t) + Part(n + 1, t)
    <3>1. CASE t = e.s
      <4>1. Part(n, t) = 0 /\ Part(n + 1, t) = val[e.v]
        BY <2>6, <2>7, <2>8, <3>1
      <4>2. Val(val, f[n], t) = Val(val, od1, t) + Part(n, t)
        BY <2>2
      <4>3. Val(val, od1, t) \in Nat
        BY <1>2
      <4> HIDE DEF e, Part
      <4>4. QED
        BY <2>5, <2>8, <3>1, <4>1, <4>2, <4>3
    <3>2. CASE t # e.s
      <4>1. Part(n + 1, t) = Part(n, t)
        BY <2>6, <3>2
      <4>2. QED
        BY <2>2, <2>5, <3>2, <4>1
    <3>3. QED
      BY <3>1, <3>2
  <2>10. QED
    BY <2>5, <2>9
<1>5. Len(od2) \in S
  <2> HIDE DEF S
  <2>1. QED
    BY <1>1, <1>3, <1>4, Induction
<1>6. \A t : Part(Len(od2), t) = Val(val, od2, t)
  <2>1. \A t : Within(od2, Len(od2), t) <=> Has(od2, t)
    BY <1>1 DEF Within, Has
  <2>2. QED
    BY <2>1 DEF Val
<1> HIDE DEF Part
<1>7. QED
  BY <1>1, <1>5, <1>6

(* Dicts can be merged. *)
LEMMA MergesExist ==
    ASSUME NEW V, NEW val, NEW plus, Additive(V, val, plus),
           NEW od1 \in ODs(V), NEW od2 \in ODs(V)
    PROVE  \E f \in [0 .. Len(od2) -> ODs(V)] : Merges(f, plus, od1, od2)
<1> DEFINE D == ODs(V)
           N == Len(od2)
           G == [n \in 1 .. N |-> [od \in D |-> AddTo(plus, od, od2[n])]]
<1>1. N \in Nat /\ \A n \in 1 .. N : od2[n] \in Entries(V)
  BY ODIs
<1>2. \A n \in 1 .. N, od \in D : AddTo(plus, od, od2[n]) \in D
  BY <1>1, AddToIs
<1>3. G \in [1 .. N -> [D -> D]]
  BY <1>2
<1>4. \A n \in 1 .. N, od \in D : G[n][od] = AddTo(plus, od, od2[n])
  OBVIOUS
<1>5. od1 \in D
  OBVIOUS
<1> HIDE DEF D, N, G
<1>6. PICK f \in [0 .. N -> D] : Iterates(f, od1, G, N)
  BY <1>1, <1>3, <1>5, Recursion
<1>7. ASSUME NEW n \in 1 .. N
      PROVE  f[n] = AddTo(plus, f[n - 1], od2[n])
  <2>1. n - 1 \in 0 .. N
    BY <1>1
  <2>2. f[n - 1] \in D
    BY <1>6, <2>1
  <2>3. QED
    BY <1>4, <1>6, <2>2 DEF Iterates
<1>8. f[0] = od1
  BY <1>6 DEF Iterates
<1>9. QED
  BY <1>7, <1>8 DEF Merges, N, D

(* Numbers are worth themselves, and histograms the sum of their bins. *)
Itself == [n \in Nat |-> n]
PlusNumbers == [p \in Nat \X Nat |-> p[1] + p[2]]
Totals == [h \in Hists |-> Total(h)]
AddedHists == [p \in Hists \X Hists |-> PlusHists(p[1], p[2])]

(* Numbers can be added. *)
LEMMA NumbersAdditive == Additive(Nat, Itself, PlusNumbers)
BY DEF Additive, Itself, PlusNumbers

(* Adding histograms adds their totals. *)
LEMMA PlusHistsIs ==
    ASSUME NEW h \in Hists, NEW g \in Hists
    PROVE  PlusHists(h, g) \in Hists /\ Total(h) \in Nat
           /\ Total(PlusHists(h, g)) = Total(h) + Total(g)
<1> DEFINE p == PlusHists(h, g)
<1>1. IsFiniteSet(Bins)
  BY StatsAssumption
<1>2. p \in [Bins -> Nat] /\ \A b \in Bins : p[b] = h[b] + g[b]
  BY DEF PlusHists, Hists
<1>3. h \in [Bins -> Nat] /\ h \in [Bins -> Int] /\ g \in [Bins -> Int] /\ p \in [Bins -> Int]
  BY <1>2 DEF Hists
<1> HIDE DEF p
<1>4. SumFunction(p) = SumFunction(h) + SumFunction(g)
  BY <1>1, <1>2, <1>3, SumAdd
<1>5. SumFunction(h) \in Nat
  BY <1>1, <1>3, SumNat
<1>6. QED
  BY <1>2, <1>4, <1>5 DEF Total, Hists, p

(* Histograms can be added. *)
LEMMA HistsAdditive == Additive(Hists, Totals, AddedHists)
<1>1. Totals \in [Hists -> Nat]
  BY PlusHistsIs DEF Totals
<1>2. \A h, g \in Hists : AddedHists[<<h, g>>] = PlusHists(h, g) /\ PlusHists(h, g) \in Hists
  BY PlusHistsIs DEF AddedHists
<1>3. AddedHists \in [Hists \X Hists -> Hists]
  BY PlusHistsIs DEF AddedHists
<1>4. \A h, g \in Hists : Totals[PlusHists(h, g)] = Totals[h] + Totals[g]
  BY PlusHistsIs DEF Totals
<1>5. QED
  BY <1>1, <1>2, <1>3, <1>4 DEF Additive

(* What a second counts for. *)
LEMMA CountIsVal ==
    ASSUME NEW od \in ODs(Nat), NEW t
    PROVE  CountIn(od, t) = Val(Itself, od, t) /\ CountIn(od, t) \in Nat
<1>1. Has(od, t) => Get(od, t) \in Nat
  BY HasIs
<1>2. QED
  BY <1>1 DEF CountIn, Val, Itself

LEMMA TotalIsVal ==
    ASSUME NEW od \in ODs(Hists), NEW t
    PROVE  TotalIn(od, t) = Val(Totals, od, t) /\ TotalIn(od, t) \in Nat
<1>1. Has(od, t) => Get(od, t) \in Hists
  BY HasIs
<1>2. \A h \in Hists : Totals[h] = Total(h) /\ Total(h) \in Nat
  BY PlusHistsIs DEF Totals
<1>3. QED
  BY <1>1, <1>2 DEF TotalIn, Val

(* MergeNumbers adds the counts of every second. *)
LEMMA MergeNumbersIs ==
    ASSUME NEW od1 \in ODs(Nat), NEW od2 \in ODs(Nat)
    PROVE  /\ MergeNumbers(od1, od2) \in ODs(Nat)
           /\ \A t : CountIn(MergeNumbers(od1, od2), t) = CountIn(od1, t) + CountIn(od2, t)
<1> DEFINE N == Len(od2)
           Is(g) == g = [n \in 0 .. N |-> IF n = 0 THEN od1 ELSE AddNumber(g[n - 1], od2[n])]
           m == CHOOSE g : Is(g)
<1>1. N \in Nat /\ \A n \in 1 .. N : od2[n] \in Entries(Nat)
  BY ODIs
<1>2. PICK f \in [0 .. N -> ODs(Nat)] : Merges(f, PlusNumbers, od1, od2)
  BY MergesExist, NumbersAdditive
<1>3. ASSUME NEW od \in ODs(Nat), NEW e \in Entries(Nat)
      PROVE  AddTo(PlusNumbers, od, e) = AddNumber(od, e)
  <2>1. Has(od, e.s) => Get(od, e.s) \in Nat
    BY HasIs
  <2>2. e.v \in Nat
    BY DEF Entries
  <2>3. \A x, y \in Nat : PlusNumbers[<<x, y>>] = x + y
    BY DEF PlusNumbers
  <2>4. QED
    BY <2>1, <2>2, <2>3 DEF AddTo, AddNumber
<1>4. ASSUME NEW n \in 1 .. N
      PROVE  f[n] = AddNumber(f[n - 1], od2[n])
  <2>1. f[n - 1] \in ODs(Nat)
    BY <1>1, <1>2
  <2>2. f[n] = AddTo(PlusNumbers, f[n - 1], od2[n])
    BY <1>2 DEF Merges
  <2>3. QED
    BY <1>1, <1>3, <2>1, <2>2
<1>5. f[0] = od1
  BY <1>2 DEF Merges
<1>6. Is(f)
  BY <1>2, <1>4, <1>5
<1>7. Is(m)
  <2> HIDE DEF Is
  <2>1. QED
    BY <1>6
<1>8. MergeNumbers(od1, od2) = m[N]
  BY DEF MergeNumbers
<1>9. m[0] = od1 /\ \A n \in 1 .. N : m[n] = AddNumber(m[n - 1], od2[n])
  <2> HIDE DEF m
  <2>1. QED
    BY <1>1, <1>7
<1> HIDE DEF N, Is, m
<1>10. \A n \in 0 .. N : m[n] = f[n]
  <2>1. InStep(m, f, N)
    BY <1>4, <1>5, <1>9 DEF InStep
  <2>2. N \in Nat
    BY <1>1
  <2>3. QED
    BY Zenon, <2>1, <2>2, StepByStep
<1>11. m[N] = f[N]
  BY <1>1, <1>10
<1>12. /\ f[N] \in ODs(Nat)
       /\ \A t : Val(Itself, f[N], t) = Val(Itself, od1, t) + Val(Itself, od2, t)
  BY <1>2, NumbersAdditive, MergesAdds DEF N
<1>13. QED
  BY <1>8, <1>11, <1>12, CountIsVal

(* MergeHists adds the totals of every second. *)
LEMMA MergeHistsIs ==
    ASSUME NEW od1 \in ODs(Hists), NEW od2 \in ODs(Hists)
    PROVE  /\ MergeHists(od1, od2) \in ODs(Hists)
           /\ \A t : TotalIn(MergeHists(od1, od2), t) = TotalIn(od1, t) + TotalIn(od2, t)
<1> DEFINE N == Len(od2)
           Is(g) == g = [n \in 0 .. N |-> IF n = 0 THEN od1 ELSE AddHist(g[n - 1], od2[n])]
           m == CHOOSE g : Is(g)
<1>1. N \in Nat /\ \A n \in 1 .. N : od2[n] \in Entries(Hists)
  BY ODIs
<1>2. PICK f \in [0 .. N -> ODs(Hists)] : Merges(f, AddedHists, od1, od2)
  BY MergesExist, HistsAdditive
<1>3. ASSUME NEW od \in ODs(Hists), NEW e \in Entries(Hists)
      PROVE  AddTo(AddedHists, od, e) = AddHist(od, e)
  <2>1. Has(od, e.s) => Get(od, e.s) \in Hists
    BY HasIs
  <2>2. e.v \in Hists
    BY DEF Entries
  <2>3. \A x, y \in Hists : AddedHists[<<x, y>>] = PlusHists(x, y)
    BY DEF AddedHists
  <2>4. QED
    BY <2>1, <2>2, <2>3 DEF AddTo, AddHist
<1>4. ASSUME NEW n \in 1 .. N
      PROVE  f[n] = AddHist(f[n - 1], od2[n])
  <2>1. f[n - 1] \in ODs(Hists)
    BY <1>1, <1>2
  <2>2. f[n] = AddTo(AddedHists, f[n - 1], od2[n])
    BY <1>2 DEF Merges
  <2>3. QED
    BY <1>1, <1>3, <2>1, <2>2
<1>5. f[0] = od1
  BY <1>2 DEF Merges
<1>6. Is(f)
  BY <1>2, <1>4, <1>5
<1>7. Is(m)
  <2> HIDE DEF Is
  <2>1. QED
    BY <1>6
<1>8. MergeHists(od1, od2) = m[N]
  BY DEF MergeHists
<1>9. m[0] = od1 /\ \A n \in 1 .. N : m[n] = AddHist(m[n - 1], od2[n])
  <2> HIDE DEF m
  <2>1. QED
    BY <1>1, <1>7
<1> HIDE DEF N, Is, m
<1>10. \A n \in 0 .. N : m[n] = f[n]
  <2>1. InStep(m, f, N)
    BY <1>4, <1>5, <1>9 DEF InStep
  <2>2. N \in Nat
    BY <1>1
  <2>3. QED
    BY Zenon, <2>1, <2>2, StepByStep
<1>11. m[N] = f[N]
  BY <1>1, <1>10
<1>12. /\ f[N] \in ODs(Hists)
       /\ \A t : Val(Totals, f[N], t) = Val(Totals, od1, t) + Val(Totals, od2, t)
  BY <1>2, HistsAdditive, MergesAdds DEF N
<1>13. QED
  BY <1>8, <1>11, <1>12, TotalIsVal

------------------------------------------------------------------------------
(* The answers of a round. *)

(* f takes in the answers of the workers of W, in the order of register_   *)
(* worker.                                                                 *)
TakesIn(f, V, val, ups, n) ==
    /\ f[n] \in ODs(V)
    /\ \A t : Val(val, f[n], t) = Val(val, f[n - 1], t) + Val(val, ups[Registered[n]], t)

Gathers(f, V, val, W, ups) ==
    /\ f[0] = <<>>
    /\ \A n \in 1 .. Len(Registered) : f[n - 1] \in ODs(V) =>
         IF Registered[n] \in W THEN TakesIn(f, V, val, ups, n) ELSE f[n] = f[n - 1]

(* The answers of the first n workers. *)
Among(n, w) == \E i \in 1 .. n : Registered[i] = w
Answered(W, val, ups, n, t) == [w \in W |-> IF Among(n, w) THEN Val(val, ups[w], t) ELSE 0]

AnswersIn(ups, W, V) == \A w \in W : ups[w] \in ODs(V)

(* od has what all workers of W answered. *)
Gathered(od, V, val, W, ups) ==
    /\ od \in ODs(V)
    /\ \A t : Val(val, od, t) = SumFunction([w \in W |-> Val(val, ups[w], t)])

(* Workers are registered once each. *)
LEMMA RegisteredIs ==
    /\ Len(Registered) \in Nat
    /\ \A n \in 1 .. Len(Registered) : Registered[n] \in Workers
    /\ \A m, n \in 1 .. Len(Registered) : Registered[m] = Registered[n] => m = n
    /\ \A w \in Workers : Among(Len(Registered), w)
<1>1. Registered \in Seq(Workers)
  BY StatsAssumption DEF Workers
<1>2. Len(Registered) \in Nat /\ DOMAIN Registered = 1 .. Len(Registered)
      /\ \A n \in 1 .. Len(Registered) : Registered[n] \in Workers
  BY <1>1
<1>3. \A m, n \in DOMAIN Registered : Registered[m] = Registered[n] => m = n
  BY StatsAssumption DEF IsInjective
<1>4. \A w \in Workers : \E i \in DOMAIN Registered : Registered[i] = w
  BY StatsAssumption DEF Range, Workers
<1>5. QED
  BY <1>2, <1>3, <1>4 DEF Among

(* Gathering adds what all workers answered. *)
LEMMA GathersAdds ==
    ASSUME NEW V, NEW val \in [V -> Nat], NEW W, IsFiniteSet(W), W \subseteq Workers,
           NEW ups, AnswersIn(ups, W, V), NEW f, Gathers(f, V, val, W, ups)
    PROVE  Gathered(f[Len(Registered)], V, val, W, ups)
<1> DEFINE A(n, t) == Answered(W, val, ups, n, t)
           Good(n) == f[n] \in ODs(V) /\ \A t : Val(val, f[n], t) = SumFunction(A(n, t))
           S == {n \in Nat : n <= Len(Registered) => Good(n)}
<1>1. \A t : \A w \in W : Val(val, ups[w], t) \in Nat
  BY ValNat DEF AnswersIn
<1>2. \A n, t : A(n, t) \in [W -> Int]
  BY <1>1 DEF Answered
<1>3. 0 \in S
  <2>1. f[0] = <<>> /\ <<>> \in ODs(V)
    BY EmptyOD DEF Gathers
  <2>2. ASSUME NEW t
        PROVE  Val(val, f[0], t) = SumFunction(A(0, t))
    <3>1. \A w \in W : A(0, t)[w] = 0
      BY DEF Answered, Among
    <3>2. A(0, t) \in [W -> Int]
      BY <1>2
    <3> HIDE DEF A
    <3>3. SumFunction(A(0, t)) = 0
      BY <3>1, <3>2, SumZero
    <3>4. Val(val, f[0], t) = 0
      BY <2>1, EmptyOD DEF Val
    <3>5. QED
      BY <3>3, <3>4
  <2>3. QED
    BY <2>1, <2>2
<1>4. ASSUME NEW n \in Nat, n \in S
      PROVE  n + 1 \in S
  <2>1. SUFFICES ASSUME n + 1 <= Len(Registered)
                 PROVE  Good(n + 1)
    OBVIOUS
  <2>2. f[n] \in ODs(V) /\ \A t : Val(val, f[n], t) = SumFunction(A(n, t))
    BY <1>4, <2>1, RegisteredIs
  <2> DEFINE w == Registered[n + 1]
  <2>3. n + 1 \in 1 .. Len(Registered) /\ (n + 1) - 1 = n /\ w \in Workers
    BY <2>1, RegisteredIs
  <2>4. \A v : Among(n + 1, v) <=> Among(n, v) \/ v = w
    BY DEF Among
  <2>5. CASE w \notin W
    <3>1. f[n + 1] = f[n]
      BY <2>2, <2>3, <2>5 DEF Gathers
    <3>2. \A t : A(n + 1, t) = A(n, t)
      BY <2>4, <2>5 DEF Answered
    <3> HIDE DEF A
    <3>3. QED
      BY <2>2, <3>1, <3>2
  <2>6. CASE w \in W
    <3>1. TakesIn(f, V, val, ups, n + 1)
      BY <2>2, <2>3, <2>6 DEF Gathers
    <3>2. ~Among(n, w)
      BY <2>3, RegisteredIs DEF Among
    <3>3. ASSUME NEW t
          PROVE  Val(val, f[n + 1], t) = SumFunction(A(n + 1, t))
      <4>1. A(n, t)[w] = 0 /\ A(n + 1, t)[w] = Val(val, ups[w], t)
        BY <2>4, <2>6, <3>2 DEF Answered
      <4>2. Same(A(n, t), A(n + 1, t), W \ {w})
        BY <2>4 DEF Answered, Same
      <4>3. A(n, t) \in [W -> Int] /\ A(n + 1, t) \in [W -> Int]
        BY <1>2
      <4>4. Val(val, f[n + 1], t) = Val(val, f[n], t) + Val(val, ups[w], t)
        BY <2>3, <3>1 DEF TakesIn
      <4>5. Val(val, ups[w], t) \in Nat
        BY <1>1, <2>6
      <4> HIDE DEF A, w
      <4>6. SumFunction(A(n + 1, t)) = SumFunction(A(n, t)) - A(n, t)[w] + A(n + 1, t)[w]
        BY <2>6, <4>2, <4>3, SumExcept
      <4>7. SumFunction(A(n, t)) \in Int
        BY <4>3, SumType
      <4>8. QED
        BY <2>2, <4>1, <4>4, <4>5, <4>6, <4>7
    <3>4. f[n + 1] \in ODs(V)
      BY <3>1 DEF TakesIn
    <3>5. QED
      BY <3>3, <3>4
  <2>7. QED
    BY <2>5, <2>6
<1>5. Good(Len(Registered))
  <2>1. Len(Registered) \in S
    <3> HIDE DEF S
    <3>1. QED
      BY <1>3, <1>4, RegisteredIs, Induction
  <2>2. QED
    BY <2>1, RegisteredIs
<1>6. \A t : A(Len(Registered), t) = [w \in W |-> Val(val, ups[w], t)]
  BY RegisteredIs DEF Answered
<1> HIDE DEF A
<1>7. QED
  BY <1>5, <1>6 DEF Gathered

(* MergedNumbers adds the counts of all source workers. *)
LEMMA MergedNumbersIs ==
    ASSUME NEW ups, \A w \in SourceWorkers : ups[w] \in ODs(Nat)
    PROVE  /\ MergedNumbers(ups) \in ODs(Nat)
           /\ \A t : CountIn(MergedNumbers(ups), t)
                       = SumFunction([w \in SourceWorkers |-> CountIn(ups[w], t)])
<1> DEFINE N == Len(Registered)
           D == ODs(Nat)
           Do(n, od) == IF Registered[n] \in SourceWorkers
                        THEN MergeNumbers(od, ups[Registered[n]]) ELSE od
           G == [n \in 1 .. N |-> [od \in D |-> Do(n, od)]]
           Is(g) == g = [n \in 0 .. N |->
                           IF n = 0 THEN <<>>
                           ELSE IF Registered[n] \in SourceWorkers
                                THEN MergeNumbers(g[n - 1], ups[Registered[n]])
                           ELSE g[n - 1]]
           m == CHOOSE g : Is(g)
<1>1. N \in Nat
  BY RegisteredIs
<1>2. \A n \in 1 .. N, od \in D : Do(n, od) \in D
  BY MergeNumbersIs
<1>3. G \in [1 .. N -> [D -> D]] /\ \A n \in 1 .. N, od \in D : G[n][od] = Do(n, od)
  <2> HIDE DEF Do
  <2>1. QED
    BY <1>2
<1>4. \E g : Is(g)
  <2>1. <<>> \in D
    BY EmptyOD
  <2> HIDE DEF G
  <2>2. PICK f \in [0 .. N -> D] : Iterates(f, <<>>, G, N)
    <3> HIDE DEF D, N
    <3>1. QED
      BY <1>1, <1>3, <2>1, Recursion
  <2>3. f[0] = <<>> /\ \A n \in 1 .. N : f[n] = Do(n, f[n - 1])
    <3>1. \A n \in 1 .. N : f[n - 1] \in D
      BY <1>1, <2>2
    <3> HIDE DEF D, Do
    <3>2. QED
      BY <1>3, <2>2, <3>1 DEF Iterates
  <2>4. Is(f)
    BY <1>1, <2>2, <2>3
  <2> HIDE DEF Is
  <2>5. QED
    BY <2>4
<1>5. Is(m)
  <2> HIDE DEF Is
  <2>1. QED
    BY <1>4
<1>6. MergedNumbers(ups) = m[N]
  BY DEF MergedNumbers
<1>7. m[0] = <<>> /\ \A n \in 1 .. N : m[n] = Do(n, m[n - 1])
  <2> HIDE DEF m, N
  <2>1. \A n \in 0 .. N : m[n] = IF n = 0 THEN <<>> ELSE Do(n, m[n - 1])
    BY Zenon, <1>5
  <2> HIDE DEF Do
  <2>2. QED
    BY <1>1, <2>1
<1> HIDE DEF m
<1>8. Gathers(m, Nat, Itself, SourceWorkers, ups)
  <2>1. ASSUME NEW n \in 1 .. N, m[n - 1] \in D, Registered[n] \in SourceWorkers
        PROVE  TakesIn(m, Nat, Itself, ups, n)
    <3> DEFINE od == m[n - 1]
               up == ups[Registered[n]]
    <3>1. m[n] = MergeNumbers(od, up) /\ up \in D /\ od \in D
      BY <1>7, <2>1
    <3> HIDE DEF od, up
    <3>2. m[n] \in D /\ \A t : CountIn(m[n], t) = CountIn(od, t) + CountIn(up, t)
      BY <3>1, MergeNumbersIs
    <3>3. \A t : /\ CountIn(m[n], t) = Val(Itself, m[n], t)
                 /\ CountIn(od, t) = Val(Itself, od, t) /\ CountIn(up, t) = Val(Itself, up, t)
      BY <3>1, <3>2, CountIsVal
    <3>4. QED
      BY <3>2, <3>3 DEF TakesIn, od, up
  <2>2. QED
    BY <1>7, <2>1 DEF Gathers
<1>9. Itself \in [Nat -> Nat] /\ IsFiniteSet(SourceWorkers) /\ SourceWorkers \subseteq Workers
  BY StatsAssumption DEF Itself, Workers
<1>10. AnswersIn(ups, SourceWorkers, Nat)
  BY DEF AnswersIn
<1>11. Gathered(m[N], Nat, Itself, SourceWorkers, ups)
  BY Zenon, <1>8, <1>9, <1>10, GathersAdds
<1> HIDE DEF N
<1>12. /\ m[N] \in D
       /\ \A t : Val(Itself, m[N], t) = SumFunction([w \in SourceWorkers |-> Val(Itself, ups[w], t)])
  BY <1>11 DEF Gathered
<1>13. \A t : CountIn(m[N], t) = Val(Itself, m[N], t)
  BY <1>12, CountIsVal
<1>14. \A t : [w \in SourceWorkers |-> Val(Itself, ups[w], t)]
               = [w \in SourceWorkers |-> CountIn(ups[w], t)]
  BY CountIsVal
<1>15. QED
  BY <1>6, <1>12, <1>13, <1>14

(* MergedHists adds the totals of all sink workers. *)
LEMMA MergedHistsIs ==
    ASSUME NEW ups, \A w \in SinkWorkers : ups[w] \in ODs(Hists)
    PROVE  /\ MergedHists(ups) \in ODs(Hists)
           /\ \A t : TotalIn(MergedHists(ups), t)
                       = SumFunction([w \in SinkWorkers |-> TotalIn(ups[w], t)])
<1> DEFINE N == Len(Registered)
           D == ODs(Hists)
           Do(n, od) == IF Registered[n] \in SinkWorkers
                        THEN MergeHists(od, ups[Registered[n]]) ELSE od
           G == [n \in 1 .. N |-> [od \in D |-> Do(n, od)]]
           Is(g) == g = [n \in 0 .. N |->
                           IF n = 0 THEN <<>>
                           ELSE IF Registered[n] \in SinkWorkers
                                THEN MergeHists(g[n - 1], ups[Registered[n]])
                           ELSE g[n - 1]]
           m == CHOOSE g : Is(g)
<1>1. N \in Nat
  BY RegisteredIs
<1>2. \A n \in 1 .. N, od \in D : Do(n, od) \in D
  BY MergeHistsIs
<1>3. G \in [1 .. N -> [D -> D]] /\ \A n \in 1 .. N, od \in D : G[n][od] = Do(n, od)
  <2> HIDE DEF Do
  <2>1. QED
    BY <1>2
<1>4. \E g : Is(g)
  <2>1. <<>> \in D
    BY EmptyOD
  <2> HIDE DEF G
  <2>2. PICK f \in [0 .. N -> D] : Iterates(f, <<>>, G, N)
    <3> HIDE DEF D, N
    <3>1. QED
      BY <1>1, <1>3, <2>1, Recursion
  <2>3. f[0] = <<>> /\ \A n \in 1 .. N : f[n] = Do(n, f[n - 1])
    <3>1. \A n \in 1 .. N : f[n - 1] \in D
      BY <1>1, <2>2
    <3> HIDE DEF D, Do
    <3>2. QED
      BY <1>3, <2>2, <3>1 DEF Iterates
  <2>4. Is(f)
    BY <1>1, <2>2, <2>3
  <2> HIDE DEF Is
  <2>5. QED
    BY <2>4
<1>5. Is(m)
  <2> HIDE DEF Is
  <2>1. QED
    BY <1>4
<1>6. MergedHists(ups) = m[N]
  BY DEF MergedHists
<1>7. m[0] = <<>> /\ \A n \in 1 .. N : m[n] = Do(n, m[n - 1])
  <2> HIDE DEF m, N
  <2>1. \A n \in 0 .. N : m[n] = IF n = 0 THEN <<>> ELSE Do(n, m[n - 1])
    BY Zenon, <1>5
  <2> HIDE DEF Do
  <2>2. QED
    BY <1>1, <2>1
<1> HIDE DEF m
<1>8. Gathers(m, Hists, Totals, SinkWorkers, ups)
  <2>1. ASSUME NEW n \in 1 .. N, m[n - 1] \in D, Registered[n] \in SinkWorkers
        PROVE  TakesIn(m, Hists, Totals, ups, n)
    <3> DEFINE od == m[n - 1]
               up == ups[Registered[n]]
    <3>1. m[n] = MergeHists(od, up) /\ up \in D /\ od \in D
      BY <1>7, <2>1
    <3> HIDE DEF od, up
    <3>2. m[n] \in D /\ \A t : TotalIn(m[n], t) = TotalIn(od, t) + TotalIn(up, t)
      BY <3>1, MergeHistsIs
    <3>3. \A t : /\ TotalIn(m[n], t) = Val(Totals, m[n], t)
                 /\ TotalIn(od, t) = Val(Totals, od, t) /\ TotalIn(up, t) = Val(Totals, up, t)
      BY <3>1, <3>2, TotalIsVal
    <3>4. QED
      BY <3>2, <3>3 DEF TakesIn, od, up
  <2>2. QED
    BY <1>7, <2>1 DEF Gathers
<1>9. Totals \in [Hists -> Nat] /\ IsFiniteSet(SinkWorkers) /\ SinkWorkers \subseteq Workers
  BY HistsAdditive, StatsAssumption DEF Additive, Workers
<1>10. AnswersIn(ups, SinkWorkers, Hists)
  BY DEF AnswersIn
<1>11. Gathered(m[N], Hists, Totals, SinkWorkers, ups)
  BY Zenon, <1>8, <1>9, <1>10, GathersAdds
<1> HIDE DEF N
<1>12. /\ m[N] \in D
       /\ \A t : Val(Totals, m[N], t) = SumFunction([w \in SinkWorkers |-> Val(Totals, ups[w], t)])
  BY <1>11 DEF Gathered
<1>13. \A t : TotalIn(m[N], t) = Val(Totals, m[N], t)
  BY <1>12, TotalIsVal
<1>14. \A t : [w \in SinkWorkers |-> Val(Totals, ups[w], t)]
               = [w \in SinkWorkers |-> TotalIn(ups[w], t)]
  BY TotalIsVal
<1>15. QED
  BY <1>6, <1>12, <1>13, <1>14

------------------------------------------------------------------------------
(* Windows. *)

(* What is kept of a dict. *)
PartOf(kept, od) == \A s : Has(kept, s) => Has(od, s) /\ Get(kept, s) = Get(od, s)

TakenFrom(kept, od, n) == \A i \in DOMAIN kept : \E j \in 1 .. n : kept[i] = od[j]

(* A dict may grow by an entry of another one that is further on. *)
LEMMA TakeOne ==
    ASSUME NEW V, NEW od \in ODs(V), NEW n \in Nat, n + 1 <= Len(od),
           NEW kept \in ODs(V), TakenFrom(kept, od, n)
    PROVE  /\ Append(kept, od[n + 1]) \in ODs(V)
           /\ TakenFrom(Append(kept, od[n + 1]), od, n + 1)
           /\ TakenFrom(kept, od, n + 1)
<1> DEFINE new == Append(kept, od[n + 1])
<1>1. /\ Len(od) \in Nat /\ DOMAIN od = 1 .. Len(od) /\ od[n + 1] \in Entries(V)
      /\ \A i, j \in DOMAIN od : od[i].s = od[j].s => i = j
  BY ODIs
<1>2. /\ kept \in Seq(Entries(V)) /\ Len(kept) \in Nat /\ DOMAIN kept = 1 .. Len(kept)
      /\ \A i, j \in DOMAIN kept : kept[i].s = kept[j].s => i = j
  BY ODIs
<1>3. /\ new \in Seq(Entries(V)) /\ DOMAIN new = DOMAIN kept \cup {Len(kept) + 1}
      /\ \A i \in DOMAIN kept : new[i] = kept[i]
      /\ new[Len(kept) + 1] = od[n + 1]
  BY <1>1, <1>2
<1> HIDE DEF new
<1>4. \A i \in DOMAIN kept : kept[i].s # od[n + 1].s
  BY <1>1 DEF TakenFrom
<1>5. ASSUME NEW i \in DOMAIN new, NEW j \in DOMAIN new, new[i].s = new[j].s
      PROVE  i = j
  BY <1>2, <1>3, <1>4, <1>5
<1>6. new \in ODs(V)
  BY <1>3, <1>5 DEF ODs
<1>7. TakenFrom(kept, od, n + 1)
  BY DEF TakenFrom
<1>8. TakenFrom(new, od, n + 1)
  <2>1. n + 1 \in 1 .. n + 1
    OBVIOUS
  <2>2. QED
    BY <1>3, <1>7, <2>1 DEF TakenFrom
<1>9. QED
  BY <1>6, <1>7, <1>8 DEF new

(* What is left of a window is part of it. *)
LEMMA InWindowIs ==
    ASSUME NEW V, NEW od \in ODs(V), NEW length
    PROVE  InWindow(od, length) \in ODs(V) /\ PartOf(InWindow(od, length), od)
<1> DEFINE N == Len(od)
           D == Seq(Entries(V))
           In(n) == od[N].s - od[n].s <= length
           Do(n, kept) == IF In(n) THEN Append(kept, od[n]) ELSE kept
           G == [n \in 1 .. N |-> [kept \in D |-> Do(n, kept)]]
           Is(g) == g = [n \in 0 .. N |-> IF n = 0 THEN <<>>
                                          ELSE IF od[N].s - od[n].s <= length
                                               THEN Append(g[n - 1], od[n])
                                          ELSE g[n - 1]]
           m == CHOOSE g : Is(g)
           Good(n) == m[n] \in ODs(V) /\ TakenFrom(m[n], od, n)
           S == {n \in Nat : n <= N => Good(n)}
<1>1. N \in Nat /\ DOMAIN od = 1 .. N /\ \A n \in 1 .. N : od[n] \in Entries(V)
  BY ODIs
<1>2. \E g : Is(g)
  <2>1. \A n \in 1 .. N, kept \in D : Do(n, kept) \in D
    BY <1>1
  <2>2. G \in [1 .. N -> [D -> D]] /\ \A n \in 1 .. N, kept \in D : G[n][kept] = Do(n, kept)
    <3> HIDE DEF Do
    <3>1. QED
      BY <2>1
  <2>3. <<>> \in D
    OBVIOUS
  <2> HIDE DEF G
  <2>4. PICK f \in [0 .. N -> D] : Iterates(f, <<>>, G, N)
    <3> HIDE DEF D, N
    <3>1. QED
      BY <1>1, <2>2, <2>3, Recursion
  <2>5. f[0] = <<>> /\ \A n \in 1 .. N : f[n] = Do(n, f[n - 1])
    <3>1. \A n \in 1 .. N : f[n - 1] \in D
      BY <1>1, <2>4
    <3> HIDE DEF D, Do
    <3>2. QED
      BY <2>2, <2>4, <3>1 DEF Iterates
  <2>6. Is(f)
    <3> HIDE DEF D, N
    <3>1. \A n \in 0 .. N : n # 0 => n \in 1 .. N
      BY <1>1
    <3>2. QED
      BY Zenon, <2>4, <2>5, <3>1
  <2> HIDE DEF Is
  <2>7. QED
    BY <2>6
<1>3. Is(m)
  <2> HIDE DEF Is
  <2>1. QED
    BY <1>2
<1>4. InWindow(od, length) = m[N]
  BY DEF InWindow
<1>5. m[0] = <<>> /\ \A n \in 1 .. N : m[n] = Do(n, m[n - 1])
  <2> HIDE DEF m, N
  <2>1. \A n \in 0 .. N : m[n] = IF n = 0 THEN <<>> ELSE Do(n, m[n - 1])
    BY Zenon, <1>3
  <2> HIDE DEF Do
  <2>2. QED
    BY <1>1, <2>1
<1> HIDE DEF m
<1>6. 0 \in S
  BY <1>5, EmptyOD DEF TakenFrom
<1>7. ASSUME NEW n \in Nat, n \in S
      PROVE  n + 1 \in S
  <2>1. SUFFICES ASSUME n + 1 <= N
                 PROVE  Good(n + 1)
    OBVIOUS
  <2>2. m[n] \in ODs(V) /\ TakenFrom(m[n], od, n)
    BY <1>1, <1>7, <2>1
  <2>3. m[n + 1] = IF In(n + 1) THEN Append(m[n], od[n + 1]) ELSE m[n]
    BY <1>1, <1>5, <2>1
  <2> HIDE DEF In
  <2>4. /\ Append(m[n], od[n + 1]) \in ODs(V)
        /\ TakenFrom(Append(m[n], od[n + 1]), od, n + 1)
        /\ TakenFrom(m[n], od, n + 1)
    BY <2>1, <2>2, TakeOne
  <2>5. QED
    BY <2>2, <2>3, <2>4
<1>8. m[N] \in ODs(V) /\ TakenFrom(m[N], od, N)
  <2>1. N \in S
    <3> HIDE DEF S
    <3>1. QED
      BY <1>1, <1>6, <1>7, Induction
  <2>2. QED
    BY <1>1, <2>1
<1> HIDE DEF N
<1>9. ASSUME NEW s, Has(m[N], s)
      PROVE  Has(od, s) /\ Get(m[N], s) = Get(od, s)
  <2>1. PICK i \in DOMAIN m[N] : m[N][i].s = s /\ Get(m[N], s) = m[N][i].v
    BY <1>8, <1>9, HasIs
  <2>2. PICK j \in 1 .. N : m[N][i] = od[j]
    BY <1>8, <2>1 DEF TakenFrom
  <2>3. QED
    BY <1>1, <2>1, <2>2, GetIs
<1>10. QED
  BY <1>4, <1>8, <1>9 DEF PartOf

(* What is left of a window counts as it did, and the rest no more. *)
LEMMA InWindowCounts ==
    ASSUME NEW od \in ODs(Nat), NEW length, NEW t
    PROVE  LET kept == InWindow(od, length)
           IN  /\ CountIn(kept, t) \in Nat /\ CountIn(kept, t) <= CountIn(od, t)
               /\ Has(od, t) => Has(kept, t) \/ CountIn(kept, t) = 0
               /\ ~Has(od, t) \/ Has(kept, t) => CountIn(kept, t) = CountIn(od, t)
<1>1. InWindow(od, length) \in ODs(Nat) /\ PartOf(InWindow(od, length), od)
  BY InWindowIs
<1>2. CountIn(InWindow(od, length), t) \in Nat /\ CountIn(od, t) \in Nat
  BY <1>1, CountIsVal
<1>3. QED
  BY <1>1, <1>2 DEF PartOf, CountIn

(* The histogram of a window has what its first second had. *)
LEMMA WindowHistIs ==
    ASSUME NEW od \in ODs(Hists), Len(od) >= 1
    PROVE  WindowHist(od) \in Hists /\ Total(WindowHist(od)) >= Total(od[1].v)
<1> DEFINE N == Len(od)
           D == Hists
           G == [n \in 1 .. N |-> [h \in D |-> PlusHists(h, od[n].v)]]
           Is(g) == g = [n \in 0 .. N |-> IF n = 0 THEN NoHist ELSE PlusHists(g[n - 1], od[n].v)]
           m == CHOOSE g : Is(g)
           Good(n) == m[n] \in D /\ (n >= 1 => Total(m[n]) >= Total(od[1].v))
           S == {n \in Nat : n <= N => Good(n)}
<1>1. N \in Nat /\ \A n \in 1 .. N : od[n].v \in D
  BY ODIs
<1>2. NoHist \in D
  BY DEF NoHist, Hists
<1>3. \A h, g \in D : PlusHists(h, g) \in D
  BY PlusHistsIs
<1>4. \E g : Is(g)
  <2>1. G \in [1 .. N -> [D -> D]] /\ \A n \in 1 .. N, h \in D : G[n][h] = PlusHists(h, od[n].v)
    <3> HIDE DEF D, N
    <3>1. QED
      BY <1>1, <1>3
  <2> HIDE DEF G
  <2>2. PICK f \in [0 .. N -> D] : Iterates(f, NoHist, G, N)
    <3> HIDE DEF D, N
    <3>1. QED
      BY <1>1, <1>2, <2>1, Recursion
  <2>3. f[0] = NoHist /\ \A n \in 1 .. N : f[n] = PlusHists(f[n - 1], od[n].v)
    <3>1. \A n \in 1 .. N : f[n - 1] \in D
      BY <1>1, <2>2
    <3> HIDE DEF D
    <3>2. QED
      BY <2>1, <2>2, <3>1 DEF Iterates
  <2>4. Is(f)
    BY <1>1, <2>2, <2>3
  <2> HIDE DEF Is
  <2>5. QED
    BY <2>4
<1>5. Is(m)
  <2> HIDE DEF Is
  <2>1. QED
    BY <1>4
<1>6. WindowHist(od) = m[N]
  BY DEF WindowHist
<1>7. m[0] = NoHist /\ \A n \in 1 .. N : m[n] = PlusHists(m[n - 1], od[n].v)
  <2> HIDE DEF m, N
  <2>1. \A n \in 0 .. N : m[n] = IF n = 0 THEN NoHist ELSE PlusHists(m[n - 1], od[n].v)
    BY Zenon, <1>5
  <2>2. QED
    BY <1>1, <2>1
<1> HIDE DEF m
<1>8. 0 \in S
  BY <1>2, <1>7
<1>9. ASSUME NEW n \in Nat, n \in S
      PROVE  n + 1 \in S
  <2>1. SUFFICES ASSUME n + 1 <= N
                 PROVE  Good(n + 1)
    OBVIOUS
  <2>2. m[n] \in D /\ (n >= 1 => Total(m[n]) >= Total(od[1].v))
    BY <1>1, <1>9, <2>1
  <2> DEFINE v == od[n + 1].v
  <2>3. m[n + 1] = PlusHists(m[n], v) /\ v \in D /\ od[1].v \in D
    BY <1>1, <1>7, <2>1
  <2>4. /\ m[n + 1] \in D /\ Total(m[n + 1]) = Total(m[n]) + Total(v)
        /\ Total(m[n]) \in Nat /\ Total(v) \in Nat /\ Total(od[1].v) \in Nat
    <3> HIDE DEF v
    <3>1. QED
      BY Zenon, <2>2, <2>3, PlusHistsIs
  <2>5. CASE n = 0
    <3>1. v = od[1].v
      BY <2>5
    <3> HIDE DEF v
    <3>2. QED
      BY <2>4, <3>1
  <2>6. CASE n # 0
    <3> HIDE DEF v
    <3>1. QED
      BY <2>2, <2>4, <2>6
  <2>7. QED
    BY <2>5, <2>6
<1>10. Good(N)
  <2>1. N \in S
    <3> HIDE DEF S
    <3>1. QED
      BY <1>1, <1>8, <1>9, Induction
  <2>2. QED
    BY <1>1, <2>1
<1>11. QED
  BY <1>6, <1>10

(* Merging a window into its first second loses nothing. *)
LEMMA MergeWindowIs ==
    ASSUME NEW od \in ODs(Hists)
    PROVE  /\ MergeWindow(od) \in ODs(Hists)
           /\ \A t : Has(MergeWindow(od), t) <=> Has(od, t)
           /\ \A t : TotalIn(MergeWindow(od), t) >= TotalIn(od, t)
<1> DEFINE new == MergeWindow(od)
           h == WindowHist(od)
           e == [s |-> od[1].s, v |-> h]
<1>1. /\ od \in Seq(Entries(Hists)) /\ Len(od) \in Nat /\ DOMAIN od = 1 .. Len(od)
      /\ \A i \in DOMAIN od : od[i] \in Entries(Hists) /\ od[i].s \in Seconds /\ od[i].v \in Hists
      /\ \A i, j \in DOMAIN od : od[i].s = od[j].s => i = j
  BY ODIs
<1>2. \A i \in DOMAIN od : i = 1 => h \in Hists /\ Total(h) >= Total(od[1].v)
  <2>1. \A i \in DOMAIN od : Len(od) >= 1
    BY <1>1
  <2> HIDE DEF h
  <2>2. QED
    BY <2>1, WindowHistIs DEF h
<1>3. new = [i \in DOMAIN od |-> IF i = 1 THEN e ELSE od[i]]
  BY DEF MergeWindow
<1>4. \A i \in DOMAIN od : i = 1 => e \in Entries(Hists) /\ e.s = od[i].s /\ e.v = h
  <2> HIDE DEF h
  <2>1. QED
    BY <1>1, <1>2 DEF Entries
<1> HIDE DEF new, e
<1>5. /\ DOMAIN new = DOMAIN od
      /\ \A i \in DOMAIN od : new[i].s = od[i].s /\ new[i] \in Entries(Hists)
      /\ \A i \in DOMAIN od : new[i].v = IF i = 1 THEN h ELSE od[i].v
  BY <1>1, <1>3, <1>4
<1>6. new \in Seq(Entries(Hists))
  BY <1>1, <1>3, <1>5
<1>7. new \in ODs(Hists)
  BY <1>1, <1>5, <1>6 DEF ODs
<1>8. \A t : Has(new, t) <=> Has(od, t)
  BY <1>5 DEF Has
<1>9. ASSUME NEW t
      PROVE  TotalIn(new, t) >= TotalIn(od, t)
  <2>1. CASE ~Has(od, t)
    BY <1>8, <2>1 DEF TotalIn
  <2>2. CASE Has(od, t)
    <3>1. PICK i \in DOMAIN od : od[i].s = t /\ Get(od, t) = od[i].v
      BY <2>2, HasIs
    <3>2. Get(new, t) = new[i].v
      BY <1>5, <1>7, <3>1, GetIs
    <3>3. Total(new[i].v) >= Total(od[i].v)
      <4>1. Total(od[i].v) \in Nat
        BY Zenon, <1>1, <3>1, PlusHistsIs
      <4> HIDE DEF h
      <4>2. QED
        BY <1>2, <1>5, <3>1, <4>1
    <3>4. QED
      BY <1>8, <2>2, <3>1, <3>2, <3>3 DEF TotalIn
  <2>3. QED
    BY <2>1, <2>2
<1>10. QED
  BY <1>7, <1>8, <1>9 DEF new

(* The bin of a latency is one. *)
LEMMA BinIs ==
    ASSUME NEW latency \in Int
    PROVE  Bin(latency) \in Bins
<1>1. Bins \subseteq Nat /\ Bins # {} /\ IsFiniteSet(Bins)
  BY StatsAssumption
<1>2. CASE \A b \in Bins : b < latency
  <2> DEFINE T == {latency - b : b \in Bins}
  <2>1. T \in SUBSET Nat /\ T # {}
    BY <1>1, <1>2
  <2> HIDE DEF T
  <2>2. PICK x \in T : \A y \in T : x <= y
    BY <2>1, LeastNumber
  <2>3. PICK b \in Bins : x = latency - b
    BY <2>2 DEF T
  <2>4. \A c \in Bins : c <= b
    <3>1. \A c \in Bins : x <= latency - c
      BY <2>2 DEF T
    <3>2. QED
      BY <1>1, <2>3, <3>1
  <2>5. QED
    BY <1>2, <2>4 DEF Bin
<1>3. CASE ~(\A b \in Bins : b < latency)
  <2> DEFINE T == {b \in Bins : b >= latency}
  <2>1. T \in SUBSET Nat /\ T # {}
    <3>1. PICK b \in Bins : ~(b < latency)
      BY <1>3
    <3>2. b \in Nat
      BY <1>1
    <3>3. b >= latency
      BY <3>1, <3>2
    <3>4. QED
      BY Zenon, <1>1, <3>3
  <2> HIDE DEF T
  <2>2. PICK b \in T : \A y \in T : b <= y
    BY <2>1, LeastNumber
  <2>3. b \in Bins /\ b >= latency /\ \A c \in Bins : c >= latency => b <= c
    BY <2>2 DEF T
  <2>4. QED
    BY <1>3, <2>3 DEF Bin
<1>4. QED
  BY <1>2, <1>3

(* Hist.observe adds one. *)
LEMMA ObserveIs ==
    ASSUME NEW h \in Hists, NEW latency \in Int
    PROVE  Observe(h, latency) \in Hists /\ Total(Observe(h, latency)) = Total(h) + 1
<1> DEFINE b == Bin(latency)
           g == Observe(h, latency)
<1>1. b \in Bins /\ IsFiniteSet(Bins)
  BY BinIs, StatsAssumption
<1> HIDE DEF b
<1>2. g = [h EXCEPT ![b] = @ + 1] /\ h \in [Bins -> Nat]
  BY DEF Observe, b, Hists
<1> HIDE DEF g
<1>3. g \in [Bins -> Nat] /\ g[b] = h[b] + 1 /\ Same(h, g, Bins \ {b}) /\ h[b] \in Nat
  BY <1>1, <1>2 DEF Same
<1>4. g \in [Bins -> Int] /\ h \in [Bins -> Int]
  BY <1>2, <1>3
<1>5. SumFunction(g) = SumFunction(h) - h[b] + g[b]
  BY <1>1, <1>3, <1>4, SumExcept
<1>6. SumFunction(h) \in Int
  BY <1>1, <1>4, SumType
<1>7. QED
  BY <1>3, <1>5, <1>6 DEF Total, Hists, g

(* An empty histogram has nothing. *)
LEMMA NoHistIs == NoHist \in Hists /\ Total(NoHist) = 0
<1>1. NoHist \in [Bins -> Nat] /\ NoHist \in [Bins -> Int] /\ \A b \in Bins : NoHist[b] = 0
  BY DEF NoHist
<1>2. QED
  BY <1>1, SumZero, StatsAssumption DEF Total, Hists

------------------------------------------------------------------------------
(* Steps of the statistics. *)

(* What a second has that is not in a window yet. *)
Counts(s) == [w \in SourceWorkers |-> CountOf(w, s)]
Latencies(s) == [w \in SinkWorkers |-> TotalOf(w, s)]

Counted(s) == CountIn(job_throughput, s) + SumFunction(Counts(s))
Kept(s) == TotalIn(job_latency, s) + SumFunction(Latencies(s))

(* These are functions to numbers. *)
LEMMA CountsType ==
    StatsTypes =>
      \A s \in Seconds : /\ Counts(s) \in [SourceWorkers -> Nat] /\ SumFunction(Counts(s)) \in Nat
                         /\ CountIn(job_throughput, s) \in Nat
                         /\ \A w \in SourceWorkers : /\ CountIn(num_messages_per_s[w], s) \in Nat
                                                     /\ \A r \in Rounds : CountIn(updates[r][w], s) \in Nat
<1> SUFFICES ASSUME StatsTypes, NEW s \in Seconds
             PROVE  /\ Counts(s) \in [SourceWorkers -> Nat] /\ SumFunction(Counts(s)) \in Nat
                    /\ CountIn(job_throughput, s) \in Nat
                    /\ \A w \in SourceWorkers : /\ CountIn(num_messages_per_s[w], s) \in Nat
                                                /\ \A r \in Rounds : CountIn(updates[r][w], s) \in Nat
  OBVIOUS
<1>1. ASSUME NEW w \in SourceWorkers
      PROVE  /\ CountIn(num_messages_per_s[w], s) \in Nat
             /\ \A r \in Rounds : CountIn(updates[r][w], s) \in Nat
  <2>1. num_messages_per_s[w] \in ODs(Nat)
    BY DEF StatsTypes
  <2>2. \A r \in Rounds : updates[r][w] \in ODs(Nat)
    BY DEF StatsTypes, Answers, Workers
  <2>3. QED
    BY <2>1, <2>2, CountIsVal
<1>2. CountIn(job_throughput, s) \in Nat
  BY CountIsVal DEF StatsTypes
<1>3. ASSUME NEW w \in SourceWorkers
      PROVE  CountOf(w, s) \in Nat
  <2>1. cur_bucket_val[w] \in Nat /\ "loop" \in Rounds /\ "stop" \in Rounds
    BY DEF StatsTypes, Rounds
  <2>2. QED
    BY <1>1, <2>1 DEF CountOf
<1>4. Counts(s) \in [SourceWorkers -> Nat]
  BY <1>3 DEF Counts
<1>5. SumFunction(Counts(s)) \in Nat
  BY <1>4, SumNat, StatsAssumption
<1>6. QED
  BY <1>1, <1>2, <1>4, <1>5

LEMMA LatenciesType ==
    StatsTypes =>
      \A s \in Seconds : /\ Latencies(s) \in [SinkWorkers -> Nat] /\ SumFunction(Latencies(s)) \in Nat
                         /\ TotalIn(job_latency, s) \in Nat
                         /\ \A w \in SinkWorkers : /\ TotalIn(latency_hists_per_s[w], s) \in Nat
                                                   /\ \A r \in Rounds : TotalIn(updates[r][w], s) \in Nat
<1> SUFFICES ASSUME StatsTypes, NEW s \in Seconds
             PROVE  /\ Latencies(s) \in [SinkWorkers -> Nat] /\ SumFunction(Latencies(s)) \in Nat
                    /\ TotalIn(job_latency, s) \in Nat
                    /\ \A w \in SinkWorkers : /\ TotalIn(latency_hists_per_s[w], s) \in Nat
                                              /\ \A r \in Rounds : TotalIn(updates[r][w], s) \in Nat
  OBVIOUS
<1>1. ASSUME NEW w \in SinkWorkers
      PROVE  /\ TotalIn(latency_hists_per_s[w], s) \in Nat
             /\ \A r \in Rounds : TotalIn(updates[r][w], s) \in Nat
  <2>1. latency_hists_per_s[w] \in ODs(Hists)
    BY DEF StatsTypes
  <2>2. w \in Workers /\ w \notin SourceWorkers
    BY StatsAssumption DEF Workers
  <2>3. \A r \in Rounds : updates[r][w] \in ODs(Hists)
    BY <2>2 DEF StatsTypes, Answers
  <2>4. QED
    BY <2>1, <2>3, TotalIsVal
<1>2. TotalIn(job_latency, s) \in Nat
  BY TotalIsVal DEF StatsTypes
<1>3. ASSUME NEW w \in SinkWorkers
      PROVE  TotalOf(w, s) \in Nat
  <2>1. "loop" \in Rounds /\ "stop" \in Rounds
    BY DEF Rounds
  <2>2. QED
    BY <1>1, <2>1 DEF TotalOf
<1>4. Latencies(s) \in [SinkWorkers -> Nat]
  BY <1>3 DEF Latencies
<1>5. SumFunction(Latencies(s)) \in Nat
  BY <1>4, SumNat, StatsAssumption
<1>6. QED
  BY <1>1, <1>2, <1>4, <1>5

(* The same of the next state. *)
LEMMA TypesNext ==
    StatsTypes' =>
      \A s \in Seconds :
        /\ Counts(s)' \in [SourceWorkers -> Nat] /\ SumFunction(Counts(s)') \in Nat
        /\ Latencies(s)' \in [SinkWorkers -> Nat] /\ SumFunction(Latencies(s)') \in Nat
<1> DEFINE P == \A s \in Seconds :
                 /\ Counts(s) \in [SourceWorkers -> Nat] /\ SumFunction(Counts(s)) \in Nat
                 /\ Latencies(s) \in [SinkWorkers -> Nat] /\ SumFunction(Latencies(s)) \in Nat
<1>1. StatsTypes => P
  BY CountsType, LatenciesType
<1>2. StatsTypes' => P'
  BY <1>1, PTL
<1>3. QED
  BY <1>2

(* Nothing is counted yet. *)
LEMMA InitStats == StatsInit => StatsInv
<1> SUFFICES ASSUME StatsInit PROVE StatsInv
  OBVIOUS
<1> USE DEF StatsInit
<1>1. <<>> \in ODs(Nat) /\ <<>> \in ODs(Hists) /\ \A s : ~Has(<<>>, s)
  BY EmptyOD
<1>2. StatsTypes
  <2>1. MaxClock \in Nat /\ 0 \in Seconds
    BY StatsAssumption DEF Seconds
  <2>2. \A w : <<>> \in Answers(w)
    BY <1>1 DEF Answers
  <2>3. QED
    BY <1>1, <2>1, <2>2 DEF StatsTypes
<1>3. BucketsInv
  BY DEF BucketsInv
<1>4. RoundsInv
  BY DEF RoundsInv
<1>5. ASSUME NEW s \in Seconds
      PROVE  Counted(s) = 0 /\ Kept(s) = 0
  <2>1. \A w \in SourceWorkers : Counts(s)[w] = 0
    BY <1>1 DEF Counts, CountOf, CountIn, Workers, Rounds, Seconds
  <2>2. \A w \in SinkWorkers : Latencies(s)[w] = 0
    BY <1>1 DEF Latencies, TotalOf, TotalIn, Workers, Rounds
  <2>3. Counts(s) \in [SourceWorkers -> Int] /\ Latencies(s) \in [SinkWorkers -> Int]
    BY <1>2, CountsType, LatenciesType
  <2>4. SumFunction(Counts(s)) = 0 /\ SumFunction(Latencies(s)) = 0
    BY <2>1, <2>2, <2>3, SumZero, StatsAssumption
  <2>5. CountIn(job_throughput, s) = 0 /\ TotalIn(job_latency, s) = 0
    BY <1>1 DEF CountIn, TotalIn
  <2>6. QED
    BY <2>4, <2>5 DEF Counted, Kept
<1>6. ThroughputCounted
  BY <1>5 DEF ThroughputCounted, Counted, Counts
<1>7. LatencyCounted
  BY <1>5 DEF LatencyCounted, Kept, Latencies
<1>8. QED
  BY <1>2, <1>3, <1>4, <1>6, <1>7 DEF StatsInv

(* The clock ticks. *)
LEMMA TickStats ==
    ASSUME StatsInv, Tick
    PROVE  StatsInv'
<1> USE DEF Tick, workerVars, jobVars
<1>1. StatsTypes'
  <2>1. clock' \in Seconds
    BY StatsAssumption DEF StatsInv, StatsTypes, Seconds
  <2>2. round' \in [Rounds -> {"idle", "asks", "over"}]
    BY Zenon DEF StatsInv, StatsTypes
  <2>3. QED
    BY <2>1, <2>2 DEF StatsInv, StatsTypes
<1>2. BucketsInv'
  <2>1. \A w \in SourceWorkers : cur_bucket_id[w] <= clock /\ cur_bucket_id[w] \in Int /\ clock \in Int
    BY DEF StatsInv, StatsTypes, BucketsInv, Seconds
  <2>2. \A w \in SourceWorkers : cur_bucket_id[w] <= clock'
    BY <2>1
  <2>3. QED
    BY <2>2 DEF StatsInv, BucketsInv
<1>3. RoundsInv'
  <2>1. \A r \in Rounds : round'[r] = "asks" <=> round[r] = "asks"
    BY DEF StatsInv, StatsTypes
  <2>2. QED
    BY <2>1 DEF StatsInv, RoundsInv
<1>4. ThroughputCounted'
  BY DEF StatsInv, ThroughputCounted, CountOf
<1>5. LatencyCounted'
  BY DEF StatsInv, LatencyCounted, TotalOf
<1>6. QED
  BY <1>1, <1>2, <1>3, <1>4, <1>5 DEF StatsInv

(* A round begins. *)
LEMMA AskStats ==
    ASSUME StatsInv, NEW r \in Rounds, round[r] = "idle", Ask(r)
    PROVE  StatsInv'
<1> USE DEF Ask, workerVars, jobVars
<1>1. StatsTypes'
  <2>1. round' \in [Rounds -> {"idle", "asks", "over"}] /\ asked' \in [Rounds -> SUBSET Workers]
    BY DEF StatsInv, StatsTypes
  <2>2. QED
    BY <2>1 DEF StatsInv, StatsTypes
<1>2. BucketsInv'
  BY DEF StatsInv, BucketsInv
<1>3. RoundsInv'
  <2>1. \A w \in Workers : updates[r][w] = <<>>
    BY Zenon DEF StatsInv, RoundsInv
  <2>2. /\ round'[r] = "asks" /\ asked'[r] = Workers
        /\ \A q \in Rounds \ {r} : round'[q] = round[q] /\ asked'[q] = asked[q]
    BY DEF StatsInv, StatsTypes
  <2>3. QED
    BY Zenon, <2>1, <2>2 DEF StatsInv, RoundsInv
<1>4. ThroughputCounted'
  BY DEF StatsInv, ThroughputCounted, CountOf
<1>5. LatencyCounted'
  BY DEF StatsInv, LatencyCounted, TotalOf
<1>6. QED
  BY <1>1, <1>2, <1>3, <1>4, <1>5 DEF StatsInv

(* A sum grows by one where a second is the one that is counted. *)
One(s, t) == IF s = t THEN 1 ELSE 0

(* One more message of a worker is one more message. *)
LEMMA OneMore ==
    ASSUME NEW W, IsFiniteSet(W), NEW f \in [W -> Nat], NEW g \in [W -> Nat], NEW w \in W,
           Same(f, g, W \ {w}), NEW k \in Nat, g[w] = f[w] + k
    PROVE  SumFunction(g) = SumFunction(f) + k
<1>1. f \in [W -> Int] /\ g \in [W -> Int] /\ f[w] \in Int
  OBVIOUS
<1>2. SumFunction(g) = SumFunction(f) - f[w] + g[w]
  BY <1>1, SumExcept
<1>3. SumFunction(f) \in Int
  BY <1>1, SumType
<1>4. QED
  BY <1>1, <1>2, <1>3

(* Counting a message. *)
LEMMA IncTypes ==
    ASSUME StatsInv, NEW w \in SourceWorkers, inc(w)
    PROVE  StatsTypes' /\ BucketsInv' /\ RoundsInv'
<1> DEFINE id == cur_bucket_id[w]
           od == num_messages_per_s[w]
           new == Put(od, id, cur_bucket_val[w])
<1>0. /\ cur_bucket_id \in [SourceWorkers -> Seconds \cup {-1}]
      /\ cur_bucket_val \in [SourceWorkers -> Nat]
      /\ num_messages_per_s \in [SourceWorkers -> ODs(Nat)]
      /\ incs \in [Seconds -> Nat] /\ clock \in Seconds
  BY Zenon DEF StatsInv, StatsTypes
<1>a. /\ cur_bucket_id' = [cur_bucket_id EXCEPT ![w] = clock]
      /\ cur_bucket_val' = [cur_bucket_val EXCEPT ![w] = Bucket(w)]
      /\ num_messages_per_s' = IF id \in {-1, clock} THEN num_messages_per_s
                               ELSE [num_messages_per_s EXCEPT ![w] = new]
      /\ incs' = [incs EXCEPT ![clock] = @ + 1]
  BY Zenon DEF inc
<1>b. UNCHANGED <<clock, latency_hists_per_s, stuck, round, updates, asked, job_latency,
                  job_throughput, expired, observed>>
  BY DEF inc, roundVars, jobVars
<1>1. /\ clock \in Seconds /\ clock \in Nat /\ id \in Seconds \cup {-1} /\ id \in Int /\ id <= clock
      /\ cur_bucket_val[w] \in Nat /\ od \in ODs(Nat)
      /\ \A i \in DOMAIN od : od[i].s < id /\ od[i].s \in Seconds
  <2>1. od \in ODs(Nat) /\ id \in Seconds \cup {-1} /\ cur_bucket_val[w] \in Nat
    BY <1>0
  <2>2. id <= clock /\ \A i \in DOMAIN od : od[i].s < id
    BY Zenon DEF StatsInv, BucketsInv
  <2> HIDE DEF od, id
  <2>3. \A i \in DOMAIN od : od[i].s \in Seconds
    BY <2>1, ODIs
  <2>4. clock \in Nat /\ id \in Int
    BY <1>0, <2>1, StatsAssumption DEF Seconds
  <2>5. QED
    BY <1>0, <2>1, <2>2, <2>3, <2>4
<1>2. id \notin {-1, clock} => id \in Seconds /\ id < clock /\ new \in ODs(Nat)
  <2>1. id \notin {-1, clock} => id \in Seconds /\ id < clock
    BY <1>1
  <2> HIDE DEF id, od
  <2>2. QED
    BY <1>1, <2>1, PutIs
<1>3. num_messages_per_s'[w] = IF id \in {-1, clock} THEN od ELSE new
  <2> HIDE DEF new, id
  <2>1. QED
    BY <1>0, <1>a
<1>4. StatsTypes'
  <2>1. Bucket(w) \in Nat
    BY <1>1 DEF Bucket
  <2>2. cur_bucket_id' \in [SourceWorkers -> Seconds \cup {-1}]
        /\ cur_bucket_val' \in [SourceWorkers -> Nat]
    BY <1>0, <1>a, <2>1
  <2>3. num_messages_per_s' \in [SourceWorkers -> ODs(Nat)]
    <3> HIDE DEF new, id
    <3>1. QED
      BY <1>0, <1>2, <1>a
  <2>4. incs' \in [Seconds -> Nat]
    BY <1>0, <1>a
  <2>5. QED
    BY <1>b, <2>2, <2>3, <2>4 DEF StatsInv, StatsTypes
<1>5. BucketsInv'
  <2>1. cur_bucket_id'[w] = clock /\ clock # -1
    BY <1>0, <1>1, <1>a
  <2>2. \A v \in SourceWorkers \ {w} : /\ cur_bucket_id'[v] = cur_bucket_id[v]
                                       /\ cur_bucket_val'[v] = cur_bucket_val[v]
                                       /\ num_messages_per_s'[v] = num_messages_per_s[v]
    <3> HIDE DEF new, id
    <3>1. QED
      BY <1>0, <1>a
  <2>3. \A i \in DOMAIN num_messages_per_s'[w] : num_messages_per_s'[w][i].s < clock
    <3>1. CASE id \in {-1, clock}
      <4>1. num_messages_per_s'[w] = od
        BY <1>3, <3>1
      <4> HIDE DEF id, od
      <4>2. \A i \in DOMAIN od : od[i].s \in Nat /\ od[i].s < id
        BY <1>1 DEF Seconds
      <4>3. QED
        BY <1>1, <4>1, <4>2
    <3>2. CASE id \notin {-1, clock}
      <4>1. ASSUME NEW i \in DOMAIN new
            PROVE  new[i].s < clock
        <5> DEFINE s == new[i].s
        <5>1. Has(new, s)
          BY DEF Has
        <5>2. s = id \/ Has(od, s)
          <6> HIDE DEF id, od, s
          <6>1. QED
            BY <1>1, <1>2, <3>2, <5>1, PutIs
        <5>3. Has(od, s) => s \in Seconds /\ s < id
          BY <1>1 DEF Has
        <5> HIDE DEF s, id
        <5>4. s < clock
          BY <1>1, <1>2, <3>2, <5>2, <5>3 DEF Seconds
        <5>5. QED
          BY <5>4 DEF s
      <4> HIDE DEF new
      <4>2. QED
        BY <1>3, <3>2, <4>1
    <3>3. QED
      BY <3>1, <3>2
  <2>4. clock' = clock /\ clock <= clock
    BY <1>1, <1>b
  <2>5. ASSUME NEW v \in SourceWorkers \ {w}
        PROVE  /\ cur_bucket_id'[v] <= clock'
               /\ cur_bucket_id'[v] = -1 => cur_bucket_val'[v] = 0
               /\ \A i \in DOMAIN num_messages_per_s'[v] :
                    num_messages_per_s'[v][i].s < cur_bucket_id'[v]
    BY <2>2, <2>4 DEF StatsInv, BucketsInv
  <2>6. QED
    BY <2>1, <2>3, <2>4, <2>5 DEF BucketsInv
<1>6. RoundsInv'
  BY <1>b DEF StatsInv, RoundsInv
<1>7. QED
  BY <1>4, <1>5, <1>6

LEMMA IncCounts ==
    ASSUME StatsInv, NEW w \in SourceWorkers, inc(w), NEW s \in Seconds
    PROVE  CountOf(w, s)' = CountOf(w, s) + One(s, clock)
<1> DEFINE id == cur_bucket_id[w]
           val == cur_bucket_val[w]
           od == num_messages_per_s[w]
           others == CountIn(updates["loop"][w], s) + CountIn(updates["stop"][w], s)
           bucket == IF id = s THEN val ELSE 0
           bucket2 == IF clock = s THEN Bucket(w) ELSE 0
           od2 == num_messages_per_s'[w]
<1>0. /\ cur_bucket_id \in [SourceWorkers -> Seconds \cup {-1}]
      /\ cur_bucket_val \in [SourceWorkers -> Nat]
      /\ num_messages_per_s \in [SourceWorkers -> ODs(Nat)] /\ clock \in Seconds
  BY Zenon DEF StatsInv, StatsTypes
<1>a. /\ cur_bucket_id' = [cur_bucket_id EXCEPT ![w] = clock]
      /\ cur_bucket_val' = [cur_bucket_val EXCEPT ![w] = Bucket(w)]
      /\ num_messages_per_s' = IF id \in {-1, clock} THEN num_messages_per_s
                               ELSE [num_messages_per_s EXCEPT ![w] = Put(od, id, val)]
      /\ updates' = updates
  BY DEF inc, roundVars
<1>1. /\ clock \in Nat /\ id \in Seconds \cup {-1} /\ id \in Int /\ id <= clock
      /\ val \in Nat /\ od \in ODs(Nat) /\ s \in Nat
      /\ id = -1 => val = 0
      /\ \A i \in DOMAIN od : od[i].s < id
  <2>1. id \in Seconds \cup {-1} /\ val \in Nat /\ od \in ODs(Nat)
    BY <1>0
  <2>2. id <= clock /\ (id = -1 => val = 0) /\ \A i \in DOMAIN od : od[i].s < id
    BY Zenon DEF StatsInv, BucketsInv
  <2> HIDE DEF od, id, val
  <2>3. clock \in Nat /\ id \in Int /\ s \in Nat
    BY <1>0, <2>1, StatsAssumption DEF Seconds
  <2>4. QED
    BY <2>1, <2>2, <2>3
<1>2. CountIn(od, s) \in Nat /\ others \in Nat /\ CountIn(updates["loop"][w], s) \in Nat
      /\ CountIn(updates["stop"][w], s) \in Nat
  BY CountsType DEF StatsInv, Rounds
<1>3. CountOf(w, s) = bucket + CountIn(od, s) + others
  <2> DEFINE n == CountIn(od, s)
             x == CountIn(updates["loop"][w], s)
             y == CountIn(updates["stop"][w], s)
  <2>1. CountOf(w, s) = bucket + n + x + y /\ others = x + y
    BY DEF CountOf
  <2>2. bucket \in Nat /\ n \in Nat /\ x \in Nat /\ y \in Nat
    BY <1>1, <1>2
  <2> HIDE DEF bucket, n, x, y, others
  <2>3. CountOf(w, s) = bucket + n + others
    BY <2>1, <2>2
  <2>4. QED
    BY <2>3 DEF n
<1>4. cur_bucket_id'[w] = clock /\ cur_bucket_val'[w] = Bucket(w) /\ updates' = updates
  BY <1>0, <1>a
<1>5. od2 = IF id \in {-1, clock} THEN od ELSE Put(od, id, val)
  <2> DEFINE new == Put(od, id, val)
  <2>1. num_messages_per_s' = IF id \in {-1, clock} THEN num_messages_per_s
                              ELSE [num_messages_per_s EXCEPT ![w] = new]
    BY <1>a
  <2> HIDE DEF new, id
  <2>2. od2 = IF id \in {-1, clock} THEN od ELSE new
    BY <1>0, <2>1
  <2>3. QED
    BY <2>2 DEF new
<1>6. Bucket(w) = IF id \in {-1, clock} THEN val + 1 ELSE 1
  BY DEF Bucket
<1> DEFINE now == Bucket(w)
<1>b. CountOf(w, s)' = bucket2 + CountIn(od2, s) + CountIn(updates["loop"][w], s)
                        + CountIn(updates["stop"][w], s)
  BY Zenon, <1>4 DEF CountOf
<1>c. ASSUME bucket2 \in Nat, CountIn(od2, s) \in Nat
      PROVE  CountOf(w, s)' = bucket2 + CountIn(od2, s) + others
  <2> DEFINE n == CountIn(od2, s)
             x == CountIn(updates["loop"][w], s)
             y == CountIn(updates["stop"][w], s)
  <2>1. CountOf(w, s)' = bucket2 + n + x + y /\ others = x + y /\ x \in Nat /\ y \in Nat
    BY <1>2, <1>b
  <2>2. bucket2 \in Nat /\ n \in Nat
    BY <1>c
  <2> HIDE DEF bucket2, n, x, y, others
  <2>3. CountOf(w, s)' = bucket2 + n + others
    BY <2>1, <2>2
  <2>4. QED
    BY <2>3 DEF n
<1>d. bucket2 = IF clock = s THEN now ELSE 0
  OBVIOUS
<1> HIDE DEF now, bucket2, od2
<1>7. CASE id \in {-1, clock}
  <2>1. bucket2 = bucket + One(s, clock) /\ bucket \in Nat /\ One(s, clock) \in Nat
    <3>1. now = val + 1
      BY <1>6, <1>7 DEF now
    <3>2. id = clock \/ (id = -1 /\ val = 0 /\ id # s)
      BY <1>1, <1>7
    <3> HIDE DEF id, val
    <3>3. QED
      BY <1>1, <1>d, <3>1, <3>2 DEF One
  <2>2. CountIn(od2, s) = CountIn(od, s) /\ CountIn(od2, s) \in Nat
    BY <1>2, <1>5, <1>7
  <2>3. CountOf(w, s)' = bucket2 + CountIn(od2, s) + others
    <3> HIDE DEF bucket
    <3>1. bucket2 \in Nat
      BY <2>1
    <3>2. QED
      BY <1>c, <2>2, <3>1
  <2> HIDE DEF bucket, od, others
  <2>4. QED
    BY <1>2, <1>3, <2>1, <2>2, <2>3
<1>8. CASE id \notin {-1, clock}
  <2>1. id \in Seconds /\ id < clock /\ bucket2 = One(s, clock) /\ bucket2 \in Nat
    <3>1. now = 1
      BY <1>6, <1>8 DEF now
    <3> HIDE DEF id
    <3>2. QED
      BY <1>1, <1>8, <1>d, <3>1 DEF One
  <2>2. ~Has(od, id)
    BY <1>1 DEF Has
  <2>3. CountIn(od2, s) = bucket + CountIn(od, s) /\ CountIn(od2, s) \in Nat
    <3>1. /\ Has(od2, id) /\ Get(od2, id) = val
          /\ \A t : t # id => /\ Has(od2, t) <=> Has(od, t)
                              /\ Has(od, t) => Get(od2, t) = Get(od, t)
      <4> HIDE DEF od, id, val
      <4>1. QED
        BY <1>1, <1>5, <1>8, <2>1, PutIs
    <3>2. CASE s = id
      <4>1. CountIn(od, s) = 0 /\ bucket = val
        BY <2>2, <3>2 DEF CountIn
      <4>2. CountIn(od2, s) = val
        BY <3>1, <3>2 DEF CountIn
      <4> HIDE DEF bucket, val, od
      <4>3. QED
        BY <1>1, <4>1, <4>2
    <3>3. CASE s # id
      <4>1. CountIn(od2, s) = CountIn(od, s)
        BY <3>1, <3>3 DEF CountIn
      <4>2. bucket = 0
        BY <3>3
      <4> HIDE DEF bucket, od
      <4>3. QED
        BY <1>2, <4>1, <4>2
    <3>4. QED
      BY <3>2, <3>3
  <2>4. CountOf(w, s)' = bucket2 + CountIn(od2, s) + others
    BY <1>c, <2>1, <2>3
  <2>5. bucket \in Nat
    BY <1>1
  <2> HIDE DEF bucket, od, others
  <2>6. QED
    BY <1>2, <1>3, <2>1, <2>3, <2>4, <2>5
<1>9. QED
  BY <1>7, <1>8

LEMMA IncStats ==
    ASSUME StatsInv, NEW w \in SourceWorkers, inc(w)
    PROVE  StatsInv'
<1>1. StatsTypes' /\ BucketsInv' /\ RoundsInv'
  BY IncTypes
<1>2. ASSUME NEW s \in Seconds
      PROVE  SumFunction(Counts(s)') = SumFunction(Counts(s)) + One(s, clock)
  <2>1. Counts(s) \in [SourceWorkers -> Nat] /\ Counts(s)' \in [SourceWorkers -> Nat]
    BY <1>1, CountsType, TypesNext DEF StatsInv
  <2>2. Counts(s)'[w] = Counts(s)[w] + One(s, clock)
    BY IncCounts DEF Counts
  <2>3. Same(Counts(s), Counts(s)', SourceWorkers \ {w})
    <3>1. \A v \in SourceWorkers \ {w} : CountOf(v, s)' = CountOf(v, s)
      BY DEF CountOf, inc, roundVars, StatsInv, StatsTypes
    <3>2. QED
      BY <3>1 DEF Counts, Same
  <2>4. One(s, clock) \in Nat /\ IsFiniteSet(SourceWorkers)
    BY StatsAssumption DEF One
  <2> DEFINE f == Counts(s)
             g == Counts(s)'
  <2> HIDE DEF f, g
  <2>5. SumFunction(g) = SumFunction(f) + One(s, clock)
    BY <2>1, <2>2, <2>3, <2>4, OneMore DEF f, g
  <2>6. QED
    BY <2>5 DEF f, g
<1>3. ThroughputCounted'
  <2>1. SUFFICES ASSUME NEW s \in Seconds
                 PROVE  IF s \in expired THEN CountIn(job_throughput, s) + SumFunction(Counts(s)') <= incs'[s]
                                          ELSE CountIn(job_throughput, s) + SumFunction(Counts(s)') = incs'[s]
    BY DEF inc, jobVars, ThroughputCounted, Counts
  <2>2. IF s \in expired THEN Counted(s) <= incs[s] ELSE Counted(s) = incs[s]
    BY DEF StatsInv, ThroughputCounted, Counted, Counts
  <2>3. incs'[s] = incs[s] + One(s, clock) /\ incs[s] \in Nat /\ One(s, clock) \in Nat
    BY DEF StatsInv, StatsTypes, inc, One
  <2>4. CountIn(job_throughput, s) \in Nat /\ SumFunction(Counts(s)) \in Nat
    BY CountsType DEF StatsInv
  <2>5. QED
    BY <1>2, <2>2, <2>3, <2>4 DEF Counted
<1>4. LatencyCounted'
  BY DEF StatsInv, LatencyCounted, TotalOf, inc, roundVars, jobVars
<1>5. QED
  BY <1>1, <1>3, <1>4 DEF StatsInv

(* A latency is observed. *)
LEMMA ObserveTypes ==
    ASSUME StatsInv, NEW w \in SinkWorkers, NEW latency \in Int, NEW ts \in Seconds,
           observe(w, latency, ts)
    PROVE  /\ StatsTypes'
           /\ \A s \in Seconds :
                /\ \A v \in SinkWorkers \ {w} : TotalOf(v, s)' = TotalOf(v, s)
                /\ \E k \in Nat : /\ TotalOf(w, s)' = TotalOf(w, s) + k
                                  /\ observed'[s] = observed[s] + k
<1> DEFINE od == latency_hists_per_s[w]
           h == IF Has(od, ts) THEN Get(od, ts) ELSE NoHist
           new == Put(od, ts, Observe(h, latency))
<1>0. latency_hists_per_s \in [SinkWorkers -> ODs(Hists)] /\ observed \in [Seconds -> Nat]
  BY DEF StatsInv, StatsTypes
<1>a. /\ UNCHANGED <<clock, cur_bucket_id, cur_bucket_val, num_messages_per_s, round, updates,
                     asked, job_latency, job_throughput, expired, incs>>
      /\ Raises(latency) => /\ stuck' = stuck \cup {w}
                            /\ UNCHANGED <<latency_hists_per_s, observed>>
      /\ ~Raises(latency) => /\ latency_hists_per_s' = [latency_hists_per_s EXCEPT ![w] = new]
                             /\ observed' = [observed EXCEPT ![ts] = @ + 1]
                             /\ UNCHANGED stuck
  BY DEF observe, roundVars, jobVars
<1>1. CASE Raises(latency)
  <2>1. StatsTypes'
    BY <1>1, <1>a DEF StatsInv, StatsTypes
  <2>2. ASSUME NEW s \in Seconds, NEW v \in SinkWorkers
        PROVE  TotalOf(v, s)' = TotalOf(v, s) + 0 /\ TotalOf(v, s)' = TotalOf(v, s)
    <3>1. TotalOf(v, s)' = TotalOf(v, s)
      BY <1>1, <1>a DEF TotalOf
    <3>2. TotalOf(v, s) \in Nat
      BY Zenon, LatenciesType DEF StatsInv, Latencies
    <3>3. QED
      BY <3>1, <3>2
  <2>3. \A s \in Seconds : observed'[s] = observed[s] + 0
    BY <1>0, <1>1, <1>a
  <2>4. QED
    BY <2>1, <2>2, <2>3
<1>2. CASE ~Raises(latency)
  <2>1. od \in ODs(Hists)
    BY <1>0
  <2>2. h \in Hists /\ Total(h) = TotalIn(od, ts)
    BY <2>1, HasIs, NoHistIs DEF TotalIn
  <2> HIDE DEF h, od
  <2>3. Observe(h, latency) \in Hists /\ Total(Observe(h, latency)) = TotalIn(od, ts) + 1
    BY <2>2, ObserveIs
  <2>4. /\ new \in ODs(Hists) /\ Has(new, ts) /\ Get(new, ts) = Observe(h, latency)
        /\ \A t : t # ts => /\ Has(new, t) <=> Has(od, t)
                            /\ Has(od, t) => Get(new, t) = Get(od, t)
    <3> DEFINE v == Observe(h, latency)
    <3>1. v \in Hists /\ new = Put(od, ts, v)
      BY <2>3
    <3> HIDE DEF v, new
    <3>2. /\ new \in ODs(Hists) /\ Has(new, ts) /\ Get(new, ts) = v
          /\ \A t : t # ts => /\ Has(new, t) <=> Has(od, t)
                              /\ Has(od, t) => Get(new, t) = Get(od, t)
      <4>1. ts \in Seconds
        OBVIOUS
      <4>2. /\ Put(od, ts, v) \in ODs(Hists)
            /\ Has(Put(od, ts, v), ts) /\ Get(Put(od, ts, v), ts) = v
            /\ \A t : t # ts => /\ Has(Put(od, ts, v), t) <=> Has(od, t)
                                /\ Has(od, t) => Get(Put(od, ts, v), t) = Get(od, t)
        BY <2>1, <3>1, <4>1, PutIs
      <4>3. QED
        BY Zenon, <3>1, <4>2
    <3>3. QED
      BY <3>2 DEF v
  <2>5. \A t : TotalIn(od, t) \in Nat
    BY <2>1, TotalIsVal
  <2>6. \A t : TotalIn(new, t) = TotalIn(od, t) + One(t, ts)
    <3> HIDE DEF new
    <3>1. TotalIn(new, ts) = TotalIn(od, ts) + 1
      BY <2>3, <2>4 DEF TotalIn
    <3>2. ASSUME NEW t, t # ts
          PROVE  TotalIn(new, t) = TotalIn(od, t)
      BY <2>4, <3>2 DEF TotalIn
    <3>3. QED
      BY <2>5, <3>1, <3>2 DEF One
  <2>7. latency_hists_per_s' = [latency_hists_per_s EXCEPT ![w] = new]
        /\ observed' = [observed EXCEPT ![ts] = @ + 1]
    BY <1>2, <1>a
  <2> HIDE DEF new
  <2>8. StatsTypes'
    <3>1. latency_hists_per_s' \in [SinkWorkers -> ODs(Hists)]
      BY <1>0, <2>4, <2>7
    <3>2. observed' \in [Seconds -> Nat]
      BY <1>0, <2>7
    <3>3. QED
      BY <1>2, <1>a, <3>1, <3>2 DEF StatsInv, StatsTypes
  <2>9. ASSUME NEW s \in Seconds
        PROVE  /\ \A v \in SinkWorkers \ {w} : TotalOf(v, s)' = TotalOf(v, s)
               /\ TotalOf(w, s)' = TotalOf(w, s) + One(s, ts)
               /\ observed'[s] = observed[s] + One(s, ts)
    <3>1. /\ latency_hists_per_s'[w] = new
          /\ \A v \in SinkWorkers \ {w} : latency_hists_per_s'[v] = latency_hists_per_s[v]
      BY <1>0, <2>7
    <3>2. \A v \in SinkWorkers \ {w} : TotalOf(v, s)' = TotalOf(v, s)
      BY Zenon, <1>a, <3>1 DEF TotalOf
    <3>3. \A r \in Rounds : TotalIn(updates[r][w], s) \in Nat
      BY LatenciesType DEF StatsInv
    <3> DEFINE a == TotalIn(updates["loop"][w], s)
               b == TotalIn(updates["stop"][w], s)
    <3>4. a \in Nat /\ b \in Nat
      BY <3>3 DEF Rounds
    <3>5. TotalOf(w, s) = TotalIn(od, s) + a + b /\ TotalOf(w, s)' = TotalIn(new, s) + a + b
      BY Zenon, <1>a, <3>1 DEF TotalOf, od
    <3>6. TotalIn(new, s) = TotalIn(od, s) + One(s, ts) /\ TotalIn(od, s) \in Nat
          /\ One(s, ts) \in Nat
      BY <2>5, <2>6 DEF One
    <3>7. observed'[s] = observed[s] + One(s, ts)
      BY <1>0, <2>7 DEF One
    <3> HIDE DEF a, b
    <3>8. TotalOf(w, s)' = TotalOf(w, s) + One(s, ts)
      BY <3>4, <3>5, <3>6
    <3>9. QED
      BY <3>2, <3>7, <3>8
  <2>10. \A s : One(s, ts) \in Nat
    BY DEF One
  <2>11. QED
    BY <2>8, <2>9, <2>10
<1>3. QED
  BY <1>1, <1>2

LEMMA ObserveStats ==
    ASSUME StatsInv, NEW w \in SinkWorkers, NEW latency \in Int, NEW ts \in Seconds,
           observe(w, latency, ts)
    PROVE  StatsInv'
<1>1. /\ StatsTypes'
      /\ \A s \in Seconds :
           /\ \A v \in SinkWorkers \ {w} : TotalOf(v, s)' = TotalOf(v, s)
           /\ \E k \in Nat : /\ TotalOf(w, s)' = TotalOf(w, s) + k
                             /\ observed'[s] = observed[s] + k
  BY ObserveTypes
<1>2. BucketsInv'
  BY DEF observe, StatsInv, BucketsInv
<1>3. RoundsInv'
  BY DEF observe, roundVars, StatsInv, RoundsInv
<1>4. ThroughputCounted'
  BY Zenon DEF observe, roundVars, jobVars, StatsInv, ThroughputCounted, CountOf
<1>5. LatencyCounted'
  <2>1. SUFFICES ASSUME NEW s \in Seconds \ expired
                 PROVE  TotalIn(job_latency, s) + SumFunction(Latencies(s)') >= observed'[s]
    BY DEF observe, jobVars, LatencyCounted, Latencies
  <2>2. PICK k \in Nat : TotalOf(w, s)' = TotalOf(w, s) + k /\ observed'[s] = observed[s] + k
    BY <1>1
  <2> DEFINE f == Latencies(s)
             g == Latencies(s)'
  <2>3. f \in [SinkWorkers -> Nat] /\ g \in [SinkWorkers -> Nat] /\ SumFunction(f) \in Nat
    BY Zenon, <1>1, LatenciesType, TypesNext DEF StatsInv
  <2>4. g[w] = f[w] + k
    BY <2>2 DEF Latencies
  <2>5. Same(f, g, SinkWorkers \ {w})
    BY <1>1 DEF Latencies, Same
  <2>6. Kept(s) >= observed[s] /\ observed[s] \in Nat /\ TotalIn(job_latency, s) \in Nat
    <3>1. TotalIn(job_latency, s) \in Nat
      BY LatenciesType DEF StatsInv
    <3>2. observed[s] \in Nat
      BY DEF StatsInv, StatsTypes
    <3>3. Kept(s) >= observed[s]
      BY DEF StatsInv, LatencyCounted, Kept, Latencies
    <3>4. QED
      BY <3>1, <3>2, <3>3
  <2>7. Kept(s) = TotalIn(job_latency, s) + SumFunction(f)
    BY DEF Kept
  <2> HIDE DEF f, g
  <2>8. SumFunction(g) = SumFunction(f) + k
    <3>1. IsFiniteSet(SinkWorkers)
      BY StatsAssumption
    <3>2. QED
      BY <2>3, <2>4, <2>5, <3>1, OneMore
  <2>9. TotalIn(job_latency, s) + SumFunction(g) >= observed'[s]
    BY <2>2, <2>3, <2>6, <2>7, <2>8
  <2>10. QED
    BY <2>9 DEF g
<1>6. QED
  BY <1>1, <1>2, <1>3, <1>4, <1>5 DEF StatsInv

(* A worker hands over what it has. *)
LEMMA CollectTypes ==
    ASSUME StatsInv, NEW r \in Rounds, NEW w \in Workers, collect(r, w)
    PROVE  /\ StatsTypes'
           /\ updates[r][w] = <<>> /\ updates'[r][w] = Held(w) /\ round[r] = "asks"
           /\ \A q \in Rounds, v \in Workers : q # r \/ v # w => updates'[q][v] = updates[q][v]
           /\ \A v \in SourceWorkers : num_messages_per_s'[v] = IF v = w THEN <<>> ELSE num_messages_per_s[v]
           /\ \A v \in SinkWorkers : latency_hists_per_s'[v] = IF v = w THEN <<>> ELSE latency_hists_per_s[v]
           /\ asked'[r] = asked[r] \ {w} /\ \A q \in Rounds \ {r} : asked'[q] = asked[q]
<1> USE DEF collect, jobVars
<1>1. /\ num_messages_per_s \in [SourceWorkers -> ODs(Nat)]
      /\ latency_hists_per_s \in [SinkWorkers -> ODs(Hists)]
      /\ updates \in [Rounds -> [Workers -> ODs(Nat) \cup ODs(Hists)]]
      /\ \A q \in Rounds, v \in Workers : updates[q][v] \in Answers(v)
      /\ asked \in [Rounds -> SUBSET Workers]
  BY DEF StatsInv, StatsTypes
<1>2. round[r] = "asks" /\ updates[r][w] = <<>>
  BY DEF StatsInv, RoundsInv
<1>3. /\ asked' \in [Rounds -> SUBSET Workers]
      /\ asked'[r] = asked[r] \ {w} /\ \A q \in Rounds \ {r} : asked'[q] = asked[q]
  BY <1>1
<1>4. Held(w) \in Answers(w) /\ Held(w) \in ODs(Nat) \cup ODs(Hists)
  BY Zenon, <1>1, StatsAssumption DEF Held, Answers, Workers
<1>5. /\ updates' \in [Rounds -> [Workers -> ODs(Nat) \cup ODs(Hists)]]
      /\ updates'[r][w] = Held(w)
      /\ \A q \in Rounds, v \in Workers : q # r \/ v # w => updates'[q][v] = updates[q][v]
  <2>1. updates' = [updates EXCEPT ![r] = [updates[r] EXCEPT ![w] = Held(w)]]
    OBVIOUS
  <2> DEFINE new == [updates[r] EXCEPT ![w] = Held(w)]
  <2>2. new \in [Workers -> ODs(Nat) \cup ODs(Hists)]
    BY <1>1, <1>4
  <2>3. updates'[r] = new /\ \A q \in Rounds \ {r} : updates'[q] = updates[q]
    BY <1>1, <2>1
  <2>4. new[w] = Held(w) /\ \A v \in Workers \ {w} : new[v] = updates[r][v]
    BY <1>1
  <2>5. updates' \in [Rounds -> [Workers -> ODs(Nat) \cup ODs(Hists)]]
    <3> HIDE DEF new
    <3>1. updates' = [updates EXCEPT ![r] = new]
      BY <2>1 DEF new
    <3>2. QED
      BY <1>1, <2>2, <3>1
  <2> HIDE DEF new
  <2>6. QED
    BY <2>3, <2>4, <2>5
<1>6. \A q \in Rounds, v \in Workers : updates'[q][v] \in Answers(v)
  BY <1>1, <1>4, <1>5
<1>7. /\ num_messages_per_s' \in [SourceWorkers -> ODs(Nat)]
      /\ \A v \in SourceWorkers : num_messages_per_s'[v] = IF v = w THEN <<>> ELSE num_messages_per_s[v]
  BY <1>1, EmptyOD DEF Emptied
<1>8. /\ latency_hists_per_s' \in [SinkWorkers -> ODs(Hists)]
      /\ \A v \in SinkWorkers : latency_hists_per_s'[v] = IF v = w THEN <<>> ELSE latency_hists_per_s[v]
  BY <1>1, EmptyOD DEF Emptied
<1>9. StatsTypes'
  BY Zenon, <1>3, <1>5, <1>6, <1>7, <1>8 DEF StatsInv, StatsTypes
<1>10. QED
  BY <1>2, <1>3, <1>5, <1>7, <1>8, <1>9

LEMMA CollectStats ==
    ASSUME StatsInv, NEW r \in Rounds, NEW w \in Workers, collect(r, w)
    PROVE  StatsInv'
<1>1. /\ StatsTypes'
      /\ updates[r][w] = <<>> /\ updates'[r][w] = Held(w) /\ round[r] = "asks"
      /\ \A q \in Rounds, v \in Workers : q # r \/ v # w => updates'[q][v] = updates[q][v]
      /\ \A v \in SourceWorkers : num_messages_per_s'[v] = IF v = w THEN <<>> ELSE num_messages_per_s[v]
      /\ \A v \in SinkWorkers : latency_hists_per_s'[v] = IF v = w THEN <<>> ELSE latency_hists_per_s[v]
      /\ asked'[r] = asked[r] \ {w} /\ \A q \in Rounds \ {r} : asked'[q] = asked[q]
  BY CollectTypes
<1>2. BucketsInv'
  <2>1. cur_bucket_id' = cur_bucket_id /\ cur_bucket_val' = cur_bucket_val /\ clock' = clock
    BY DEF collect
  <2>2. ASSUME NEW v \in SourceWorkers
        PROVE  \A i \in DOMAIN num_messages_per_s'[v] :
                 num_messages_per_s'[v][i].s < cur_bucket_id[v]
    <3>1. num_messages_per_s'[v] = <<>> \/ num_messages_per_s'[v] = num_messages_per_s[v]
      BY <1>1
    <3>2. QED
      BY <3>1 DEF StatsInv, BucketsInv
  <2>3. QED
    BY Zenon, <2>1, <2>2 DEF StatsInv, BucketsInv
<1>3. RoundsInv'
  <2>1. round' = round /\ w \notin asked'[r]
    BY <1>1 DEF collect
  <2>2. ASSUME NEW q \in Rounds
        PROVE  /\ round[q] # "asks" => asked'[q] = {}
               /\ \A v \in Workers : round[q] # "asks" \/ v \in asked'[q] => updates'[q][v] = <<>>
    <3>1. CASE q = r
      BY <1>1, <2>1, <3>1 DEF StatsInv, RoundsInv
    <3>2. CASE q # r
      <4>1. asked'[q] = asked[q] /\ \A v \in Workers : updates'[q][v] = updates[q][v]
        BY Zenon, <1>1, <3>2
      <4>2. QED
        BY <4>1 DEF StatsInv, RoundsInv
    <3>3. QED
      BY <3>1, <3>2
  <2>3. QED
    BY <2>1, <2>2 DEF RoundsInv
<1>4. \A s : CountIn(<<>>, s) = 0 /\ TotalIn(<<>>, s) = 0
  BY EmptyOD DEF CountIn, TotalIn
<1>5. r = "loop" \/ r = "stop"
  BY DEF Rounds
<1>6. ASSUME NEW s \in Seconds, NEW v \in SourceWorkers
      PROVE  CountOf(v, s)' = CountOf(v, s)
  <2>1. v \in Workers /\ "loop" \in Rounds /\ "stop" \in Rounds
    BY DEF Workers, Rounds
  <2> DEFINE b == IF cur_bucket_id[v] = s THEN cur_bucket_val[v] ELSE 0
             n == CountIn(num_messages_per_s[v], s)
             x == CountIn(updates["loop"][v], s)
             y == CountIn(updates["stop"][v], s)
             n2 == CountIn(num_messages_per_s'[v], s)
             x2 == CountIn(updates'["loop"][v], s)
             y2 == CountIn(updates'["stop"][v], s)
  <2>2. CountOf(v, s) = b + n + x + y /\ CountOf(v, s)' = b + n2 + x2 + y2
    BY DEF CountOf, collect
  <2>3. b \in Nat /\ n \in Nat /\ x \in Nat /\ y \in Nat
    BY <2>1, CountsType DEF StatsInv, StatsTypes
  <2>4. CASE v # w
    <3>1. /\ num_messages_per_s'[v] = num_messages_per_s[v]
          /\ updates'["loop"][v] = updates["loop"][v] /\ updates'["stop"][v] = updates["stop"][v]
      BY Zenon, <1>1, <2>1, <2>4
    <3>2. n2 = n /\ x2 = x /\ y2 = y
      BY Zenon, <3>1
    <3> HIDE DEF b, n, x, y, n2, x2, y2
    <3>3. QED
      BY <2>2, <3>2
  <2>5. CASE v = w
    <3>1. Held(w) = num_messages_per_s[v] /\ n2 = 0
      BY Zenon, <1>1, <1>4, <2>5 DEF Held
    <3>2. CASE r = "loop"
      <4>1. x = 0 /\ x2 = n /\ y2 = y
        BY <1>1, <1>4, <2>1, <2>5, <3>1, <3>2
      <4> HIDE DEF b, n, x, y, n2, x2, y2
      <4>2. QED
        BY <2>2, <2>3, <3>1, <4>1
    <3>3. CASE r = "stop"
      <4>1. y = 0 /\ y2 = n /\ x2 = x
        BY <1>1, <1>4, <2>1, <2>5, <3>1, <3>3
      <4> HIDE DEF b, n, x, y, n2, x2, y2
      <4>2. QED
        BY <2>2, <2>3, <3>1, <4>1
    <3>4. QED
      BY <1>5, <3>2, <3>3
  <2>6. QED
    BY <2>4, <2>5
<1>7. ASSUME NEW s \in Seconds, NEW v \in SinkWorkers
      PROVE  TotalOf(v, s)' = TotalOf(v, s)
  <2>1. v \in Workers /\ "loop" \in Rounds /\ "stop" \in Rounds
    BY DEF Workers, Rounds
  <2> DEFINE n == TotalIn(latency_hists_per_s[v], s)
             x == TotalIn(updates["loop"][v], s)
             y == TotalIn(updates["stop"][v], s)
             n2 == TotalIn(latency_hists_per_s'[v], s)
             x2 == TotalIn(updates'["loop"][v], s)
             y2 == TotalIn(updates'["stop"][v], s)
  <2>2. TotalOf(v, s) = n + x + y /\ TotalOf(v, s)' = n2 + x2 + y2
    BY DEF TotalOf
  <2>3. n \in Nat /\ x \in Nat /\ y \in Nat
    BY <2>1, LatenciesType DEF StatsInv
  <2>4. CASE v # w
    <3>1. /\ latency_hists_per_s'[v] = latency_hists_per_s[v]
          /\ updates'["loop"][v] = updates["loop"][v] /\ updates'["stop"][v] = updates["stop"][v]
      BY Zenon, <1>1, <2>1, <2>4
    <3>2. n2 = n /\ x2 = x /\ y2 = y
      BY Zenon, <3>1
    <3> HIDE DEF n, x, y, n2, x2, y2
    <3>3. QED
      BY <2>2, <3>2
  <2>5. CASE v = w
    <3>1. Held(w) = latency_hists_per_s[v] /\ n2 = 0
      BY Zenon, <1>1, <1>4, <2>5, StatsAssumption DEF Held
    <3>2. CASE r = "loop"
      <4>1. x = 0 /\ x2 = n /\ y2 = y
        BY Zenon, <1>1, <1>4, <2>1, <2>5, <3>1, <3>2
      <4> HIDE DEF n, x, y, n2, x2, y2
      <4>2. QED
        BY <2>2, <2>3, <3>1, <4>1
    <3>3. CASE r = "stop"
      <4>1. y = 0 /\ y2 = n /\ x2 = x
        BY Zenon, <1>1, <1>4, <2>1, <2>5, <3>1, <3>3
      <4> HIDE DEF n, x, y, n2, x2, y2
      <4>2. QED
        BY <2>2, <2>3, <3>1, <4>1
    <3>4. QED
      BY <1>5, <3>2, <3>3
  <2>6. QED
    BY <2>4, <2>5
<1>8. ThroughputCounted'
  <2>1. \A s \in Seconds : [v \in SourceWorkers |-> CountOf(v, s)']
                          = [v \in SourceWorkers |-> CountOf(v, s)]
    BY <1>6
  <2>2. QED
    BY <2>1 DEF StatsInv, ThroughputCounted, collect, jobVars
<1>9. LatencyCounted'
  <2>1. \A s \in Seconds : [v \in SinkWorkers |-> TotalOf(v, s)']
                          = [v \in SinkWorkers |-> TotalOf(v, s)]
    BY <1>7
  <2>2. QED
    BY <2>1 DEF StatsInv, LatencyCounted, collect, jobVars
<1>10. QED
  BY Zenon, <1>1, <1>2, <1>3, <1>8, <1>9 DEF StatsInv

(* The answers of a round go into the windows. *)
LEMMA AggregateTypes ==
    ASSUME StatsInv, NEW r \in Rounds, Aggregate(r)
    PROVE  /\ StatsTypes' /\ BucketsInv' /\ RoundsInv'
           /\ \A w \in Workers : updates'[r][w] = <<>>
           /\ \A q \in Rounds \ {r} : updates'[q] = updates[q]
           /\ MergedNumbers(updates[r]) \in ODs(Nat) /\ MergedHists(updates[r]) \in ODs(Hists)
<1> DEFINE latency == MergeHists(job_latency, MergedHists(updates[r]))
           throughput == MergeNumbers(job_throughput, MergedNumbers(updates[r]))
<1>a. /\ job_throughput' = InWindow(throughput, ThroughputWindow)
      /\ job_latency' = MergeWindow(InWindow(latency, LatencyWindow))
      /\ expired' = expired \cup {s \in Seconds :
                      \/ Has(latency, s) /\ ~Has(job_latency', s)
                      \/ Has(throughput, s) /\ ~Has(job_throughput', s)}
      /\ updates' = [updates EXCEPT ![r] = [w \in Workers |-> <<>>]]
      /\ round' = [round EXCEPT ![r] = "over"] /\ asked' = asked /\ asked[r] = {}
  BY Zenon DEF Aggregate
<1>b. UNCHANGED <<clock, cur_bucket_id, cur_bucket_val, num_messages_per_s, latency_hists_per_s,
                  stuck, incs, observed>>
  BY Zenon DEF Aggregate, workerVars
<1>1. \A w \in SourceWorkers : updates[r][w] \in ODs(Nat)
  BY DEF StatsInv, StatsTypes, Answers, Workers
<1>2. \A w \in SinkWorkers : updates[r][w] \in ODs(Hists)
  BY Zenon, StatsAssumption DEF StatsInv, StatsTypes, Answers, Workers
<1>3. MergedNumbers(updates[r]) \in ODs(Nat) /\ MergedHists(updates[r]) \in ODs(Hists)
  BY Zenon, <1>1, <1>2, MergedNumbersIs, MergedHistsIs
<1>4. latency \in ODs(Hists) /\ throughput \in ODs(Nat)
  BY <1>3, MergeNumbersIs, MergeHistsIs DEF StatsInv, StatsTypes
<1>6. job_throughput' \in ODs(Nat) /\ job_latency' \in ODs(Hists)
  <2> HIDE DEF latency, throughput
  <2>1. InWindow(throughput, ThroughputWindow) \in ODs(Nat)
    BY <1>4, InWindowIs
  <2>2. InWindow(latency, LatencyWindow) \in ODs(Hists)
    BY <1>4, InWindowIs
  <2>3. QED
    BY Zenon, <1>a, <2>1, <2>2, MergeWindowIs
<1>7. expired' \subseteq Seconds
  <2>1. expired \subseteq Seconds
    BY DEF StatsInv, StatsTypes
  <2> HIDE DEF latency, throughput
  <2>2. QED
    BY Zenon, <1>a, <2>1
<1> HIDE DEF latency, throughput
<1>9. updates \in [Rounds -> [Workers -> ODs(Nat) \cup ODs(Hists)]]
      /\ round \in [Rounds -> {"idle", "asks", "over"}]
  BY DEF StatsInv, StatsTypes
<1>10. /\ \A w \in Workers : updates'[r][w] = <<>>
       /\ \A q \in Rounds \ {r} : updates'[q] = updates[q]
       /\ updates' \in [Rounds -> [Workers -> ODs(Nat) \cup ODs(Hists)]]
  <2> DEFINE none == [w \in Workers |-> <<>>]
  <2>1. none \in [Workers -> ODs(Nat) \cup ODs(Hists)] /\ \A w \in Workers : none[w] = <<>>
    BY EmptyOD
  <2>2. updates' = [updates EXCEPT ![r] = none]
    BY <1>a
  <2> HIDE DEF none
  <2>3. updates'[r] = none /\ \A q \in Rounds \ {r} : updates'[q] = updates[q]
    BY <1>9, <2>2
  <2>4. updates' \in [Rounds -> [Workers -> ODs(Nat) \cup ODs(Hists)]]
    BY <1>9, <2>1, <2>2
  <2>5. QED
    BY <2>1, <2>3, <2>4
<1>11. \A q \in Rounds, w \in Workers : updates'[q][w] \in Answers(w)
  <2>1. \A w : <<>> \in Answers(w)
    BY EmptyOD DEF Answers
  <2>2. QED
    BY Zenon, <1>10, <2>1 DEF StatsInv, StatsTypes
<1>12. round' \in [Rounds -> {"idle", "asks", "over"}] /\ round'[r] = "over"
       /\ \A q \in Rounds \ {r} : round'[q] = round[q]
  BY Zenon, <1>9, <1>a
<1>13. StatsTypes'
  BY <1>6, <1>7, <1>10, <1>11, <1>12, <1>a, <1>b DEF StatsInv, StatsTypes
<1>14. BucketsInv'
  BY Zenon, <1>b DEF StatsInv, BucketsInv
<1>15. RoundsInv'
  <2>1. ASSUME NEW q \in Rounds
        PROVE  /\ round'[q] # "asks" => asked'[q] = {}
               /\ \A w \in Workers : round'[q] # "asks" \/ w \in asked'[q] => updates'[q][w] = <<>>
    <3>1. CASE q = r
      BY <1>10, <1>a, <3>1
    <3>2. CASE q # r
      <4>1. round'[q] = round[q] /\ asked'[q] = asked[q] /\ updates'[q] = updates[q]
        BY Zenon, <1>10, <1>12, <1>a, <3>2
      <4>2. QED
        BY <4>1 DEF StatsInv, RoundsInv
    <3>3. QED
      BY Zenon, <3>1, <3>2
  <2>2. QED
    BY <2>1 DEF RoundsInv
<1>16. QED
  BY Zenon, <1>3, <1>10, <1>13, <1>14, <1>15

(* What a round takes from the sum of a second, and gives to the window. *)
LEMMA AggregateCounts ==
    ASSUME StatsInv, NEW r \in Rounds, Aggregate(r), NEW s \in Seconds
    PROVE  LET throughput == MergeNumbers(job_throughput, MergedNumbers(updates[r]))
           IN  /\ throughput \in ODs(Nat)
               /\ CountIn(throughput, s) + SumFunction(Counts(s)') = Counted(s)
<1> DEFINE throughput == MergeNumbers(job_throughput, MergedNumbers(updates[r]))
           ups == [w \in SourceWorkers |-> CountIn(updates[r][w], s)]
           f == Counts(s)
           g == Counts(s)'
<1>1. /\ StatsTypes'
      /\ \A w \in Workers : updates'[r][w] = <<>>
      /\ \A q \in Rounds \ {r} : updates'[q] = updates[q]
      /\ MergedNumbers(updates[r]) \in ODs(Nat)
  BY Zenon, AggregateTypes
<1>2. /\ throughput \in ODs(Nat)
      /\ CountIn(throughput, s) = CountIn(job_throughput, s) + CountIn(MergedNumbers(updates[r]), s)
  <2> DEFINE m == MergedNumbers(updates[r])
  <2>1. job_throughput \in ODs(Nat) /\ m \in ODs(Nat)
    BY <1>1 DEF StatsInv, StatsTypes
  <2> HIDE DEF m
  <2>2. /\ MergeNumbers(job_throughput, m) \in ODs(Nat)
        /\ CountIn(MergeNumbers(job_throughput, m), s) = CountIn(job_throughput, s) + CountIn(m, s)
    BY <2>1, MergeNumbersIs
  <2>3. QED
    BY <2>2 DEF m
<1>3. \A w \in SourceWorkers : updates[r][w] \in ODs(Nat)
  BY DEF StatsInv, StatsTypes, Answers, Workers
<1>4. CountIn(MergedNumbers(updates[r]), s) = SumFunction(ups)
  BY <1>3, MergedNumbersIs
<1>5. IsFiniteSet(SourceWorkers) /\ SourceWorkers \subseteq Workers
  BY StatsAssumption DEF Workers
<1>6. f \in [SourceWorkers -> Nat] /\ g \in [SourceWorkers -> Nat]
      /\ SumFunction(f) \in Nat /\ SumFunction(g) \in Nat /\ CountIn(job_throughput, s) \in Nat
  BY <1>1, CountsType, TypesNext DEF StatsInv
<1>7. ups \in [SourceWorkers -> Nat]
  BY CountsType DEF StatsInv
<1>8. ASSUME NEW w \in SourceWorkers
      PROVE  f[w] = ups[w] + g[w]
  <2>1. "loop" \in Rounds /\ "stop" \in Rounds /\ (r = "loop" \/ r = "stop")
    BY DEF Rounds
  <2> DEFINE b == IF cur_bucket_id[w] = s THEN cur_bucket_val[w] ELSE 0
             n == CountIn(num_messages_per_s[w], s)
             x == CountIn(updates["loop"][w], s)
             y == CountIn(updates["stop"][w], s)
             x2 == CountIn(updates'["loop"][w], s)
             y2 == CountIn(updates'["stop"][w], s)
  <2>2. f[w] = b + n + x + y /\ g[w] = b + n + x2 + y2
    BY Zenon DEF Counts, CountOf, Aggregate, workerVars
  <2>3. b \in Nat /\ n \in Nat /\ x \in Nat /\ y \in Nat
    BY <2>1, CountsType DEF StatsInv, StatsTypes
  <2>4. CountIn(<<>>, s) = 0
    BY EmptyOD DEF CountIn
  <2>5. CASE r = "loop"
    <3>1. ups[w] = x /\ x2 = 0 /\ y2 = y
      BY Zenon, <1>1, <1>5, <2>1, <2>4, <2>5
    <3> HIDE DEF b, n, x, y, x2, y2, f, g, ups
    <3>2. b + n + x + y = x + (b + n + 0 + y)
      BY ONLY <2>3
    <3>3. QED
      BY Zenon, <2>2, <3>1, <3>2
  <2>6. CASE r = "stop"
    <3>1. ups[w] = y /\ y2 = 0 /\ x2 = x
      BY <1>1, <1>5, <2>1, <2>4, <2>6
    <3> HIDE DEF b, n, x, y, x2, y2, f, g, ups
    <3>2. b + n + x + y = y + (b + n + x + 0)
      BY ONLY <2>3
    <3>3. QED
      BY Zenon, <2>2, <3>1, <3>2
  <2>7. QED
    BY Zenon, <2>1, <2>5, <2>6
<1>9. Counted(s) = CountIn(job_throughput, s) + SumFunction(f)
  BY DEF Counted
<1> HIDE DEF f, g, ups, throughput
<1>10. f \in [SourceWorkers -> Int] /\ g \in [SourceWorkers -> Int] /\ ups \in [SourceWorkers -> Int]
  BY <1>6, <1>7
<1>11. SumFunction(f) = SumFunction(ups) + SumFunction(g)
  BY <1>5, <1>8, <1>10, SumAdd
<1>12. SumFunction(ups) \in Nat
  BY <1>5, <1>7, SumNat
<1>13. CountIn(throughput, s) + SumFunction(g) = Counted(s)
  BY <1>2, <1>4, <1>6, <1>9, <1>11, <1>12
<1>14. QED
  BY <1>2, <1>13 DEF g, throughput

LEMMA AggregateLatencies ==
    ASSUME StatsInv, NEW r \in Rounds, Aggregate(r), NEW s \in Seconds
    PROVE  LET latency == MergeHists(job_latency, MergedHists(updates[r]))
           IN  /\ latency \in ODs(Hists)
               /\ TotalIn(latency, s) + SumFunction(Latencies(s)') = Kept(s)
<1> DEFINE latency == MergeHists(job_latency, MergedHists(updates[r]))
           ups == [w \in SinkWorkers |-> TotalIn(updates[r][w], s)]
           f == Latencies(s)
           g == Latencies(s)'
<1>1. /\ StatsTypes'
      /\ \A w \in Workers : updates'[r][w] = <<>>
      /\ \A q \in Rounds \ {r} : updates'[q] = updates[q]
      /\ MergedHists(updates[r]) \in ODs(Hists)
  BY AggregateTypes
<1>2. /\ latency \in ODs(Hists)
      /\ TotalIn(latency, s) = TotalIn(job_latency, s) + TotalIn(MergedHists(updates[r]), s)
  <2> DEFINE m == MergedHists(updates[r])
  <2>1. job_latency \in ODs(Hists) /\ m \in ODs(Hists)
    BY <1>1 DEF StatsInv, StatsTypes
  <2> HIDE DEF m
  <2>2. /\ MergeHists(job_latency, m) \in ODs(Hists)
        /\ TotalIn(MergeHists(job_latency, m), s) = TotalIn(job_latency, s) + TotalIn(m, s)
    BY <2>1, MergeHistsIs
  <2>3. QED
    BY <2>2 DEF m
<1>3. \A w \in SinkWorkers : updates[r][w] \in ODs(Hists)
  BY Zenon, StatsAssumption DEF StatsInv, StatsTypes, Answers, Workers
<1>4. TotalIn(MergedHists(updates[r]), s) = SumFunction(ups)
  BY Zenon, <1>3, MergedHistsIs
<1>5. IsFiniteSet(SinkWorkers) /\ SinkWorkers \subseteq Workers
  BY Zenon, StatsAssumption DEF Workers
<1>6. f \in [SinkWorkers -> Nat] /\ g \in [SinkWorkers -> Nat]
      /\ SumFunction(f) \in Nat /\ SumFunction(g) \in Nat /\ TotalIn(job_latency, s) \in Nat
  BY <1>1, LatenciesType, TypesNext DEF StatsInv
<1>7. ups \in [SinkWorkers -> Nat]
  BY LatenciesType DEF StatsInv
<1>8. ASSUME NEW w \in SinkWorkers
      PROVE  f[w] = ups[w] + g[w]
  <2>1. "loop" \in Rounds /\ "stop" \in Rounds /\ (r = "loop" \/ r = "stop")
    BY DEF Rounds
  <2> DEFINE n == TotalIn(latency_hists_per_s[w], s)
             x == TotalIn(updates["loop"][w], s)
             y == TotalIn(updates["stop"][w], s)
             x2 == TotalIn(updates'["loop"][w], s)
             y2 == TotalIn(updates'["stop"][w], s)
  <2>2. f[w] = n + x + y /\ g[w] = n + x2 + y2
    BY Zenon DEF Latencies, TotalOf, Aggregate, workerVars
  <2>3. n \in Nat /\ x \in Nat /\ y \in Nat
    BY <2>1, LatenciesType DEF StatsInv, StatsTypes
  <2>4. TotalIn(<<>>, s) = 0
    BY EmptyOD DEF TotalIn
  <2>5. CASE r = "loop"
    <3>1. ups[w] = x /\ x2 = 0 /\ y2 = y
      BY Zenon, <1>1, <1>5, <2>1, <2>4, <2>5
    <3> HIDE DEF n, x, y, x2, y2, f, g, ups
    <3>2. QED
      BY <2>2, <2>3, <3>1
  <2>6. CASE r = "stop"
    <3>1. ups[w] = y /\ y2 = 0 /\ x2 = x
      BY <1>1, <1>5, <2>1, <2>4, <2>6
    <3> HIDE DEF n, x, y, x2, y2, f, g, ups
    <3>2. QED
      BY <2>2, <2>3, <3>1
  <2>7. QED
    BY Zenon, <2>1, <2>5, <2>6
<1>9. Kept(s) = TotalIn(job_latency, s) + SumFunction(f)
  BY DEF Kept
<1> HIDE DEF f, g, ups, latency
<1>10. f \in [SinkWorkers -> Int] /\ g \in [SinkWorkers -> Int] /\ ups \in [SinkWorkers -> Int]
  BY <1>6, <1>7
<1>11. SumFunction(f) = SumFunction(ups) + SumFunction(g)
  BY <1>5, <1>8, <1>10, SumAdd
<1>12. SumFunction(ups) \in Nat
  BY <1>5, <1>7, SumNat
<1>13. TotalIn(latency, s) + SumFunction(g) = Kept(s)
  BY <1>2, <1>4, <1>6, <1>9, <1>11, <1>12
<1>14. QED
  BY <1>2, <1>13 DEF g, latency

LEMMA AggregateStats ==
    ASSUME StatsInv, NEW r \in Rounds, Aggregate(r)
    PROVE  StatsInv'
<1> DEFINE latency == MergeHists(job_latency, MergedHists(updates[r]))
           throughput == MergeNumbers(job_throughput, MergedNumbers(updates[r]))
           kept == InWindow(latency, LatencyWindow)
<1>1. StatsTypes' /\ BucketsInv' /\ RoundsInv'
  BY AggregateTypes
<1>2. /\ job_latency' = MergeWindow(kept)
      /\ job_throughput' = InWindow(throughput, ThroughputWindow)
      /\ expired' = expired \cup {s \in Seconds :
                        \/ Has(latency, s) /\ ~Has(job_latency', s)
                        \/ Has(throughput, s) /\ ~Has(job_throughput', s)}
      /\ incs' = incs /\ observed' = observed
  BY Zenon DEF Aggregate
<1>3. \A s \in Seconds : /\ throughput \in ODs(Nat)
                         /\ CountIn(throughput, s) + SumFunction(Counts(s)') = Counted(s)
  BY AggregateCounts
<1>4. \A s \in Seconds : /\ latency \in ODs(Hists)
                         /\ TotalIn(latency, s) + SumFunction(Latencies(s)') = Kept(s)
  BY AggregateLatencies
<1> HIDE DEF latency, throughput
<1>5. ThroughputCounted'
  <2>1. SUFFICES ASSUME NEW s \in Seconds
                 PROVE  LET c == CountIn(job_throughput', s) + SumFunction(Counts(s)')
                        IN  IF s \in expired' THEN c <= incs[s] ELSE c = incs[s]
    BY Zenon, <1>2 DEF ThroughputCounted, Counts
  <2> DEFINE c == CountIn(job_throughput', s)
             t == CountIn(throughput, s)
             g == SumFunction(Counts(s)')
  <2>2. /\ c \in Nat /\ c <= t
        /\ ~Has(throughput, s) \/ Has(job_throughput', s) => c = t
    BY <1>2, <1>3, InWindowCounts
  <2>3. t \in Nat /\ g \in Nat /\ incs[s] \in Nat
    BY <1>1, <1>3, CountIsVal, TypesNext DEF StatsInv, StatsTypes
  <2>4. t + g = Counted(s)
    BY <1>3
  <2>5. IF s \in expired THEN Counted(s) <= incs[s] ELSE Counted(s) = incs[s]
    BY DEF StatsInv, ThroughputCounted, Counted, Counts
  <2>6. s \notin expired' => s \notin expired /\ (~Has(throughput, s) \/ Has(job_throughput', s))
    BY <1>2
  <2> HIDE DEF c, t, g
  <2>7. IF s \in expired' THEN c + g <= incs[s] ELSE c + g = incs[s]
    BY <2>2, <2>3, <2>4, <2>5, <2>6
  <2>8. QED
    BY <2>7 DEF c, g
<1>6. LatencyCounted'
  <2>1. SUFFICES ASSUME NEW s \in Seconds \ expired'
                 PROVE  TotalIn(job_latency', s) + SumFunction(Latencies(s)') >= observed[s]
    BY Zenon, <1>2 DEF LatencyCounted, Latencies
  <2> DEFINE c == TotalIn(job_latency', s)
             t == TotalIn(latency, s)
             g == SumFunction(Latencies(s)')
  <2>2. kept \in ODs(Hists) /\ PartOf(kept, latency) /\ latency \in ODs(Hists)
    BY <1>4, InWindowIs
  <2> HIDE DEF kept
  <2>3. c >= TotalIn(kept, s) /\ (Has(job_latency', s) <=> Has(kept, s))
    BY <1>2, <2>2, MergeWindowIs
  <2>4. s \notin expired /\ (~Has(latency, s) \/ Has(job_latency', s))
    BY <1>2, <2>1
  <2>5. TotalIn(kept, s) = t
    BY <2>2, <2>3, <2>4 DEF PartOf, TotalIn
  <2>6. t + g = Kept(s)
    BY <1>4
  <2>7. Kept(s) >= observed[s]
    BY <2>4 DEF StatsInv, LatencyCounted, Kept, Latencies
  <2>8. t \in Nat /\ g \in Nat /\ observed[s] \in Nat /\ c \in Nat
    BY Zenon, <1>1, <1>4, TotalIsVal, TypesNext DEF StatsInv, StatsTypes
  <2> HIDE DEF c, t, g
  <2>9. c + g >= observed[s]
    BY <2>3, <2>5, <2>6, <2>7, <2>8
  <2>10. QED
    BY <2>9 DEF c, g
<1>7. QED
  BY <1>1, <1>5, <1>6 DEF StatsInv

(* Nothing that the statistics are about changes. *)
LEMMA StatsStutter ==
    ASSUME StatsInv, UNCHANGED statsVars
    PROVE  StatsInv'
<1> USE DEF statsVars, workerVars, roundVars, jobVars
<1>1. StatsTypes' /\ BucketsInv' /\ RoundsInv'
  BY Zenon DEF StatsInv, StatsTypes, BucketsInv, RoundsInv
<1>2. ThroughputCounted' /\ LatencyCounted'
  BY Zenon DEF StatsInv, ThroughputCounted, LatencyCounted, CountOf, TotalOf
<1>3. QED
  BY <1>1, <1>2 DEF StatsInv

(* Every step keeps the invariant. *)
LEMMA StatsKept ==
    ASSUME StatsInv, [StatsNext]_statsVars
    PROVE  StatsInv'
<1>1. CASE Tick
  BY <1>1, TickStats
<1>2. CASE \E running \in BOOLEAN : CollectLoop(running) \/ Stop(running)
  BY <1>2, AskStats DEF CollectLoop, Stop, Rounds
<1>3. CASE \E r \in Rounds : Aggregate(r) \/ \E w \in Workers : collect(r, w)
  BY <1>3, AggregateStats, CollectStats
<1>4. CASE \E w \in SourceWorkers : inc(w)
  BY <1>4, IncStats
<1>5. CASE \E w \in SinkWorkers, latency \in Int, ts \in Seconds : observe(w, latency, ts)
  BY <1>5, ObserveStats
<1>6. CASE UNCHANGED statsVars
  BY <1>6, StatsStutter
<1>7. QED
  BY <1>1, <1>2, <1>3, <1>4, <1>5, <1>6 DEF StatsNext

------------------------------------------------------------------------------
(* Buckets are of the past, answers are there only during a round, and     *)
(* what was counted is accounted for.                                      *)
THEOREM StatsInvariant == StatsSpec => []StatsInv
<1>1. StatsInit => StatsInv
  BY InitStats
<1>2. StatsInv /\ [StatsNext]_statsVars => StatsInv'
  BY StatsKept
<1>3. QED
  BY <1>1, <1>2, PTL DEF StatsSpec

(* However the sources, the rounds of the loop and the last round of       *)
(* stop() interleave, no message is counted twice, and none is forgotten   *)
(* while its second is in the window (stats_manager.py).                   *)
THEOREM ThroughputSafety == StatsSpec => []ThroughputCounted
<1>1. StatsInv => ThroughputCounted
  BY DEF StatsInv
<1>2. QED
  BY <1>1, StatsInvariant, PTL

(* No latency that a sink observed is lost while its second is in the      *)
(* window of the job.                                                      *)
THEOREM LatencySafety == StatsSpec => []LatencyCounted
<1>1. StatsInv => LatencyCounted
  BY DEF StatsInv
<1>2. QED
  BY <1>1, StatsInvariant, PTL

==============================================================================
