-------------------------- MODULE StreamTaskProofs ---------------------------
(***************************************************************************)
(* Proofs that a task's writer keeps the messages of a channel in a line   *)
(* and that its collectors give every record to the partitions it must     *)
(* reach.  Unbatched is a recursive function: what it does to batches that *)
(* grow at their end or shrink at their head is proved first.              *)
(***************************************************************************)
EXTENDS StreamTask, SequenceTheorems, DataLemmas

(* One unfolding of Unbatched. *)
UnbatchStep(f, w, i) == IF i = 0 THEN << >> ELSE f[i - 1] \o w[i]

(* f unfolds so up to k, and its values are sequences. *)
Unfolds(f, w, k) == \A i \in 0 .. k : f[i] = UnbatchStep(f, w, i)
Unbatches(M, f, w, k) == f \in [0 .. k -> Seq(M)] /\ Unfolds(f, w, k)

(* Such functions exist. *)
LEMMA UnbatchExists ==
    ASSUME NEW M, NEW w \in Seq(Seq(M))
    PROVE  \A n \in Nat : n <= Len(w) => \E f : Unbatches(M, f, w, n)
<1> DEFINE G == {n \in Nat : n <= Len(w) => \E f : Unbatches(M, f, w, n)}
<1>1. 0 \in G
  <2> DEFINE f == [i \in 0 .. 0 |-> << >>]
  <2>1. f \in [0 .. 0 -> Seq(M)] /\ \A i \in 0 .. 0 : i = 0 /\ f[i] = << >>
    OBVIOUS
  <2> HIDE DEF f
  <2>2. Unbatches(M, f, w, 0)
    BY <2>1 DEF Unbatches, Unfolds, UnbatchStep
  <2>3. QED
    BY <2>2
<1>2. ASSUME NEW n \in Nat, n \in G
      PROVE  n + 1 \in G
  <2> SUFFICES ASSUME n + 1 <= Len(w)
               PROVE  \E f : Unbatches(M, f, w, n + 1)
    OBVIOUS
  <2>0. Len(w) \in Nat /\ w[n + 1] \in Seq(M) /\ n + 1 # 0 /\ (n + 1) - 1 = n
    OBVIOUS
  <2>1. PICK f : Unbatches(M, f, w, n)
    BY <1>2, <2>0
  <2>2. f \in [0 .. n -> Seq(M)] /\ \A i \in 0 .. n : f[i] = UnbatchStep(f, w, i)
    BY <2>1 DEF Unbatches, Unfolds
  <2> DEFINE last == f[n] \o w[n + 1]
             g == [i \in 0 .. n + 1 |-> IF i = n + 1 THEN last ELSE f[i]]
  <2>3. last \in Seq(M)
    <3>1. f[n] \in Seq(M)
      BY <2>2
    <3>2. QED
      BY <2>0, <3>1
  <2>4. g \in [0 .. n + 1 -> Seq(M)]
    <3> HIDE DEF last
    <3>1. \A i \in 0 .. n + 1 : i # n + 1 => f[i] \in Seq(M)
      BY <2>2
    <3>2. QED
      BY <2>3, <3>1
  <2>5. ASSUME NEW i \in 0 .. n + 1
        PROVE  g[i] = UnbatchStep(g, w, i)
    <3>1. CASE i = n + 1
      <4>1. g[n] = f[n] /\ g[n + 1] = last
        <5> HIDE DEF last
        <5>1. n \in 0 .. n + 1 /\ n + 1 \in 0 .. n + 1 /\ n # n + 1
          OBVIOUS
        <5>2. QED
          BY ONLY <5>1 DEF g
      <4> HIDE DEF g
      <4>2. QED
        BY Zenon, <2>0, <3>1, <4>1 DEF UnbatchStep
    <3>2. CASE i # n + 1
      <4>1. i \in 0 .. n /\ g[i] = f[i] /\ (i # 0 => g[i - 1] = f[i - 1])
        BY <3>2
      <4>2. f[i] = UnbatchStep(f, w, i)
        BY <2>2, <4>1
      <4> HIDE DEF g
      <4>3. QED
        BY <4>1, <4>2 DEF UnbatchStep
    <3>3. QED
      BY Zenon, <3>1, <3>2
  <2>6. Unbatches(M, g, w, n + 1)
    <3> HIDE DEF g
    <3>1. QED
      BY <2>4, <2>5 DEF Unbatches, Unfolds
  <2> HIDE DEF g
  <2>7. QED
    BY <2>6
<1> HIDE DEF G
<1>3. \A n \in Nat : n \in G
  BY <1>1, <1>2, Induction
<1>4. QED
  BY <1>3 DEF G

(* They agree where the sequences do. *)
LEMMA UnfoldsAgree ==
    ASSUME NEW k \in Nat, NEW f, NEW g, NEW w, NEW v,
           Unfolds(f, w, k), Unfolds(g, v, k), Same(w, v, 1 .. k)
    PROVE  f[k] = g[k]
<1> USE DEF Unfolds, Same
<1> DEFINE G == {n \in Nat : n <= k => f[n] = g[n]}
<1>1. 0 \in G
  BY DEF UnbatchStep
<1>2. ASSUME NEW n \in Nat, n \in G
      PROVE  n + 1 \in G
  <2> SUFFICES ASSUME n + 1 <= k
               PROVE  f[n + 1] = g[n + 1]
    OBVIOUS
  <2>1. n + 1 \in 0 .. k /\ n + 1 \in 1 .. k
    OBVIOUS
  <2>2. /\ f[n + 1] = UnbatchStep(f, w, n + 1) /\ g[n + 1] = UnbatchStep(g, v, n + 1)
        /\ w[n + 1] = v[n + 1]
    BY <2>1
  <2>3. f[n] = g[n]
    BY <1>2
  <2>4. n + 1 # 0 /\ (n + 1) - 1 = n
    OBVIOUS
  <2>5. QED
    BY ONLY Zenon, <2>2, <2>3, <2>4 DEF UnbatchStep
<1> HIDE DEF G
<1>3. k \in G
  BY <1>1, <1>2, Induction
<1>4. QED
  BY <1>3 DEF G

(* Unbatched is the last value of such a function. *)
LEMMA UnbatchedIs ==
    ASSUME NEW M, NEW w \in Seq(Seq(M))
    PROVE  \E f : Unbatches(M, f, w, Len(w)) /\ Unbatched(w) = f[Len(w)]
<1> DEFINE Is(f) == f = [i \in 0 .. Len(w) |-> UnbatchStep(f, w, i)]
           upto == CHOOSE f : Is(f)
<1>1. Len(w) \in Nat
  OBVIOUS
<1>2. PICK g : Unbatches(M, g, w, Len(w))
  <2>1. Len(w) <= Len(w)
    BY <1>1
  <2>2. QED
    BY <1>1, <2>1, UnbatchExists
<1>3. Is(g)
  BY <1>2 DEF Unbatches, Unfolds
<1>4. Is(upto)
  <2> HIDE DEF Is
  <2>1. QED
    BY <1>3
<1>5. Unbatched(w) = upto[Len(w)]
  BY DEF Unbatched, UnbatchStep
<1> HIDE DEF upto
<1>6. Unfolds(upto, w, Len(w))
  BY Zenon, <1>4 DEF Unfolds
<1>7. Unfolds(g, w, Len(w)) /\ Same(w, w, 1 .. Len(w))
  BY <1>2 DEF Unbatches, Same
<1>8. upto[Len(w)] = g[Len(w)]
  BY Zenon, <1>1, <1>6, <1>7, UnfoldsAgree
<1>9. QED
  BY <1>2, <1>5, <1>8

(* No batch holds no message. *)
LEMMA UnbatchedEmpty == Unbatched(<< >>) = << >>
<1> DEFINE e == << >>
           M == {}
<1>1. e \in Seq(Seq(M)) /\ Len(e) = 0
  OBVIOUS
<1> HIDE DEF e, M
<1>2. PICK f : Unbatches(M, f, e, 0) /\ Unbatched(e) = f[0]
  BY Zenon, <1>1, UnbatchedIs
<1>3. f[0] = << >>
  BY <1>2 DEF Unbatches, Unfolds, UnbatchStep
<1>4. QED
  BY <1>2, <1>3 DEF e

(* The messages of batches are a sequence. *)
LEMMA UnbatchedType ==
    ASSUME NEW M, NEW w \in Seq(Seq(M))
    PROVE  Unbatched(w) \in Seq(M)
<1>1. PICK f : Unbatches(M, f, w, Len(w)) /\ Unbatched(w) = f[Len(w)]
  BY UnbatchedIs
<1>2. Len(w) \in 0 .. Len(w)
  OBVIOUS
<1>3. QED
  BY <1>1, <1>2 DEF Unbatches

(* A batch more at the end. *)
LEMMA UnbatchedAppend ==
    ASSUME NEW M, NEW w \in Seq(Seq(M)), NEW b \in Seq(M)
    PROVE  Unbatched(Append(w, b)) = Unbatched(w) \o b
<1> DEFINE v == Append(w, b)
           n == Len(w)
<1>1. /\ v \in Seq(Seq(M)) /\ Len(v) = n + 1 /\ n \in Nat /\ v[n + 1] = b
      /\ \A i \in 1 .. n : w[i] = v[i]
  OBVIOUS
<1>2. PICK g : Unbatches(M, g, w, n) /\ Unbatched(w) = g[n]
  BY UnbatchedIs
<1> HIDE DEF v, n
<1>3. PICK f : Unbatches(M, f, v, n + 1) /\ Unbatched(v) = f[n + 1]
  BY <1>1, UnbatchedIs
<1>4. Unfolds(f, v, n) /\ Unfolds(g, w, n) /\ Same(v, w, 1 .. n)
  <2>1. \A i \in 0 .. n : i \in 0 .. n + 1
    BY <1>1
  <2>2. QED
    BY <1>1, <1>2, <1>3, <2>1 DEF Unbatches, Unfolds, Same
<1>5. f[n] = g[n]
  BY Zenon, <1>1, <1>4, UnfoldsAgree
<1>6. f[n + 1] = f[n] \o b
  <2>1. n + 1 # 0 /\ (n + 1) - 1 = n /\ n + 1 \in 0 .. n + 1
    BY <1>1
  <2>2. f[n + 1] = UnbatchStep(f, v, n + 1)
    BY <1>3, <2>1 DEF Unbatches, Unfolds
  <2>3. QED
    BY <1>1, <2>1, <2>2 DEF UnbatchStep
<1>7. QED
  BY <1>2, <1>3, <1>5, <1>6 DEF v

(* Two ways to group a concatenation ... *)
Regrouped(r, f, s) == r \o (f \o s) = (r \o f) \o s

(* ... which come to the same. *)
LEMMA Regroup ==
    ASSUME NEW M, NEW r \in Seq(M), NEW f \in Seq(M), NEW s \in Seq(M)
    PROVE  Regrouped(r, f, s)
<1>0. r \in Seq(M) /\ f \in Seq(M) /\ s \in Seq(M)
  OBVIOUS
<1>1. QED
  BY ONLY <1>0, ConcatAssociative DEF Regrouped

(* Batches in two parts. *)
LEMMA UnbatchedConcat ==
    ASSUME NEW M, NEW u \in Seq(Seq(M)), NEW v \in Seq(Seq(M))
    PROVE  Unbatched(u \o v) = Unbatched(u) \o Unbatched(v)
<1> DEFINE G == {n \in Nat : \A t \in Seq(Seq(M)) : Len(t) = n =>
                               Unbatched(u \o t) = Unbatched(u) \o Unbatched(t)}
<1>0. Unbatched(u) \in Seq(M)
  BY UnbatchedType
<1>1. 0 \in G
  <2>1. ASSUME NEW t \in Seq(Seq(M)), Len(t) = 0
        PROVE  Unbatched(u \o t) = Unbatched(u) \o Unbatched(t)
    <3>1. t = << >>
      BY <2>1
    <3>2. u \o << >> = u
      BY ConcatEmptySeq
    <3>3. Unbatched(u) \o << >> = Unbatched(u)
      BY <1>0, ConcatEmptySeq
    <3>4. QED
      BY Zenon, <3>1, <3>2, <3>3, UnbatchedEmpty
  <2>2. QED
    BY <2>1
<1>2. ASSUME NEW n \in Nat, n \in G
      PROVE  n + 1 \in G
  <2>1. ASSUME NEW t \in Seq(Seq(M)), Len(t) = n + 1
        PROVE  Unbatched(u \o t) = Unbatched(u) \o Unbatched(t)
    <3>1. PICK s \in Seq(Seq(M)), b \in Seq(M) : t = Append(s, b)
      <4> DEFINE SM == Seq(M)
      <4>1. t \in Seq(SM) /\ t # << >>
        BY <2>1
      <4> HIDE DEF SM
      <4>2. \E s \in Seq(SM), b \in SM : t = Append(s, b)
        BY <4>1, SequenceEmptyOrAppend
      <4>3. QED
        BY Zenon, <4>2 DEF SM
    <3>2. Len(s) = n
      BY <2>1, <3>1
    <3>3. Unbatched(u \o s) = Unbatched(u) \o Unbatched(s)
      BY <1>2, <3>2
    <3>4. u \o t = Append(u \o s, b) /\ u \o s \in Seq(Seq(M))
      BY <3>1
    <3>5. Unbatched(u \o t) = Unbatched(u \o s) \o b
      <4> DEFINE us == u \o s
      <4>1. us \in Seq(Seq(M)) /\ u \o t = Append(us, b)
        BY <3>4
      <4> HIDE DEF us
      <4>2. Unbatched(Append(us, b)) = Unbatched(us) \o b
        BY Zenon, <4>1, UnbatchedAppend
      <4>3. QED
        BY <4>1, <4>2 DEF us
    <3>6. Unbatched(t) = Unbatched(s) \o b /\ Unbatched(s) \in Seq(M)
      BY <3>1, UnbatchedAppend, UnbatchedType
    <3> DEFINE fu == Unbatched(u)
               fs == Unbatched(s)
    <3>7. (fu \o fs) \o b = fu \o (fs \o b)
      <4>1. fu \in Seq(M) /\ fs \in Seq(M) /\ b \in Seq(M)
        BY <1>0, <3>6
      <4> HIDE DEF fu, fs
      <4>2. Regrouped(fu, fs, b)
        BY Zenon, <4>1, Regroup
      <4>3. QED
        BY ONLY <4>2 DEF Regrouped
    <3>8. QED
      BY <3>3, <3>5, <3>6, <3>7
  <2>2. QED
    BY <2>1
<1>3. Len(v) \in Nat
  OBVIOUS
<1> HIDE DEF G
<1>4. Len(v) \in G
  BY Zenon, <1>1, <1>2, <1>3, Induction
<1>5. QED
  BY <1>4 DEF G

(* The first batch comes first. *)
LEMMA UnbatchedHead ==
    ASSUME NEW M, NEW w \in Seq(Seq(M)), w # << >>
    PROVE  Unbatched(w) = Head(w) \o Unbatched(Tail(w))
<1> DEFINE h == Head(w)
           t == Tail(w)
           e == << >>
<1>1. h \in Seq(M) /\ t \in Seq(Seq(M)) /\ w = <<h>> \o t /\ <<h>> \in Seq(Seq(M))
      /\ <<h>> = Append(e, h) /\ e \in Seq(Seq(M))
  OBVIOUS
<1> HIDE DEF h, t
<1>2. Unbatched(<<h>>) = h
  <2>1. Unbatched(e) = e
    BY UnbatchedEmpty
  <2>2. Unbatched(Append(e, h)) = Unbatched(e) \o h
    <3> HIDE DEF e
    <3>1. QED
      BY <1>1, UnbatchedAppend
  <2>3. e \o h = h
    BY <1>1, ConcatEmptySeq
  <2>4. QED
    BY Zenon, <1>1, <2>1, <2>2, <2>3
<1>3. Unbatched(<<h>> \o t) = Unbatched(<<h>>) \o Unbatched(t)
  <2> DEFINE hs == <<h>>
  <2>1. hs \in Seq(Seq(M))
    BY <1>1
  <2> HIDE DEF hs
  <2>2. Unbatched(hs \o t) = Unbatched(hs) \o Unbatched(t)
    BY <1>1, <2>1, UnbatchedConcat
  <2>3. QED
    BY Zenon, <2>2 DEF hs
<1>4. QED
  BY Zenon, <1>1, <1>2, <1>3 DEF h, t

(* A channel is a line of four sections, from its far end to its near end: *)
(* received, on the wire, stranded, in the batch.                          *)
Line(r, f, s, b) == r \o f \o s \o b

(* A batch that is sent stays where it is in the line ...                  *)
LEMMA LineSent ==
    ASSUME NEW M, NEW r \in Seq(M), NEW f \in Seq(M), NEW b \in Seq(M)
    PROVE  Line(r, f \o b, << >>, << >>) = Line(r, f, << >>, b)
<1>1. (r \o (f \o b)) \o << >> = r \o (f \o b) /\ r \o (f \o b) \in Seq(M)
  BY ConcatEmptySeq
<1>2. (r \o f) \o << >> = r \o f
  BY ConcatEmptySeq
<1>0. r \in Seq(M) /\ f \in Seq(M) /\ b \in Seq(M)
  OBVIOUS
<1>3. r \o (f \o b) = (r \o f) \o b
  <2>1. Regrouped(r, f, b)
    BY Zenon, <1>0, Regroup
  <2>2. QED
    BY ONLY <2>1 DEF Regrouped
<1>4. QED
  BY <1>1, <1>2, <1>3 DEF Line

(* ... and so does one that a closed transport takes.                      *)
LEMMA LineStranded ==
    ASSUME NEW M, NEW r \in Seq(M), NEW f \in Seq(M), NEW s \in Seq(M), NEW b \in Seq(M)
    PROVE  Line(r, f, s \o b, << >>) = Line(r, f, s, b)
<1> DEFINE p == r \o f
<1>1. p \in Seq(M)
  OBVIOUS
<1> HIDE DEF p
<1>0. s \in Seq(M) /\ b \in Seq(M)
  OBVIOUS
<1>2. p \o (s \o b) = (p \o s) \o b
  <2>1. Regrouped(p, s, b)
    BY Zenon, <1>1, <1>0, Regroup
  <2>2. QED
    BY ONLY <2>1 DEF Regrouped
<1>3. (p \o (s \o b)) \o << >> = p \o (s \o b)
  BY <1>1, ConcatEmptySeq
<1>4. QED
  BY <1>2, <1>3 DEF Line, p

(* A sequence is its two parts.                                            *)
LEMMA CutInTwo ==
    ASSUME NEW M, NEW w \in Seq(M), NEW k \in Nat, k <= Len(w)
    PROVE  w = SubSeq(w, 1, k) \o SubSeq(w, k + 1, Len(w))
<1>1. 1 \in 1 .. Len(w) + 1 /\ k \in 1 - 1 .. Len(w) /\ Len(w) \in k .. Len(w)
  OBVIOUS
<1>2. SubSeq(w, 1, k) \o SubSeq(w, k + 1, Len(w)) = SubSeq(w, 1, Len(w))
  BY Zenon, <1>1, ConcatAdjacentSubSeq
<1>3. SubSeq(w, 1, Len(w)) = w
  OBVIOUS
<1>4. QED
  BY Zenon, <1>2, <1>3

(* A batch that is read stays where it is in the line, too ...             *)
LEMMA LineRead ==
    ASSUME NEW M, NEW r \in Seq(M), NEW h \in Seq(M), NEW f \in Seq(M), NEW s, NEW b
    PROVE  Line(r \o h, f, s, b) = Line(r, h \o f, s, b)
<1>0. r \in Seq(M) /\ f \in Seq(M) /\ h \in Seq(M)
  OBVIOUS
<1>1. (r \o h) \o f = r \o (h \o f)
  <2>1. Regrouped(r, h, f)
    BY Zenon, <1>0, Regroup
  <2>2. QED
    BY ONLY <2>1 DEF Regrouped
<1>2. QED
  BY <1>1 DEF Line

(* ... and so does the part of the wire that never leaves the writer.      *)
LEMMA LineClosed ==
    ASSUME NEW M, NEW r \in Seq(M), NEW f \in Seq(M), NEW s \in Seq(M), NEW b
    PROVE  Line(r, f, s, b) = Line(r, f \o s, << >>, b)
<1>0. r \in Seq(M) /\ f \in Seq(M) /\ s \in Seq(M)
  OBVIOUS
<1>1. (r \o f) \o s = r \o (f \o s)
  <2>1. Regrouped(r, f, s)
    BY Zenon, <1>0, Regroup
  <2>2. QED
    BY ONLY <2>1 DEF Regrouped
<1>2. (r \o (f \o s)) \o << >> = r \o (f \o s)
  BY ConcatEmptySeq
<1>3. QED
  BY <1>1, <1>2 DEF Line

------------------------------------------------------------------------------
(* The partitions of collector k, counted from 1. *)
Parts(k) == 1 .. Len(Collectors[k].channels)

(* The thread is between two records or at a partition it has to serve. *)
ThreadInv ==
    /\ records \in 0 .. NumRecords
    /\ at \in 0 .. Len(Collectors)
    /\ seq \in [DOMAIN Collectors -> Nat]
    /\ at # 0 => /\ records # 0
                 /\ to_send \in Seq(Parts(at))
                 /\ cur \in 1 .. Len(to_send)

ChannelTypes ==
    /\ batch \in [Channels -> Seq(Nat)]
    /\ wire \in [Channels -> Seq(Seq(Nat))]
    /\ accepted \in [Channels -> Seq(Nat)]
    /\ stranded \in [Channels -> Seq(Nat)]
    /\ received \in [Channels -> Seq(Nat)]

(* What channel c holds of what it has taken. *)
Held(c) == Line(received[c], Unbatched(wire[c]), stranded[c], batch[c])

(* The line of a channel is complete, and it has a stranded part only when *)
(* the transport is closed.                                                *)
ChannelInv ==
    /\ ChannelTypes
    /\ closer # "closed" => \A c \in Channels : stranded[c] = << >>
    /\ \A c \in Channels : Held(c) = accepted[c]

(* The messages on the wire of a channel. *)
LEMMA WireType ==
    ASSUME ChannelTypes, NEW c \in Channels
    PROVE  /\ wire[c] \in Seq(Seq(Nat)) /\ Unbatched(wire[c]) \in Seq(Nat)
           /\ received[c] \in Seq(Nat) /\ stranded[c] \in Seq(Nat) /\ batch[c] \in Seq(Nat)
           /\ accepted[c] \in Seq(Nat)
<1>1. wire[c] \in Seq(Seq(Nat)) /\ received[c] \in Seq(Nat) /\ stranded[c] \in Seq(Nat)
      /\ batch[c] \in Seq(Nat) /\ accepted[c] \in Seq(Nat)
  BY DEF ChannelTypes
<1>2. Unbatched(wire[c]) \in Seq(Nat)
  BY Zenon, <1>1, UnbatchedType
<1>3. QED
  BY Zenon, <1>1, <1>2

(* What write_bytes is given joins the line behind what was sent before, or *)
(* behind what is stranded.                                                 *)
LEMMA SentJoinsLine ==
    ASSUME ChannelInv, NEW c \in Channels, NEW b \in Seq(Nat), WriteBytes(c, b)
    PROVE  /\ wire' \in [Channels -> Seq(Seq(Nat))]
           /\ stranded' \in [Channels -> Seq(Nat)]
           /\ \A d \in Channels : d # c => wire'[d] = wire[d] /\ stranded'[d] = stranded[d]
           /\ closer # "closed" => stranded' = stranded
           /\ Line(received[c], Unbatched(wire'[c]), stranded'[c], << >>)
                = Line(received[c], Unbatched(wire[c]), stranded[c], b)
<1> USE DEF ChannelInv
<1>1. wire[c] \in Seq(Seq(Nat)) /\ Unbatched(wire[c]) \in Seq(Nat)
      /\ received[c] \in Seq(Nat) /\ stranded[c] \in Seq(Nat)
  BY Zenon, WireType
<1>2. wire \in [Channels -> Seq(Seq(Nat))] /\ stranded \in [Channels -> Seq(Nat)]
  BY DEF ChannelTypes
<1>3. CASE closer = "closed"
  <2>1. stranded' = [stranded EXCEPT ![c] = @ \o b] /\ wire' = wire
    BY Zenon, <1>3 DEF WriteBytes
  <2>2. stranded'[c] = stranded[c] \o b
    BY <1>2, <2>1
  <2>3. stranded[c] \o b \in Seq(Nat)
    BY <1>1
  <2>4. Line(received[c], Unbatched(wire[c]), stranded[c] \o b, << >>)
          = Line(received[c], Unbatched(wire[c]), stranded[c], b)
    BY ONLY <1>1, b \in Seq(Nat), LineStranded
  <2>5. stranded' \in [Channels -> Seq(Nat)]
    BY <1>2, <2>1, <2>3
  <2>6. \A d \in Channels : d # c => stranded'[d] = stranded[d]
    BY <1>2, <2>1
  <2>7. QED
    BY Zenon, <1>2, <1>3, <2>1, <2>2, <2>4, <2>5, <2>6
<1>4. CASE closer # "closed"
  <2>1. wire' = [wire EXCEPT ![c] = Append(@, b)] /\ stranded' = stranded
    BY Zenon, <1>4 DEF WriteBytes
  <2>2. wire'[c] = Append(wire[c], b)
    BY <1>2, <2>1
  <2>3. Append(wire[c], b) \in Seq(Seq(Nat))
    BY <1>1
  <2>4. wire' \in [Channels -> Seq(Seq(Nat))]
    BY <1>2, <2>1, <2>3
  <2>5. \A d \in Channels : d # c => wire'[d] = wire[d]
    BY <1>2, <2>1
  <2>6. Unbatched(wire'[c]) = Unbatched(wire[c]) \o b
    BY Zenon, <1>1, <2>2, UnbatchedAppend
  <2>7. stranded[c] = << >>
    BY Zenon, <1>4
  <2>8. Line(received[c], Unbatched(wire[c]) \o b, << >>, << >>)
          = Line(received[c], Unbatched(wire[c]), << >>, b)
    BY Zenon, <1>1, LineSent
  <2>9. QED
    BY Zenon, <1>2, <2>1, <2>4, <2>5, <2>6, <2>7, <2>8
<1>5. QED
  BY Zenon, <1>3, <1>4

(* _try_write_message keeps the line of its channel the messages it took. *)
LEMMA TakenKeepsLine ==
    ASSUME ChannelInv, NEW c \in Channels, NEW m \in Nat, Taken(c, m),
           closer' = closer, received' = received
    PROVE  ChannelInv'
<1> USE DEF ChannelInv
<1> DEFINE b == Append(batch[c], m)
<1>1. wire[c] \in Seq(Seq(Nat)) /\ Unbatched(wire[c]) \in Seq(Nat)
      /\ received[c] \in Seq(Nat) /\ stranded[c] \in Seq(Nat) /\ batch[c] \in Seq(Nat)
      /\ accepted[c] \in Seq(Nat)
  BY Zenon, WireType
<1>2. wire \in [Channels -> Seq(Seq(Nat))] /\ stranded \in [Channels -> Seq(Nat)]
      /\ batch \in [Channels -> Seq(Nat)] /\ accepted \in [Channels -> Seq(Nat)]
      /\ received \in [Channels -> Seq(Nat)]
  BY DEF ChannelTypes
<1>3. b \in Seq(Nat) /\ Append(accepted[c], m) \in Seq(Nat)
  BY <1>1
<1>4. /\ accepted' = [accepted EXCEPT ![c] = Append(@, m)]
      /\ \/ WriteBytes(c, b) /\ batch' = [batch EXCEPT ![c] = << >>]
         \/ batch' = [batch EXCEPT ![c] = b] /\ UNCHANGED <<wire, stranded>>
  BY Zenon DEF Taken
<1>5. Line(received[c], Unbatched(wire[c]), stranded[c], b)
        = Append(Line(received[c], Unbatched(wire[c]), stranded[c], batch[c]), m)
  <2> DEFINE R == received[c]
             F == Unbatched(wire[c])
             S == stranded[c]
             B == batch[c]
             M == Nat
  <2>1. R \in Seq(M) /\ F \in Seq(M) /\ S \in Seq(M) /\ B \in Seq(M) /\ m \in M
    BY <1>1
  <2> HIDE DEF R, F, S, B, M
  <2>2. Line(R, F, S, Append(B, m)) = Append(Line(R, F, S, B), m)
    <3> DEFINE P == R \o F \o S
    <3>1. P \in Seq(M)
      BY ONLY <2>1
    <3> HIDE DEF P
    <3>2. P \o Append(B, m) = Append(P \o B, m)
      BY ONLY <2>1, <3>1
    <3>3. QED
      BY <3>2 DEF Line, P
  <2>3. QED
    BY <2>2 DEF R, F, S, B
<1> HIDE DEF b
<1>6. /\ accepted' \in [Channels -> Seq(Nat)]
      /\ accepted'[c] = Append(accepted[c], m)
      /\ \A d \in Channels : d # c => accepted'[d] = accepted[d]
  BY <1>2, <1>3, <1>4
<1>7. Held(c) = accepted[c]
  OBVIOUS
<1>8. CASE WriteBytes(c, b) /\ batch' = [batch EXCEPT ![c] = << >>]
  <2>1. /\ wire' \in [Channels -> Seq(Seq(Nat))]
        /\ stranded' \in [Channels -> Seq(Nat)]
        /\ \A d \in Channels : d # c => wire'[d] = wire[d] /\ stranded'[d] = stranded[d]
        /\ closer # "closed" => stranded' = stranded
        /\ Line(received[c], Unbatched(wire'[c]), stranded'[c], << >>)
             = Line(received[c], Unbatched(wire[c]), stranded[c], b)
    BY Zenon, <1>3, <1>8, SentJoinsLine
  <2>2. /\ batch' \in [Channels -> Seq(Nat)] /\ batch'[c] = << >>
        /\ \A d \in Channels : d # c => batch'[d] = batch[d]
    BY <1>2, <1>8
  <2>3. ChannelTypes'
    BY Zenon, <1>2, <1>6, <2>1, <2>2 DEF ChannelTypes
  <2>4. Held(c)' = accepted'[c]
    BY Zenon, <1>5, <1>6, <1>7, <2>1, <2>2 DEF Held
  <2>5. ASSUME NEW d \in Channels, d # c PROVE Held(d)' = accepted'[d]
    <3>1. Held(d) = accepted[d]
      OBVIOUS
    <3>2. QED
      BY Zenon, <3>1, <1>6, <2>1, <2>2, <2>5 DEF Held
  <2>6. QED
    BY Zenon, <2>1, <2>3, <2>4, <2>5
<1>9. CASE batch' = [batch EXCEPT ![c] = b] /\ UNCHANGED <<wire, stranded>>
  <2>1. /\ batch' \in [Channels -> Seq(Nat)] /\ batch'[c] = b
        /\ \A d \in Channels : d # c => batch'[d] = batch[d]
    BY <1>2, <1>3, <1>9
  <2>2. wire' = wire /\ stranded' = stranded
    BY Zenon, <1>9
  <2>3. ChannelTypes'
    BY Zenon, <1>2, <1>6, <2>1, <2>2 DEF ChannelTypes
  <2>4. Held(c)' = accepted'[c]
    BY Zenon, <1>5, <1>6, <1>7, <2>1, <2>2 DEF Held
  <2>5. ASSUME NEW d \in Channels, d # c PROVE Held(d)' = accepted'[d]
    <3>1. Held(d) = accepted[d]
      OBVIOUS
    <3>2. QED
      BY Zenon, <3>1, <1>6, <2>1, <2>2, <2>5 DEF Held
  <2>6. QED
    BY Zenon, <2>2, <2>3, <2>4, <2>5
<1>10. QED
  BY Zenon, <1>4, <1>8, <1>9

(* try_flush_if_needed keeps the line too. *)
LEMMA FlushKeepsLine ==
    ASSUME ChannelInv, NEW c \in Channels, TryFlush(c), closer' = closer, received' = received
    PROVE  ChannelInv'
<1> USE DEF ChannelInv
<1>1. batch[c] \in Seq(Nat)
  BY Zenon, WireType
<1>2. batch \in [Channels -> Seq(Nat)] /\ accepted \in [Channels -> Seq(Nat)]
      /\ received \in [Channels -> Seq(Nat)]
  BY Zenon DEF ChannelTypes
<1>3. WriteBytes(c, batch[c]) /\ batch' = [batch EXCEPT ![c] = << >>] /\ accepted' = accepted
  BY Zenon DEF TryFlush
<1>4. /\ wire' \in [Channels -> Seq(Seq(Nat))]
      /\ stranded' \in [Channels -> Seq(Nat)]
      /\ \A d \in Channels : d # c => wire'[d] = wire[d] /\ stranded'[d] = stranded[d]
      /\ closer # "closed" => stranded' = stranded
      /\ Line(received[c], Unbatched(wire'[c]), stranded'[c], << >>)
           = Line(received[c], Unbatched(wire[c]), stranded[c], batch[c])
  BY Zenon, <1>1, <1>3, SentJoinsLine
<1>5. /\ batch' \in [Channels -> Seq(Nat)] /\ batch'[c] = << >>
      /\ \A d \in Channels : d # c => batch'[d] = batch[d]
  BY <1>2, <1>3
<1>6. ChannelTypes'
  BY Zenon, <1>2, <1>3, <1>4, <1>5 DEF ChannelTypes
<1>7. ASSUME NEW d \in Channels PROVE Held(d)' = accepted'[d]
  <2>1. Held(d) = accepted[d]
    OBVIOUS
  <2>2. CASE d = c
    BY Zenon, <2>1, <2>2, <1>3, <1>4, <1>5 DEF Held
  <2>3. CASE d # c
    BY Zenon, <2>1, <2>3, <1>3, <1>4, <1>5 DEF Held
  <2>4. QED
    BY <2>2, <2>3
<1>8. QED
  BY Zenon, <1>4, <1>6, <1>7

(* A batch that is read moves from the head of the wire to the end of what *)
(* is processed.                                                            *)
LEMMA ReadKeepsLine ==
    ASSUME ChannelInv, NEW c \in Channels, ReadMessage(c)
    PROVE  ChannelInv'
<1> USE DEF ChannelInv
<1>1. wire[c] \in Seq(Seq(Nat)) /\ received[c] \in Seq(Nat)
  BY Zenon, WireType
<1>2. wire \in [Channels -> Seq(Seq(Nat))] /\ stranded \in [Channels -> Seq(Nat)]
      /\ batch \in [Channels -> Seq(Nat)] /\ accepted \in [Channels -> Seq(Nat)]
      /\ received \in [Channels -> Seq(Nat)]
  BY Zenon DEF ChannelTypes
<1>3. /\ wire[c] # << >>
      /\ wire' = [wire EXCEPT ![c] = Tail(@)]
      /\ received' = [received EXCEPT ![c] = @ \o Head(wire[c])]
      /\ batch' = batch /\ accepted' = accepted /\ stranded' = stranded /\ closer' = closer
  BY Zenon DEF ReadMessage
<1> DEFINE h == Head(wire[c])
           t == Tail(wire[c])
<1>4. h \in Seq(Nat) /\ t \in Seq(Seq(Nat))
  BY <1>1, <1>3
<1>5. Unbatched(wire[c]) = h \o Unbatched(t)
  BY Zenon, <1>1, <1>3, UnbatchedHead
<1>6. received[c] \o h \in Seq(Nat)
  BY <1>1, <1>4
<1>7. /\ wire' \in [Channels -> Seq(Seq(Nat))] /\ wire'[c] = t
      /\ \A d \in Channels : d # c => wire'[d] = wire[d]
  BY <1>2, <1>3, <1>4
<1>8. /\ received' \in [Channels -> Seq(Nat)] /\ received'[c] = received[c] \o h
      /\ \A d \in Channels : d # c => received'[d] = received[d]
  BY <1>2, <1>3, <1>6
<1> HIDE DEF h, t
<1>9. Unbatched(t) \in Seq(Nat)
  BY Zenon, <1>4, UnbatchedType
<1>10. Line(received[c] \o h, Unbatched(t), stranded[c], batch[c])
         = Line(received[c], h \o Unbatched(t), stranded[c], batch[c])
  BY ONLY <1>1, <1>4, <1>9, LineRead
<1>11. ChannelTypes'
  BY Zenon, <1>2, <1>3, <1>7, <1>8 DEF ChannelTypes
<1>12. ASSUME NEW d \in Channels PROVE Held(d)' = accepted'[d]
  <2>1. Held(d) = accepted[d]
    OBVIOUS
  <2>2. CASE d = c
    BY Zenon, <2>1, <2>2, <1>3, <1>5, <1>7, <1>8, <1>10 DEF Held
  <2>3. CASE d # c
    BY Zenon, <2>1, <2>3, <1>3, <1>7, <1>8 DEF Held
  <2>4. QED
    BY <2>2, <2>3
<1>13. QED
  BY Zenon, <1>3, <1>11, <1>12

(* Closing the transport cuts the wire in two. *)
LEMMA CloseKeepsLine ==
    ASSUME ChannelInv, CloseTransport
    PROVE  ChannelInv'
<1> USE DEF ChannelInv
<1>1. PICK left \in [Channels -> 0 .. Capacity] :
        /\ \A c \in Channels : left[c] <= Len(wire[c])
        /\ wire' = [c \in Channels |-> SubSeq(wire[c], 1, left[c])]
        /\ stranded' = [c \in Channels |->
              Unbatched(SubSeq(wire[c], left[c] + 1, Len(wire[c])))]
  BY Zenon DEF CloseTransport
<1>2. /\ closer = "flushing" /\ closer' = "closed"
      /\ batch' = batch /\ accepted' = accepted /\ received' = received
  BY Zenon DEF CloseTransport
<1>3. batch \in [Channels -> Seq(Nat)] /\ accepted \in [Channels -> Seq(Nat)]
      /\ received \in [Channels -> Seq(Nat)]
  BY Zenon DEF ChannelTypes
<1>4. ASSUME NEW c \in Channels
      PROVE  /\ wire'[c] \in Seq(Seq(Nat)) /\ stranded'[c] \in Seq(Nat)
             /\ Held(c)' = accepted'[c]
  <2> DEFINE w == wire[c]
             k == left[c]
             u == SubSeq(w, 1, k)
             v == SubSeq(w, k + 1, Len(w))
  <2>1. w \in Seq(Seq(Nat)) /\ received[c] \in Seq(Nat)
    BY Zenon, WireType
  <2>2. k \in Nat /\ k <= Len(w) /\ Len(w) \in Nat
    BY <1>1, <2>1, SizesAssumption
  <2>3. wire'[c] = u /\ stranded'[c] = Unbatched(v)
    BY <1>1
  <2>4. u \in Seq(Seq(Nat)) /\ v \in Seq(Seq(Nat)) /\ w = u \o v
    <3> HIDE DEF w, k
    <3>1. u \in Seq(Seq(Nat))
      BY <2>1, <2>2
    <3>2. v \in Seq(Seq(Nat))
      BY <2>1, <2>2
    <3>3. Len(u) = k /\ Len(v) = Len(w) - k
      BY <2>1, <2>2
    <3>4. w = u \o v
      BY ONLY Zenon, <2>1, <2>2, CutInTwo DEF u, v
    <3>5. QED
      BY <3>1, <3>2, <3>4
  <2> HIDE DEF w, k, u, v
  <2>5. Unbatched(w) = Unbatched(u) \o Unbatched(v)
    BY Zenon, <2>4, UnbatchedConcat
  <2>6. Unbatched(u) \in Seq(Nat) /\ Unbatched(v) \in Seq(Nat)
    BY Zenon, <2>4, UnbatchedType
  <2>7. Line(received[c], Unbatched(u), Unbatched(v), batch[c])
          = Line(received[c], Unbatched(u) \o Unbatched(v), << >>, batch[c])
    BY ONLY <2>1, <2>6, LineClosed
  <2>8. Held(c) = accepted[c] /\ stranded[c] = << >>
    BY <1>2
  <2>9. Held(c)' = accepted'[c]
    BY Zenon, <1>2, <2>3, <2>5, <2>7, <2>8 DEF Held, w
  <2>10. QED
    BY Zenon, <2>3, <2>4, <2>6, <2>9
<1>5. wire' \in [Channels -> Seq(Seq(Nat))] /\ stranded' \in [Channels -> Seq(Nat)]
  <2>1. wire' = [c \in Channels |-> wire'[c]] /\ stranded' = [c \in Channels |-> stranded'[c]]
    BY <1>1
  <2>2. QED
    BY <1>4, <2>1
<1>6. ChannelTypes'
  BY Zenon, <1>2, <1>3, <1>5 DEF ChannelTypes
<1>7. QED
  BY Zenon, <1>2, <1>4, <1>6

(* The channel of a collector's p-th partition. *)
Channel(k, p) == Collectors[k].channels[p]

(* A channel has taken a record, or a partition is still to be served. *)
In(s, x) == \E i \in 1 .. Len(s) : s[i] = x
Distinct(s) == \A i, j \in 1 .. Len(s) : s[i] = s[j] => i = j

(* Collector k is done with a record; records that it has begun with. *)
Over(k, r) == r < records \/ (r = records /\ (at = 0 \/ at > k))
Begun(k) == IF at = 0 \/ k <= at THEN records ELSE records - 1

(* A channel takes the records in their order, none of them twice. *)
OrderInv ==
    \A c \in Channels : \A i \in 1 .. Len(accepted[c]) :
      /\ accepted[c][i] \in 1 .. records
      /\ \A j \in 1 .. Len(accepted[c]) : i < j => accepted[c][i] < accepted[c][j]

(* A record that a collector is done with is where it must be. *)
DoneInv ==
    \A k \in DOMAIN Collectors, r \in Messages : Over(k, r) =>
      \A p \in Parts(k) : In(accepted[Channel(k, p)], r) <=> p \in MustReach(k, r)

(* The record that is collected is where it must be but for the partitions *)
(* left to send, which name each of these once ...                         *)
LeftInv ==
    at # 0 =>
      /\ \A i, j \in 1 .. Len(to_send) : to_send[i] = to_send[j] => i = j
      /\ \A p \in Parts(at) : In(to_send, p) => p \in MustReach(at, records)
      /\ \A p \in Parts(at) : In(accepted[Channel(at, p)], records)
                                <=> p \in MustReach(at, records) /\ ~In(to_send, p)

(* ... and the collectors whose turn has yet to come have nothing of it. *)
AheadInv ==
    at # 0 => \A k \in DOMAIN Collectors : k > at =>
                \A p \in Parts(k) : ~In(accepted[Channel(k, p)], records)

(* A RoundRobinPartition has counted the records it was given. *)
TurnInv ==
    \A k \in DOMAIN Collectors : Collectors[k].partition = "round_robin" =>
      seq[k] = Begun(k) % Len(Collectors[k].channels)

CollectInv == ThreadInv /\ OrderInv /\ DoneInv /\ LeftInv /\ AheadInv /\ TurnInv

------------------------------------------------------------------------------
(* A collector has channels, and they are channels of the task.            *)
LEMMA CollectorFacts ==
    ASSUME NEW k \in DOMAIN Collectors
    PROVE  /\ Len(Collectors[k].channels) \in Nat \ {0}
           /\ k \in 1 .. Len(Collectors) /\ Len(Collectors) \in Nat
           /\ \A p \in Parts(k) : Channel(k, p) \in Channels
<1>1. Collectors[k].channels \in Seq(Channels) /\ Collectors[k].channels # << >>
  BY CollectorsAssumption
<1>2. Len(Collectors[k].channels) \in Nat \ {0}
  BY <1>1
<1>3. \A p \in Parts(k) : Channel(k, p) \in Channels
  BY <1>1 DEF Parts, Channel
<1>4. k \in 1 .. Len(Collectors) /\ Len(Collectors) \in Nat
  BY CollectorsAssumption
<1>5. QED
  BY <1>2, <1>3, <1>4

(* No two partitions share a channel.                                      *)
LEMMA ChannelsDiffer ==
    ASSUME NEW k \in DOMAIN Collectors, NEW l \in DOMAIN Collectors,
           NEW p \in Parts(k), NEW q \in Parts(l), Channel(k, p) = Channel(l, q)
    PROVE  k = l /\ p = q
<1>1. Collectors[k].channels \in Seq(Channels) /\ Collectors[l].channels \in Seq(Channels)
  BY CollectorsAssumption
<1>2. p \in DOMAIN Collectors[k].channels /\ q \in DOMAIN Collectors[l].channels
  BY <1>1 DEF Parts
<1>3. QED
  BY <1>2, CollectorsAssumption DEF Channel

(* What is left of partitions_to_send without its i-th. *)
LEMMA RemoveFacts ==
    ASSUME NEW S, NEW s \in Seq(S), NEW i \in 1 .. Len(s), Distinct(s),
           NEW left, left = Without(s, i)
    PROVE  /\ left \in Seq(S) /\ Len(left) = Len(s) - 1 /\ Distinct(left)
           /\ \A x : In(left, x) <=> In(s, x) /\ x # s[i]
<1> USE DEF Distinct, In
<1> DEFINE u == SubSeq(s, 1, i - 1)
           w == SubSeq(s, i + 1, Len(s))
<1>1. left = u \o w
  BY DEF Without
<1>2. u \in Seq(S) /\ Len(u) = i - 1 /\ \A j \in 1 .. i - 1 : u[j] = s[j]
  OBVIOUS
<1>3. w \in Seq(S) /\ Len(w) = Len(s) - i /\ \A j \in 1 .. Len(s) - i : w[j] = s[i + j]
  OBVIOUS
<1> HIDE DEF u, w
<1>4. left \in Seq(S) /\ Len(left) = Len(s) - 1 /\ Len(s) \in Nat
  BY <1>1, <1>2, <1>3
<1>5. ASSUME NEW j \in 1 .. Len(s) - 1
      PROVE  left[j] = IF j < i THEN s[j] ELSE s[j + 1]
  <2>1. CASE j < i
    <3>1. j \in 1 .. Len(u)
      BY <1>2, <2>1
    <3>2. left[j] = u[j]
      BY <1>1, <1>2, <1>3, <3>1
    <3>3. QED
      BY <1>2, <2>1, <3>1, <3>2
  <2>2. CASE ~(j < i)
    <3>1. j \in Len(u) + 1 .. Len(u) + Len(w) /\ j - Len(u) = j + 1 - i
      BY <1>2, <1>3, <1>4, <2>2
    <3>2. left[j] = w[j - Len(u)]
      BY <1>1, <1>2, <1>3, <3>1
    <3>3. j + 1 - i \in 1 .. Len(s) - i /\ i + (j + 1 - i) = j + 1
      BY <1>4, <2>2
    <3>4. QED
      BY Zenon, <1>3, <2>2, <3>1, <3>2, <3>3
  <2>3. QED
    BY <2>1, <2>2
<1> DEFINE At(j) == IF j < i THEN j ELSE j + 1
<1>6. \A j \in 1 .. Len(left) : At(j) \in 1 .. Len(s) /\ At(j) # i /\ left[j] = s[At(j)]
  BY <1>4, <1>5
<1>7. \A m, n \in 1 .. Len(left) : At(m) = At(n) => m = n
  BY <1>4
<1>8. \A j \in 1 .. Len(s) : j # i => \E m \in 1 .. Len(left) : At(m) = j
  <2>1. TAKE j \in 1 .. Len(s)
  <2>2. CASE j < i
    <3>1. At(j) = j /\ j \in 1 .. Len(left)
      BY <1>4, <2>2
    <3>2. QED
      BY <3>1
  <2>3. CASE j > i
    <3>1. At(j - 1) = j /\ j - 1 \in 1 .. Len(left)
      BY <1>4, <2>3
    <3>2. QED
      BY Zenon, <3>1
  <2>4. QED
    BY <1>4, <2>2, <2>3
<1> HIDE DEF At
<1>9. \A m, n \in 1 .. Len(left) : left[m] = left[n] => m = n
  <2>1. SUFFICES ASSUME NEW m \in 1 .. Len(left), NEW n \in 1 .. Len(left), left[m] = left[n]
                 PROVE  m = n
    OBVIOUS
  <2>2. At(m) \in 1 .. Len(s) /\ At(n) \in 1 .. Len(s) /\ s[At(m)] = s[At(n)]
    BY Zenon, <1>6, <2>1
  <2>3. At(m) = At(n)
    BY Zenon, <2>2
  <2>4. QED
    BY Zenon, <1>7, <2>3
<1>10. ASSUME NEW x
       PROVE  (\E j \in 1 .. Len(left) : left[j] = x)
                       <=> (\E j \in 1 .. Len(s) : s[j] = x) /\ x # s[i]
  <2>1. ASSUME NEW j \in 1 .. Len(left), left[j] = x
        PROVE  (\E m \in 1 .. Len(s) : s[m] = x) /\ x # s[i]
    <3>1. At(j) \in 1 .. Len(s) /\ At(j) # i /\ s[At(j)] = x
      BY Zenon, <1>6, <2>1
    <3>2. QED
      BY Zenon, <3>1
  <2>2. ASSUME NEW j \in 1 .. Len(s), s[j] = x, x # s[i]
        PROVE  \E m \in 1 .. Len(left) : left[m] = x
    <3>1. j # i
      BY <2>2
    <3>2. PICK m \in 1 .. Len(left) : At(m) = j
      BY Zenon, <1>8, <3>1
    <3>3. left[m] = x
      BY Zenon, <1>6, <2>2, <3>2
    <3>4. QED
      BY Zenon, <3>3
  <2>3. QED
    BY Zenon, <2>1, <2>2
<1>11. QED
  BY Zenon, <1>4, <1>9, <1>10

------------------------------------------------------------------------------
(* partition() names, once each, the partitions the record must reach.     *)
LEMMA PartitionFacts ==
    ASSUME NEW k \in DOMAIN Collectors, NEW record \in Messages, seq[k] \in Nat,
           Collectors[k].partition = "round_robin" =>
             seq[k] = (record - 1) % Len(Collectors[k].channels)
    PROVE  /\ Partition(k, record) \in Seq(Parts(k))
           /\ 1 \in 1 .. Len(Partition(k, record))
           /\ \A i, j \in 1 .. Len(Partition(k, record)) :
                Partition(k, record)[i] = Partition(k, record)[j] => i = j
           /\ \A p \in Parts(k) : (\E i \in 1 .. Len(Partition(k, record)) :
                                     Partition(k, record)[i] = p) <=> p \in MustReach(k, record)
<1> DEFINE n == Len(Collectors[k].channels)
<1>1. n \in Nat /\ n > 0
  BY CollectorFacts
<1>2. Collectors[k].partition \in {"broadcast", "round_robin", "key"}
  BY CollectorsAssumption
<1>3. record \in Nat /\ record - 1 \in Nat /\ (record - 1) + 1 = record /\ KeyHash[record] \in Nat
  BY SizesAssumption DEF Messages
<1>4. CASE Collectors[k].partition = "broadcast"
  <2>1. Partition(k, record) = [i \in 1 .. n |-> i] /\ MustReach(k, record) = 1 .. n
    BY <1>4 DEF Partition, MustReach
  <2>2. Parts(k) = 1 .. n
    BY DEF Parts
  <2> HIDE DEF n
  <2> DEFINE s == [i \in 1 .. n |-> i]
  <2>3. s \in Seq(1 .. n) /\ Len(s) = n /\ \A i \in 1 .. n : s[i] = i
    BY <1>1
  <2> HIDE DEF s
  <2>4. Partition(k, record) = s
    BY <2>1 DEF s
  <2>5. QED
    BY <1>1, <2>1, <2>2, <2>3, <2>4
<1>5. ASSUME NEW x \in 1 .. n, Partition(k, record) = <<x>>, MustReach(k, record) = {x}
      PROVE  /\ Partition(k, record) \in Seq(Parts(k))
             /\ 1 \in 1 .. Len(Partition(k, record))
             /\ \A i, j \in 1 .. Len(Partition(k, record)) :
                  Partition(k, record)[i] = Partition(k, record)[j] => i = j
             /\ \A p \in Parts(k) : (\E i \in 1 .. Len(Partition(k, record)) :
                                       Partition(k, record)[i] = p) <=> p \in MustReach(k, record)
  BY <1>5 DEF Parts
<1>6. CASE Collectors[k].partition = "round_robin"
  <2>1. /\ Partition(k, record) = <<((seq[k] + 1) % n) + 1>>
        /\ MustReach(k, record) = {(record % n) + 1}
    BY <1>6 DEF Partition, MustReach
  <2>2. seq[k] = (record - 1) % n
    BY <1>6
  <2> HIDE DEF n
  <2>3. (seq[k] + 1) % n = record % n /\ record % n \in 0 .. n - 1
    <3>1. (((record - 1) % n) + 1) % n = ((record - 1) + 1) % n
      BY ONLY Zenon, <1>1, <1>3, NextRest
    <3>2. record % n \in 0 .. n - 1
      BY ONLY <1>1, <1>3, NextRest
    <3>3. QED
      BY ONLY <1>3, <2>2, <3>1, <3>2
  <2>4. (record % n) + 1 \in 1 .. n
    BY ONLY <1>1, <2>3
  <2>5. QED
    BY Zenon, <1>5, <2>1, <2>3, <2>4
<1>7. CASE Collectors[k].partition = "key"
  <2>1. Partition(k, record) = <<(KeyHash[record] % n) + 1>>
        /\ MustReach(k, record) = {(KeyHash[record] % n) + 1}
    BY <1>7 DEF Partition, MustReach
  <2> HIDE DEF n
  <2>2. KeyHash[record] % n \in 0 .. n - 1
    BY ONLY <1>1, <1>3, NextRest
  <2>3. (KeyHash[record] % n) + 1 \in 1 .. n
    BY ONLY <1>1, <2>2
  <2>4. QED
    BY Zenon, <1>5, <2>1, <2>3
<1>8. QED
  BY Zenon, <1>2, <1>4, <1>6, <1>7

(* collect() of a collector begins with all the partitions of the record   *)
(* to send, and counts the record as its turn.                             *)
LEMMA BeginFacts ==
    ASSUME NEW k \in DOMAIN Collectors, NEW record \in Messages, BeginCollect(k, record),
           seq \in [DOMAIN Collectors -> Nat],
           Collectors[k].partition = "round_robin" =>
             seq[k] = (record - 1) % Len(Collectors[k].channels)
    PROVE  /\ at' = k
           /\ to_send' \in Seq(Parts(k)) /\ cur' \in 1 .. Len(to_send')
           /\ seq' \in [DOMAIN Collectors -> Nat]
           /\ \A i, j \in 1 .. Len(to_send') : to_send'[i] = to_send'[j] => i = j
           /\ \A p \in Parts(k) : In(to_send', p) <=> p \in MustReach(k, record)
           /\ Collectors[k].partition = "round_robin" =>
                seq'[k] = record % Len(Collectors[k].channels)
           /\ \A l \in DOMAIN Collectors : l # k => seq'[l] = seq[l]
<1> DEFINE n == Len(Collectors[k].channels)
           rr == Collectors[k].partition = "round_robin"
<1>1. /\ at' = k /\ to_send' = Partition(k, record) /\ cur' = 1
      /\ seq' = IF rr THEN [seq EXCEPT ![k] = (@ + 1) % n] ELSE seq
  BY Zenon DEF BeginCollect
<1>2. seq[k] \in Nat
  OBVIOUS
<1>3. /\ Partition(k, record) \in Seq(Parts(k))
      /\ 1 \in 1 .. Len(Partition(k, record))
      /\ \A i, j \in 1 .. Len(Partition(k, record)) :
           Partition(k, record)[i] = Partition(k, record)[j] => i = j
      /\ \A p \in Parts(k) : (\E i \in 1 .. Len(Partition(k, record)) :
                                Partition(k, record)[i] = p) <=> p \in MustReach(k, record)
  BY Zenon, <1>2, PartitionFacts
<1>4. \A p \in Parts(k) : In(to_send', p) <=> p \in MustReach(k, record)
  BY Zenon, <1>1, <1>3 DEF In
<1>5. n \in Nat /\ n > 0 /\ record - 1 \in Nat /\ (record - 1) + 1 = record
  BY CollectorFacts, SizesAssumption DEF Messages
<1>6. rr => (seq[k] + 1) % n = record % n /\ record % n \in Nat
  <2>1. rr => seq[k] = (record - 1) % n
    OBVIOUS
  <2> HIDE DEF n, rr
  <2>2. (((record - 1) % n) + 1) % n = ((record - 1) + 1) % n
    BY ONLY Zenon, <1>5, NextRest
  <2>3. record % n \in Nat
    BY ONLY <1>5
  <2>4. QED
    BY ONLY <1>5, <2>1, <2>2, <2>3
<1>7. /\ seq' \in [DOMAIN Collectors -> Nat]
      /\ rr => seq'[k] = record % n
      /\ \A l \in DOMAIN Collectors : l # k => seq'[l] = seq[l]
  <2> HIDE DEF n, rr
  <2>1. QED
    BY <1>1, <1>6
<1>8. QED
  BY Zenon, <1>1, <1>3, <1>4, <1>7

(* A channel that takes a record then has it. *)
LEMMA TakenHas ==
    ASSUME accepted \in [Channels -> Seq(Nat)], NEW c \in Channels, NEW m \in Nat,
           accepted' = [accepted EXCEPT ![c] = Append(@, m)],
           NEW d \in Channels, NEW r
    PROVE  In(accepted'[d], r) <=> In(accepted[d], r) \/ (d = c /\ r = m)
<1>1. CASE d # c
  <2>1. accepted'[d] = accepted[d]
    BY <1>1
  <2>2. QED
    BY Zenon, <1>1, <2>1 DEF In
<1>2. CASE d = c
  <2> DEFINE a == accepted[c]
  <2>1. accepted'[d] = Append(a, m) /\ a \in Seq(Nat)
    BY <1>2
  <2> HIDE DEF a
  <2>2. /\ Len(a) \in Nat /\ Len(Append(a, m)) = Len(a) + 1 /\ Append(a, m)[Len(a) + 1] = m
        /\ \A i \in 1 .. Len(a) : Append(a, m)[i] = a[i]
    BY ONLY <2>1, m \in Nat
  <2>3. (\E i \in 1 .. Len(a) + 1 : Append(a, m)[i] = r)
          <=> (\E i \in 1 .. Len(a) : a[i] = r) \/ r = m
    <3> DEFINE b == Append(a, m)
    <3>1. /\ b[Len(a) + 1] = m /\ \A i \in 1 .. Len(a) : b[i] = a[i]
      BY <2>2
    <3> HIDE DEF b
    <3>2. QED
      <4>1. \A i \in 1 .. Len(a) + 1 : i \in 1 .. Len(a) \/ i = Len(a) + 1
        BY ONLY <2>2
      <4>2. 1 .. Len(a) \subseteq 1 .. Len(a) + 1 /\ Len(a) + 1 \in 1 .. Len(a) + 1
        BY ONLY <2>2
      <4>3. (\E i \in 1 .. Len(a) + 1 : b[i] = r) <=> (\E i \in 1 .. Len(a) : a[i] = r) \/ r = m
        BY Zenon, <3>1, <4>1, <4>2
      <4>4. QED
        BY <4>3 DEF b
  <2>4. QED
    BY Zenon, <1>2, <2>1, <2>2, <2>3 DEF In, a
<1>3. QED
  BY <1>1, <1>2

(* What the thread knows of the channel it offers the record to.           *)
LEMMA TargetFacts ==
    ASSUME ThreadInv, LeftInv, at # 0
    PROVE  /\ at \in DOMAIN Collectors /\ records \in Messages /\ records \in Nat
           /\ to_send \in Seq(Parts(at)) /\ cur \in 1 .. Len(to_send)
           /\ to_send[cur] \in Parts(at) /\ In(to_send, to_send[cur])
           /\ to_send[cur] \in MustReach(at, records)
           /\ Target \in Channels /\ Target = Channel(at, to_send[cur])
           /\ ~In(accepted[Target], records)
<1>1. at \in DOMAIN Collectors /\ records \in Messages /\ records \in Nat
  BY CollectorsAssumption, SizesAssumption DEF ThreadInv, Messages
<1>2. to_send \in Seq(Parts(at)) /\ cur \in 1 .. Len(to_send)
  BY Zenon DEF ThreadInv
<1>3. to_send[cur] \in Parts(at)
  BY <1>2
<1>4. In(to_send, to_send[cur])
  BY Zenon, <1>2 DEF In
<1>5. Target = Channel(at, to_send[cur])
  BY Zenon DEF Target, Channel
<1>6. Target \in Channels
  BY Zenon, <1>1, <1>3, <1>5, CollectorFacts
<1>7. ~In(accepted[Target], records) /\ to_send[cur] \in MustReach(at, records)
  BY Zenon, <1>3, <1>4, <1>5 DEF LeftInv
<1>8. QED
  BY Zenon, <1>1, <1>2, <1>3, <1>4, <1>5, <1>6, <1>7

(* A record that a channel takes is new to it and is its latest.           *)
LEMMA TakenInOrder ==
    ASSUME ThreadInv, OrderInv, accepted \in [Channels -> Seq(Nat)], NEW c \in Channels,
           ~In(accepted[c], records), records # 0, records' = records,
           accepted' = [accepted EXCEPT ![c] = Append(@, records)]
    PROVE  OrderInv'
<1>1. records \in Nat
  BY SizesAssumption DEF ThreadInv
<1>2. ASSUME NEW d \in Channels, NEW i \in 1 .. Len(accepted'[d])
      PROVE  /\ accepted'[d][i] \in 1 .. records'
             /\ \A j \in 1 .. Len(accepted'[d]) : i < j => accepted'[d][i] < accepted'[d][j]
  <2>1. CASE d # c
    <3>1. accepted'[d] = accepted[d]
      BY <2>1
    <3>2. QED
      BY Zenon, <1>2, <3>1 DEF OrderInv
  <2>2. CASE d = c
    <3> DEFINE a == accepted[c]
               n == Len(a)
    <3>1. a \in Seq(Nat) /\ accepted'[d] = Append(a, records)
      BY <2>2
    <3>2. \A m \in 1 .. n : a[m] \in 1 .. records /\ a[m] # records
      BY Zenon DEF OrderInv, In
    <3>3. \A m, j \in 1 .. n : m < j => a[m] < a[j]
      BY Zenon DEF OrderInv
    <3> HIDE DEF a
    <3>4. n \in Nat /\ Len(Append(a, records)) = n + 1
      BY ONLY <1>1, <3>1
    <3>5. Append(a, records)[n + 1] = records /\ \A m \in 1 .. n : Append(a, records)[m] = a[m]
      BY ONLY <1>1, <3>1
    <3> HIDE DEF n
    <3> DEFINE b == accepted'[d]
    <3>6. Len(b) = n + 1 /\ b[n + 1] = records /\ \A m \in 1 .. n : b[m] = a[m]
      BY Zenon, <3>1, <3>4, <3>5
    <3>7. i \in 1 .. n + 1
      BY <1>2, <3>6
    <3> HIDE DEF b
    <3>8. \A m \in 1 .. n : b[m] \in 1 .. records /\ b[m] < records
      BY ONLY <1>1, <3>2, <3>6
    <3>9. b[i] \in 1 .. records
      <4>1. records \in 1 .. records
        BY ONLY <1>1, records # 0
      <4>2. QED
        BY ONLY <3>4, <3>6, <3>7, <3>8, <4>1
    <3>10. ASSUME NEW j \in 1 .. n + 1, i < j PROVE b[i] < b[j]
      <4>1. i \in 1 .. n
        BY ONLY <3>4, <3>7, j \in 1 .. n + 1, i < j
      <4>2. CASE j = n + 1
        BY Zenon, <3>6, <3>8, <4>1, <4>2
      <4>3. CASE j # n + 1
        <5>1. j \in 1 .. n
          BY ONLY <3>4, <4>3, j \in 1 .. n + 1
        <5>2. a[i] < a[j]
          BY Zenon, <3>3, <3>10, <4>1, <5>1
        <5>3. QED
          BY Zenon, <3>6, <4>1, <5>1, <5>2
      <4>4. QED
        BY Zenon, <4>2, <4>3
    <3>11. QED
      BY Zenon, <3>6, <3>9, <3>10 DEF b
  <2>3. QED
    BY Zenon, <2>1, <2>2
<1>3. QED
  BY Zenon, <1>2 DEF OrderInv

(* The loop of run() begins with a record that no channel has.             *)
LEMMA RunCollects ==
    ASSUME CollectInv, Run
    PROVE  CollectInv'
<1> USE DEF CollectInv
<1>1. /\ at = 0 /\ records < NumRecords /\ records' = records + 1
      /\ BeginCollect(1, records + 1) /\ accepted' = accepted
  BY Zenon DEF Run, writerVars
<1> DEFINE new == records + 1
<1>2. records \in Nat /\ new \in Messages /\ new \in Nat /\ new - 1 = records
  BY <1>1, SizesAssumption DEF ThreadInv, Messages
<1>3. 1 \in DOMAIN Collectors /\ \A k \in DOMAIN Collectors : k \in Nat /\ k >= 1
  BY CollectorsAssumption
<1>4. seq \in [DOMAIN Collectors -> Nat]
  BY DEF ThreadInv
<1>5. \A k \in DOMAIN Collectors : Collectors[k].partition = "round_robin" =>
        seq[k] = records % Len(Collectors[k].channels)
  BY Zenon, <1>1 DEF TurnInv, Begun
<1>6. /\ at' = 1
      /\ to_send' \in Seq(Parts(1)) /\ cur' \in 1 .. Len(to_send')
      /\ seq' \in [DOMAIN Collectors -> Nat]
      /\ \A i, j \in 1 .. Len(to_send') : to_send'[i] = to_send'[j] => i = j
      /\ \A p \in Parts(1) : In(to_send', p) <=> p \in MustReach(1, new)
      /\ Collectors[1].partition = "round_robin" =>
           seq'[1] = new % Len(Collectors[1].channels)
      /\ \A l \in DOMAIN Collectors : l # 1 => seq'[l] = seq[l]
  <2>1. Collectors[1].partition = "round_robin" =>
          seq[1] = (new - 1) % Len(Collectors[1].channels)
    BY Zenon, <1>2, <1>3, <1>5
  <2> HIDE DEF new
  <2>2. BeginCollect(1, new)
    BY Zenon, <1>1 DEF new
  <2>3. QED
    BY Zenon, <1>2, <1>3, <1>4, <2>1, <2>2, BeginFacts
<1>8. \A d \in Channels : ~In(accepted[d], new)
  <2>1. ASSUME NEW d \in Channels, NEW i \in 1 .. Len(accepted[d]) PROVE accepted[d][i] # new
    <3>1. accepted[d][i] \in 1 .. records
      BY Zenon DEF OrderInv
    <3>2. QED
      BY ONLY <1>2, <3>1
  <2>2. QED
    BY Zenon, <2>1 DEF In
<1>9. \A k \in DOMAIN Collectors : \A p \in Parts(k) : ~In(accepted'[Channel(k, p)], new)
  <2>1. ASSUME NEW k \in DOMAIN Collectors, NEW p \in Parts(k)
        PROVE  ~In(accepted'[Channel(k, p)], new)
    <3>1. Channel(k, p) \in Channels
      BY Zenon, CollectorFacts
    <3>2. QED
      BY Zenon, <1>1, <1>8, <3>1
  <2>2. QED
    BY Zenon, <2>1
<1>10. ThreadInv'
  <2>1. records' \in 0 .. NumRecords /\ records' # 0 /\ 1 \in 0 .. Len(Collectors)
    BY <1>1, <1>2, SizesAssumption, CollectorsAssumption
  <2>2. QED
    BY Zenon, <1>6, <2>1 DEF ThreadInv
<1>11. OrderInv'
  <2>1. 1 .. records \subseteq 1 .. records'
    BY ONLY <1>1, <1>2
  <2>2. QED
    BY Zenon, <1>1, <2>1 DEF OrderInv
<1>12. DoneInv'
  <2>1. ASSUME NEW k \in DOMAIN Collectors, NEW r \in Messages, Over(k, r)'
        PROVE  Over(k, r)
    <3>1. r < new \/ (r = new /\ (1 = 0 \/ 1 > k))
      BY Zenon, <1>1, <1>6, <2>1 DEF Over
    <3>2. r \in Nat /\ k \in Nat /\ k >= 1
      BY <1>3 DEF Messages
    <3>3. r < records \/ r = records
      BY ONLY <1>2, <3>1, <3>2
    <3>4. QED
      BY Zenon, <1>1, <3>3 DEF Over
  <2>2. QED
    BY Zenon, <1>1, <2>1 DEF DoneInv
<1>13. LeftInv'
  <2>1. \A p \in Parts(1) : ~In(accepted'[Channel(1, p)], new)
    BY Zenon, <1>3, <1>9
  <2>2. \A p \in Parts(1) : In(accepted'[Channel(1, p)], new)
                              <=> p \in MustReach(1, new) /\ ~In(to_send', p)
    BY Zenon, <1>6, <2>1
  <2>3. QED
    BY Zenon, <1>1, <1>6, <2>2 DEF LeftInv
<1>14. AheadInv'
  BY Zenon, <1>1, <1>9 DEF AheadInv
<1>15. TurnInv'
  <2>1. SUFFICES ASSUME NEW k \in DOMAIN Collectors, Collectors[k].partition = "round_robin"
                 PROVE  seq'[k] = Begun(k)' % Len(Collectors[k].channels)
    BY Zenon DEF TurnInv
  <2>2. CASE k = 1
    <3>1. Begun(k)' = new
      BY <1>1, <1>6, <2>2 DEF Begun
    <3>2. QED
      BY Zenon, <1>6, <2>1, <2>2, <3>1
  <2>3. CASE k # 1
    <3>1. ~(k <= 1) /\ (records + 1) - 1 = records
      BY <1>2, <1>3, <2>3
    <3>2. Begun(k)' = records
      BY <1>1, <1>6, <3>1 DEF Begun
    <3>3. QED
      BY Zenon, <1>5, <1>6, <2>1, <2>3, <3>2
  <2>4. QED
    BY <2>2, <2>3
<1>16. QED
  BY Zenon, <1>10, <1>11, <1>12, <1>13, <1>14, <1>15

(* Nothing changes that the invariant speaks of but the position.          *)
LEMMA SameRecords ==
    ASSUME OrderInv, DoneInv, LeftInv, AheadInv, TurnInv,
           records' = records, at' = at, to_send' = to_send, seq' = seq, accepted' = accepted
    PROVE  (OrderInv /\ DoneInv /\ LeftInv /\ AheadInv /\ TurnInv)'
<1>1. OrderInv'
  BY Zenon DEF OrderInv
<1>2. DoneInv'
  BY Zenon DEF DoneInv, Over
<1>3. LeftInv'
  BY Zenon DEF LeftInv
<1>4. AheadInv'
  BY Zenon DEF AheadInv
<1>5. TurnInv'
  BY Zenon DEF TurnInv, Begun
<1>6. QED
  BY Zenon, <1>1, <1>2, <1>3, <1>4, <1>5

(* A channel that is full only makes the thread go on to the next.         *)
LEMMA RefusedCollects ==
    ASSUME CollectInv, CollectRefused
    PROVE  CollectInv'
<1> USE DEF CollectInv
<1>1. /\ at # 0 /\ cur' = NextPartition(Len(to_send))
      /\ records' = records /\ at' = at /\ to_send' = to_send /\ seq' = seq
      /\ accepted' = accepted
  BY Zenon DEF CollectRefused, Refused, writerVars
<1>2. cur \in 1 .. Len(to_send) /\ Len(to_send) \in Nat
  BY <1>1 DEF ThreadInv
<1>3. cur' \in 1 .. Len(to_send)
  <2>1. Len(to_send) > 0 /\ cur \in Nat
    BY <1>2
  <2>2. cur % Len(to_send) \in 0 .. Len(to_send) - 1
    BY ONLY <1>2, <2>1
  <2>3. QED
    BY ONLY <1>1, <1>2, <2>2 DEF NextPartition
<1>4. ThreadInv'
  BY Zenon, <1>1, <1>3 DEF ThreadInv
<1>5. (OrderInv /\ DoneInv /\ LeftInv /\ AheadInv /\ TurnInv)'
  BY Zenon, <1>1, SameRecords
<1>6. QED
  BY Zenon, <1>4, <1>5

(* The steps of the other threads.                                         *)
LEMMA OthersCollect ==
    ASSUME CollectInv, UNCHANGED threadVars, accepted' = accepted
    PROVE  CollectInv'
<1>1. records' = records /\ at' = at /\ to_send' = to_send /\ cur' = cur /\ seq' = seq
  BY DEF threadVars
<1>2. (OrderInv /\ DoneInv /\ LeftInv /\ AheadInv /\ TurnInv)'
  BY Zenon, <1>1, SameRecords DEF CollectInv
<1>3. ThreadInv'
  BY Zenon, <1>1 DEF CollectInv, ThreadInv
<1>4. QED
  BY Zenon, <1>2, <1>3 DEF CollectInv

(* Nothing has been collected at first.                                    *)
LEMMA InitCollects ==
    ASSUME Init
    PROVE  CollectInv
<1>1. /\ records = 0 /\ at = 0 /\ seq = [k \in DOMAIN Collectors |-> 0]
      /\ accepted = [c \in Channels |-> << >>]
  BY DEF Init
<1>2. ThreadInv
  BY <1>1, SizesAssumption, CollectorsAssumption DEF ThreadInv
<1>3. OrderInv
  BY <1>1 DEF OrderInv
<1>4. DoneInv
  BY <1>1 DEF DoneInv, Over, Messages
<1>5. LeftInv /\ AheadInv
  BY <1>1 DEF LeftInv, AheadInv
<1>6. TurnInv
  <2>1. SUFFICES ASSUME NEW k \in DOMAIN Collectors
                 PROVE  seq[k] = Begun(k) % Len(Collectors[k].channels)
    BY DEF TurnInv
  <2> DEFINE n == Len(Collectors[k].channels)
  <2>2. n \in Nat /\ n > 0
    BY CollectorFacts
  <2> HIDE DEF n
  <2>3. 0 % n = 0
    BY ONLY <2>2
  <2>4. seq[k] = 0 /\ Begun(k) = 0
    BY <1>1 DEF Begun
  <2>5. QED
    BY Zenon, <2>3, <2>4 DEF n
<1>7. QED
  BY <1>2, <1>3, <1>4, <1>5, <1>6 DEF CollectInv

(* A channel takes the record: it is one the record must still reach, and  *)
(* once no partition is left the record has reached them all.              *)
LEMMA TakenCollects ==
    ASSUME CollectInv, ChannelTypes, CollectTaken
    PROVE  CollectInv'
<1> USE DEF CollectInv
<1> DEFINE t == to_send[cur]
           left == Without(to_send, cur)
<1>1. /\ at # 0 /\ Taken(Target, records) /\ records' = records
      /\ \/ /\ left # << >> /\ to_send' = left /\ cur' = NextPartition(Len(left))
            /\ at' = at /\ seq' = seq
         \/ left = << >> /\ at < Len(Collectors) /\ BeginCollect(at + 1, records)
         \/ left = << >> /\ ~(at < Len(Collectors)) /\ at' = 0 /\ seq' = seq
  BY Zenon DEF CollectTaken
<1>2. /\ at \in DOMAIN Collectors /\ records \in Messages /\ records \in Nat
      /\ to_send \in Seq(Parts(at)) /\ cur \in 1 .. Len(to_send)
      /\ t \in Parts(at) /\ In(to_send, t) /\ t \in MustReach(at, records)
      /\ Target \in Channels /\ Target = Channel(at, t)
      /\ ~In(accepted[Target], records)
  BY Zenon, <1>1, TargetFacts
<1>3. /\ accepted \in [Channels -> Seq(Nat)]
      /\ accepted' = [accepted EXCEPT ![Target] = Append(@, records)]
  BY Zenon, <1>1 DEF Taken, ChannelTypes
<1>4. records # 0 /\ at \in Nat /\ Len(Collectors) \in Nat /\ at <= Len(Collectors)
      /\ at \in 1 .. Len(Collectors) /\ DOMAIN Collectors = 1 .. Len(Collectors)
  BY <1>1, <1>2, CollectorsAssumption DEF ThreadInv
<1>5. OrderInv'
  BY Zenon, <1>1, <1>2, <1>3, <1>4, TakenInOrder
<1>6. ASSUME NEW k \in DOMAIN Collectors, NEW p \in Parts(k), NEW r
      PROVE  In(accepted'[Channel(k, p)], r)
               <=> In(accepted[Channel(k, p)], r) \/ (k = at /\ p = t /\ r = records)
  <2>1. Channel(k, p) \in Channels
    BY Zenon, CollectorFacts
  <2>2. In(accepted'[Channel(k, p)], r)
          <=> In(accepted[Channel(k, p)], r) \/ (Channel(k, p) = Target /\ r = records)
    <3> DEFINE d == Channel(k, p)
               c == Target
    <3>1. /\ d \in Channels /\ c \in Channels /\ records \in Nat
          /\ accepted' = [accepted EXCEPT ![c] = Append(@, records)]
      BY Zenon, <1>2, <1>3, <2>1
    <3> HIDE DEF c, d
    <3>2. In(accepted'[d], r) <=> In(accepted[d], r) \/ (d = c /\ r = records)
      BY Zenon, <1>3, <3>1, TakenHas
    <3>3. QED
      BY Zenon, <3>2 DEF c, d
  <2>3. Channel(k, p) = Channel(at, t) => k = at /\ p = t
    BY Zenon, <1>2, ChannelsDiffer
  <2>4. QED
    BY Zenon, <1>2, <2>2, <2>3
<1> HIDE DEF t, left
<1>7. ASSUME NEW k \in DOMAIN Collectors, NEW r \in Messages, Over(k, r)
      PROVE  \A p \in Parts(k) : In(accepted'[Channel(k, p)], r) <=> p \in MustReach(k, r)
  <2>1. \A p \in Parts(k) : In(accepted[Channel(k, p)], r) <=> p \in MustReach(k, r)
    BY Zenon, <1>7 DEF DoneInv
  <2>2. r # records \/ k # at
    <3>1. r \in Nat /\ k \in Nat
      BY <1>4 DEF Messages
    <3>2. r < records \/ (r = records /\ at > k)
      BY Zenon, <1>1, <1>7 DEF Over
    <3>3. QED
      BY ONLY <1>2, <1>4, <3>1, <3>2
  <2>3. QED
    BY Zenon, <1>6, <2>1, <2>2
<1>8. ASSUME NEW k \in DOMAIN Collectors, k > at
      PROVE  \A p \in Parts(k) : ~In(accepted'[Channel(k, p)], records)
  <2>1. k # at
    BY <1>4, <1>8
  <2>2. \A p \in Parts(k) : ~In(accepted[Channel(k, p)], records)
    BY Zenon, <1>1, <1>8 DEF AheadInv
  <2>3. QED
    BY Zenon, <1>6, <2>1, <2>2
<1>9. /\ \A i, j \in 1 .. Len(to_send) : to_send[i] = to_send[j] => i = j
      /\ \A p \in Parts(at) : In(to_send, p) => p \in MustReach(at, records)
      /\ \A p \in Parts(at) : In(accepted[Channel(at, p)], records)
                                <=> p \in MustReach(at, records) /\ ~In(to_send, p)
  BY Zenon, <1>1 DEF LeftInv
<1>10. /\ left \in Seq(Parts(at)) /\ Len(left) = Len(to_send) - 1
       /\ \A i, j \in 1 .. Len(left) : left[i] = left[j] => i = j
       /\ \A x : In(left, x) <=> In(to_send, x) /\ x # t
  <2> DEFINE S == Parts(at)
  <2>1. to_send \in Seq(S) /\ cur \in 1 .. Len(to_send)
    BY Zenon, <1>2
  <2>2. Distinct(to_send)
    BY Zenon, <1>9 DEF Distinct
  <2>3. left = Without(to_send, cur)
    BY Zenon DEF left
  <2> HIDE DEF S
  <2>4. /\ left \in Seq(S) /\ Len(left) = Len(to_send) - 1 /\ Distinct(left)
        /\ \A x : In(left, x) <=> In(to_send, x) /\ x # to_send[cur]
    BY ONLY Zenon, <2>1, <2>2, <2>3, RemoveFacts
  <2>5. QED
    BY Zenon, <2>4 DEF Distinct, S, t
<1>11. \A p \in Parts(at) : In(accepted'[Channel(at, p)], records)
                              <=> p \in MustReach(at, records) /\ ~In(left, p)
  BY Zenon, <1>2, <1>6, <1>9, <1>10
<1>12. records' \in 0 .. NumRecords /\ seq \in [DOMAIN Collectors -> Nat]
  BY Zenon, <1>1 DEF ThreadInv
<1>13. CASE /\ left # << >> /\ to_send' = left /\ cur' = NextPartition(Len(left))
            /\ at' = at /\ seq' = seq
  <2>1. cur' \in 1 .. Len(left)
    <3>1. Len(left) \in Nat /\ Len(left) > 0 /\ cur \in Nat
      BY <1>2, <1>10, <1>13
    <3>2. cur % Len(left) \in 0 .. Len(left) - 1
      BY ONLY <3>1
    <3>3. cur' = (cur % Len(left)) + 1
      BY Zenon, <1>13 DEF NextPartition
    <3>4. QED
      BY ONLY <3>1, <3>2, <3>3
  <2>2. ThreadInv'
    BY Zenon, <1>1, <1>10, <1>12, <1>13, <2>1 DEF ThreadInv
  <2>3. \A p \in Parts(at) : In(left, p) => p \in MustReach(at, records)
    BY Zenon, <1>9, <1>10
  <2>4. LeftInv'
    BY Zenon, <1>1, <1>10, <1>11, <1>13, <2>3 DEF LeftInv
  <2>5. AheadInv'
    BY Zenon, <1>1, <1>8, <1>13 DEF AheadInv
  <2>6. DoneInv'
    BY Zenon, <1>1, <1>7, <1>13 DEF DoneInv, Over
  <2>7. TurnInv'
    BY Zenon, <1>1, <1>13 DEF TurnInv, Begun
  <2>8. QED
    BY Zenon, <1>5, <2>2, <2>4, <2>5, <2>6, <2>7
<1>14. ASSUME left = << >>, NEW k \in DOMAIN Collectors, NEW r \in Messages,
              r < records \/ (r = records /\ k <= at)
       PROVE  \A p \in Parts(k) : In(accepted'[Channel(k, p)], r) <=> p \in MustReach(k, r)
  <2>1. CASE r = records /\ k = at
    <3>1. \A p : ~In(left, p)
      BY <1>14 DEF In
    <3>2. QED
      BY Zenon, <1>11, <2>1, <3>1
  <2>2. CASE r < records \/ (r = records /\ at > k)
    BY Zenon, <1>7, <2>2 DEF Over
  <2>3. k \in Nat /\ at \in Nat
    BY <1>4
  <2>4. QED
    <3>1. k <= at => k = at \/ at > k
      BY ONLY <2>3
    <3>2. QED
      BY Zenon, <1>14, <2>1, <2>2, <3>1
<1>15. CASE left = << >> /\ at < Len(Collectors) /\ BeginCollect(at + 1, records)
  <2> DEFINE l == at + 1
  <2>1. l \in DOMAIN Collectors /\ l > at /\ l # 0 /\ l \in 0 .. Len(Collectors) /\ ~(l <= at)
    BY <1>4, <1>15
  <2>2. Collectors[l].partition = "round_robin" =>
          seq[l] = (records - 1) % Len(Collectors[l].channels)
    <3>1. Begun(l) = records - 1
      BY Zenon, <1>1, <2>1 DEF Begun
    <3>2. QED
      BY Zenon, <2>1, <3>1 DEF TurnInv
  <2>3. BeginCollect(l, records)
    BY Zenon, <1>15
  <2>4. \A k \in DOMAIN Collectors : k \in Nat
    BY <1>4
  <2>5. \A k \in DOMAIN Collectors : /\ l > k => k <= at
                                     /\ k > l => k > at
                                     /\ k # l => (k <= l <=> k <= at)
    BY ONLY <1>4, <2>4
  <2> HIDE DEF l
  <2>6. /\ at' = l
        /\ to_send' \in Seq(Parts(l)) /\ cur' \in 1 .. Len(to_send')
        /\ seq' \in [DOMAIN Collectors -> Nat]
        /\ \A i, j \in 1 .. Len(to_send') : to_send'[i] = to_send'[j] => i = j
        /\ \A p \in Parts(l) : In(to_send', p) <=> p \in MustReach(l, records)
        /\ Collectors[l].partition = "round_robin" =>
             seq'[l] = records % Len(Collectors[l].channels)
        /\ \A k \in DOMAIN Collectors : k # l => seq'[k] = seq[k]
    BY Zenon, <1>2, <1>12, <2>1, <2>2, <2>3, BeginFacts
  <2>7. ThreadInv'
    BY Zenon, <1>1, <1>4, <1>12, <2>1, <2>6 DEF ThreadInv
  <2>8. LeftInv'
    <3>1. \A p \in Parts(l) : ~In(accepted'[Channel(l, p)], records)
      BY Zenon, <1>8, <2>1
    <3>2. \A p \in Parts(l) : In(accepted'[Channel(l, p)], records)
                                <=> p \in MustReach(l, records) /\ ~In(to_send', p)
      BY Zenon, <2>6, <3>1
    <3>3. QED
      BY Zenon, <1>1, <2>6, <3>2 DEF LeftInv
  <2>9. AheadInv'
    BY Zenon, <1>1, <1>8, <2>5, <2>6 DEF AheadInv
  <2>10. DoneInv'
    <3>1. ASSUME NEW k \in DOMAIN Collectors, NEW r \in Messages, Over(k, r)'
          PROVE  r < records \/ (r = records /\ k <= at)
      BY Zenon, <1>1, <2>1, <2>5, <2>6, <3>1 DEF Over
    <3>2. QED
      BY Zenon, <1>14, <1>15, <3>1 DEF DoneInv
  <2>11. TurnInv'
    <3>1. SUFFICES ASSUME NEW k \in DOMAIN Collectors, Collectors[k].partition = "round_robin"
                   PROVE  seq'[k] = Begun(k)' % Len(Collectors[k].channels)
      BY Zenon DEF TurnInv
    <3>2. CASE k = l
      <4>1. l <= l
        BY <2>1, <2>4
      <4>2. Begun(k)' = records
        BY Zenon, <1>1, <2>6, <3>2, <4>1 DEF Begun
      <4>3. QED
        BY Zenon, <2>6, <3>1, <3>2, <4>2
    <3>3. CASE k # l
      <4>1. Begun(k)' = Begun(k)
        BY Zenon, <1>1, <2>1, <2>5, <2>6, <3>3 DEF Begun
      <4>2. seq[k] = Begun(k) % Len(Collectors[k].channels)
        BY Zenon, <3>1 DEF TurnInv
      <4>3. QED
        BY Zenon, <2>6, <3>3, <4>1, <4>2
    <3>4. QED
      BY <3>2, <3>3
  <2>12. QED
    BY Zenon, <1>5, <2>7, <2>8, <2>9, <2>10, <2>11
<1>16. CASE left = << >> /\ ~(at < Len(Collectors)) /\ at' = 0 /\ seq' = seq
  <2>1. \A k \in DOMAIN Collectors : k <= at
    BY <1>4, <1>16
  <2>2. ThreadInv'
    <3>1. 0 \in 0 .. Len(Collectors)
      BY <1>4
    <3>2. QED
      BY Zenon, <1>12, <1>16, <3>1 DEF ThreadInv
  <2>3. LeftInv' /\ AheadInv'
    BY Zenon, <1>16 DEF LeftInv, AheadInv
  <2>4. DoneInv'
    BY Zenon, <1>1, <1>14, <1>16, <2>1 DEF DoneInv, Over
  <2>5. TurnInv'
    BY Zenon, <1>1, <1>16, <2>1 DEF TurnInv, Begun
  <2>6. QED
    BY Zenon, <1>5, <2>2, <2>3, <2>4, <2>5
<1>17. QED
  BY Zenon, <1>1, <1>13, <1>15, <1>16

------------------------------------------------------------------------------
(* The inductive invariant. *)
StreamInv == CollectInv /\ ChannelInv

(* The initial states satisfy the invariant.                               *)
LEMMA InitStream ==
    ASSUME Init
    PROVE  StreamInv
<1>1. CollectInv
  BY Zenon, InitCollects
<1>2. /\ batch = [c \in Channels |-> << >>] /\ wire = [c \in Channels |-> << >>]
      /\ accepted = [c \in Channels |-> << >>] /\ stranded = [c \in Channels |-> << >>]
      /\ received = [c \in Channels |-> << >>]
  BY Zenon DEF Init
<1>3. ChannelTypes
  BY <1>2 DEF ChannelTypes
<1>4. << >> \o << >> = << >>
  OBVIOUS
<1>5. ASSUME NEW c \in Channels PROVE stranded[c] = << >> /\ Held(c) = accepted[c]
  <2>1. wire[c] = << >> /\ stranded[c] = << >> /\ batch[c] = << >> /\ received[c] = << >>
        /\ accepted[c] = << >>
    BY <1>2
  <2>2. Unbatched(wire[c]) = << >>
    BY Zenon, <2>1, UnbatchedEmpty
  <2>3. QED
    BY Zenon, <1>4, <2>1, <2>2 DEF Held, Line
<1>6. QED
  BY Zenon, <1>1, <1>3, <1>5 DEF StreamInv, ChannelInv

(* Nothing happens to the channels. *)
LEMMA SameChannels ==
    ASSUME ChannelInv, batch' = batch, wire' = wire, accepted' = accepted,
           stranded' = stranded, received' = received, closer # "closed" \/ closer' = closer
    PROVE  ChannelInv'
<1>1. ChannelTypes'
  BY Zenon DEF ChannelInv, ChannelTypes
<1>2. \A c \in Channels : Held(c)' = accepted'[c]
  BY Zenon DEF ChannelInv, Held
<1>3. closer' # "closed" => \A c \in Channels : stranded'[c] = << >>
  BY Zenon DEF ChannelInv
<1>4. QED
  BY Zenon, <1>1, <1>2, <1>3 DEF ChannelInv

(* Every step of the thread, the flusher, close() and the readers preserves*)
(* it.                                                                     *)
LEMMA NextStream ==
    ASSUME StreamInv, [Next]_vars
    PROVE  StreamInv'
<1> USE DEF StreamInv
<1>1. ASSUME Run PROVE StreamInv'
  <2>1. CollectInv'
    BY Zenon, <1>1, RunCollects
  <2>2. ChannelInv'
    BY Zenon, <1>1, SameChannels DEF Run, writerVars
  <2>3. QED
    BY Zenon, <2>1, <2>2
<1>2. ASSUME CollectTaken PROVE StreamInv'
  <2>1. CollectInv'
    BY Zenon, <1>2, TakenCollects DEF ChannelInv
  <2>2. at # 0 /\ Taken(Target, records) /\ closer' = closer /\ received' = received
    BY Zenon, <1>2 DEF CollectTaken
  <2>3. Target \in Channels /\ records \in Nat
    BY Zenon, <2>2, TargetFacts DEF CollectInv
  <2>4. ChannelInv'
    BY Zenon, <2>2, <2>3, TakenKeepsLine
  <2>5. QED
    BY Zenon, <2>1, <2>4
<1>3. ASSUME CollectRefused PROVE StreamInv'
  <2>1. CollectInv'
    BY Zenon, <1>3, RefusedCollects
  <2>2. ChannelInv'
    BY Zenon, <1>3, SameChannels DEF CollectRefused, Refused, writerVars
  <2>3. QED
    BY Zenon, <2>1, <2>2
<1>4. ASSUME UNCHANGED <<threadVars, accepted>>, ChannelInv' PROVE StreamInv'
  BY Zenon, <1>4, OthersCollect
<1>5. ASSUME NEW c \in Channels, Age(c) PROVE StreamInv'
  <2>1. ChannelInv'
    BY Zenon, <1>5, SameChannels DEF Age
  <2>2. QED
    BY Zenon, <1>4, <1>5, <2>1 DEF Age
<1>6. ASSUME NEW c \in Channels, TryFlush(c), UNCHANGED <<threadVars, closer, received>>
      PROVE  StreamInv'
  <2>1. ChannelInv'
    BY Zenon, <1>6, FlushKeepsLine
  <2>2. QED
    BY Zenon, <1>4, <1>6, <2>1 DEF TryFlush
<1>7. ASSUME NEW c \in Channels, Flusher(c) PROVE StreamInv'
  BY Zenon, <1>6, <1>7 DEF Flusher
<1>8. ASSUME NEW c \in Channels, ReadMessage(c) PROVE StreamInv'
  <2>1. ChannelInv'
    BY Zenon, <1>8, ReadKeepsLine
  <2>2. QED
    BY Zenon, <1>4, <1>8, <2>1 DEF ReadMessage
<1>9. ASSUME UNCHANGED <<threadVars, writerVars, received>>, closer # "closed" \/ closer' = closer
      PROVE  StreamInv'
  <2>1. ChannelInv'
    BY Zenon, <1>9, SameChannels DEF writerVars
  <2>2. QED
    BY Zenon, <1>4, <1>9, <2>1 DEF writerVars
<1>10. ASSUME Close \/ CloseWriter \/ CloseJoined PROVE StreamInv'
  <2>1. closer # "closed"
    BY <1>10 DEF Close, CloseWriter, CloseJoined
  <2>2. QED
    BY Zenon, <1>9, <1>10, <2>1 DEF Close, CloseWriter, CloseJoined
<1>11. ASSUME CloseTransport PROVE StreamInv'
  <2>1. ChannelInv'
    BY Zenon, <1>11, CloseKeepsLine
  <2>2. QED
    BY Zenon, <1>4, <1>11, <2>1 DEF CloseTransport
<1>12. ASSUME NEW c \in Channels, CloseFlush(c) PROVE StreamInv'
  BY Zenon, <1>6, <1>9, <1>12 DEF CloseFlush
<1>13. ASSUME UNCHANGED vars PROVE StreamInv'
  BY Zenon, <1>9, <1>13 DEF vars
<1>14. QED
  BY Zenon, <1>1, <1>2, <1>3, <1>5, <1>7, <1>8, <1>10, <1>11, <1>12, <1>13 DEF Next

(* In every reachable state, for all collectors, capacities and batch      *)
(* sizes, the thread is at a position of its loop that accounts for what   *)
(* every channel has taken, and every channel holds what it has taken in a *)
(* single line.                                                            *)
THEOREM StreamInvariant == Spec => []StreamInv
<1>1. Init => StreamInv
  BY InitStream
<1>2. StreamInv /\ [Next]_vars => StreamInv'
  BY NextStream
<1>3. QED
  BY <1>1, <1>2, PTL DEF Spec

(* Backpressure, the two threads that flush and close() lose, repeat and   *)
(* reorder no message of a channel.                                        *)
THEOREM BatchesAreFifo == Spec => []BatchingIsFifo
<1>1. StreamInv => BatchingIsFifo
  BY Zenon DEF StreamInv, ChannelInv, Held, Line, BatchingIsFifo
<1>2. QED
  BY <1>1, StreamInvariant, PTL

(* However channels refuse and accept, a record reaches each partition that*)
(* output_collector.py computes for it once, and no other.                 *)
THEOREM RecordsCollectedOnce == Spec => []CollectedOnce
<1>1. ASSUME StreamInv PROVE CollectedOnce
  <2>1. ASSUME NEW c \in Channels, NEW r PROVE r \in Range(accepted[c]) <=> In(accepted[c], r)
    <3>1. accepted[c] \in Seq(Nat)
      BY <1>1 DEF StreamInv, ChannelInv, ChannelTypes
    <3>2. DOMAIN accepted[c] = 1 .. Len(accepted[c])
      BY <3>1
    <3>3. QED
      BY Zenon, <3>2 DEF Range, In
  <2>2. ASSUME NEW k \in DOMAIN Collectors, NEW r \in Messages, Over(k, r),
               NEW p \in 1 .. Len(Collectors[k].channels)
        PROVE  r \in Range(accepted[Collectors[k].channels[p]]) <=> p \in MustReach(k, r)
    <3>1. p \in Parts(k) /\ Channel(k, p) = Collectors[k].channels[p]
      BY Zenon DEF Parts, Channel
    <3>2. Channel(k, p) \in Channels
      BY Zenon, <3>1, CollectorFacts
    <3>3. In(accepted[Channel(k, p)], r) <=> p \in MustReach(k, r)
      BY Zenon, <1>1, <2>2, <3>1 DEF StreamInv, CollectInv, DoneInv
    <3>4. QED
      BY Zenon, <2>1, <3>1, <3>2, <3>3
  <2>3. \A c \in Channels : \A i, j \in 1 .. Len(accepted[c]) :
          i < j => accepted[c][i] < accepted[c][j]
    BY Zenon, <1>1 DEF StreamInv, CollectInv, OrderInv
  <2>4. QED
    BY Zenon, <2>2, <2>3 DEF CollectedOnce, Over
<1>2. QED
  BY <1>1, StreamInvariant, PTL

==============================================================================
