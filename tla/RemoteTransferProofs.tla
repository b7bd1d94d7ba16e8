------------------------ MODULE RemoteTransferProofs -------------------------
(***************************************************************************)
(* Every channel sees a bounded first-in first-out link in both directions *)
(* between two transfer handlers, for any channels, nodes and queue sizes. *)
(*                                                                         *)
(* The argument is about one channel at a time.  What is under way from    *)
(* one side to the other is on a path of five stages; the second and the   *)
(* third are shared by all channels of a pair of nodes, the fourth by all  *)
(* channels of a handler.                                                  *)
(***************************************************************************)
EXTENDS RemoteTransfer, TLAPS

Stages == 1 .. 5
Paths == [Stages -> Seq(Message)]

(* The path of channel c from a side to the other. *)
Line(s1, s2, s3, m, s5) ==
    [k \in Stages |-> CASE k = 1 -> s1
                        [] k = 2 -> s2
                        [] k = 3 -> s3
                        [] k = 4 -> IF m = None THEN << >> ELSE <<m>>
                        [] k = 5 -> s5]
Path(side, c) ==
    Line(local_recv[side][c], remote_send[side][Route(c)], remote_recv[Other(side)][Route(c)],
         held[Handler(Other(side), Route(c))], local_send[Other(side)][c])

(* Message i of stage k is ahead of message j of stage l. *)
Ahead(k, i, l, j) == k > l \/ (k = l /\ i < j)

(* The messages of channel c on path Q have the numbers from lo on and     *)
(* below hi, all of them, and those ahead have lower ones.                 *)
InOrder(Q, c, lo, hi) ==
    /\ \A k \in Stages : \A i \in 1 .. Len(Q[k]) :
         Q[k][i].channel = c => lo <= Q[k][i].n /\ Q[k][i].n < hi
    /\ \A k, l \in Stages : \A i \in 1 .. Len(Q[k]), j \in 1 .. Len(Q[l]) :
         Q[k][i].channel = c /\ Q[l][j].channel = c /\ Ahead(k, i, l, j)
           => Q[k][i].n < Q[l][j].n
    /\ \A n \in lo .. hi - 1 : \E k \in Stages : \E i \in 1 .. Len(Q[k]) :
         Q[k][i].channel = c /\ Q[k][i].n = n

(* What a step may do to a path: the first message of a stage moves on, *)
Moves(Q, P, k) ==
    /\ Q[k] # << >>
    /\ P[k] = Tail(Q[k])
    /\ P[k + 1] = Append(Q[k + 1], Head(Q[k]))
    /\ \A l \in Stages \ {k, k + 1} : P[l] = Q[l]

(* a message enters a stage, *)
Enters(Q, P, k, m) ==
    /\ P[k] = Append(Q[k], m)
    /\ \A l \in Stages \ {k} : P[l] = Q[l]

(* or the first one of a stage leaves the path. *)
Leaves(Q, P, k) ==
    /\ Q[k] # << >>
    /\ P[k] = Tail(Q[k])
    /\ \A l \in Stages \ {k} : P[l] = Q[l]

(* Messages of channel c. *)
Own(c) == {m \in Message : m.channel = c}

(* A message that moves on stays ahead of those behind it. *)
LEMMA MovesInOrder ==
    ASSUME NEW c, NEW Q \in Paths, NEW P \in Paths, NEW k \in 1 .. 4,
           NEW lo \in Nat, NEW hi \in Nat, InOrder(Q, c, lo, hi), Moves(Q, P, k)
    PROVE  InOrder(P, c, lo, hi)
<1> DEFINE last == Len(Q[k + 1]) + 1
           Stage(l, i) == IF l = k + 1 /\ i = last THEN k ELSE l
           Index(l, i) == IF l = k THEN i + 1 ELSE IF l = k + 1 /\ i = last THEN 1 ELSE i
<1>0. k \in Stages /\ k + 1 \in Stages /\ k # k + 1
  BY DEF Stages
<1>1. \A l \in Stages : Q[l] \in Seq(Message)
  BY DEF Paths
<1>2. /\ Len(Q[k]) \in Nat \ {0} /\ Len(P[k]) = Len(Q[k]) - 1
      /\ \A i \in 1 .. Len(P[k]) : P[k][i] = Q[k][i + 1]
  BY <1>0, <1>1 DEF Moves
<1>3. /\ Len(Q[k + 1]) \in Nat /\ Len(P[k + 1]) = last
      /\ P[k + 1][last] = Q[k][1]
      /\ \A i \in 1 .. Len(Q[k + 1]) : P[k + 1][i] = Q[k + 1][i]
  BY <1>0, <1>1 DEF Moves
<1>4. \A l \in Stages \ {k, k + 1} : P[l] = Q[l] /\ Len(Q[l]) \in Nat
  BY <1>1 DEF Moves
<1>5. ASSUME NEW l \in Stages, NEW i \in 1 .. Len(P[l])
      PROVE  /\ Stage(l, i) \in Stages /\ Index(l, i) \in 1 .. Len(Q[Stage(l, i)])
             /\ P[l][i] = Q[Stage(l, i)][Index(l, i)]
  <2>1. CASE l = k
    <3>1. Stage(l, i) = k /\ Index(l, i) = i + 1
      BY <1>0, <2>1
    <3>2. i \in 1 .. Len(P[k]) /\ Len(Q[k]) \in Nat /\ Len(P[k]) = Len(Q[k]) - 1
      BY <1>2, <2>1
    <3>3. i + 1 \in 1 .. Len(Q[k])
      BY <3>2
    <3>4. P[k][i] = Q[k][i + 1]
      BY <1>2, <3>2
    <3>5. QED
      BY <1>0, <2>1, <3>1, <3>3, <3>4
  <2>2. CASE l = k + 1 /\ i = last
    BY <1>0, <1>2, <1>3, <2>2
  <2>3. CASE l = k + 1 /\ i # last
    BY <1>0, <1>3, <2>3
  <2>4. CASE l \notin {k, k + 1}
    BY <1>4, <2>4
  <2>5. QED
    BY <2>1, <2>2, <2>3, <2>4
<1>6. ASSUME NEW l \in Stages, NEW i \in 1 .. Len(P[l]),
             NEW m \in Stages, NEW j \in 1 .. Len(P[m]), Ahead(l, i, m, j)
      PROVE  Ahead(Stage(l, i), Index(l, i), Stage(m, j), Index(m, j))
  <2>0. i \in Nat /\ j \in Nat
    OBVIOUS
  <2>1. last \in Nat /\ l \in Nat /\ m \in Nat
    <3>1. last \in Nat
      BY <1>3
    <3>2. QED
      BY <3>1 DEF Stages
  <2>2. (l = k + 1 => i <= last) /\ (m = k + 1 => j <= last) /\ i >= 1 /\ j >= 1
    BY <1>3
  <2> HIDE DEF last
  <2>3. QED
    BY <2>0, <2>1, <2>2, <1>6 DEF Ahead
<1>7. ASSUME NEW l \in Stages, NEW i \in 1 .. Len(Q[l])
      PROVE  \E m \in Stages : \E j \in 1 .. Len(P[m]) : P[m][j] = Q[l][i]
  <2>1. CASE l = k /\ i = 1
    <3>1. k + 1 \in Stages /\ last \in 1 .. Len(P[k + 1]) /\ P[k + 1][last] = Q[l][i]
      BY <1>0, <1>3, <2>1
    <3> HIDE DEF last
    <3>2. QED
      BY Zenon, <3>1
  <2>2. CASE l = k /\ i # 1
    <3>1. i - 1 \in 1 .. Len(P[k]) /\ P[k][i - 1] = Q[l][i]
      BY <1>2, <2>2, <1>7
    <3>2. QED
      BY <3>1, <2>2
  <2>3. CASE l = k + 1
    BY <1>0, <1>3, <2>3, <1>7
  <2>4. CASE l \notin {k, k + 1}
    BY <1>4, <2>4
  <2>5. QED
    BY <2>1, <2>2, <2>3, <2>4
<1> HIDE DEF Stage, Index
<1>8. ASSUME NEW l \in Stages, NEW i \in 1 .. Len(P[l]), P[l][i].channel = c
      PROVE  lo <= P[l][i].n /\ P[l][i].n < hi
  <2>1. PICK m \in Stages : \E j \in 1 .. Len(Q[m]) : P[l][i] = Q[m][j]
    BY <1>5
  <2>2. PICK j \in 1 .. Len(Q[m]) : P[l][i] = Q[m][j]
    BY <2>1
  <2>3. QED
    BY <2>2, <1>8 DEF InOrder
<1>9. ASSUME NEW l \in Stages, NEW m \in Stages,
             NEW i \in 1 .. Len(P[l]), NEW j \in 1 .. Len(P[m]),
             P[l][i].channel = c, P[m][j].channel = c, Ahead(l, i, m, j)
      PROVE  P[l][i].n < P[m][j].n
  <2>1. Ahead(Stage(l, i), Index(l, i), Stage(m, j), Index(m, j))
    BY <1>6, <1>9
  <2>2. /\ Stage(l, i) \in Stages /\ Index(l, i) \in 1 .. Len(Q[Stage(l, i)])
        /\ P[l][i] = Q[Stage(l, i)][Index(l, i)]
    BY <1>5
  <2>3. /\ Stage(m, j) \in Stages /\ Index(m, j) \in 1 .. Len(Q[Stage(m, j)])
        /\ P[m][j] = Q[Stage(m, j)][Index(m, j)]
    BY <1>5
  <2> DEFINE a == Stage(l, i)
             x == Index(l, i)
             b == Stage(m, j)
             y == Index(m, j)
  <2>4. a \in Stages /\ b \in Stages /\ x \in 1 .. Len(Q[a]) /\ y \in 1 .. Len(Q[b])
    BY <2>2, <2>3
  <2>5. Q[a][x].channel = c /\ Q[b][y].channel = c /\ Ahead(a, x, b, y)
    BY <1>9, <2>1, <2>2, <2>3
  <2>6. Q[a][x].n < Q[b][y].n
    <3> HIDE DEF a, x, b, y
    <3>1. QED
      BY Zenon, <2>4, <2>5 DEF InOrder
  <2>7. QED
    BY <2>2, <2>3, <2>6
<1>10. ASSUME NEW n \in lo .. hi - 1
       PROVE  \E l \in Stages : \E i \in 1 .. Len(P[l]) : P[l][i].channel = c /\ P[l][i].n = n
  <2>1. PICK m \in Stages : \E j \in 1 .. Len(Q[m]) : Q[m][j].channel = c /\ Q[m][j].n = n
    BY Zenon DEF InOrder
  <2>2. PICK j \in 1 .. Len(Q[m]) : Q[m][j].channel = c /\ Q[m][j].n = n
    BY <2>1
  <2>3. \E l \in Stages : \E i \in 1 .. Len(P[l]) : P[l][i] = Q[m][j]
    BY <1>7
  <2>4. QED
    BY <2>2, <2>3
<1>11. QED
  BY Zenon, <1>8, <1>9, <1>10 DEF InOrder

(* What enters a stage is behind everything else of the stage. *)
LEMMA EntersFacts ==
    ASSUME NEW Q \in Paths, NEW P \in Paths, NEW k \in Stages, NEW m \in Message, Enters(Q, P, k, m)
    PROVE  /\ \A l \in Stages : Len(Q[l]) \in Nat
           /\ \A l \in Stages \ {k} : P[l] = Q[l]
           /\ Len(P[k]) = Len(Q[k]) + 1 /\ P[k][Len(Q[k]) + 1] = m
           /\ \A i \in 1 .. Len(Q[k]) : P[k][i] = Q[k][i]
<1>1. \A l \in Stages : Q[l] \in Seq(Message)
  BY DEF Paths
<1>2. QED
  BY <1>1 DEF Enters

(* A message of another channel that enters a stage changes nothing. *)
LEMMA EntersInOrder ==
    ASSUME NEW c, NEW Q \in Paths, NEW P \in Paths, NEW k \in Stages, NEW m \in Message,
           NEW lo \in Nat, NEW hi \in Nat, InOrder(Q, c, lo, hi), Enters(Q, P, k, m),
           m.channel # c
    PROVE  InOrder(P, c, lo, hi)
<1>1. ASSUME NEW l \in Stages, NEW i \in 1 .. Len(P[l]), P[l][i].channel = c
      PROVE  i \in 1 .. Len(Q[l]) /\ P[l][i] = Q[l][i]
  <2>1. CASE l = k
    BY <1>1, <2>1, EntersFacts
  <2>2. CASE l # k
    BY <2>2, EntersFacts
  <2>3. QED
    BY <2>1, <2>2
<1>2. ASSUME NEW l \in Stages, NEW i \in 1 .. Len(Q[l])
      PROVE  i \in 1 .. Len(P[l]) /\ P[l][i] = Q[l][i]
  <2>1. CASE l = k
    BY <2>1, EntersFacts
  <2>2. CASE l # k
    BY <2>2, EntersFacts
  <2>3. QED
    BY <2>1, <2>2
<1>3. ASSUME NEW n \in lo .. hi - 1
      PROVE  \E l \in Stages : \E i \in 1 .. Len(P[l]) : P[l][i].channel = c /\ P[l][i].n = n
  <2>1. PICK l \in Stages : \E j \in 1 .. Len(Q[l]) : Q[l][j].channel = c /\ Q[l][j].n = n
    BY DEF InOrder
  <2>2. PICK j \in 1 .. Len(Q[l]) : Q[l][j].channel = c /\ Q[l][j].n = n
    BY <2>1
  <2>3. QED
    BY Zenon, <1>2, <2>2
<1>4. \A l \in Stages : \A i \in 1 .. Len(P[l]) :
        P[l][i].channel = c => lo <= P[l][i].n /\ P[l][i].n < hi
  BY <1>1 DEF InOrder
<1>5. ASSUME NEW h \in Stages, NEW l \in Stages, NEW i \in 1 .. Len(P[h]), NEW j \in 1 .. Len(P[l]),
             P[h][i].channel = c, P[l][j].channel = c, Ahead(h, i, l, j)
      PROVE  P[h][i].n < P[l][j].n
  <2>1. i \in 1 .. Len(Q[h]) /\ P[h][i] = Q[h][i] /\ j \in 1 .. Len(Q[l]) /\ P[l][j] = Q[l][j]
    BY <1>1, <1>5
  <2>2. QED
    BY <2>1, <1>5 DEF InOrder
<1>6. QED
  BY <1>3, <1>4, <1>5 DEF InOrder

(* The next message of the channel enters its first stage. *)
LEMMA GivenInOrder ==
    ASSUME NEW c, NEW Q \in Paths, NEW P \in Paths, NEW m \in Message,
           NEW lo \in Nat, NEW hi \in Nat, InOrder(Q, c, lo, hi), Enters(Q, P, 1, m),
           m.channel = c, m.n = hi, lo <= hi
    PROVE  InOrder(P, c, lo, hi + 1)
<1> DEFINE last == Len(Q[1]) + 1
<1>0. 1 \in Stages
  BY DEF Stages
<1>1. ASSUME NEW l \in Stages, NEW i \in 1 .. Len(P[l])
      PROVE  (i \in 1 .. Len(Q[l]) /\ P[l][i] = Q[l][i]) \/ (l = 1 /\ i = last /\ P[l][i] = m)
  <2>1. CASE l = 1
    BY <1>0, <2>1, EntersFacts
  <2>2. CASE l # 1
    BY <1>0, <2>2, EntersFacts
  <2>3. QED
    BY <2>1, <2>2
<1>2. ASSUME NEW l \in Stages, NEW i \in 1 .. Len(Q[l])
      PROVE  i \in 1 .. Len(P[l]) /\ P[l][i] = Q[l][i]
  <2>1. CASE l = 1
    BY <1>0, <2>1, EntersFacts
  <2>2. CASE l # 1
    BY <1>0, <2>2, EntersFacts
  <2>3. QED
    BY <2>1, <2>2
<1>3. last \in 1 .. Len(P[1]) /\ P[1][last] = m /\ Len(P[1]) = last
  BY <1>0, EntersFacts
<1>4. ASSUME NEW n \in lo .. (hi + 1) - 1
      PROVE  \E l \in Stages : \E i \in 1 .. Len(P[l]) : P[l][i].channel = c /\ P[l][i].n = n
  <2>1. CASE n = hi
    BY <1>0, <1>3, <2>1
  <2>2. CASE n # hi
    <3>1. n \in lo .. hi - 1
      BY <2>2
    <3>2. PICK l \in Stages : \E j \in 1 .. Len(Q[l]) : Q[l][j].channel = c /\ Q[l][j].n = n
      BY Zenon, <3>1 DEF InOrder
    <3>3. PICK j \in 1 .. Len(Q[l]) : Q[l][j].channel = c /\ Q[l][j].n = n
      BY <3>2
    <3>4. QED
      BY <1>2, <3>3
  <2>3. QED
    BY <2>1, <2>2
<1>5. ASSUME NEW l \in Stages, NEW i \in 1 .. Len(Q[l]), Q[l][i].channel = c
      PROVE  lo <= Q[l][i].n /\ Q[l][i].n < hi
  BY <1>5 DEF InOrder
<1>6. ASSUME NEW l \in Stages, NEW i \in 1 .. Len(Q[l])
      PROVE  Q[l][i].n \in Nat
  <2>1. Q[l] \in Seq(Message)
    BY DEF Paths
  <2>2. Q[l][i] \in Message
    BY <2>1
  <2>3. QED
    BY <2>2 DEF Message
<1>7. ASSUME NEW l \in Stages, NEW i \in 1 .. Len(P[l]), P[l][i].channel = c
      PROVE  lo <= P[l][i].n /\ P[l][i].n < hi + 1
  BY <1>1, <1>5, <1>6, <1>7
<1>8. ASSUME NEW h \in Stages, NEW l \in Stages, NEW i \in 1 .. Len(P[h]), NEW j \in 1 .. Len(P[l]),
             P[h][i].channel = c, P[l][j].channel = c, Ahead(h, i, l, j)
      PROVE  P[h][i].n < P[l][j].n
  <2>1. ~(h = 1 /\ i = last)
    <3>1. j \in Nat /\ (l = 1 => j <= last) /\ last \in Nat
      BY <1>0, <1>3, EntersFacts
    <3>2. QED
      BY <3>1, <1>8 DEF Ahead, Stages
  <2>2. i \in 1 .. Len(Q[h]) /\ P[h][i] = Q[h][i]
    BY <1>1, <2>1
  <2>3. CASE l = 1 /\ j = last
    BY <1>5, <2>2, <2>3, <1>3, <1>8
  <2>4. CASE ~(l = 1 /\ j = last)
    <3>1. j \in 1 .. Len(Q[l]) /\ P[l][j] = Q[l][j]
      BY <1>1, <2>4
    <3>2. QED
      BY <2>2, <3>1, <1>8 DEF InOrder
  <2>5. QED
    BY <2>3, <2>4
<1>9. QED
  BY <1>4, <1>7, <1>8 DEF InOrder

(* The messages behind the one that leaves a stage move up. *)
LEMMA LeavesFacts ==
    ASSUME NEW Q \in Paths, NEW P \in Paths, NEW k \in Stages, Leaves(Q, P, k),
           NEW l \in Stages
    PROVE  /\ Len(Q[k]) \in Nat \ {0}
           /\ l # k => P[l] = Q[l]
           /\ \A i \in 1 .. Len(P[k]) : i + 1 \in 1 .. Len(Q[k]) /\ P[k][i] = Q[k][i + 1]
           /\ \A i \in 2 .. Len(Q[k]) : i - 1 \in 1 .. Len(P[k]) /\ P[k][i - 1] = Q[k][i]
<1>1. Q[k] \in Seq(Message)
  BY DEF Paths
<1>2. QED
  BY <1>1 DEF Leaves

(* What is left is in order. *)
LEMMA LeavesOrdered ==
    ASSUME NEW c, NEW Q \in Paths, NEW P \in Paths, NEW k \in Stages, Leaves(Q, P, k),
           NEW lo \in Nat, NEW hi \in Nat, InOrder(Q, c, lo, hi),
           NEW h \in Stages, NEW l \in Stages, NEW i \in 1 .. Len(P[h]), NEW j \in 1 .. Len(P[l]),
           P[h][i].channel = c, P[l][j].channel = c, Ahead(h, i, l, j)
    PROVE  P[h][i].n < P[l][j].n
<1> DEFINE Index(m, n) == IF m = k THEN n + 1 ELSE n
<1>1. Index(h, i) \in 1 .. Len(Q[h]) /\ P[h][i] = Q[h][Index(h, i)]
  BY LeavesFacts
<1>2. Index(l, j) \in 1 .. Len(Q[l]) /\ P[l][j] = Q[l][Index(l, j)]
  BY LeavesFacts
<1>3. Ahead(h, Index(h, i), l, Index(l, j))
  BY DEF Ahead
<1> HIDE DEF Index
<1>4. QED
  BY <1>1, <1>2, <1>3 DEF InOrder

(* A message of another channel that leaves a stage changes nothing. *)
LEMMA LeavesInOrder ==
    ASSUME NEW c, NEW Q \in Paths, NEW P \in Paths, NEW k \in Stages, Leaves(Q, P, k),
           NEW lo \in Nat, NEW hi \in Nat, InOrder(Q, c, lo, hi), Q[k][1].channel # c
    PROVE  InOrder(P, c, lo, hi)
<1>1. ASSUME NEW l \in Stages, NEW i \in 1 .. Len(P[l]), P[l][i].channel = c
      PROVE  lo <= P[l][i].n /\ P[l][i].n < hi
  <2>1. PICK j \in 1 .. Len(Q[l]) : P[l][i] = Q[l][j]
    BY LeavesFacts
  <2>2. QED
    BY <2>1, <1>1 DEF InOrder
<1>2. ASSUME NEW n \in lo .. hi - 1
      PROVE  \E l \in Stages : \E i \in 1 .. Len(P[l]) : P[l][i].channel = c /\ P[l][i].n = n
  <2>1. PICK l \in Stages : \E j \in 1 .. Len(Q[l]) : Q[l][j].channel = c /\ Q[l][j].n = n
    BY Zenon DEF InOrder
  <2>2. PICK j \in 1 .. Len(Q[l]) : Q[l][j].channel = c /\ Q[l][j].n = n
    BY <2>1
  <2>3. CASE l = k
    <3>1. j \in 2 .. Len(Q[k])
      BY <2>2, <2>3, LeavesFacts
    <3>2. j - 1 \in 1 .. Len(P[k]) /\ P[k][j - 1] = Q[k][j]
      BY <3>1, LeavesFacts
    <3>3. QED
      BY Zenon, <2>2, <2>3, <3>2
  <2>4. CASE l # k
    BY <2>2, <2>4, LeavesFacts
  <2>5. QED
    BY <2>3, <2>4
<1>3. \A h, l \in Stages : \A i \in 1 .. Len(P[h]), j \in 1 .. Len(P[l]) :
        P[h][i].channel = c /\ P[l][j].channel = c /\ Ahead(h, i, l, j) => P[h][i].n < P[l][j].n
  BY LeavesOrdered
<1>4. QED
  BY Zenon, <1>1, <1>2, <1>3 DEF InOrder

(* The message that leaves the last stage is the next one of the channel.  *)
LEMMA TakenInOrder ==
    ASSUME NEW c, NEW Q \in Paths, NEW P \in Paths, Leaves(Q, P, 5),
           NEW lo \in Nat, NEW hi \in Nat, InOrder(Q, c, lo, hi), Q[5][1] \in Own(c)
    PROVE  Q[5][1].n = lo /\ lo < hi /\ InOrder(P, c, lo + 1, hi)
<1>0. 5 \in Stages /\ Q[5][1].channel = c
  BY DEF Stages, Own
<1>1. 1 \in 1 .. Len(Q[5]) /\ Len(Q[5]) \in Nat
  BY <1>0, LeavesFacts
<1>2. ASSUME NEW l \in Stages, NEW i \in 1 .. Len(Q[l])
      PROVE  Q[l][i].n \in Nat
  <2>1. Q[l] \in Seq(Message)
    BY DEF Paths
  <2>2. Q[l][i] \in Message
    BY <2>1
  <2>3. QED
    BY <2>2 DEF Message
<1>3. lo <= Q[5][1].n /\ Q[5][1].n < hi
  BY <1>0, <1>1 DEF InOrder
<1>4. ASSUME NEW l \in Stages, NEW i \in 1 .. Len(Q[l]), Q[l][i].channel = c, <<l, i>> # <<5, 1>>
      PROVE  Q[5][1].n < Q[l][i].n
  <2>1. Ahead(5, 1, l, i)
    BY <1>1, <1>4 DEF Ahead, Stages
  <2>2. QED
    BY <1>0, <1>1, <2>1, <1>4 DEF InOrder
<1>5. Q[5][1].n = lo
  <2>1. lo \in lo .. hi - 1
    BY <1>0, <1>1, <1>2, <1>3
  <2>2. PICK l \in Stages : \E j \in 1 .. Len(Q[l]) : Q[l][j].channel = c /\ Q[l][j].n = lo
    BY <2>1 DEF InOrder
  <2>3. PICK j \in 1 .. Len(Q[l]) : Q[l][j].channel = c /\ Q[l][j].n = lo
    BY <2>2
  <2>4. <<l, j>> # <<5, 1>> => Q[5][1].n < lo
    BY Zenon, <1>4, <2>3
  <2>5. <<l, j>> = <<5, 1>> => Q[5][1].n = lo
    BY <2>3
  <2>6. Q[5][1].n \in Nat
    BY <1>0, <1>1, <1>2
  <2>7. QED
    BY ONLY <1>3, <2>4, <2>5, <2>6, lo \in Nat
<1>6. ASSUME NEW l \in Stages, NEW i \in 1 .. Len(P[l]), P[l][i].channel = c
      PROVE  lo + 1 <= P[l][i].n /\ P[l][i].n < hi
  <2>1. PICK j \in 1 .. Len(Q[l]) : P[l][i] = Q[l][j] /\ (l = 5 => j = i + 1)
    BY <1>0, LeavesFacts
  <2>2. Q[5][1].n < Q[l][j].n /\ Q[l][j].n < hi
    BY <2>1, <1>4, <1>6 DEF InOrder
  <2>3. QED
    BY <1>2, <1>5, <2>1, <2>2
<1>7. ASSUME NEW n \in lo + 1 .. hi - 1
      PROVE  \E l \in Stages : \E i \in 1 .. Len(P[l]) : P[l][i].channel = c /\ P[l][i].n = n
  <2>0. n \in lo .. hi - 1
    OBVIOUS
  <2>1. PICK l \in Stages : \E j \in 1 .. Len(Q[l]) : Q[l][j].channel = c /\ Q[l][j].n = n
    BY Zenon, <2>0 DEF InOrder
  <2>2. PICK j \in 1 .. Len(Q[l]) : Q[l][j].channel = c /\ Q[l][j].n = n
    BY <2>1
  <2>3. CASE l = 5
    <3>1. j \in 2 .. Len(Q[5])
      BY <2>2, <2>3, <1>5, <1>1
    <3>2. j - 1 \in 1 .. Len(P[5]) /\ P[5][j - 1] = Q[5][j]
      BY <1>0, <3>1, LeavesFacts
    <3>3. QED
      BY <1>0, <2>2, <2>3, <3>2
  <2>4. CASE l # 5
    BY <1>0, <2>2, <2>4, LeavesFacts
  <2>5. QED
    BY <2>3, <2>4
<1>8. \A h, l \in Stages : \A i \in 1 .. Len(P[h]), j \in 1 .. Len(P[l]) :
        P[h][i].channel = c /\ P[l][j].channel = c /\ Ahead(h, i, l, j) => P[h][i].n < P[l][j].n
  BY <1>0, LeavesOrdered
<1>9. lo < hi
  BY <1>3, <1>5
<1>10. InOrder(P, c, lo + 1, hi)
  BY Zenon, <1>6, <1>7, <1>8 DEF InOrder
<1>11. QED
  BY <1>5, <1>9, <1>10

------------------------------------------------------------------------------
(* Messages of the channels that take route r. *)
Along(r) == {m \in Message : Route(m.channel) = r}

(* Every message is where its channel leads it. *)
Routed ==
    /\ local_recv \in [Sides -> [Channels -> Seq(Message)]]
    /\ local_send \in [Sides -> [Channels -> Seq(Message)]]
    /\ remote_send \in [Sides -> [Routes -> Seq(Message)]]
    /\ remote_recv \in [Sides -> [Routes -> Seq(Message)]]
    /\ held \in [Handlers -> Message \cup {None}]
    /\ \A side \in Sides, c \in Channels :
         local_recv[side][c] \in Seq(Own(c)) /\ local_send[side][c] \in Seq(Own(c))
    /\ \A side \in Sides, r \in Routes :
         remote_send[side][r] \in Seq(Along(r)) /\ remote_recv[side][r] \in Seq(Along(r))
    /\ \A h \in Handlers : held[h] # None => Handler(h[1], Route(held[h].channel)) = h

Numbered(s) == \A i \in 1 .. Len(s) : s[i] = i - 1

(* What clients gave and took: the numbers from 0 on, within the window. *)
Clients ==
    /\ given \in [Sides -> [Channels -> Nat]]
    /\ taken \in [Sides -> [Channels -> Seq(Nat)]]
    /\ \A side \in Sides, c \in Channels :
         Numbered(taken[side][c]) /\ Len(taken[Other(side)][c]) <= given[side][c]
    /\ \A c \in Channels :
         /\ given["sender"][c] <= Len(taken["sender"][c]) + MaxBuffers
         /\ given["receiver"][c] <= Len(taken["receiver"][c])

(* On the way from one side are, in order, the messages given there and    *)
(* not taken at the other side.                                            *)
InOrderNow(s, d) == InOrder(Path(s, d), d, Len(taken[Other(s)][d]), given[s][d])

(* The inductive invariant. *)
PathInv ==
    /\ Routed
    /\ Clients
    /\ \A s \in Sides, d \in Channels : InOrderNow(s, d)

(* The stages of a path. *)
LEMMA LineStages ==
    ASSUME NEW s1, NEW s2, NEW s3, NEW m, NEW s5
    PROVE  /\ Line(s1, s2, s3, m, s5)[1] = s1
           /\ Line(s1, s2, s3, m, s5)[2] = s2
           /\ Line(s1, s2, s3, m, s5)[3] = s3
           /\ Line(s1, s2, s3, m, s5)[4] = IF m = None THEN << >> ELSE <<m>>
           /\ Line(s1, s2, s3, m, s5)[5] = s5
BY DEF Line, Stages

(* A path is a sequence of messages per stage. *)
LEMMA LineType ==
    ASSUME NEW s1 \in Seq(Message), NEW s2 \in Seq(Message), NEW s3 \in Seq(Message),
           NEW m \in Message \cup {None}, NEW s5 \in Seq(Message)
    PROVE  Line(s1, s2, s3, m, s5) \in Paths
<1> DEFINE s4 == IF m = None THEN << >> ELSE <<m>>
<1>1. s4 \in Seq(Message)
  OBVIOUS
<1>2. Line(s1, s2, s3, m, s5) = [k \in Stages |-> CASE k = 1 -> s1 [] k = 2 -> s2 [] k = 3 -> s3
                                                   [] k = 4 -> s4 [] k = 5 -> s5]
  BY DEF Line
<1> HIDE DEF s4
<1>3. QED
  BY <1>1, <1>2 DEF Paths, Stages

(* Sides, routes and handlers. *)
LEMMA Topology ==
    ASSUME NEW side \in Sides, NEW c \in Channels
    PROVE  /\ Other(side) \in Sides /\ Other(Other(side)) = side /\ Other(side) # side
           /\ Route(c) \in Routes
           /\ Handler(side, Route(c)) \in Handlers
           /\ Handler(side, Route(c))[1] = side
BY DEF Sides, Other, Routes, Handlers, Handler

(* What is under way for a channel is such a path, *)
LEMMA PathType ==
    ASSUME Routed, NEW side \in Sides, NEW c \in Channels
    PROVE  Path(side, c) \in Paths
<1>1. held[Handler(Other(side), Route(c))] \in Message \cup {None}
  BY Topology DEF Routed
<1>2. /\ local_recv[side][c] \in Seq(Message) /\ remote_send[side][Route(c)] \in Seq(Message)
      /\ remote_recv[Other(side)][Route(c)] \in Seq(Message)
      /\ local_send[Other(side)][c] \in Seq(Message)
  BY Topology DEF Routed
<1>3. QED
  BY Zenon, <1>1, <1>2, LineType DEF Path

(* after a step too. *)
LEMMA PathTypeNext ==
    ASSUME Routed', NEW side \in Sides, NEW c \in Channels
    PROVE  Path(side, c)' \in Paths
<1>1. held'[Handler(Other(side), Route(c))] \in Message \cup {None}
  BY Topology DEF Routed
<1>2. /\ local_recv'[side][c] \in Seq(Message) /\ remote_send'[side][Route(c)] \in Seq(Message)
      /\ remote_recv'[Other(side)][Route(c)] \in Seq(Message)
      /\ local_send'[Other(side)][c] \in Seq(Message)
  BY Topology DEF Routed
<1>3. QED
  BY Zenon, <1>1, <1>2, LineType DEF Path

(* A thread or socket passes a message of channel c on to where c leads. *)
LEMMA OutputLoopRouted ==
    ASSUME Routed, NEW side \in Sides, NEW c \in Channels, OutputLoop(side, c)
    PROVE  Routed'
<1> DEFINE r == Route(c)
           m == Head(local_recv[side][c])
<1>1. r \in Routes
  BY Topology
<1>2. local_recv[side][c] \in Seq(Own(c)) /\ local_recv[side][c] # << >>
  BY DEF Routed, OutputLoop
<1>3. m \in Own(c) /\ Tail(local_recv[side][c]) \in Seq(Own(c))
  BY <1>2
<1>4. m \in Along(r) /\ m \in Message
  BY <1>3 DEF Own, Along
<1>5. local_recv[side][c] \in Seq(Message) /\ Tail(local_recv[side][c]) \in Seq(Message)
  BY <1>2 DEF Routed
<1>6. /\ Append(remote_send[side][r], m) \in Seq(Message)
      /\ Append(remote_send[side][r], m) \in Seq(Along(r))
  BY <1>1, <1>4 DEF Routed
<1>7. /\ local_recv' = [local_recv EXCEPT ![side][c] = Tail(local_recv[side][c])]
      /\ remote_send' = [remote_send EXCEPT ![side][r] = Append(remote_send[side][r], m)]
      /\ UNCHANGED <<remote_recv, local_send, held>>
  BY DEF OutputLoop
<1> HIDE DEF m, r
<1>8. QED
  BY <1>1, <1>3, <1>5, <1>6, <1>7 DEF Routed

(* input_loop holds a message of its own handler only. *)
LEMMA InputLoopRouted ==
    ASSUME Routed, NEW side \in Sides, NEW r \in Routes, InputLoop(side, r)
    PROVE  Routed'
<1> DEFINE h == Handler(side, r)
           m == Head(remote_recv[side][r])
<1>1. h \in Handlers /\ h[1] = side
  BY DEF Handlers, Handler
<1>2. remote_recv[side][r] \in Seq(Along(r)) /\ remote_recv[side][r] # << >>
  BY DEF Routed, InputLoop
<1>3. m \in Along(r) /\ Tail(remote_recv[side][r]) \in Seq(Along(r))
  BY <1>2
<1>4. m \in Message /\ Handler(h[1], Route(m.channel)) = h
  BY <1>1, <1>3 DEF Along
<1>5. Tail(remote_recv[side][r]) \in Seq(Message)
  BY <1>2 DEF Routed
<1>6. /\ remote_recv' = [remote_recv EXCEPT ![side][r] = Tail(remote_recv[side][r])]
      /\ held' = [held EXCEPT ![h] = m]
      /\ UNCHANGED <<local_recv, remote_send, local_send>>
  BY DEF InputLoop
<1> HIDE DEF m, h
<1>7. QED
  BY <1>1, <1>3, <1>4, <1>5, <1>6 DEF Routed

(* The blocking send of input_loop puts a message where its header says. *)
LEMMA InputLoopSendRouted ==
    ASSUME Routed, NEW h \in Handlers, InputLoopSend(h)
    PROVE  Routed'
<1> DEFINE m == held[h]
           c == m.channel
           s == Append(local_send[h[1]][c], m)
<1>1. m \in Message /\ c \in Channels /\ m \in Own(c)
  BY DEF Routed, InputLoopSend, Own, Message
<1>2. h[1] \in Sides
  BY DEF Handlers, Handler
<1>3. s \in Seq(Message) /\ s \in Seq(Own(c))
  BY <1>1, <1>2 DEF Routed
<1>4. /\ local_send' = [local_send EXCEPT ![h[1]][c] = s]
      /\ held' = [held EXCEPT ![h] = None]
      /\ UNCHANGED <<local_recv, remote_send, remote_recv>>
  BY DEF InputLoopSend
<1> HIDE DEF m, c, s
<1>5. QED
  BY <1>1, <1>2, <1>3, <1>4 DEF Routed

(* A remote socket keeps messages on their route. *)
LEMMA RemoteSocketRouted ==
    ASSUME Routed, NEW side \in Sides, NEW r \in Routes, RemoteSocket(side, r)
    PROVE  Routed'
<1> DEFINE m == Head(remote_send[side][r])
           s == Append(remote_recv[Other(side)][r], m)
<1>1. Other(side) \in Sides
  BY DEF Sides, Other
<1>2. remote_send[side][r] \in Seq(Along(r)) /\ remote_send[side][r] # << >>
  BY DEF Routed, RemoteSocket
<1>3. m \in Along(r) /\ m \in Message /\ Tail(remote_send[side][r]) \in Seq(Along(r))
  BY <1>2 DEF Along
<1>4. s \in Seq(Message) /\ s \in Seq(Along(r)) /\ Tail(remote_send[side][r]) \in Seq(Message)
  BY <1>1, <1>2, <1>3 DEF Routed
<1>5. /\ remote_recv' = [remote_recv EXCEPT ![Other(side)][r] = s]
      /\ remote_send' = [remote_send EXCEPT ![side][r] = Tail(remote_send[side][r])]
      /\ UNCHANGED <<local_recv, local_send, held>>
  BY DEF RemoteSocket
<1> HIDE DEF m, s
<1>6. QED
  BY <1>1, <1>3, <1>4, <1>5 DEF Routed

(* The clients give and take messages of their own channel. *)
LEMMA ClientsRouted ==
    ASSUME Routed, Clients, NEW side \in Sides, NEW c \in Channels,
           ClientGives(side, c) \/ ClientTakes(side, c)
    PROVE  Routed'
<1>1. CASE ClientGives(side, c)
  <2> DEFINE m == [channel |-> c, n |-> given[side][c]]
             s == Append(local_recv[side][c], m)
  <2>1. m \in Message /\ m \in Own(c)
    BY DEF Clients, Message, Own
  <2>2. s \in Seq(Message) /\ s \in Seq(Own(c))
    BY <2>1 DEF Routed
  <2>3. /\ local_recv' = [local_recv EXCEPT ![side][c] = s]
        /\ UNCHANGED <<remote_send, remote_recv, local_send, held>>
    BY <1>1 DEF ClientGives
  <2> HIDE DEF s
  <2>4. QED
    BY <2>2, <2>3 DEF Routed
<1>2. CASE ClientTakes(side, c)
  <2> DEFINE s == Tail(local_send[side][c])
  <2>1. local_send[side][c] # << >>
    BY <1>2 DEF ClientTakes
  <2>2. s \in Seq(Message) /\ s \in Seq(Own(c))
    BY <2>1 DEF Routed
  <2>3. /\ local_send' = [local_send EXCEPT ![side][c] = s]
        /\ UNCHANGED <<local_recv, remote_send, remote_recv, held>>
    BY <1>2 DEF ClientTakes
  <2> HIDE DEF s
  <2>4. QED
    BY <2>2, <2>3 DEF Routed
<1>3. QED
  BY <1>1, <1>2

------------------------------------------------------------------------------
(* What every step does to the path of a channel d. *)

(* The stages of a path, before and after a step. *)
Staged(s, d) ==
    /\ Path(s, d)[1] = local_recv[s][d]
    /\ Path(s, d)[2] = remote_send[s][Route(d)]
    /\ Path(s, d)[3] = remote_recv[Other(s)][Route(d)]
    /\ Path(s, d)[4] = IF held[Handler(Other(s), Route(d))] = None THEN << >>
                       ELSE <<held[Handler(Other(s), Route(d))]>>
    /\ Path(s, d)[5] = local_send[Other(s)][d]

(* They are what the queues of the two handlers hold. *)
LEMMA PathStages ==
    ASSUME NEW CONSTANT s, NEW CONSTANT d
    PROVE  Staged(s, d) /\ Staged(s, d)'
<1>1. Staged(s, d)
  BY LineStages DEF Path, Staged
<1>2. Staged(s, d)'
  BY LineStages DEF Path, Staged
<1>3. QED
  BY <1>1, <1>2

(* A step that leaves the stages and the clients alone keeps the order. *)
LEMMA PathSame ==
    ASSUME NEW s \in Sides, NEW d \in Channels, InOrderNow(s, d), Path(s, d)' = Path(s, d),
           UNCHANGED clients
    PROVE  InOrderNow(s, d)'
BY DEF InOrderNow, clients

(* output_loop moves a message on, or adds one of another channel to the   *)
(* queue that channels share.                                              *)
LEMMA OutputLoopInOrder ==
    ASSUME Routed, Clients, Routed', NEW side \in Sides, NEW c \in Channels, OutputLoop(side, c),
           NEW s \in Sides, NEW d \in Channels, InOrderNow(s, d)
    PROVE  InOrderNow(s, d)'
<1> DEFINE Q == Path(s, d)
           P == Path(s, d)'
           m == Head(local_recv[side][c])
<1>0. Staged(s, d) /\ Staged(s, d)'
  BY PathStages
<1>1. Q \in Paths /\ P \in Paths
  BY PathType, PathTypeNext
<1>2. /\ local_recv' = [local_recv EXCEPT ![side][c] = Tail(local_recv[side][c])]
      /\ remote_send' = [remote_send EXCEPT ![side][Route(c)] = Append(remote_send[side][Route(c)], m)]
      /\ UNCHANGED <<remote_recv, local_send, held, clients>>
      /\ local_recv[side][c] # << >>
  BY DEF OutputLoop
<1>3. m \in Message /\ m.channel = c
  <2>1. local_recv[side][c] \in Seq(Own(c))
    BY DEF Routed
  <2>2. m \in Own(c)
    BY <1>2, <2>1
  <2>3. QED
    BY <2>2 DEF Own
<1>4. Len(taken[Other(s)][d]) \in Nat /\ given[s][d] \in Nat
  BY Topology DEF Clients
<1>5. /\ local_recv'[s][d] = IF s = side /\ d = c THEN Tail(local_recv[s][d]) ELSE local_recv[s][d]
      /\ remote_send'[s][Route(d)] = IF s = side /\ Route(d) = Route(c)
                                     THEN Append(remote_send[s][Route(d)], m)
                                     ELSE remote_send[s][Route(d)]
  BY <1>2, Topology DEF Routed
<1>6. CASE s = side /\ d = c
  <2>1. Moves(Q, P, 1)
    <3>1. Q[1] = local_recv[side][c] /\ P[1] = Tail(Q[1]) /\ P[2] = Append(Q[2], m)
      BY <1>0, <1>5, <1>6 DEF Staged
    <3>2. P[3] = Q[3] /\ P[4] = Q[4] /\ P[5] = Q[5]
      BY <1>0, <1>2 DEF Staged
    <3> HIDE DEF Q, P
    <3>3. QED
      BY <1>2, <3>1, <3>2 DEF Moves, Stages
  <2>2. QED
    BY <1>1, <1>2, <1>4, <2>1, MovesInOrder DEF InOrderNow, clients
<1>7. CASE s = side /\ d # c /\ Route(d) = Route(c)
  <2>1. Enters(Q, P, 2, m)
    <3>1. P[1] = Q[1] /\ P[2] = Append(Q[2], m)
      BY <1>0, <1>5, <1>7 DEF Staged
    <3>2. P[3] = Q[3] /\ P[4] = Q[4] /\ P[5] = Q[5]
      BY <1>0, <1>2 DEF Staged
    <3> HIDE DEF Q, P
    <3>3. QED
      BY <3>1, <3>2 DEF Enters, Stages
  <2>2. 2 \in Stages
    BY DEF Stages
  <2>3. QED
    BY <1>1, <1>2, <1>3, <1>4, <1>7, <2>1, <2>2, EntersInOrder DEF InOrderNow, clients
<1>8. CASE ~(s = side /\ Route(d) = Route(c))
  <2>1. P = Q
    BY <1>2, <1>5, <1>8 DEF Path
  <2>2. QED
    BY <1>2, <2>1, PathSame
<1>9. QED
  BY <1>6, <1>7, <1>8

(* A remote socket moves messages of all channels of its route on. *)
LEMMA RemoteSocketInOrder ==
    ASSUME Routed, Clients, Routed', NEW side \in Sides, NEW r \in Routes, RemoteSocket(side, r),
           NEW s \in Sides, NEW d \in Channels, InOrderNow(s, d)
    PROVE  InOrderNow(s, d)'
<1> DEFINE Q == Path(s, d)
           P == Path(s, d)'
           m == Head(remote_send[side][r])
<1>0. Staged(s, d) /\ Staged(s, d)'
  BY PathStages
<1>1. Q \in Paths /\ P \in Paths
  BY PathType, PathTypeNext
<1>2. /\ remote_recv' = [remote_recv EXCEPT ![Other(side)][r] = Append(remote_recv[Other(side)][r], m)]
      /\ remote_send' = [remote_send EXCEPT ![side][r] = Tail(remote_send[side][r])]
      /\ UNCHANGED <<local_recv, local_send, held, clients>>
      /\ remote_send[side][r] # << >>
  BY DEF RemoteSocket
<1>3. Other(s) = Other(side) <=> s = side
  BY DEF Sides, Other
<1>4. Len(taken[Other(s)][d]) \in Nat /\ given[s][d] \in Nat
  BY Topology DEF Clients
<1>5. /\ remote_send'[s][Route(d)] = IF s = side /\ Route(d) = r THEN Tail(remote_send[s][Route(d)])
                                     ELSE remote_send[s][Route(d)]
      /\ remote_recv'[Other(s)][Route(d)] = IF s = side /\ Route(d) = r
                                            THEN Append(remote_recv[Other(s)][Route(d)], m)
                                            ELSE remote_recv[Other(s)][Route(d)]
  <2>1. Other(s) \in Sides /\ Other(side) \in Sides /\ Route(d) \in Routes
    BY Topology
  <2>2. remote_send'[s][Route(d)] = IF s = side /\ Route(d) = r THEN Tail(remote_send[s][Route(d)])
                                    ELSE remote_send[s][Route(d)]
    BY Zenon, <1>2, <2>1 DEF Routed
  <2>3. remote_recv'[Other(s)][Route(d)] = IF Other(s) = Other(side) /\ Route(d) = r
                                           THEN Append(remote_recv[Other(s)][Route(d)], m)
                                           ELSE remote_recv[Other(s)][Route(d)]
    <3> DEFINE a == Other(s)
               b == Other(side)
               q == Route(d)
    <3>1. /\ a \in Sides /\ b \in Sides /\ q \in Routes
          /\ remote_recv' = [remote_recv EXCEPT ![b][r] = Append(remote_recv[b][r], m)]
          /\ remote_recv \in [Sides -> [Routes -> Seq(Message)]]
      BY <1>2, <2>1 DEF Routed
    <3> HIDE DEF a, b, q, m
    <3>2. remote_recv'[a][q] = IF a = b /\ q = r THEN Append(remote_recv[a][q], m)
                               ELSE remote_recv[a][q]
      BY <3>1
    <3>3. QED
      BY <3>2 DEF a, b, q
  <2>4. QED
    BY <1>3, <2>2, <2>3
<1>6. CASE s = side /\ Route(d) = r
  <2>1. Moves(Q, P, 2)
    <3>1. Q[2] = remote_send[side][r] /\ P[2] = Tail(Q[2]) /\ P[3] = Append(Q[3], m)
      BY <1>0, <1>5, <1>6 DEF Staged
    <3>2. P[1] = Q[1] /\ P[4] = Q[4] /\ P[5] = Q[5]
      BY <1>0, <1>2 DEF Staged
    <3> HIDE DEF Q, P
    <3>3. QED
      BY <1>2, <3>1, <3>2 DEF Moves, Stages
  <2>2. QED
    BY <1>1, <1>2, <1>4, <2>1, MovesInOrder DEF InOrderNow, clients
<1>7. CASE ~(s = side /\ Route(d) = r)
  <2>1. P = Q
    BY <1>2, <1>5, <1>7 DEF Path
  <2>2. QED
    BY <1>2, <2>1, PathSame
<1>8. QED
  BY <1>6, <1>7

(* input_loop takes hold of a message, of any channel of its handler. *)
LEMMA InputLoopInOrder ==
    ASSUME Routed, Clients, Routed', NEW side \in Sides, NEW r \in Routes, InputLoop(side, r),
           NEW s \in Sides, NEW d \in Channels, InOrderNow(s, d)
    PROVE  InOrderNow(s, d)'
<1> DEFINE Q == Path(s, d)
           P == Path(s, d)'
           h == Handler(side, r)
           g == Handler(Other(s), Route(d))
           m == Head(remote_recv[side][r])
<1>0. Staged(s, d) /\ Staged(s, d)'
  BY PathStages
<1>1. Q \in Paths /\ P \in Paths
  BY PathType, PathTypeNext
<1>2. /\ remote_recv' = [remote_recv EXCEPT ![side][r] = Tail(remote_recv[side][r])]
      /\ held' = [held EXCEPT ![h] = m]
      /\ UNCHANGED <<local_recv, remote_send, local_send, clients>>
      /\ remote_recv[side][r] # << >>
      /\ held[h] = None
  BY DEF InputLoop
<1>3. m \in Message /\ m # None /\ Route(m.channel) = r
  <2>1. remote_recv[side][r] \in Seq(Along(r))
    BY DEF Routed
  <2>2. m \in Along(r)
    BY <1>2, <2>1
  <2>3. QED
    BY <2>2, NoneAssumption DEF Along
<1>4. Len(taken[Other(s)][d]) \in Nat /\ given[s][d] \in Nat
  BY Topology DEF Clients
<1>5. /\ remote_recv'[Other(s)][Route(d)] = IF Other(s) = side /\ Route(d) = r
                                            THEN Tail(remote_recv[Other(s)][Route(d)])
                                            ELSE remote_recv[Other(s)][Route(d)]
      /\ held'[g] = IF g = h THEN m ELSE held[g]
  BY Zenon, <1>2, Topology DEF Routed
<1>6. g = h => Other(s) = side
  BY DEF Handler
<1>7. CASE Other(s) = side /\ Route(d) = r
  <2>1. Moves(Q, P, 3)
    <3>1. Q[4] = << >> /\ P[4] = <<m>>
      BY <1>0, <1>2, <1>3, <1>5, <1>7 DEF Staged
    <3>2. Q[3] = remote_recv[side][r] /\ P[3] = Tail(Q[3])
      BY <1>0, <1>5, <1>7 DEF Staged
    <3>3. P[1] = Q[1] /\ P[2] = Q[2] /\ P[5] = Q[5]
      BY <1>0, <1>2 DEF Staged
    <3>4. Append(<< >>, m) = <<m>>
      OBVIOUS
    <3>5. m = Head(Q[3]) /\ Q[3] # << >>
      BY <1>2, <3>2
    <3> HIDE DEF Q, P, m
    <3>6. P[4] = Append(Q[4], Head(Q[3]))
      BY <3>1, <3>4, <3>5
    <3>7. QED
      BY <3>2, <3>3, <3>5, <3>6 DEF Moves, Stages
  <2>2. QED
    BY <1>1, <1>2, <1>4, <2>1, MovesInOrder DEF InOrderNow, clients
<1>8. CASE g = h /\ Route(d) # r
  <2>1. Enters(Q, P, 4, m)
    <3>1. Q[4] = << >> /\ P[4] = <<m>>
      BY <1>0, <1>2, <1>3, <1>5, <1>8 DEF Staged
    <3>2. P[1] = Q[1] /\ P[2] = Q[2] /\ P[3] = Q[3] /\ P[5] = Q[5]
      BY <1>0, <1>2, <1>5, <1>8 DEF Staged
    <3>3. Append(<< >>, m) = <<m>>
      OBVIOUS
    <3> HIDE DEF Q, P, m
    <3>4. QED
      BY <3>1, <3>2, <3>3 DEF Enters, Stages
  <2>2. 4 \in Stages /\ m.channel # d
    BY <1>3, <1>8 DEF Stages
  <2>3. QED
    BY <1>1, <1>2, <1>3, <1>4, <2>1, <2>2, EntersInOrder DEF InOrderNow, clients
<1>9. CASE g # h
  <2>1. ~(Other(s) = side /\ Route(d) = r)
    BY <1>9
  <2>2. P = Q
    BY <1>2, <1>5, <1>9, <2>1 DEF Path
  <2>3. QED
    BY <1>2, <2>2, PathSame
<1>10. QED
  BY <1>6, <1>7, <1>8, <1>9

(* The send of input_loop hands the message it was blocked on to the       *)
(* channel of its client.                                                  *)
LEMMA InputLoopSendInOrder ==
    ASSUME Routed, Clients, Routed', NEW h \in Handlers, InputLoopSend(h),
           NEW s \in Sides, NEW d \in Channels, InOrderNow(s, d)
    PROVE  InOrderNow(s, d)'
<1> DEFINE Q == Path(s, d)
           P == Path(s, d)'
           g == Handler(Other(s), Route(d))
           m == held[h]
           c == m.channel
<1>0. Staged(s, d) /\ Staged(s, d)'
  BY PathStages
<1>1. Q \in Paths /\ P \in Paths
  BY PathType, PathTypeNext
<1>2. /\ local_send' = [local_send EXCEPT ![h[1]][c] = Append(local_send[h[1]][c], m)]
      /\ held' = [held EXCEPT ![h] = None]
      /\ UNCHANGED <<local_recv, remote_send, remote_recv, clients>>
      /\ m # None
  BY DEF InputLoopSend
<1>3. m \in Message /\ c \in Channels /\ h[1] \in Sides /\ Handler(h[1], Route(c)) = h
  <2>1. m \in Message /\ Handler(h[1], Route(c)) = h
    BY <1>2 DEF Routed
  <2>2. PICK a \in Sides, r \in Routes : h = Handler(a, r)
    BY DEF Handlers
  <2>3. h[1] = a
    BY <2>2 DEF Handler
  <2>4. QED
    BY <2>1, <2>3 DEF Message
<1>4. Len(taken[Other(s)][d]) \in Nat /\ given[s][d] \in Nat
  BY Topology DEF Clients
<1>5. /\ local_send'[Other(s)][d] = IF Other(s) = h[1] /\ d = c
                                    THEN Append(local_send[Other(s)][d], m)
                                    ELSE local_send[Other(s)][d]
      /\ held'[g] = IF g = h THEN None ELSE held[g]
  <2>1. Other(s) \in Sides /\ g \in Handlers
    BY Topology
  <2>2. QED
    BY <1>2, <1>3, <2>1 DEF Routed
<1>6. g = h => Other(s) = h[1]
  BY DEF Handler
<1>7. CASE Other(s) = h[1] /\ d = c
  <2>0. g = h
    BY <1>3, <1>7
  <2>1. Moves(Q, P, 4)
    <3>1. Q[4] = <<m>> /\ P[4] = << >>
      BY <1>0, <1>2, <1>5, <2>0 DEF Staged
    <3>2. P[5] = Append(Q[5], m)
      BY Zenon, <1>0, <1>5, <1>7 DEF Staged
    <3>3. P[1] = Q[1] /\ P[2] = Q[2] /\ P[3] = Q[3]
      BY <1>0, <1>2 DEF Staged
    <3> HIDE DEF Q, P, m
    <3>4. QED
      BY <3>1, <3>2, <3>3 DEF Moves, Stages
  <2>2. QED
    BY <1>1, <1>2, <1>4, <2>1, MovesInOrder DEF InOrderNow, clients
<1>8. CASE g = h /\ d # c
  <2>1. Q[4] = <<m>> /\ P[4] = << >>
    BY <1>0, <1>2, <1>5, <1>8 DEF Staged
  <2>2. P[1] = Q[1] /\ P[2] = Q[2] /\ P[3] = Q[3] /\ P[5] = Q[5]
    BY <1>0, <1>2, <1>5, <1>8 DEF Staged
  <2>3. 4 \in Stages /\ c # d
    BY <1>8 DEF Stages
  <2> HIDE DEF Q, P, m
  <2>4. Leaves(Q, P, 4) /\ Q[4][1] = m
    BY <2>1, <2>2 DEF Leaves, Stages
  <2>5. InOrder(Q, d, Len(taken[Other(s)][d]), given[s][d])
    BY DEF InOrderNow, Q
  <2>6. InOrder(P, d, Len(taken[Other(s)][d]), given[s][d])
    BY <1>1, <1>4, <2>3, <2>4, <2>5, LeavesInOrder
  <2>7. QED
    BY <1>2, <2>6 DEF InOrderNow, clients, P
<1>9. CASE g # h
  <2>1. ~(Other(s) = h[1] /\ d = c)
    BY <1>3, <1>9
  <2>2. P = Q
    BY <1>2, <1>5, <1>9, <2>1 DEF Path
  <2>3. QED
    BY <1>2, <2>2, PathSame
<1>10. QED
  BY <1>6, <1>7, <1>8, <1>9

(* What a client hands over is behind everything else of its channel. *)
LEMMA GivesInOrder ==
    ASSUME Routed, Clients, Routed', NEW side \in Sides, NEW c \in Channels, ClientGives(side, c),
           NEW s \in Sides, NEW d \in Channels, InOrderNow(s, d)
    PROVE  InOrderNow(s, d)'
<1> DEFINE Q == Path(s, d)
           P == Path(s, d)'
           m == [channel |-> c, n |-> given[side][c]]
<1>0. Staged(s, d) /\ Staged(s, d)'
  BY PathStages
<1>1. Q \in Paths /\ P \in Paths
  BY PathType, PathTypeNext
<1>2. /\ local_recv' = [local_recv EXCEPT ![side][c] = Append(local_recv[side][c], m)]
      /\ given' = [given EXCEPT ![side][c] = given[side][c] + 1]
      /\ UNCHANGED <<remote_send, remote_recv, local_send, held, taken>>
  BY DEF ClientGives
<1>3. m \in Message
  BY DEF Message, Clients
<1>4. Len(taken[Other(s)][d]) \in Nat /\ given[s][d] \in Nat /\ Len(taken[Other(s)][d]) <= given[s][d]
  BY Topology DEF Clients
<1>5. /\ local_recv'[s][d] = IF s = side /\ d = c THEN Append(local_recv[s][d], m) ELSE local_recv[s][d]
      /\ given'[s][d] = IF s = side /\ d = c THEN given[s][d] + 1 ELSE given[s][d]
  <2> HIDE DEF m
  <2>1. local_recv'[s][d] = IF s = side /\ d = c THEN Append(local_recv[s][d], m) ELSE local_recv[s][d]
    BY <1>2 DEF Routed
  <2>2. given'[s][d] = IF s = side /\ d = c THEN given[s][d] + 1 ELSE given[s][d]
    BY <1>2 DEF Clients
  <2>3. QED
    BY <2>1, <2>2
<1>6. CASE s = side /\ d = c
  <2>1. Enters(Q, P, 1, m)
    <3>1. P[1] = Append(Q[1], m)
      BY Zenon, <1>0, <1>5, <1>6 DEF Staged
    <3>2. P[2] = Q[2] /\ P[3] = Q[3] /\ P[4] = Q[4] /\ P[5] = Q[5]
      BY <1>0, <1>2 DEF Staged
    <3> HIDE DEF Q, P
    <3>3. QED
      BY <3>1, <3>2 DEF Enters, Stages
  <2>2. m.channel = d /\ m.n = given[s][d]
    BY <1>6
  <2>3. InOrder(Q, d, Len(taken[Other(s)][d]), given[s][d])
    BY DEF InOrderNow
  <2> HIDE DEF Q, P, m
  <2>4. InOrder(P, d, Len(taken[Other(s)][d]), given[s][d] + 1)
    BY <1>1, <1>3, <1>4, <2>1, <2>2, <2>3, GivenInOrder
  <2>5. given'[s][d] = given[s][d] + 1 /\ taken' = taken
    BY <1>2, <1>5, <1>6
  <2>6. QED
    BY <2>4, <2>5 DEF InOrderNow, P
<1>7. CASE ~(s = side /\ d = c)
  <2>1. P = Q
    BY <1>2, <1>5, <1>7 DEF Path
  <2>2. given'[s][d] = given[s][d] /\ taken' = taken
    BY <1>2, <1>5, <1>7
  <2>3. QED
    BY <2>1, <2>2 DEF InOrderNow
<1>8. QED
  BY <1>6, <1>7

(* What a client takes is the number after the last one it took. *)
LEMMA TakesNext ==
    ASSUME Routed, Clients, Routed', NEW side \in Sides, NEW c \in Channels, ClientTakes(side, c),
           InOrderNow(Other(side), c)
    PROVE  /\ Head(local_send[side][c]).n = Len(taken[side][c])
           /\ Len(taken[side][c]) < given[Other(side)][c]
           /\ InOrder(Path(Other(side), c)', c, Len(taken[side][c]) + 1, given[Other(side)][c])
<1> DEFINE s == Other(side)
           Q == Path(s, c)
           P == Path(s, c)'
<1>0. Staged(s, c) /\ Staged(s, c)'
  BY PathStages
<1>1. s \in Sides /\ Other(s) = side
  BY Topology
<1>2. Q \in Paths /\ P \in Paths
  BY <1>1, PathType, PathTypeNext
<1>3. /\ local_send' = [local_send EXCEPT ![side][c] = Tail(local_send[side][c])]
      /\ UNCHANGED <<local_recv, remote_send, remote_recv, held>>
      /\ local_send[side][c] # << >>
  BY DEF ClientTakes
<1>4. Len(taken[side][c]) \in Nat /\ given[s][c] \in Nat
  BY <1>1 DEF Clients
<1>5. Q[5] = local_send[side][c] /\ P[5] = local_send'[side][c]
  BY Zenon, <1>0, <1>1 DEF Staged
<1>6. Leaves(Q, P, 5)
  <2>1. P[1] = Q[1] /\ P[2] = Q[2] /\ P[3] = Q[3] /\ P[4] = Q[4]
    BY <1>0, <1>3 DEF Staged
  <2>2. local_send'[side][c] = Tail(local_send[side][c])
    BY <1>3 DEF Routed
  <2> HIDE DEF Q, P, s
  <2>3. QED
    BY <1>3, <1>5, <2>1, <2>2 DEF Leaves, Stages
<1>7. Q[5][1] = Head(local_send[side][c]) /\ Q[5][1] \in Own(c)
  <2>1. local_send[side][c] \in Seq(Own(c))
    BY DEF Routed
  <2>2. local_send[side][c][1] \in Own(c) /\ local_send[side][c][1] = Head(local_send[side][c])
    BY <1>3, <2>1
  <2> HIDE DEF Q
  <2>3. QED
    BY <1>5, <2>2
<1>8. InOrder(Q, c, Len(taken[side][c]), given[s][c])
  BY <1>1 DEF InOrderNow
<1> DEFINE lo == Len(taken[side][c])
           hi == given[s][c]
<1>9. Q[5][1].n = lo /\ lo < hi /\ InOrder(P, c, lo + 1, hi)
  <2>1. lo \in Nat /\ hi \in Nat /\ InOrder(Q, c, lo, hi) /\ Q[5][1] \in Own(c)
    BY <1>4, <1>7, <1>8
  <2> HIDE DEF Q, P, lo, hi
  <2>2. QED
    BY <1>2, <1>6, <2>1, TakenInOrder
<1>10. QED
  BY <1>7, <1>9

(* The other paths are as before. *)
LEMMA TakesInOrder ==
    ASSUME Routed, Clients, Routed', NEW side \in Sides, NEW c \in Channels, ClientTakes(side, c),
           NEW s \in Sides, NEW d \in Channels, InOrderNow(s, d)
    PROVE  InOrderNow(s, d)'
<1>1. /\ local_send' = [local_send EXCEPT ![side][c] = Tail(local_send[side][c])]
      /\ taken' = [taken EXCEPT ![side][c] = Append(taken[side][c], Head(local_send[side][c]).n)]
      /\ UNCHANGED <<local_recv, remote_send, remote_recv, held, given>>
  BY DEF ClientTakes
<1>2. Other(s) \in Sides /\ (Other(s) = side <=> s = Other(side))
  BY DEF Sides, Other
<1>3. CASE Other(s) = side /\ d = c
  <2>1. s = Other(side)
    BY <1>2, <1>3
  <2>2. InOrderNow(Other(side), c)
    BY <1>3, <2>1
  <2>3. InOrder(Path(Other(side), c)', c, Len(taken[side][c]) + 1, given[Other(side)][c])
    BY <2>2, TakesNext
  <2>4. Len(taken'[side][c]) = Len(taken[side][c]) + 1
    <3>1. taken[side][c] \in Seq(Nat) /\ taken'[side][c] = Append(taken[side][c], Head(local_send[side][c]).n)
      BY <1>1 DEF Clients
    <3>2. QED
      BY <3>1
  <2>5. InOrder(Path(s, d)', d, Len(taken'[Other(s)][d]), given'[s][d])
    BY <1>1, <1>3, <2>1, <2>3, <2>4
  <2>6. QED
    BY <2>5 DEF InOrderNow
<1>4. CASE ~(Other(s) = side /\ d = c)
  <2>1. local_send'[Other(s)][d] = local_send[Other(s)][d]
    <3> DEFINE a == Other(s)
    <3>1. a \in Sides /\ ~(a = side /\ d = c)
      BY <1>2, <1>4
    <3> HIDE DEF a
    <3>2. local_send'[a][d] = local_send[a][d]
      BY <1>1, <3>1 DEF Routed
    <3>3. QED
      BY <3>2 DEF a
  <2>2. taken'[Other(s)][d] = taken[Other(s)][d]
    <3> DEFINE a == Other(s)
    <3>1. a \in Sides /\ ~(a = side /\ d = c)
      BY <1>2, <1>4
    <3> HIDE DEF a
    <3>2. taken'[a][d] = taken[a][d]
      BY <1>1, <3>1 DEF Clients
    <3>3. QED
      BY <3>2 DEF a
  <2>3. Path(s, d)' = Path(s, d)
    BY <1>1, <2>1 DEF Path
  <2>4. QED
    BY Zenon, <1>1, <2>2, <2>3 DEF InOrderNow
<1>5. QED
  BY <1>3, <1>4

------------------------------------------------------------------------------
(* The clients stay within the window. *)
LEMMA GivesClients ==
    ASSUME Clients, NEW side \in Sides, NEW c \in Channels, ClientGives(side, c)
    PROVE  Clients'
<1>1. /\ given' = [given EXCEPT ![side][c] = given[side][c] + 1]
      /\ taken' = taken
      /\ MayGive(side, c)
  BY DEF ClientGives
<1>2. given' \in [Sides -> [Channels -> Nat]]
  BY <1>1 DEF Clients
<1>3. ASSUME NEW s \in Sides, NEW d \in Channels
      PROVE  given[s][d] <= given'[s][d]
  <2>1. given'[s][d] = IF s = side /\ d = c THEN given[s][d] + 1 ELSE given[s][d]
    BY <1>1 DEF Clients
  <2>2. given[s][d] \in Nat
    BY DEF Clients
  <2>3. QED
    BY <2>1, <2>2
<1>4. ASSUME NEW s \in Sides, NEW d \in Channels
      PROVE  Numbered(taken[s][d]) /\ Len(taken[Other(s)][d]) <= given'[s][d]
  <2>1. Len(taken[Other(s)][d]) \in Nat
    BY Topology DEF Clients
  <2>2. given[s][d] \in Nat /\ given'[s][d] \in Nat
    BY <1>2 DEF Clients
  <2>3. Numbered(taken[s][d]) /\ Len(taken[Other(s)][d]) <= given[s][d]
    BY DEF Clients
  <2>4. QED
    BY <1>3, <2>1, <2>2, <2>3
<1>5. ASSUME NEW d \in Channels
      PROVE  /\ given'["sender"][d] <= Len(taken["sender"][d]) + MaxBuffers
             /\ given'["receiver"][d] <= Len(taken["receiver"][d])
  <2>0. "sender" \in Sides /\ "receiver" \in Sides
    BY DEF Sides
  <2>1. /\ given["sender"][d] \in Nat /\ given["receiver"][d] \in Nat
        /\ Len(taken["sender"][d]) \in Nat /\ Len(taken["receiver"][d]) \in Nat
        /\ MaxBuffers \in Nat
    <3>1. /\ given["sender"][d] \in Nat /\ given["receiver"][d] \in Nat
          /\ taken["sender"][d] \in Seq(Nat) /\ taken["receiver"][d] \in Seq(Nat)
      BY <2>0 DEF Clients
    <3>2. QED
      BY <3>1, SizesAssumption
  <2>2. /\ given["sender"][d] <= Len(taken["sender"][d]) + MaxBuffers
        /\ given["receiver"][d] <= Len(taken["receiver"][d])
    BY DEF Clients
  <2>3. given'["sender"][d] = IF side = "sender" /\ d = c THEN given["sender"][d] + 1
                              ELSE given["sender"][d]
    BY <1>1, <2>0 DEF Clients
  <2>4. given'["receiver"][d] = IF side = "receiver" /\ d = c THEN given["receiver"][d] + 1
                                ELSE given["receiver"][d]
    BY <1>1, <2>0 DEF Clients
  <2>5. CASE side = "sender" /\ d = c
    <3>1. given["sender"][d] - Len(taken["sender"][d]) < MaxBuffers
      BY <1>1, <2>5 DEF MayGive
    <3>2. QED
      BY <2>1, <2>2, <2>3, <2>4, <2>5, <3>1
  <2>6. CASE side = "receiver" /\ d = c
    <3>1. given["receiver"][d] < Len(taken["receiver"][d])
      BY <1>1, <2>6 DEF MayGive
    <3>2. QED
      BY <2>1, <2>2, <2>3, <2>4, <2>6, <3>1
  <2>7. CASE d # c
    BY <2>2, <2>3, <2>4, <2>7
  <2>8. QED
    BY <2>5, <2>6, <2>7 DEF Sides
<1>6. QED
  BY <1>1, <1>2, <1>4, <1>5 DEF Clients

(* Taking keeps what was taken numbered from 0, and never overtakes what   *)
(* was given.                                                              *)
LEMMA TakesClients ==
    ASSUME Routed, Clients, Routed', NEW side \in Sides, NEW c \in Channels, ClientTakes(side, c),
           InOrderNow(Other(side), c)
    PROVE  Clients'
<1> DEFINE n == Len(taken[side][c])
<1>1. /\ taken' = [taken EXCEPT ![side][c] = Append(taken[side][c], n)]
      /\ given' = given
      /\ n < given[Other(side)][c]
  BY Zenon, TakesNext DEF ClientTakes
<1>2. taken[side][c] \in Seq(Nat) /\ n \in Nat
  BY DEF Clients
<1>3. Append(taken[side][c], n) \in Seq(Nat)
  BY <1>2
<1>4. taken' \in [Sides -> [Channels -> Seq(Nat)]]
  BY <1>1, <1>3 DEF Clients
<1>5. ASSUME NEW s \in Sides, NEW d \in Channels
      PROVE  taken'[s][d] = IF s = side /\ d = c THEN Append(taken[side][c], n) ELSE taken[s][d]
  BY <1>1 DEF Clients
<1>6. Len(Append(taken[side][c], n)) = n + 1
  BY <1>2
<1>7. Numbered(Append(taken[side][c], n))
  <2>1. Numbered(taken[side][c])
    BY DEF Clients
  <2>2. ASSUME NEW i \in 1 .. n + 1
        PROVE  Append(taken[side][c], n)[i] = i - 1
    <3>1. CASE i = n + 1
      BY <1>2, <3>1
    <3>2. CASE i # n + 1
      <4>1. i \in 1 .. Len(taken[side][c])
        BY <1>2, <3>2
      <4>2. Append(taken[side][c], n)[i] = taken[side][c][i]
        BY <1>2, <4>1
      <4>3. QED
        BY <2>1, <4>1, <4>2 DEF Numbered
    <3>3. QED
      BY <3>1, <3>2
  <2>3. QED
    BY <1>6, <2>2 DEF Numbered
<1>8. ASSUME NEW s \in Sides, NEW d \in Channels
      PROVE  Numbered(taken'[s][d]) /\ Len(taken'[Other(s)][d]) <= given[s][d]
  <2>1. Numbered(taken[s][d]) /\ Len(taken[Other(s)][d]) <= given[s][d]
    BY DEF Clients
  <2>2. Numbered(taken'[s][d])
    BY <1>5, <1>7, <2>1
  <2>3. CASE Other(s) = side /\ d = c
    <3>1. s = Other(side) /\ given[s][d] \in Nat
      BY <2>3, Topology DEF Clients
    <3>2. Len(taken'[Other(s)][d]) = n + 1
      BY Zenon, <1>5, <1>6, <2>3
    <3>3. n < given[s][d]
      BY <1>1, <2>3, <3>1
    <3>4. QED
      BY <1>2, <2>2, <3>1, <3>2, <3>3
  <2>4. CASE ~(Other(s) = side /\ d = c)
    <3>1. taken'[Other(s)][d] = taken[Other(s)][d]
      BY <1>5, <2>4, Topology
    <3>2. QED
      BY <2>1, <2>2, <3>1
  <2>5. QED
    BY <2>3, <2>4
<1>9. ASSUME NEW d \in Channels
      PROVE  /\ given["sender"][d] <= Len(taken'["sender"][d]) + MaxBuffers
             /\ given["receiver"][d] <= Len(taken'["receiver"][d])
  <2>0. "sender" \in Sides /\ "receiver" \in Sides
    BY DEF Sides
  <2>1. ASSUME NEW s \in Sides
        PROVE  /\ Len(taken[s][d]) \in Nat /\ Len(taken'[s][d]) \in Nat /\ given[s][d] \in Nat
               /\ Len(taken[s][d]) <= Len(taken'[s][d])
    <3>1. taken[s][d] \in Seq(Nat) /\ given[s][d] \in Nat
      BY DEF Clients
    <3>2. CASE s = side /\ d = c
      <4>1. Len(taken'[s][d]) = n + 1 /\ Len(taken[s][d]) = n
        BY Zenon, <1>5, <1>6, <3>2
      <4>2. QED
        BY <1>2, <3>1, <4>1
    <3>3. CASE ~(s = side /\ d = c)
      <4>1. taken'[s][d] = taken[s][d]
        BY <1>5, <3>3
      <4>2. QED
        BY <3>1, <4>1
    <3>4. QED
      BY <3>2, <3>3
  <2>2. /\ given["sender"][d] <= Len(taken["sender"][d]) + MaxBuffers
        /\ given["receiver"][d] <= Len(taken["receiver"][d])
    BY DEF Clients
  <2>3. MaxBuffers \in Nat
    BY SizesAssumption
  <2>4. /\ Len(taken["sender"][d]) \in Nat /\ Len(taken'["sender"][d]) \in Nat
        /\ given["sender"][d] \in Nat /\ Len(taken["sender"][d]) <= Len(taken'["sender"][d])
    BY <2>0, <2>1
  <2>5. /\ Len(taken["receiver"][d]) \in Nat /\ Len(taken'["receiver"][d]) \in Nat
        /\ given["receiver"][d] \in Nat /\ Len(taken["receiver"][d]) <= Len(taken'["receiver"][d])
    BY <2>0, <2>1
  <2>6. given["sender"][d] <= Len(taken'["sender"][d]) + MaxBuffers
    BY <2>2, <2>3, <2>4
  <2>7. given["receiver"][d] <= Len(taken'["receiver"][d])
    BY <2>2, <2>5
  <2>8. QED
    BY <2>6, <2>7
<1>10. QED
  BY <1>1, <1>4, <1>8, <1>9 DEF Clients

(* No message anywhere at first. *)
LEMMA InitPathInv == Init => PathInv
<1> SUFFICES ASSUME Init
             PROVE  PathInv
  OBVIOUS
<1>1. /\ local_recv = [side \in Sides |-> [c \in Channels |-> << >>]]
      /\ local_send = [side \in Sides |-> [c \in Channels |-> << >>]]
      /\ remote_send = [side \in Sides |-> [r \in Routes |-> << >>]]
      /\ remote_recv = [side \in Sides |-> [r \in Routes |-> << >>]]
      /\ held = [h \in Handlers |-> None]
      /\ given = [side \in Sides |-> [c \in Channels |-> 0]]
      /\ taken = [side \in Sides |-> [c \in Channels |-> << >>]]
  BY DEF Init, PerChannel, PerRoute
<1>2. Routed
  BY <1>1 DEF Routed
<1>3. Clients
  <2>1. given \in [Sides -> [Channels -> Nat]] /\ taken \in [Sides -> [Channels -> Seq(Nat)]]
    BY <1>1
  <2>2. ASSUME NEW s \in Sides, NEW c \in Channels
        PROVE  given[s][c] = 0 /\ taken[s][c] = << >> /\ Len(taken[s][c]) = 0
    BY <1>1
  <2>3. ASSUME NEW s \in Sides, NEW c \in Channels
        PROVE  Numbered(taken[s][c]) /\ Len(taken[Other(s)][c]) <= given[s][c]
    BY <2>2, Topology DEF Numbered
  <2>4. ASSUME NEW c \in Channels
        PROVE  /\ given["sender"][c] <= Len(taken["sender"][c]) + MaxBuffers
               /\ given["receiver"][c] <= Len(taken["receiver"][c])
    BY <2>2, SizesAssumption DEF Sides
  <2>5. QED
    BY <2>1, <2>3, <2>4 DEF Clients
<1>4. ASSUME NEW s \in Sides, NEW c \in Channels
      PROVE  InOrder(Path(s, c), c, Len(taken[Other(s)][c]), given[s][c])
  <2>1. Len(taken[Other(s)][c]) = 0 /\ given[s][c] = 0
    BY <1>1, Topology
  <2>2. ASSUME NEW k \in Stages
        PROVE  Path(s, c)[k] = << >>
    <3>1. Staged(s, c)
      BY PathStages
    <3>2. /\ Other(s) \in Sides /\ Route(c) \in Routes
          /\ Handler(Other(s), Route(c)) \in Handlers
      BY Topology
    <3>3. /\ local_recv[s][c] = << >> /\ local_send[Other(s)][c] = << >>
          /\ remote_send[s][Route(c)] = << >> /\ remote_recv[Other(s)][Route(c)] = << >>
          /\ held[Handler(Other(s), Route(c))] = None
      BY <1>1, <3>2
    <3>4. QED
      BY <3>1, <3>3 DEF Staged, Stages
  <2> DEFINE Q == Path(s, c)
  <2>3. \A k \in Stages : Q[k] = << >> /\ Len(Q[k]) = 0
    BY <2>2
  <2> HIDE DEF Q
  <2>4. InOrder(Q, c, 0, 0)
    BY <2>3 DEF InOrder
  <2>5. QED
    BY <2>1, <2>4 DEF Q
<1>5. QED
  BY <1>2, <1>3, <1>4 DEF PathInv, InOrderNow

(* Every step keeps the invariant. *)
LEMMA NextPathInv == PathInv /\ [Next]_vars => PathInv'
<1> SUFFICES ASSUME PathInv, [Next]_vars
             PROVE  PathInv'
  OBVIOUS
<1>0. Routed /\ Clients /\ \A s \in Sides, d \in Channels : InOrderNow(s, d)
  BY DEF PathInv
<1>1. ASSUME UNCHANGED <<queues, clients>>
      PROVE  PathInv'
  BY <1>1 DEF PathInv, Routed, Clients, InOrderNow, Path, queues, clients
<1>2. ASSUME UNCHANGED clients
      PROVE  Clients'
  BY <1>0, <1>2 DEF Clients, clients
<1>3. ASSUME NEW side \in Sides, NEW c \in Channels, OutputLoop(side, c)
      PROVE  PathInv'
  <2>1. Routed'
    BY <1>0, <1>3, OutputLoopRouted
  <2>2. Clients'
    BY <1>2, <1>3 DEF OutputLoop
  <2>3. \A s \in Sides, d \in Channels : InOrderNow(s, d)'
    BY <1>0, <1>3, <2>1, OutputLoopInOrder
  <2>4. QED
    BY <2>1, <2>2, <2>3 DEF PathInv
<1>4. ASSUME NEW side \in Sides, NEW r \in Routes, RemoteSocket(side, r)
      PROVE  PathInv'
  <2>1. Routed'
    BY <1>0, <1>4, RemoteSocketRouted
  <2>2. Clients'
    BY <1>2, <1>4 DEF RemoteSocket
  <2>3. \A s \in Sides, d \in Channels : InOrderNow(s, d)'
    BY <1>0, <1>4, <2>1, RemoteSocketInOrder
  <2>4. QED
    BY <2>1, <2>2, <2>3 DEF PathInv
<1>5. ASSUME NEW side \in Sides, NEW r \in Routes, InputLoop(side, r)
      PROVE  PathInv'
  <2>1. Routed'
    BY <1>0, <1>5, InputLoopRouted
  <2>2. Clients'
    BY <1>2, <1>5 DEF InputLoop
  <2>3. \A s \in Sides, d \in Channels : InOrderNow(s, d)'
    BY <1>0, <1>5, <2>1, InputLoopInOrder
  <2>4. QED
    BY <2>1, <2>2, <2>3 DEF PathInv
<1>6. ASSUME NEW h \in Handlers, InputLoopSend(h)
      PROVE  PathInv'
  <2>1. Routed'
    BY <1>0, <1>6, InputLoopSendRouted
  <2>2. Clients'
    BY <1>2, <1>6 DEF InputLoopSend
  <2>3. \A s \in Sides, d \in Channels : InOrderNow(s, d)'
    BY <1>0, <1>6, <2>1, InputLoopSendInOrder
  <2>4. QED
    BY <2>1, <2>2, <2>3 DEF PathInv
<1>7. ASSUME NEW side \in Sides, NEW c \in Channels, ClientGives(side, c)
      PROVE  PathInv'
  <2>1. Routed'
    BY <1>0, <1>7, ClientsRouted
  <2>2. Clients'
    BY <1>0, <1>7, GivesClients
  <2>3. \A s \in Sides, d \in Channels : InOrderNow(s, d)'
    BY <1>0, <1>7, <2>1, GivesInOrder
  <2>4. QED
    BY <2>1, <2>2, <2>3 DEF PathInv
<1>8. ASSUME NEW side \in Sides, NEW c \in Channels, ClientTakes(side, c)
      PROVE  PathInv'
  <2>1. Routed'
    BY <1>0, <1>8, ClientsRouted
  <2>2. InOrderNow(Other(side), c)
    BY <1>0, Topology
  <2>3. Clients'
    BY <1>0, <1>8, <2>1, <2>2, TakesClients
  <2>4. \A s \in Sides, d \in Channels : InOrderNow(s, d)'
    BY <1>0, <1>8, <2>1, TakesInOrder
  <2>5. QED
    BY <2>1, <2>3, <2>4 DEF PathInv
<1>9. ASSUME NEW h \in Handlers,
             Start(h) \/ Close(h) \/ Joined(h) \/ \E t \in {"in", "out"} : ThreadExit(h, t)
      PROVE  PathInv'
  BY <1>1, <1>9 DEF Start, Close, Joined, ThreadExit
<1>10. CASE UNCHANGED vars
  BY <1>1, <1>10 DEF vars
<1>11. QED
  BY <1>3, <1>4, <1>5, <1>6, <1>7, <1>8, <1>9, <1>10 DEF Next

(* However many channels share sockets, queues and threads, every message  *)
(* stays on the path of its channel, in order, none lost and none twice.   *)
THEOREM PathInvariant == Spec => []PathInv
<1>1. QED
  BY InitPathInv, NextPathInv, PTL DEF Spec

------------------------------------------------------------------------------
(* Refinement. *)

(* The numbers of n messages, and of one more. *)
LEMMA NumbersFacts ==
    ASSUME NEW n \in Nat
    PROVE  /\ Numbers(n) \in Seq(Nat) /\ Len(Numbers(n)) = n
           /\ Numbers(n + 1) = Append(Numbers(n), n)
           /\ Numbers(n + 1)[n + 1] = n
           /\ \A i \in 1 .. n : Numbers(n)[i] = i - 1
BY DEF Numbers

(* What a step is for the clients at the two ends of the link from one     *)
(* side: nothing, a message given within the window, or the next one taken. *)
Gives(s, c) ==
    /\ given[s][c] - Len(taken[Other(s)][c]) < MaxBuffers
    /\ given'[s] = [given[s] EXCEPT ![c] = given[s][c] + 1]
    /\ taken'[Other(s)] = taken[Other(s)]
Gets(s, c) ==
    /\ Len(taken[Other(s)][c]) < given[s][c]
    /\ taken'[Other(s)] = [taken[Other(s)] EXCEPT
                             ![c] = Append(taken[Other(s)][c], Len(taken[Other(s)][c]))]
    /\ given'[s] = given[s]
LinkStep(s) ==
    \/ \E c \in Channels : Gives(s, c) \/ Gets(s, c)
    \/ given'[s] = given[s] /\ taken'[Other(s)] = taken[Other(s)]

(* Every step is one of these, for both sides. *)
LEMMA NextLinkStep ==
    ASSUME PathInv, PathInv', [Next]_vars, NEW s \in Sides
    PROVE  LinkStep(s)
<1>0. Routed /\ Clients /\ Routed' /\ Other(s) \in Sides
  BY DEF PathInv, Sides, Other
<1>1. ASSUME UNCHANGED clients
      PROVE  LinkStep(s)
  BY <1>1 DEF LinkStep, clients
<1>2. ASSUME NEW side \in Sides, NEW c \in Channels, ClientGives(side, c)
      PROVE  LinkStep(s)
  <2>1. /\ given' = [given EXCEPT ![side][c] = given[side][c] + 1]
        /\ taken' = taken
        /\ MayGive(side, c)
    BY <1>2 DEF ClientGives
  <2>2. CASE s = side
    <3>1. given'[s] = [given[s] EXCEPT ![c] = given[s][c] + 1]
      BY <1>0, <2>1, <2>2 DEF Clients
    <3>2. given[s][c] - Len(taken[Other(s)][c]) < MaxBuffers
      <4>1. /\ given["sender"][c] \in Nat /\ given["receiver"][c] \in Nat
            /\ Len(taken["sender"][c]) \in Nat /\ Len(taken["receiver"][c]) \in Nat
            /\ MaxBuffers \in Nat
        BY <1>0, SizesAssumption DEF Clients, Sides
      <4>2. /\ given["sender"][c] <= Len(taken["sender"][c]) + MaxBuffers
            /\ given["receiver"][c] <= Len(taken["receiver"][c])
            /\ Len(taken["receiver"][c]) <= given["sender"][c]
            /\ Len(taken["sender"][c]) <= given["receiver"][c]
        BY <1>0 DEF Clients, Sides, Other
      <4>3. CASE s = "sender"
        <5>1. given["sender"][c] - Len(taken["sender"][c]) < MaxBuffers /\ Other(s) = "receiver"
          BY <2>1, <2>2, <4>3 DEF MayGive, Other
        <5>2. given["sender"][c] - Len(taken["receiver"][c]) < MaxBuffers
          <6> DEFINE gs == given["sender"][c]
                     ts == Len(taken["sender"][c])
                     tr == Len(taken["receiver"][c])
          <6>1. gs \in Nat /\ ts \in Nat /\ tr \in Nat /\ MaxBuffers \in Nat
            BY <4>1
          <6>2. ts <= tr
            BY <4>1, <4>2
          <6>3. gs - ts < MaxBuffers
            BY <5>1
          <6> HIDE DEF gs, ts, tr
          <6>4. gs - tr < MaxBuffers
            BY <6>1, <6>2, <6>3
          <6>5. QED
            BY <6>4 DEF gs, tr
        <5>3. QED
          BY <4>3, <5>1, <5>2
      <4>4. CASE s = "receiver"
        <5>1. given["receiver"][c] < Len(taken["receiver"][c]) /\ Other(s) = "sender"
          BY <2>1, <2>2, <4>4 DEF MayGive, Other
        <5>2. given["receiver"][c] - Len(taken["sender"][c]) < MaxBuffers
          <6> DEFINE gr == given["receiver"][c]
                     gs == given["sender"][c]
                     ts == Len(taken["sender"][c])
                     tr == Len(taken["receiver"][c])
          <6>1. gr \in Nat /\ gs \in Nat /\ ts \in Nat /\ tr \in Nat /\ MaxBuffers \in Nat
            BY <4>1
          <6>2. tr <= gs /\ gs <= ts + MaxBuffers /\ gr < tr
            BY <4>2, <5>1
          <6> HIDE DEF gr, gs, ts, tr
          <6>3. gr - ts < MaxBuffers
            BY <6>1, <6>2
          <6>4. QED
            BY <6>3 DEF gr, ts
        <5>3. QED
          BY <4>4, <5>1, <5>2
      <4>5. QED
        BY <4>3, <4>4 DEF Sides
    <3>3. Gives(s, c)
      BY <2>1, <3>1, <3>2 DEF Gives
    <3>4. QED
      BY <3>3 DEF LinkStep
  <2>3. CASE s # side
    <3>1. given'[s] = given[s]
      BY <1>0, <2>1, <2>3 DEF Clients
    <3>2. QED
      BY <2>1, <3>1 DEF LinkStep
  <2>4. QED
    BY <2>2, <2>3
<1>3. ASSUME NEW side \in Sides, NEW c \in Channels, ClientTakes(side, c)
      PROVE  LinkStep(s)
  <2>0. InOrderNow(Other(side), c)
    BY Topology DEF PathInv
  <2>1. /\ taken' = [taken EXCEPT ![side][c] = Append(taken[side][c], Len(taken[side][c]))]
        /\ given' = given
        /\ Len(taken[side][c]) < given[Other(side)][c]
    BY Zenon, <1>0, <1>3, <2>0, TakesNext DEF ClientTakes
  <2>2. CASE Other(s) = side
    <3>1. s = Other(side)
      BY <2>2 DEF Sides, Other
    <3>2. taken'[side] = [taken[side] EXCEPT ![c] = Append(taken[side][c], Len(taken[side][c]))]
      BY <1>0, <2>1 DEF Clients
    <3>3. Gets(s, c)
      BY <2>1, <2>2, <3>1, <3>2 DEF Gets
    <3>4. QED
      BY <3>3 DEF LinkStep
  <2>3. CASE Other(s) # side
    <3>1. taken'[Other(s)] = taken[Other(s)]
      BY <1>0, <2>1, <2>3 DEF Clients
    <3>2. QED
      BY <2>1, <3>1 DEF LinkStep
  <2>4. QED
    BY <2>2, <2>3
<1>4. ASSUME NEW side \in Sides, NEW c \in Channels, OutputLoop(side, c)
      PROVE  LinkStep(s)
  BY <1>1, <1>4 DEF OutputLoop
<1>5. ASSUME NEW side \in Sides, NEW r \in Routes, InputLoop(side, r) \/ RemoteSocket(side, r)
      PROVE  LinkStep(s)
  BY <1>1, <1>5 DEF InputLoop, RemoteSocket
<1>6. ASSUME NEW h \in Handlers,
             \/ Start(h) \/ Close(h) \/ Joined(h) \/ InputLoopSend(h)
             \/ \E t \in {"in", "out"} : ThreadExit(h, t)
      PROVE  LinkStep(s)
  BY <1>1, <1>6 DEF Start, Close, Joined, ThreadExit, InputLoopSend
<1>7. CASE UNCHANGED vars
  BY <1>1, <1>7 DEF vars
<1>8. QED
  BY <1>2, <1>3, <1>4, <1>5, <1>6, <1>7 DEF Next

(* The same in terms of sequences of numbers. *)
LEMMA LinkIsFifo ==
    ASSUME Clients, Clients', NEW s \in Sides, LinkStep(s)
    PROVE  LET sent == [c \in Channels |-> Numbers(given[s][c])]
               next == [c \in Channels |-> Numbers(given'[s][c])]
               received == taken[Other(s)]
           IN  \/ next = sent /\ taken'[Other(s)] = received
               \/ \E c \in Channels :
                    /\ Len(sent[c]) - Len(received[c]) < MaxBuffers
                    /\ next = [sent EXCEPT ![c] = Append(sent[c], Len(sent[c]))]
                    /\ taken'[Other(s)] = received
               \/ \E c \in Channels :
                    /\ Len(received[c]) < Len(sent[c])
                    /\ taken'[Other(s)] = [received EXCEPT
                                             ![c] = Append(received[c], sent[c][Len(received[c]) + 1])]
                    /\ next = sent
<1> DEFINE sent == [c \in Channels |-> Numbers(given[s][c])]
           next == [c \in Channels |-> Numbers(given'[s][c])]
           received == taken[Other(s)]
<1>1. given[s] \in [Channels -> Nat]
  BY DEF Clients
<1>2. CASE given'[s] = given[s] /\ taken'[Other(s)] = taken[Other(s)]
  BY <1>2
<1>3. ASSUME NEW c \in Channels, Gives(s, c)
      PROVE  /\ Len(sent[c]) - Len(received[c]) < MaxBuffers
             /\ next = [sent EXCEPT ![c] = Append(sent[c], Len(sent[c]))]
             /\ taken'[Other(s)] = received
  <2>1. Len(sent[c]) = given[s][c]
    BY <1>1, NumbersFacts
  <2>2. given'[s] = [given[s] EXCEPT ![c] = given[s][c] + 1]
    BY <1>3 DEF Gives
  <2>3. ASSUME NEW d \in Channels
        PROVE  next[d] = IF d = c THEN Append(sent[c], given[s][c]) ELSE sent[d]
    <3>1. given'[s][d] = IF d = c THEN given[s][c] + 1 ELSE given[s][d]
      BY <1>1, <2>2
    <3>2. Numbers(given[s][c] + 1) = Append(Numbers(given[s][c]), given[s][c])
      BY Zenon, <1>1, NumbersFacts
    <3>3. QED
      BY Zenon, <3>1, <3>2
  <2>4. next = [sent EXCEPT ![c] = Append(sent[c], given[s][c])]
    BY Zenon, <2>3
  <2>5. QED
    BY Zenon, <1>3, <2>1, <2>4 DEF Gives
<1>4. ASSUME NEW c \in Channels, Gets(s, c)
      PROVE  /\ Len(received[c]) < Len(sent[c])
             /\ taken'[Other(s)] = [received EXCEPT
                                      ![c] = Append(received[c], sent[c][Len(received[c]) + 1])]
             /\ next = sent
  <2> DEFINE n == Len(taken[Other(s)][c])
  <2>1. n \in Nat /\ n < given[s][c] /\ given[s][c] \in Nat
    BY <1>1, <1>4, Topology DEF Gets, Clients
  <2>2. Len(sent[c]) = given[s][c] /\ \A i \in 1 .. given[s][c] : sent[c][i] = i - 1
    BY Zenon, <1>1, NumbersFacts
  <2>3. n + 1 \in 1 .. given[s][c]
    BY <2>1
  <2>4. sent[c][n + 1] = n
    BY <2>1, <2>2, <2>3
  <2>5. QED
    BY Zenon, <1>4, <2>1, <2>2, <2>4 DEF Gets
<1>5. QED
  BY Zenon, <1>2, <1>3, <1>4 DEF LinkStep

(* The paths of a channel, with all that its handlers share with other     *)
(* channels, are the bounded FIFO link that its writer and reader would    *)
(* have on one node, in both directions.                                   *)
THEOREM PathsAreFifo == Spec => PathIsFifo
<1>1. Init => Data!Init /\ Acks!Init
  <2> SUFFICES ASSUME Init
               PROVE  Data!Init /\ Acks!Init
    OBVIOUS
  <2>1. /\ given = [side \in Sides |-> [c \in Channels |-> 0]]
        /\ taken = [side \in Sides |-> [c \in Channels |-> << >>]]
    BY DEF Init, PerChannel
  <2>2. Numbers(0) = << >>
    BY DEF Numbers
  <2>3. QED
    BY <2>1, <2>2 DEF Data!Init, Acks!Init, Sides
<1>2. PathInv /\ PathInv' /\ [Next]_vars => [Data!Next]_(Data!fifoVars)
  <2> SUFFICES ASSUME PathInv, PathInv', [Next]_vars
               PROVE  [Data!Next]_(Data!fifoVars)
    OBVIOUS
  <2>1. "sender" \in Sides /\ Other("sender") = "receiver"
    BY DEF Sides, Other
  <2>2. LinkStep("sender") /\ Clients /\ Clients'
    BY <2>1, NextLinkStep DEF PathInv
  <2>3. QED
    BY Zenon, <2>1, <2>2, LinkIsFifo DEF Data!Next, Data!fifoVars, Data!Put, Data!Get
<1>3. PathInv /\ PathInv' /\ [Next]_vars => [Acks!Next]_(Acks!fifoVars)
  <2> SUFFICES ASSUME PathInv, PathInv', [Next]_vars
               PROVE  [Acks!Next]_(Acks!fifoVars)
    OBVIOUS
  <2>1. "receiver" \in Sides /\ Other("receiver") = "sender"
    BY DEF Sides, Other
  <2>2. LinkStep("receiver") /\ Clients /\ Clients'
    BY <2>1, NextLinkStep DEF PathInv
  <2>3. QED
    BY Zenon, <2>1, <2>2, LinkIsFifo DEF Acks!Next, Acks!fifoVars, Acks!Put, Acks!Get
<1>4. QED
  BY <1>1, <1>2, <1>3, PathInvariant, PTL DEF Spec, PathIsFifo, Data!Spec, Acks!Spec

------------------------------------------------------------------------------
(* Conservation. *)

INSTANCE FiniteSetTheorems

(* Where the messages of channel c are in a queue, and their numbers. *)
Places(c, chan) == {i \in DOMAIN chan : chan[i].channel = c}
Found(c, chan) == {chan[i].n : i \in Places(c, chan)}

(* In a queue in which no two messages of a channel have the same number,  *)
(* there are as many numbers of the channel as messages.                   *)
LEMMA CountFound ==
    ASSUME NEW c, NEW s \in Seq(Message),
           \A i, j \in 1 .. Len(s) :
             s[i].channel = c /\ s[j].channel = c /\ i < j => s[i].n < s[j].n
    PROVE  IsFiniteSet(Found(c, s)) /\ Cardinality(Found(c, s)) = Of(c, s)
<1> DEFINE f == [i \in Places(c, s) |-> s[i].n]
<1>1. /\ Len(s) \in Nat /\ Places(c, s) \subseteq 1 .. Len(s)
      /\ \A i \in Places(c, s) : i \in Nat /\ s[i].channel = c
      /\ \A i \in Places(c, s) : s[i].n \in Nat
  <2>1. Len(s) \in Nat /\ DOMAIN s = 1 .. Len(s) /\ \A i \in 1 .. Len(s) : s[i] \in Message
    OBVIOUS
  <2>2. \A m \in Message : m.n \in Nat
    BY DEF Message
  <2>3. Places(c, s) \subseteq 1 .. Len(s) /\ \A i \in Places(c, s) : s[i].channel = c
    BY <2>1 DEF Places
  <2>4. QED
    BY <2>1, <2>2, <2>3
<1>2. IsFiniteSet(Places(c, s))
  <2>1. IsFiniteSet(1 .. Len(s))
    BY <1>1, FS_Interval
  <2>2. QED
    BY <1>1, <2>1, FS_Subset
<1>3. ASSUME NEW i \in Places(c, s), NEW j \in Places(c, s), s[i].n = s[j].n
      PROVE  i = j
  <2>1. i \in 1 .. Len(s) /\ j \in 1 .. Len(s) /\ s[i].channel = c /\ s[j].channel = c
    BY <1>1
  <2>2. ~ (i < j) /\ ~ (j < i)
    <3>1. i < j => s[i].n < s[j].n
      BY <2>1
    <3>2. j < i => s[j].n < s[i].n
      BY <2>1
    <3>3. s[i].n \in Nat /\ s[j].n \in Nat
      BY <1>1
    <3>4. QED
      BY <1>3, <3>1, <3>2, <3>3
  <2>3. QED
    BY <1>1, <2>1, <2>2
<1>4. f \in Bijection(Places(c, s), Found(c, s))
  <2>1. f \in [Places(c, s) -> Found(c, s)]
    BY DEF Found
  <2>2. \A i, j \in Places(c, s) : f[i] = f[j] => i = j
    BY <1>3
  <2>3. \A n \in Found(c, s) : \E i \in Places(c, s) : f[i] = n
    BY DEF Found
  <2>4. QED
    BY <2>1, <2>2, <2>3 DEF Bijection, Injection, Surjection, IsInjective
<1>5. Of(c, s) = Cardinality(Places(c, s))
  BY DEF Of, Places
<1>6. ExistsBijection(Places(c, s), Found(c, s))
  BY <1>4 DEF ExistsBijection
<1>7. QED
  BY <1>2, <1>5, <1>6, FS_Bijection

(* Sets with nothing in common. *)
LEMMA DisjointCount ==
    ASSUME NEW A, NEW B, IsFiniteSet(A), IsFiniteSet(B), A \cap B = {}
    PROVE  IsFiniteSet(A \cup B) /\ Cardinality(A \cup B) = Cardinality(A) + Cardinality(B)
<1>1. /\ IsFiniteSet(A \cup B)
      /\ Cardinality(A \cup B) = Cardinality(A) + Cardinality(B) - Cardinality(A \cap B)
  BY FS_Union
<1>2. Cardinality(A \cap B) = 0
  BY FS_EmptySet
<1>3. Cardinality(A) \in Nat /\ Cardinality(B) \in Nat
  BY FS_CardinalityType
<1>4. QED
  BY <1>1, <1>2, <1>3

(* A path in order has one message of the channel for each number. *)
LEMMA OrderCounts ==
    ASSUME NEW c, NEW Q \in Paths, NEW lo \in Nat, NEW hi \in Nat, lo <= hi, InOrder(Q, c, lo, hi)
    PROVE  /\ \A k \in Stages : Of(c, Q[k]) \in Nat
           /\ Of(c, Q[1]) + Of(c, Q[2]) + Of(c, Q[3]) + Of(c, Q[4]) + Of(c, Q[5]) = hi - lo
<1> DEFINE F(k) == Found(c, Q[k])
<1>0. ASSUME NEW k \in Stages, NEW i \in 1 .. Len(Q[k])
      PROVE  Q[k][i].n \in Nat
  <2>1. Q[k] \in Seq(Message)
    BY DEF Paths
  <2>2. Q[k][i] \in Message
    BY <2>1
  <2>3. QED
    BY <2>2 DEF Message
<1>1. ASSUME NEW k \in Stages
      PROVE  IsFiniteSet(F(k)) /\ Cardinality(F(k)) = Of(c, Q[k]) /\ Of(c, Q[k]) \in Nat
  <2>1. Q[k] \in Seq(Message)
    BY DEF Paths
  <2>2. \A i, j \in 1 .. Len(Q[k]) :
          Q[k][i].channel = c /\ Q[k][j].channel = c /\ i < j => Q[k][i].n < Q[k][j].n
    BY DEF InOrder, Ahead
  <2>3. IsFiniteSet(F(k)) /\ Cardinality(F(k)) = Of(c, Q[k])
    BY <2>1, <2>2, CountFound
  <2>4. QED
    BY <2>3, FS_CardinalityType
<1>2. \A k \in Stages : \A n : n \in F(k) <=>
        \E i \in 1 .. Len(Q[k]) : Q[k][i].channel = c /\ Q[k][i].n = n
  BY DEF Found, Places, Paths
<1>3. ASSUME NEW k \in Stages, NEW l \in Stages, k < l
      PROVE  F(k) \cap F(l) = {}
  <2> SUFFICES ASSUME NEW n \in F(k), n \in F(l)
               PROVE  FALSE
    OBVIOUS
  <2>1. PICK i \in 1 .. Len(Q[k]) : Q[k][i].channel = c /\ Q[k][i].n = n
    BY Zenon, <1>2
  <2>2. PICK j \in 1 .. Len(Q[l]) : Q[l][j].channel = c /\ Q[l][j].n = n
    BY Zenon, <1>2
  <2>3. Ahead(l, j, k, i)
    BY <1>3 DEF Ahead, Stages
  <2>4. n < n
    BY <2>1, <2>2, <2>3 DEF InOrder
  <2>5. n \in Nat
    BY <1>0, <2>1
  <2>6. QED
    BY <2>4, <2>5
<1>4. F(1) \cup F(2) \cup F(3) \cup F(4) \cup F(5) = lo .. hi - 1
  <2>1. ASSUME NEW k \in Stages, NEW n \in F(k)
        PROVE  n \in lo .. hi - 1
    <3>1. PICK i \in 1 .. Len(Q[k]) : Q[k][i].channel = c /\ Q[k][i].n = n
      BY <1>2
    <3>2. lo <= n /\ n < hi
      BY <3>1 DEF InOrder
    <3>3. n \in Nat
      BY <1>0, <3>1
    <3>4. QED
      BY <3>2, <3>3
  <2>2. ASSUME NEW n \in lo .. hi - 1
        PROVE  \E k \in Stages : n \in F(k)
    BY Zenon, <1>2 DEF InOrder
  <2> HIDE DEF F
  <2>3. QED
    BY <2>1, <2>2 DEF Stages
<1> HIDE DEF F
<1>5. 1 \in Stages /\ 2 \in Stages /\ 3 \in Stages /\ 4 \in Stages /\ 5 \in Stages
  BY DEF Stages
<1>6. /\ IsFiniteSet(F(1)) /\ Cardinality(F(1)) = Of(c, Q[1]) /\ Of(c, Q[1]) \in Nat
      /\ IsFiniteSet(F(2)) /\ Cardinality(F(2)) = Of(c, Q[2]) /\ Of(c, Q[2]) \in Nat
      /\ IsFiniteSet(F(3)) /\ Cardinality(F(3)) = Of(c, Q[3]) /\ Of(c, Q[3]) \in Nat
      /\ IsFiniteSet(F(4)) /\ Cardinality(F(4)) = Of(c, Q[4]) /\ Of(c, Q[4]) \in Nat
      /\ IsFiniteSet(F(5)) /\ Cardinality(F(5)) = Of(c, Q[5]) /\ Of(c, Q[5]) \in Nat
  BY Zenon, <1>1, <1>5
<1>7. /\ F(1) \cap F(2) = {} /\ (F(1) \cup F(2)) \cap F(3) = {}
      /\ (F(1) \cup F(2) \cup F(3)) \cap F(4) = {}
      /\ (F(1) \cup F(2) \cup F(3) \cup F(4)) \cap F(5) = {}
  BY <1>3 DEF Stages
<1> DEFINE F2 == F(1) \cup F(2)
           F3 == F2 \cup F(3)
           F4 == F3 \cup F(4)
<1>8. IsFiniteSet(F2) /\ Cardinality(F2) = Cardinality(F(1)) + Cardinality(F(2))
  BY ONLY Zenon, <1>6, <1>7, DisjointCount
<1>9. IsFiniteSet(F3) /\ Cardinality(F3) = Cardinality(F2) + Cardinality(F(3))
  <2> HIDE DEF F2
  <2>1. F2 \cap F(3) = {}
    BY <1>7 DEF F2
  <2>2. QED
    BY ONLY Zenon, <1>6, <1>8, <2>1, DisjointCount
<1>10. IsFiniteSet(F4) /\ Cardinality(F4) = Cardinality(F3) + Cardinality(F(4))
  <2> HIDE DEF F3
  <2>1. F3 \cap F(4) = {}
    BY <1>7 DEF F3
  <2>2. QED
    BY ONLY Zenon, <1>6, <1>9, <2>1, DisjointCount
<1>11. Cardinality(F4 \cup F(5)) = Cardinality(F4) + Cardinality(F(5))
  <2> HIDE DEF F4
  <2>1. F4 \cap F(5) = {}
    BY <1>7 DEF F4
  <2>2. QED
    BY ONLY Zenon, <1>6, <1>10, <2>1, DisjointCount
<1>12. F4 \cup F(5) = lo .. hi - 1
  BY <1>4
<1> HIDE DEF F2, F3, F4
<1>13. Cardinality(lo .. hi - 1) = hi - lo
  <2>1. Cardinality(lo .. hi - 1) = IF lo > hi - 1 THEN 0 ELSE hi - 1 - lo + 1
    BY FS_Interval
  <2>2. QED
    BY <2>1
<1>14. Of(c, Q[1]) + Of(c, Q[2]) + Of(c, Q[3]) + Of(c, Q[4]) + Of(c, Q[5]) = hi - lo
  BY ONLY Zenon, <1>6, <1>8, <1>9, <1>10, <1>11, <1>12, <1>13
<1>15. QED
  BY <1>1, <1>14

(* In a queue of one channel every message counts. *)
LEMMA OwnCount ==
    ASSUME NEW c, NEW s \in Seq(Own(c))
    PROVE  Of(c, s) = Len(s)
<1>1. {i \in DOMAIN s : s[i].channel = c} = 1 .. Len(s)
  BY DEF Own
<1>2. Len(s) \in Nat
  OBVIOUS
<1>3. Cardinality(1 .. Len(s)) = Len(s)
  <2>1. Cardinality(1 .. Len(s)) = IF 1 > Len(s) THEN 0 ELSE Len(s) - 1 + 1
    BY <1>2, FS_Interval
  <2>2. QED
    BY <1>2, <2>1
<1>4. QED
  BY Zenon, <1>1, <1>3 DEF Of

(* The message an input loop is blocked on counts for its channel. *)
LEMMA HeldCount ==
    ASSUME NEW c, NEW m \in Message \cup {None}
    PROVE  Of(c, IF m = None THEN << >> ELSE <<m>>) = IF m # None /\ m.channel = c THEN 1 ELSE 0
<1>1. CASE m = None
  <2>1. {i \in DOMAIN << >> : << >>[i].channel = c} = {}
    OBVIOUS
  <2>2. QED
    BY <1>1, <2>1, FS_EmptySet DEF Of
<1>2. CASE m # None /\ m.channel = c
  <2>1. {i \in DOMAIN <<m>> : <<m>>[i].channel = c} = {1}
    BY <1>2
  <2>2. QED
    BY <1>2, <2>1, FS_Singleton DEF Of
<1>3. CASE m # None /\ m.channel # c
  <2>1. {i \in DOMAIN <<m>> : <<m>>[i].channel = c} = {}
    BY <1>3
  <2>2. QED
    BY <1>3, <2>1, FS_EmptySet DEF Of
<1>4. QED
  BY <1>1, <1>2, <1>3

(* The invariant accounts for every message. *)
LEMMA PathsConserve == PathInv => Conserved
<1> SUFFICES ASSUME PathInv, NEW s \in Sides, NEW c \in Channels
             PROVE  given[s][c] = Len(taken[Other(s)][c]) + UnderWay(s, c)
  BY DEF Conserved
<1> DEFINE Q == Path(s, c)
           lo == Len(taken[Other(s)][c])
           hi == given[s][c]
           m == held[Handler(Other(s), Route(c))]
<1>1. /\ Other(s) \in Sides /\ Handler(Other(s), Route(c)) \in Handlers
      /\ Other(Other(s)) = s
  BY Topology
<1>2. /\ local_recv[s][c] \in Seq(Own(c)) /\ local_send[Other(s)][c] \in Seq(Own(c))
      /\ m \in Message \cup {None}
  BY <1>1 DEF PathInv, Routed
<1>3. lo \in Nat /\ hi \in Nat /\ lo <= hi
  BY <1>1 DEF PathInv, Clients
<1>4. Q \in Paths
  BY PathType DEF PathInv
<1>5. InOrder(Q, c, lo, hi)
  BY DEF PathInv, InOrderNow
<1>6. Staged(s, c)
  BY PathStages
<1>7. /\ Of(c, Q[1]) = Len(local_recv[s][c]) /\ Of(c, Q[5]) = Len(local_send[Other(s)][c])
      /\ Of(c, Q[2]) = Of(c, remote_send[s][Route(c)])
      /\ Of(c, Q[3]) = Of(c, remote_recv[Other(s)][Route(c)])
  BY <1>2, <1>6, OwnCount DEF Staged
<1>8. Of(c, Q[4]) = IF m # None /\ m.channel = c THEN 1 ELSE 0
  BY <1>2, <1>6, HeldCount DEF Staged
<1>9. /\ \A k \in Stages : Of(c, Q[k]) \in Nat
      /\ Of(c, Q[1]) + Of(c, Q[2]) + Of(c, Q[3]) + Of(c, Q[4]) + Of(c, Q[5]) = hi - lo
  <2> HIDE DEF Q, lo, hi
  <2>1. QED
    BY <1>3, <1>4, <1>5, OrderCounts
<1>10. UnderWay(s, c) = Of(c, Q[1]) + Of(c, Q[2]) + Of(c, Q[3]) + Of(c, Q[5]) + Of(c, Q[4])
  BY <1>7, <1>8 DEF UnderWay
<1>11. /\ Of(c, Q[1]) \in Nat /\ Of(c, Q[2]) \in Nat /\ Of(c, Q[3]) \in Nat
       /\ Of(c, Q[4]) \in Nat /\ Of(c, Q[5]) \in Nat
  BY <1>9 DEF Stages
<1> HIDE DEF Q, lo, hi
<1>12. hi = lo + UnderWay(s, c)
  BY <1>3, <1>9, <1>10, <1>11
<1>13. QED
  BY <1>12 DEF lo, hi

(* No message is dropped or copied by the transfer handlers, whatever the  *)
(* channels that share them and also when a handler is closed.             *)
THEOREM MessagesConserved == Spec => []Conserved
<1>1. QED
  BY PathInvariant, PathsConserve, PTL

==============================================================================
