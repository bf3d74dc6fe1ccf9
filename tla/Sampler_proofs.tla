--------------------------- MODULE Sampler_proofs ---------------------------
(***************************************************************************)
(* What modules PerfStream and Sampler claim of the rings shared with the  *)
(* kernel, proved for any number of CPUs, every size of the ring and of    *)
(* the records, and any number of events.                                  *)
(*                                                                         *)
(* The invariant knows of each record in the log of a CPU the position     *)
(* where it begins.  The words of the ring from data_tail on are those of  *)
(* the records that begin there, and the stream stands where the first     *)
(* record begins that it has not delivered.                                *)
(***************************************************************************)
EXTENDS Sampler, SequenceTheorems, FiniteSetTheorems, WellFoundedInduction, TLAPS

(* The records lg begin at the positions at, the next one would at hd.      *)
Chain(lg, hd, at) ==
  /\ at \in [1 .. Len(lg) + 1 -> Nat]
  /\ at[1] = 0 /\ at[Len(lg) + 1] = hd
  /\ \A i \in 1 .. Len(lg) : at[i + 1] = at[i] + lg[i].size
  /\ \A i, j \in 1 .. Len(lg) + 1 : i < j => at[i] + lg[i].size <= at[j]

(* Those from position from on are in the ring rg.                          *)
Holds(rg, lg, at, from) ==
  \A i \in 1 .. Len(lg) : from <= at[i] =>
    \A k \in 1 .. lg[i].size : rg[(at[i] + k - 1) % Size] = <<i, k>>

-----------------------------------------------------------------------------
(* Places in a ring.                                                        *)

LEMMA SizeType == Size \in Nat /\ 0 < Size
BY PerfAssumption DEF PerfAssumption

LEMMA PlaceType ==
  ASSUME NEW a \in Nat
  PROVE  a % Size \in 0 .. Size - 1
BY SizeType

(* Positions less than a turn apart have places of their own.               *)
LEMMA PlaceInjective ==
  ASSUME NEW a \in Nat, NEW b \in Nat, a < b, b < a + Size
  PROVE  a % Size # b % Size
<1> DEFINE p == a \div Size
           q == b \div Size
           r == a % Size
           s == b % Size
<1>1. p \in Nat /\ q \in Nat /\ r \in Nat /\ s \in Nat
  BY SizeType
<1>2. a = Size * p + r
  BY SizeType
<1>3. b = Size * q + s
  BY SizeType
<1> SUFFICES ASSUME r = s PROVE FALSE
  OBVIOUS
<1> HIDE DEF p, q, r, s
<1>4. b - a = Size * q - Size * p
  BY <1>1, <1>2, <1>3, SizeType
<1>5. CASE q <= p
  <2>1. Size * q <= Size * p
    BY <1>1, <1>5, SizeType
  <2> QED
    BY <1>1, <1>4, <2>1, SizeType
<1>6. CASE q >= p + 1
  <2>1. Size * q >= Size * (p + 1)
    BY <1>1, <1>6, SizeType
  <2>2. Size * (p + 1) = Size * p + Size
    BY <1>1, SizeType
  <2> QED
    BY <1>1, <1>4, <2>1, <2>2, SizeType
<1> QED
  BY <1>1, <1>5, <1>6

(* A record that is laid out is found word by word.                         *)
LEMMA LayNew ==
  ASSUME NEW rg \in Words, NEW at \in Nat, NEW i \in Nat, NEW n \in 1 .. Size,
         NEW k \in 1 .. n
  PROVE  Lay(rg, at, i, n)[(at + k - 1) % Size] = <<i, k>>
<1> DEFINE p == (at + k - 1) % Size
<1>1. p \in 0 .. Size - 1 /\ k \in Nat /\ n \in Nat
  <2>1. at + k - 1 \in Nat
    OBVIOUS
  <2> QED
    BY <2>1, PlaceType, SizeType
<1>2. ASSUME NEW l \in 1 .. n, (at + l - 1) % Size = p PROVE l = k
  <2>1. /\ at + l - 1 \in Nat /\ at + k - 1 \in Nat
        /\ l < k => at + l - 1 < at + k - 1 /\ at + k - 1 < (at + l - 1) + Size
        /\ k < l => at + k - 1 < at + l - 1 /\ at + l - 1 < (at + k - 1) + Size
    BY SizeType
  <2>2. ~(l < k)
    BY <1>2, <2>1, PlaceInjective
  <2>3. ~(k < l)
    BY <1>2, <2>1, PlaceInjective
  <2> QED
    BY <2>2, <2>3
<1>3. (CHOOSE l \in 1 .. n : (at + l - 1) % Size = p) = k
  BY <1>2
<1>4. \E l \in 1 .. n : (at + l - 1) % Size = p
  OBVIOUS
<1> QED
  BY <1>1, <1>3, <1>4 DEF Lay

(* What is less than a turn behind the end of a record is left alone by it. *)
LEMMA LayOld ==
  ASSUME NEW rg \in Words, NEW at \in Nat, NEW i \in Nat, NEW n \in 1 .. Size,
         NEW q \in Nat, q < at, at + n <= q + Size
  PROVE  Lay(rg, at, i, n)[q % Size] = rg[q % Size]
<1>1. q % Size \in 0 .. Size - 1
  BY PlaceType
<1>2. ASSUME NEW l \in 1 .. n PROVE (at + l - 1) % Size # q % Size
  <2>1. at + l - 1 \in Nat /\ q < at + l - 1 /\ at + l - 1 < q + Size
    BY SizeType
  <2> QED
    BY <2>1, PlaceInjective
<1> QED
  BY <1>1, <1>2 DEF Lay

LEMMA LayType ==
  ASSUME NEW rg \in Words, NEW at \in Nat, NEW i \in Nat, NEW n \in 1 .. Size
  PROVE  Lay(rg, at, i, n) \in Words
<1>1. ASSUME NEW p \in 0 .. Size - 1, \E k \in 1 .. n : (at + k - 1) % Size = p
      PROVE  (CHOOSE k \in 1 .. n : (at + k - 1) % Size = p) \in Nat
  <2>1. (CHOOSE k \in 1 .. n : (at + k - 1) % Size = p) \in 1 .. n
    BY <1>1, Zenon
  <2>2. \A x \in 1 .. n : x \in Nat
    OBVIOUS
  <2> QED
    BY <2>1, <2>2
<1>2. ASSUME NEW p \in 0 .. Size - 1 PROVE rg[p] \in Nat \X Nat
  BY DEF Words
<1> QED
  BY <1>1, <1>2 DEF Lay, Words

(* One more record, for which there is room.                                *)
Added(rg, lg, hd, from, at, r) ==
  \E next :
    /\ Chain(Append(lg, r), hd + r.size, next)
    /\ Holds(Lay(rg, hd, Len(lg) + 1, r.size), Append(lg, r), next, from)
    /\ \A i \in 1 .. Len(lg) + 1 : next[i] = at[i]

LEMMA PutOne ==
  ASSUME NEW rg \in Words, NEW lg \in Seq(Record), NEW hd \in Nat, NEW from \in Nat,
         NEW at, Chain(lg, hd, at), Holds(rg, lg, at, from),
         NEW r \in Record, from <= hd, hd + r.size < from + Size
  PROVE  Added(rg, lg, hd, from, at, r)
<1> DEFINE n == Len(lg)
           m == r.size
           more == Append(lg, r)
           next == [i \in 1 .. n + 2 |-> IF i = n + 2 THEN hd + m ELSE at[i]]
<1>1. n \in Nat /\ m \in 1 .. Size /\ m \in Nat /\ 0 < m
  BY SizeType DEF Record
<1>2. /\ Len(more) = n + 1 /\ more[n + 1] = r
      /\ \A i \in 1 .. n : more[i] = lg[i]
  OBVIOUS
<1>3. \A i \in 1 .. n + 1 : next[i] = at[i]
  BY <1>1
<1>4. next[n + 2] = hd + m
  BY <1>1
<1>5. \A i \in 1 .. n + 1 : at[i] \in Nat
  BY DEF Chain
<1>6. \A i \in 1 .. n : lg[i].size \in Nat /\ 0 < lg[i].size
  <2> TAKE i \in 1 .. n
  <2>1. lg[i] \in Record
    OBVIOUS
  <2>2. lg[i].size \in 1 .. Size
    BY <2>1 DEF Record
  <2> QED
    BY <2>2, SizeType
<1>7. next \in [1 .. n + 2 -> Nat]
  BY <1>1, <1>5
<1>8. next[1] = 0 /\ next[n + 1] = hd
  BY <1>1, <1>3 DEF Chain
<1> HIDE DEF next, more, n, m
<1>9. Chain(more, hd + m, next)
  <2>1. ASSUME NEW i \in 1 .. n + 1 PROVE next[i + 1] = next[i] + more[i].size
    <3>1. CASE i = n + 1
      BY <1>1, <1>2, <1>4, <1>8, <3>1 DEF m
    <3>2. CASE i \in 1 .. n
      <4>1. i \in 1 .. n + 1 /\ i + 1 \in 1 .. n + 1
        BY <1>1, <3>2
      <4>2. at[i + 1] = at[i] + lg[i].size
        BY <3>2 DEF Chain, n
      <4> QED
        BY <1>2, <1>3, <3>2, <4>1, <4>2
    <3> QED
      BY <1>1, <3>1, <3>2
  <2>2. ASSUME NEW i \in 1 .. n + 2, NEW j \in 1 .. n + 2, i < j
        PROVE  next[i] + more[i].size <= next[j]
    <3>1. CASE j = n + 2 /\ i = n + 1
      BY <1>1, <1>2, <1>4, <1>8, <3>1 DEF m
    <3>2. CASE j = n + 2 /\ i \in 1 .. n
      <4>1. at[i] + lg[i].size <= at[n + 1]
        BY <1>1, <3>2 DEF Chain, n
      <4>2. next[i] = at[i] /\ next[n + 1] = at[n + 1] /\ at[i] \in Nat /\ at[n + 1] \in Nat
        BY <1>1, <1>3, <1>5, <3>2
      <4> QED
        BY <1>1, <1>2, <1>4, <1>6, <1>8, <3>2, <4>1, <4>2, SMTT(30)
    <3>3. CASE j \in 1 .. n + 1
      <4>1. i \in 1 .. n /\ i \in 1 .. n + 1
        BY <1>1, <2>2, <3>3
      <4>2. at[i] + lg[i].size <= at[j]
        BY <2>2, <3>3, <4>1 DEF Chain, n
      <4> QED
        BY <1>2, <1>3, <3>3, <4>1, <4>2
    <3> QED
      BY <1>1, <2>2, <3>1, <3>2, <3>3
  <2>3. n + 1 + 1 = n + 2
    BY <1>1
  <2> QED
    BY <1>2, <1>4, <1>7, <1>8, <2>1, <2>2, <2>3 DEF Chain
<1>10. Holds(Lay(rg, hd, n + 1, m), more, next, from)
  <2> SUFFICES ASSUME NEW i \in 1 .. n + 1, from <= next[i], NEW k \in 1 .. more[i].size
               PROVE  Lay(rg, hd, n + 1, m)[(next[i] + k - 1) % Size] = <<i, k>>
    BY <1>2 DEF Holds
  <2>1. CASE i = n + 1
    <3>1. next[i] = hd /\ k \in 1 .. m /\ n + 1 \in Nat
      BY <1>1, <1>2, <1>8, <2>1 DEF m
    <3>2. Lay(rg, hd, n + 1, m)[(hd + k - 1) % Size] = <<n + 1, k>>
      <4>1. rg \in Words /\ hd \in Nat /\ n + 1 \in Nat /\ m \in 1 .. Size /\ k \in 1 .. m
        BY <1>1, <3>1
      <4> HIDE <3>1
      <4> QED
        BY <4>1, LayNew, Zenon
    <3> QED
      BY <2>1, <3>1, <3>2
  <2>2. CASE i \in 1 .. n
    <3>1. next[i] = at[i] /\ more[i] = lg[i] /\ at[i] \in Nat /\ lg[i].size \in Nat
      BY <1>1, <1>2, <1>3, <1>5, <1>6, <2>2
    <3>2. k \in 1 .. lg[i].size /\ k \in Nat /\ 1 <= k
      BY <3>1
    <3>3. at[i] + lg[i].size <= hd
      BY <1>1, <2>2 DEF Chain, n
    <3>4. from <= at[i]
      BY <3>1
    <3>5. rg[(at[i] + k - 1) % Size] = <<i, k>>
      BY <2>2, <3>2, <3>4 DEF Holds, n
    <3>6. at[i] + k - 1 \in Nat /\ at[i] + k - 1 < hd
      BY <3>1, <3>2, <3>3
    <3>7. hd + m <= (at[i] + k - 1) + Size
      <4>1. hd + m < from + Size
        BY DEF m
      <4> QED
        BY <1>1, <3>1, <3>2, <3>4, <4>1, SizeType
    <3> QED
      BY <1>1, <3>1, <3>5, <3>6, <3>7, LayOld, SMTT(30)
  <2> QED
    BY <1>1, <2>1, <2>2
<1> QED
  BY <1>3, <1>9, <1>10 DEF n, m, more, Added

-----------------------------------------------------------------------------
(* The invariant.                                                           *)

(* The ring of a CPU, and where the stream stands in it.                    *)
Stands(c, at) ==
  /\ flushing.cpu # c => tail[c] = at[Len(delivered[c]) + 1]
  /\ flushing.cpu = c =>
       /\ flushing.tail = at[Len(delivered[c]) + 1] /\ data_tail[c] <= flushing.tail
       /\ \E h \in Len(delivered[c]) + 1 .. Len(log[c]) + 1 : flushing.head = at[h]

CpuInv(c) ==
  /\ tail[c] = data_tail[c] /\ data_tail[c] <= head[c] /\ head[c] < data_tail[c] + Size
  /\ Len(delivered[c]) <= Len(log[c])
  /\ \A i \in 1 .. Len(delivered[c]) : delivered[c][i] = i
  /\ \E at : /\ Chain(log[c], head[c], at)
             /\ Holds(ring[c], log[c], at, data_tail[c])
             /\ Stands(c, at)

(* A stream that was disabled has, or is in, its last flush; one that was   *)
(* never enabled has nothing to flush.                                      *)
Done(c) ==
  /\ ~enabled[c]
  /\ IF flushing.cpu = c THEN flushing.head = head[c] ELSE tail[c] = head[c]

Phases ==
  /\ flushing # Idle => phase \notin {"opening", "failed", "cleared"}
  /\ flushing # Idle /\ phase # "stopping" => active[flushing.cpu]
  /\ phase \in {"opening", "failed", "cleared"} => \A c \in Cpus : ~active[c]
  /\ phase # "cleared" => \A c \in Cpus : active[c] \/ Done(c)
  /\ phase \in {"recording", "stopping", "stopped"} => start_time # 0

(* No record is younger than the clock, and of the delivered ones those     *)
(* since the start were kept.                                               *)
Times(c) == \A i \in 1 .. Len(log[c]) : log[c][i].time <= clock * NSEC_PER_USEC
Young(c, i) ==
  /\ start_time # 0 /\ log[c][i].kind = "sample"
  /\ log[c][i].time > start_time * NSEC_PER_USEC
Keeps(c) == \A i \in 1 .. Len(delivered[c]) : Young(c, i) => i \in kept[c]

IInv ==
  /\ TypeOK
  /\ \A c \in Cpus : CpuInv(c) /\ Times(c) /\ Keeps(c)
  /\ Phases

-----------------------------------------------------------------------------
(* One CPU at a time.                                                       *)

LEMMA IdleType ==
  ASSUME TypeOK
  PROVE  /\ flushing.cpu \in Cpus <=> flushing # Idle
         /\ flushing # Idle => flushing.head \in Nat /\ flushing.tail \in Nat
         /\ "none" \notin Cpus
BY PerfAssumption DEF TypeOK, Idle, PerfAssumption

LEMMA RecordFields ==
  ASSUME TypeOK, NEW c \in Cpus, NEW i \in 1 .. Len(log[c])
  PROVE  /\ log[c][i] \in Record /\ log[c][i].size \in 1 .. Size
         /\ log[c][i].time \in Nat /\ log[c][i].lost \in Nat
<1>1. log[c] \in Seq(Record)
  BY DEF TypeOK
<1>2. log[c][i] \in Record
  BY <1>1
<1> QED
  BY <1>2 DEF Record

(* A CPU that a step does not touch.                                        *)
LEMMA CpuKept ==
  ASSUME NEW c \in Cpus, CpuInv(c),
         ring'[c] = ring[c], log'[c] = log[c], head'[c] = head[c],
         data_tail'[c] = data_tail[c], tail'[c] = tail[c], delivered'[c] = delivered[c],
         flushing' = flushing \/ (flushing.cpu # c /\ flushing'.cpu # c)
  PROVE  CpuInv(c)'
<1>1. PICK at : /\ Chain(log[c], head[c], at)
                /\ Holds(ring[c], log[c], at, data_tail[c])
                /\ Stands(c, at)
  BY DEF CpuInv
<1>2. Stands(c, at)'
  BY <1>1 DEF Stands
<1>3. Chain(log[c], head[c], at)' /\ Holds(ring[c], log[c], at, data_tail[c])'
  BY <1>1
<1> QED
  BY <1>2, <1>3 DEF CpuInv

(* What a flush finds where it stands.                                      *)
LEMMA FlushFinds ==
  ASSUME IInv, flushing # Idle, Left >= 1,
         NEW c, c = flushing.cpu
  PROVE  /\ c \in Cpus /\ Len(delivered[c]) + 1 \in 1 .. Len(log[c])
         /\ NextSize = log[c][Len(delivered[c]) + 1].size
         /\ ~Corrupt /\ NextSize <= Left
         /\ RecordAt(c, flushing.tail) = Len(delivered[c]) + 1
<1> DEFINE d == Len(delivered[c]) + 1
<1>1. c \in Cpus /\ flushing.head \in Nat /\ flushing.tail \in Nat
  BY IdleType DEF IInv
<1>2. /\ d \in Nat /\ 1 <= d /\ Len(log[c]) \in Nat /\ d <= Len(log[c]) + 1
      /\ data_tail[c] \in Nat
  <2>1. delivered[c] \in Seq(Nat) /\ log[c] \in Seq(Record) /\ data_tail[c] \in Nat
    BY <1>1 DEF IInv, TypeOK
  <2> QED
    BY <1>1, <2>1 DEF IInv, CpuInv
<1>3. PICK at : /\ Chain(log[c], head[c], at)
                /\ Holds(ring[c], log[c], at, data_tail[c])
                /\ Stands(c, at)
  BY <1>1 DEF IInv, CpuInv
<1>4. /\ flushing.tail = at[d] /\ data_tail[c] <= at[d]
      /\ \E h \in d .. Len(log[c]) + 1 : flushing.head = at[h]
  BY <1>3 DEF Stands
<1> HIDE DEF d
<1>5. PICK h \in d .. Len(log[c]) + 1 : flushing.head = at[h]
  BY <1>4
<1>6. d < h
  BY <1>1, <1>2, <1>4, <1>5 DEF Left
<1>7. d \in 1 .. Len(log[c])
  BY <1>2, <1>6
<1>8. log[c][d].size \in 1 .. Size /\ log[c][d].size \in Nat
  BY <1>1, <1>7, RecordFields, SizeType DEF IInv
<1>9. \A k \in 1 .. log[c][d].size : ring[c][(at[d] + k - 1) % Size] = <<d, k>>
  BY <1>3, <1>4, <1>7 DEF Holds
<1>10. ring[c][Place(at[d])] = <<d, 1>>
  <2>1. 1 \in 1 .. log[c][d].size /\ at[d] + 1 - 1 = at[d]
    BY <1>1, <1>4, <1>8
  <2> QED
    BY <1>9, <2>1 DEF Place
<1>11. SizeAt(c, at[d]) = log[c][d].size
  BY <1>10 DEF SizeAt
<1>12. NextSize = log[c][d].size
  BY <1>4, <1>11 DEF NextSize
<1>13. NextSize <= Left
  <2>1. at[d] + log[c][d].size <= at[h]
    BY <1>2, <1>3, <1>5, <1>6, <1>7 DEF Chain
  <2> QED
    BY <1>1, <1>4, <1>5, <1>8, <1>12, <2>1 DEF Left
<1>14. RecordAt(c, at[d]) = d
  <2>1. \A k \in 1 .. SizeAt(c, at[d]) : ring[c][Place(at[d] + k - 1)] = <<d, k>>
    BY <1>9, <1>11 DEF Place
  <2> QED
    BY <1>10, <2>1 DEF RecordAt
<1>15. ~Corrupt
  BY <1>8, <1>12, SizeType DEF Corrupt
<1> QED
  BY <1>1, <1>4, <1>7, <1>12, <1>13, <1>14, <1>15 DEF d

(* The stream stands where it stood when records were added.                *)
LEMMA PutStands ==
  ASSUME IInv, NEW c \in Cpus, NEW at, NEW next,
         UNCHANGED <<data_tail, tail, flushing, delivered>>,
         Stands(c, at),
         Len(log'[c]) \in Nat, Len(log[c]) <= Len(log'[c]),
         head'[c] \in Nat, head[c] <= head'[c], head'[c] < data_tail[c] + Size,
         \A i \in 1 .. Len(log[c]) + 1 : next[i] = at[i],
         Chain(log'[c], head'[c], next),
         Holds(ring'[c], log'[c], next, data_tail[c])
  PROVE  CpuInv(c)'
<1>1. /\ Len(delivered[c]) \in Nat /\ Len(log[c]) \in Nat
      /\ Len(delivered[c]) <= Len(log[c]) /\ Len(delivered[c]) + 1 \in 1 .. Len(log[c]) + 1
  <2>1. delivered[c] \in Seq(Nat) /\ log[c] \in Seq(Record)
    BY DEF IInv, TypeOK
  <2> QED
    BY <2>1 DEF IInv, CpuInv
<1>2. next[Len(delivered[c]) + 1] = at[Len(delivered[c]) + 1]
  BY <1>1
<1>3. ASSUME NEW h \in Len(delivered[c]) + 1 .. Len(log[c]) + 1
      PROVE  next[h] = at[h] /\ h \in Len(delivered[c]) + 1 .. Len(log'[c]) + 1
  BY <1>1
<1>4. Stands(c, next)'
  <2>1. CASE flushing.cpu # c
    BY <1>2, <2>1 DEF Stands
  <2>2. CASE flushing.cpu = c
    <3>1. PICK h \in Len(delivered[c]) + 1 .. Len(log[c]) + 1 : flushing.head = at[h]
      BY <2>2 DEF Stands
    <3>2. /\ h \in Len(delivered[c]) + 1 .. Len(log'[c]) + 1 /\ flushing.head = next[h]
      BY <1>3, <3>1
    <3> QED
      BY <1>2, <2>2, <3>2 DEF Stands
  <2> QED
    BY <2>1, <2>2
<1>5. /\ tail'[c] = data_tail'[c] /\ data_tail'[c] <= head'[c]
      /\ head'[c] < data_tail'[c] + Size
  <2>1. data_tail[c] \in Nat /\ head[c] \in Nat
    BY DEF IInv, TypeOK
  <2> QED
    BY <2>1 DEF IInv, CpuInv
<1> QED
  BY <1>1, <1>4, <1>5 DEF IInv, CpuInv

(* The kernel puts a record there, and with it the count of those it lost.  *)
LEMMA PutCpu ==
  ASSUME IInv, NEW c \in Cpus, NEW r \in Record, KernelPut(c, r)
  PROVE  /\ CpuInv(c)'
         /\ log'[c] \in Seq(Record) /\ ring'[c] \in Words /\ head'[c] \in Nat
         /\ Len(log[c]) <= Len(log'[c])
         /\ \A i \in 1 .. Len(log[c]) : log'[c][i] = log[c][i]
         /\ \A i \in Len(log[c]) + 1 .. Len(log'[c]) : log'[c][i].time = r.time
<1> DEFINE lg == log[c]
           hd == head[c]
           rg == ring[c]
           from == data_tail[c]
           gap == [kind |-> "lost", size |-> LostSize, time |-> r.time, lost |-> pending[c]]
<1>1. /\ lg \in Seq(Record) /\ hd \in Nat /\ rg \in Words /\ from \in Nat
      /\ from <= hd /\ pending[c] \in Nat /\ delivered[c] \in Seq(Nat)
  BY DEF IInv, TypeOK, CpuInv
<1>2. PICK at : Chain(lg, hd, at) /\ Holds(rg, lg, at, from) /\ Stands(c, at)
  BY DEF IInv, CpuInv
<1>3. gap \in Record /\ gap.size = LostSize /\ gap.time = r.time /\ LostSize \in Nat
  <2>1. LostSize \in 1 .. Size /\ LostSize \in Nat
    BY PerfAssumption, SizeType DEF PerfAssumption
  <2> QED
    BY <1>1, <2>1 DEF Record
<1>4. r.size \in 1 .. Size /\ r.size \in Nat /\ 0 < r.size
  BY SizeType DEF Record
<1>5. /\ UNCHANGED <<data_tail, tail, flushing, delivered>>
      /\ log \in [Cpus -> Seq(Record)] /\ head \in [Cpus -> Nat] /\ ring \in [Cpus -> Words]
  BY DEF KernelPut, IInv, TypeOK
<1>6. Fits(c, r)
  BY DEF KernelPut
<1> HIDE DEF gap
<1>7. CASE pending[c] = 0
  <2>1. /\ log'[c] = Append(lg, r) /\ head'[c] = hd + r.size
        /\ ring'[c] = Lay(rg, hd, Len(lg) + 1, r.size)
    BY <1>5, <1>7 DEF KernelPut
  <2>2. hd + r.size < from + Size
    BY <1>1, <1>4, <1>6, <1>7, SizeType DEF Fits
  <2>3. PICK next : /\ Chain(log'[c], head'[c], next)
                    /\ Holds(ring'[c], log'[c], next, from)
                    /\ \A i \in 1 .. Len(lg) + 1 : next[i] = at[i]
    <3>1. Added(rg, lg, hd, from, at, r)
      <4>1. /\ rg \in Words /\ lg \in Seq(Record) /\ hd \in Nat /\ from \in Nat
            /\ Chain(lg, hd, at) /\ Holds(rg, lg, at, from)
            /\ r \in Record /\ from <= hd /\ hd + r.size < from + Size
        BY <1>1, <1>2, <2>2
      <4> QED
        BY ONLY <4>1, PutOne, Zenon
    <3> QED
      BY <2>1, <3>1 DEF Added
  <2>4. /\ log'[c] \in Seq(Record) /\ Len(log'[c]) = Len(lg) + 1 /\ log'[c][Len(lg) + 1] = r
        /\ \A i \in 1 .. Len(lg) : log'[c][i] = lg[i]
    BY <1>1, <2>1
  <2>5. ring'[c] \in Words
    <3>1. Len(lg) + 1 \in Nat
      BY <1>1
    <3> QED
      BY <1>1, <1>4, <2>1, <3>1, LayType
  <2>6. CpuInv(c)'
    <3>1. /\ Len(log'[c]) \in Nat /\ Len(lg) <= Len(log'[c])
          /\ head'[c] \in Nat /\ hd <= head'[c] /\ head'[c] < from + Size
      BY <1>1, <1>4, <2>1, <2>2, <2>4, SMTT(30)
    <3> QED
      BY <1>2, <1>5, <2>3, <3>1, PutStands, Zenon
  <2>7. \A i \in Len(lg) + 1 .. Len(log'[c]) : log'[c][i].time = r.time
    BY <1>1, <2>4
  <2> QED
    BY <1>1, <1>4, <2>1, <2>4, <2>5, <2>6, <2>7
<1>8. CASE pending[c] > 0
  <2> DEFINE mid == Append(lg, gap)
             half == Lay(rg, hd, Len(lg) + 1, LostSize)
  <2>1. /\ log'[c] = lg \o <<gap, r>> /\ head'[c] = (hd + LostSize) + r.size
        /\ ring'[c] = Lay(half, hd + LostSize, Len(lg) + 2, r.size)
    BY <1>1, <1>3, <1>4, <1>5, <1>8 DEF KernelPut, gap
  <2>2. hd + LostSize < from + Size /\ (hd + LostSize) + r.size < from + Size
    BY <1>1, <1>3, <1>4, <1>6, <1>8, SizeType, SMTT(30) DEF Fits
  <2>3. PICK some : /\ Chain(mid, hd + LostSize, some)
                    /\ Holds(half, mid, some, from)
                    /\ \A i \in 1 .. Len(lg) + 1 : some[i] = at[i]
    <3>1. /\ rg \in Words /\ lg \in Seq(Record) /\ hd \in Nat /\ from \in Nat
          /\ Chain(lg, hd, at) /\ Holds(rg, lg, at, from)
          /\ gap \in Record /\ from <= hd /\ hd + gap.size < from + Size
      BY <1>1, <1>2, <1>3, <2>2
    <3>2. Added(rg, lg, hd, from, at, gap)
      BY ONLY <3>1, PutOne, Zenon
    <3> QED
      BY <1>3, <3>2 DEF Added
  <2>4. /\ mid \in Seq(Record) /\ Len(mid) = Len(lg) + 1 /\ mid[Len(lg) + 1] = gap
        /\ \A i \in 1 .. Len(lg) : mid[i] = lg[i]
    BY <1>1, <1>3
  <2>5. half \in Words
    <3>1. Len(lg) + 1 \in Nat /\ LostSize \in 1 .. Size
      BY <1>1, PerfAssumption DEF PerfAssumption
    <3> QED
      BY <1>1, <3>1, LayType
  <2>6. hd + LostSize \in Nat /\ from <= hd + LostSize /\ Len(mid) + 1 = Len(lg) + 2
    BY <1>1, <1>3, <2>4
  <2>7. log'[c] = Append(mid, r)
    <3>1. \A s \in Seq(Record), a, b \in Record : s \o <<a, b>> = Append(Append(s, a), b)
      OBVIOUS
    <3> QED
      BY <1>1, <1>3, <2>1, <3>1
  <2> HIDE DEF mid, half
  <2>8. PICK next : /\ Chain(log'[c], head'[c], next)
                    /\ Holds(ring'[c], log'[c], next, from)
                    /\ \A i \in 1 .. Len(mid) + 1 : next[i] = some[i]
    <3>1. Added(half, mid, hd + LostSize, from, some, r)
      <4>1. /\ half \in Words /\ mid \in Seq(Record) /\ hd + LostSize \in Nat
            /\ from \in Nat /\ Chain(mid, hd + LostSize, some) /\ Holds(half, mid, some, from)
            /\ r \in Record /\ from <= hd + LostSize
            /\ (hd + LostSize) + r.size < from + Size
        BY <1>1, <2>2, <2>3, <2>4, <2>5, <2>6
      <4> QED
        BY ONLY <4>1, PutOne, Zenon
    <3> QED
      BY <2>1, <2>6, <2>7, <3>1 DEF Added
  <2>9. \A i \in 1 .. Len(lg) + 1 : next[i] = at[i]
    BY <1>1, <2>3, <2>4, <2>8
  <2>10. /\ log'[c] \in Seq(Record) /\ Len(log'[c]) = Len(lg) + 2
         /\ log'[c][Len(lg) + 2] = r /\ log'[c][Len(lg) + 1] = gap
         /\ \A i \in 1 .. Len(lg) : log'[c][i] = lg[i]
    BY <1>1, <2>4, <2>7, SMTT(30)
  <2>11. ring'[c] \in Words
    <3>1. Len(lg) + 2 \in Nat
      BY <1>1
    <3> QED
      BY <1>4, <2>1, <2>5, <2>6, <3>1, LayType
  <2>12. CpuInv(c)'
    <3>1. /\ Len(log'[c]) \in Nat /\ Len(lg) <= Len(log'[c])
          /\ head'[c] \in Nat /\ hd <= head'[c] /\ head'[c] < from + Size
      <4>1. Len(lg) \in Nat /\ hd \in Nat
        BY <1>1
      <4> QED
        BY <1>3, <1>4, <2>1, <2>2, <2>10, <4>1, SMTT(30)
    <3> QED
      BY <1>2, <1>5, <2>8, <2>9, <3>1, PutStands, Zenon
  <2>13. ASSUME NEW i \in Len(lg) + 1 .. Len(log'[c]) PROVE log'[c][i].time = r.time
    <3>1. i = Len(lg) + 1 \/ i = Len(lg) + 2
      <4>1. Len(lg) \in Nat /\ Len(log'[c]) = Len(lg) + 2
        BY <1>1, <2>10
      <4> HIDE DEF lg
      <4> QED
        BY <4>1
    <3> QED
      BY <1>3, <2>10, <3>1
  <2>14. head'[c] \in Nat /\ Len(lg) <= Len(log'[c])
    BY <1>1, <1>3, <1>4, <2>1, <2>10
  <2> QED
    BY <2>10, <2>11, <2>12, <2>13, <2>14
<1> QED
  BY <1>1, <1>7, <1>8

-----------------------------------------------------------------------------
(* The steps.                                                               *)

LEMMA InitIInv == SamplerInit => IInv
<1> SUFFICES ASSUME SamplerInit PROVE IInv
  OBVIOUS
<1> USE DEF SamplerInit, Init
<1>1. TypeOK
  <2>1. <<0, 0>> \in Nat \X Nat /\ <<>> \in Seq(Record) /\ <<>> \in Seq(Nat)
    OBVIOUS
  <2>2. [p \in 0 .. Size - 1 |-> <<0, 0>>] \in Words
    BY DEF Words
  <2> QED
    BY <2>1, <2>2 DEF TypeOK
<1>2. ASSUME NEW c \in Cpus PROVE CpuInv(c) /\ Times(c) /\ Keeps(c)
  <2>1. /\ log[c] = <<>> /\ delivered[c] = <<>> /\ head[c] = 0 /\ tail[c] = 0 /\ data_tail[c] = 0
        /\ Len(log[c]) = 0 /\ Len(delivered[c]) = 0 /\ flushing = Idle
    OBVIOUS
  <2>2. flushing.cpu # c
    BY PerfAssumption DEF Idle, PerfAssumption
  <2> DEFINE at == [i \in 1 .. 1 |-> 0]
  <2>3. Chain(log[c], 0, at) /\ Holds(ring[c], log[c], at, 0) /\ at[1] = 0
    BY <2>1 DEF Chain, Holds
  <2> HIDE DEF at
  <2>4. Stands(c, at)
    BY <2>1, <2>2, <2>3 DEF Stands
  <2> QED
    BY <2>1, <2>3, <2>4, SizeType DEF CpuInv, Times, Keeps
<1>3. Phases
  <2>1. \A c \in Cpus : flushing.cpu # c
    BY PerfAssumption DEF Idle, PerfAssumption
  <2>2. \A c \in Cpus : ~active[c] /\ Done(c)
    BY <2>1 DEF Done
  <2>3. flushing = Idle /\ phase = "opening"
    OBVIOUS
  <2> QED
    BY <2>2, <2>3, Zenon DEF Phases
<1> QED
  BY <1>1, <1>2, <1>3 DEF IInv

(* A step that touches no ring.                                             *)
LEMMA RingsKept ==
  ASSUME IInv, UNCHANGED <<ring, head, log, data_tail, tail, flushing, delivered>>,
         UNCHANGED <<kept, start_time>>, clock' \in Nat, clock <= clock'
  PROVE  \A c \in Cpus : CpuInv(c)' /\ Times(c)' /\ Keeps(c)'
<1> SUFFICES ASSUME NEW c \in Cpus PROVE CpuInv(c)' /\ Times(c)' /\ Keeps(c)'
  OBVIOUS
<1>1. CpuInv(c)'
  BY CpuKept DEF IInv
<1>2. Times(c)'
  <2> SUFFICES ASSUME NEW i \in 1 .. Len(log[c])
               PROVE  log[c][i].time <= clock' * NSEC_PER_USEC
    BY DEF Times
  <2>1. log[c][i].time \in Nat /\ log[c][i].time <= clock * NSEC_PER_USEC /\ clock \in Nat
    BY RecordFields DEF IInv, Times, TypeOK
  <2> QED
    BY <2>1 DEF NSEC_PER_USEC
<1>3. Keeps(c)'
  BY DEF IInv, Keeps, Young
<1> QED
  BY <1>1, <1>2, <1>3

LEMMA OpeningStep ==
  ASSUME IInv, TryAgain \/ Prepared \/ \E c \in Cpus : Answer(c)
  PROVE  IInv'
<1>1. /\ UNCHANGED <<ring, head, log, data_tail, tail, flushing, delivered, kept, start_time,
                     clock, pending, dropped>>
      /\ clock \in Nat /\ phase = "opening"
  BY DEF TryAgain, Prepared, Answer, Enable, perfVars, kernel, IInv, TypeOK
<1>2. \A c \in Cpus : CpuInv(c)' /\ Times(c)' /\ Keeps(c)'
  BY <1>1, RingsKept
<1>3. flushing = Idle
  BY <1>1 DEF IInv, Phases
<1>4. CASE Prepared
  <2>1. TypeOK'
    <3>1. enabled' \in [Cpus -> BOOLEAN] /\ active' \in [Cpus -> BOOLEAN]
      BY <1>4 DEF Prepared, Enable, IInv, TypeOK
    <3> QED
      BY <1>1, <1>4, <3>1 DEF IInv, TypeOK, Prepared
  <2>2. Phases'
    <3>1. PICK done \in SUBSET Streams :
            /\ enabled' = [c \in Cpus |-> enabled[c] \/ c \in done]
            /\ active' = [c \in Cpus |-> active[c] \/ c \in done]
      BY <1>4 DEF Prepared, Enable
    <3>2. ASSUME NEW c \in Cpus PROVE (active[c] \/ Done(c))'
      <4>1. active[c] \/ Done(c)
        BY <1>1 DEF IInv, Phases
      <4> QED
        BY <1>1, <3>1, <4>1 DEF Done
    <3> QED
      BY <1>1, <1>3, <1>4, <3>2 DEF Phases, Prepared
  <2> QED
    BY <1>2, <2>1, <2>2 DEF IInv
<1>5. CASE TryAgain
  <2>1. TypeOK'
    BY <1>5, SMTT(30) DEF IInv, TypeOK, TryAgain, perfVars, kernel
  <2>2. Phases'
    BY <1>1, <1>3, <1>5 DEF IInv, Phases, Done, TryAgain, perfVars, kernel
  <2> QED
    BY <1>2, <2>1, <2>2 DEF IInv
<1>6. CASE \E c \in Cpus : Answer(c)
  <2>1. TypeOK'
    BY <1>6 DEF IInv, TypeOK, Answer, perfVars, kernel
  <2>2. Phases'
    BY <1>1, <1>3, <1>6 DEF IInv, Phases, Done, Answer, perfVars, kernel
  <2> QED
    BY <1>2, <2>1, <2>2 DEF IInv
<1> QED
  BY <1>4, <1>5, <1>6

(* The steps of the recording that leave the rings alone.                   *)
LEMMA OtherStep ==
  ASSUME IInv, Abandon \/ Cancel \/ Stopped \/ Clear \/ Tick
  PROVE  IInv'
<1>1. /\ UNCHANGED <<ring, head, log, data_tail, tail, flushing, delivered, kept, start_time,
                     pending, dropped, opened>>
      /\ clock' \in Nat /\ clock <= clock'
  BY DEF Abandon, Cancel, Stopped, Clear, Finalize, Tick, perfVars, kernel, IInv, TypeOK
<1>2. \A c \in Cpus : CpuInv(c)' /\ Times(c)' /\ Keeps(c)'
  BY <1>1, RingsKept
<1>3. TypeOK'
  <2>1. CASE Clear
    BY <2>1 DEF IInv, TypeOK, Clear, Finalize, kernel
  <2>2. CASE Abandon \/ Cancel \/ Stopped \/ Tick
    BY <2>2, SMTT(30) DEF IInv, TypeOK, Abandon, Cancel, Stopped, Tick, Streams, perfVars, kernel
  <2> QED
    BY <2>1, <2>2
<1>5. Phases'
  <2>1. CASE Clear
    BY <1>1, <2>1 DEF IInv, Phases, Clear, Finalize
  <2>2. CASE Abandon \/ Cancel \/ Stopped \/ Tick
    BY <1>1, <2>2 DEF IInv, Phases, Done, Abandon, Cancel, Stopped, Tick, perfVars, kernel
  <2> QED
    BY <2>1, <2>2
<1> QED
  BY <1>2, <1>3, <1>5 DEF IInv

(* What was recorded before is not younger than the start.                  *)
LEMMA StartStep == ASSUME IInv, Start PROVE IInv'
<1>1. /\ UNCHANGED <<perfVars, clock, todo, attempt, opened, kept, lost>> /\ flushing = Idle
      /\ start_time' = clock /\ clock \in Nat \ {0} /\ phase = "prepared" /\ phase' = "recording"
  BY DEF Start, IInv, TypeOK
<1>2. TypeOK'
  BY <1>1 DEF IInv, TypeOK, perfVars, kernel
<1>3. ASSUME NEW c \in Cpus PROVE CpuInv(c)' /\ Times(c)' /\ Keeps(c)'
  <2>1. CpuInv(c)'
    BY <1>1, CpuKept DEF IInv, perfVars, kernel
  <2>2. Times(c)'
    BY <1>1 DEF IInv, Times, perfVars, kernel
  <2>3. Keeps(c)'
    <3> SUFFICES ASSUME NEW i \in 1 .. Len(delivered[c]), Young(c, i)' PROVE FALSE
      BY <1>1 DEF Keeps, perfVars, kernel
    <3>1. i \in 1 .. Len(log[c])
      <4>1. delivered[c] \in Seq(Nat) /\ log[c] \in Seq(Record) /\ Len(delivered[c]) <= Len(log[c])
        BY DEF IInv, TypeOK, CpuInv
      <4> QED
        BY <4>1
    <3>2. log[c][i].time \in Nat /\ log[c][i].time <= clock * NSEC_PER_USEC
      BY <3>1, RecordFields DEF IInv, Times
    <3>3. log[c][i].time > clock * NSEC_PER_USEC
      BY <1>1 DEF Young, perfVars, kernel
    <3> QED
      BY <1>1, <3>2, <3>3 DEF NSEC_PER_USEC
  <2> QED
    BY <2>1, <2>2, <2>3
<1>4. Phases'
  BY <1>1 DEF IInv, Phases, Done, perfVars, kernel
<1> QED
  BY <1>2, <1>3, <1>4 DEF IInv

(* The kernel records or drops what happens.                                *)
LEMMA HappensStep ==
  ASSUME IInv, NEW c \in Cpus, Happens(c)
  PROVE  IInv'
<1> DEFINE r == [kind |-> "sample", size |-> SampleSize,
                 time |-> clock * NSEC_PER_USEC, lost |-> 0]
<1>1. /\ r \in Record /\ r.time = clock * NSEC_PER_USEC
      /\ KernelPut(c, r) \/ KernelDrop(c, r)
  <2>1. SampleSize \in 1 .. Size /\ clock * NSEC_PER_USEC \in Nat
    BY SamplerAssumption DEF SamplerAssumption, IInv, TypeOK, NSEC_PER_USEC
  <2> QED
    BY <2>1 DEF Record, Happens
<1> HIDE DEF r
<1>2. /\ UNCHANGED <<clock, start_time, phase, todo, attempt, opened, kept, lost>>
      /\ UNCHANGED <<dropped, data_tail, enabled, active, tail, flushing, delivered>>
           \/ KernelDrop(c, r)
      /\ enabled[c]
  BY <1>1 DEF Happens, KernelPut, KernelDrop, samplerVars
<1>3. CASE KernelDrop(c, r)
  <2>1. /\ UNCHANGED <<ring, head, log, data_tail, enabled, active, tail, flushing, delivered>>
        /\ pending' \in [Cpus -> Nat] /\ dropped' \in [Cpus -> Nat]
    BY <1>3 DEF KernelDrop, IInv, TypeOK
  <2>2. TypeOK'
    BY <1>2, <2>1 DEF IInv, TypeOK
  <2>3. clock' \in Nat /\ clock <= clock'
    BY <1>2 DEF IInv, TypeOK
  <2>4. \A d \in Cpus : CpuInv(d)' /\ Times(d)' /\ Keeps(d)'
    BY <1>2, <2>1, <2>3, RingsKept
  <2>5. Phases'
    BY <1>2, <2>1 DEF IInv, Phases, Done
  <2> QED
    BY <2>2, <2>4, <2>5 DEF IInv
<1>4. CASE KernelPut(c, r)
  <2>1. /\ UNCHANGED <<dropped, data_tail, enabled, active, tail, flushing, delivered>>
        /\ \A d \in Cpus \ {c} : /\ ring'[d] = ring[d] /\ log'[d] = log[d]
                                 /\ head'[d] = head[d]
        /\ \E x, y, z : /\ ring' = [ring EXCEPT ![c] = x] /\ log' = [log EXCEPT ![c] = y]
                        /\ head' = [head EXCEPT ![c] = z]
        /\ pending' \in [Cpus -> Nat]
    BY <1>4 DEF KernelPut, IInv, TypeOK
  <2>2. /\ CpuInv(c)'
        /\ log'[c] \in Seq(Record) /\ ring'[c] \in Words /\ head'[c] \in Nat
        /\ Len(log[c]) <= Len(log'[c])
        /\ \A i \in 1 .. Len(log[c]) : log'[c][i] = log[c][i]
        /\ \A i \in Len(log[c]) + 1 .. Len(log'[c]) : log'[c][i].time = r.time
    BY <1>1, <1>4, PutCpu
  <2>3. TypeOK'
    <3>1. log' \in [Cpus -> Seq(Record)] /\ ring' \in [Cpus -> Words] /\ head' \in [Cpus -> Nat]
      BY <2>1, <2>2 DEF IInv, TypeOK
    <3> QED
      BY <1>2, <2>1, <3>1 DEF IInv, TypeOK
  <2>4. ASSUME NEW d \in Cpus PROVE CpuInv(d)' /\ Times(d)' /\ Keeps(d)'
    <3>1. CASE d # c
      <4>1. CpuInv(d)'
        BY <2>1, <3>1, CpuKept DEF IInv
      <4> QED
        BY <1>2, <2>1, <3>1, <4>1 DEF IInv, Times, Keeps, Young
    <3>2. CASE d = c
      <4>1. Times(c)'
        <5> SUFFICES ASSUME NEW i \in 1 .. Len(log'[c])
                     PROVE  log'[c][i].time <= clock * NSEC_PER_USEC
          BY <1>2 DEF Times
        <5>1. Len(log[c]) \in Nat /\ Len(log'[c]) \in Nat
          <6>1. log[c] \in Seq(Record) /\ log'[c] \in Seq(Record)
            BY <2>2 DEF IInv, TypeOK
          <6> QED
            BY <6>1
        <5>2. CASE i \in 1 .. Len(log[c])
          BY <2>2, <5>2 DEF IInv, Times
        <5>3. CASE i \in Len(log[c]) + 1 .. Len(log'[c])
          <6>1. clock * NSEC_PER_USEC \in Nat
            BY DEF IInv, TypeOK, NSEC_PER_USEC
          <6> QED
            BY <1>1, <2>2, <5>3, <6>1
        <5> QED
          BY <5>1, <5>2, <5>3
      <4>2. Keeps(c)'
        <5>1. Len(delivered[c]) <= Len(log[c]) /\ Len(delivered[c]) \in Nat /\ Len(log[c]) \in Nat
          BY DEF IInv, TypeOK, CpuInv
        <5>2. \A i \in 1 .. Len(delivered[c]) : i \in 1 .. Len(log[c])
          BY <5>1
        <5>3. \A i \in 1 .. Len(delivered[c]) : Young(c, i)' => Young(c, i)
          BY <1>2, <2>2, <5>2 DEF Young
        <5> QED
          BY <1>2, <2>1, <5>3 DEF IInv, Keeps
      <4> QED
        BY <2>2, <3>2, <4>1, <4>2
    <3> QED
      BY <3>1, <3>2
  <2>5. Phases'
    <3>1. \A d \in Cpus : Done(d) => Done(d)'
      BY <1>2, <2>1 DEF Done
    <3> QED
      BY <1>2, <2>1, <3>1 DEF IInv, Phases
  <2> QED
    BY <2>3, <2>4, <2>5 DEF IInv
<1> QED
  BY <1>1, <1>3, <1>4

(* A flush begins: where the stream stands, up to what the kernel wrote.    *)
LEMMA BeginCpus ==
  ASSUME IInv, NEW c \in Cpus, FlushBegin(c),
         UNCHANGED <<ring, head, log, tail, delivered>>
  PROVE  /\ \A d \in Cpus : CpuInv(d)'
         /\ flushing' \in [cpu : Cpus, head : Nat, tail : Nat]
         /\ flushing'.cpu = c /\ flushing'.head = head[c] /\ data_tail' = data_tail
         /\ flushing = Idle
<1>1. /\ tail[c] \in Nat /\ head[c] \in Nat /\ data_tail[c] \in Nat
      /\ tail[c] = data_tail[c] /\ tail[c] <= head[c]
      /\ Len(delivered[c]) \in Nat /\ Len(log[c]) \in Nat /\ Len(delivered[c]) <= Len(log[c])
  BY DEF IInv, TypeOK, CpuInv
<1>2. Lesser(tail[c], head[c]) = tail[c]
  BY <1>1 DEF Lesser
<1>3. flushing' = [cpu |-> c, head |-> head[c], tail |-> tail[c]] /\ data_tail' = data_tail
  BY <1>2 DEF FlushBegin
<1>4. flushing = Idle /\ \A d \in Cpus : flushing.cpu # d
  BY IdleType DEF FlushBegin, IInv
<1>5. CpuInv(c)'
  <2>1. PICK at : /\ Chain(log[c], head[c], at)
                  /\ Holds(ring[c], log[c], at, data_tail[c])
                  /\ Stands(c, at)
    BY DEF IInv, CpuInv
  <2>2. tail[c] = at[Len(delivered[c]) + 1] /\ head[c] = at[Len(log[c]) + 1]
    BY <1>4, <2>1 DEF Stands, Chain
  <2>3. Len(log[c]) + 1 \in Len(delivered[c]) + 1 .. Len(log[c]) + 1
    BY <1>1
  <2>4. flushing'.cpu = c /\ flushing'.head = head[c] /\ flushing'.tail = tail[c]
    BY <1>3
  <2>5. data_tail[c] <= tail[c]
    BY <1>1
  <2>6. Stands(c, at)'
    BY <1>3, <2>2, <2>3, <2>4, <2>5 DEF Stands
  <2> QED
    BY <1>3, <2>1, <2>6 DEF IInv, CpuInv
<1>6. ASSUME NEW d \in Cpus, d # c PROVE CpuInv(d)'
  BY <1>3, <1>4, <1>6, CpuKept DEF IInv
<1> QED
  BY <1>1, <1>3, <1>4, <1>5, <1>6

LEMMA DispatchStep ==
  ASSUME IInv, NEW c \in Cpus, SampleDispatch(c)
  PROVE  IInv'
<1>1. /\ FlushBegin(c) /\ UNCHANGED <<ring, head, log, tail, delivered, pending, dropped>>
      /\ UNCHANGED samplerVars /\ UNCHANGED <<enabled, active>>
      /\ phase # "stopping" /\ active[c]
  BY DEF SampleDispatch, Dispatch, kernel
<1>2. /\ \A d \in Cpus : CpuInv(d)'
      /\ flushing' \in [cpu : Cpus, head : Nat, tail : Nat]
      /\ flushing'.cpu = c /\ flushing'.head = head[c] /\ data_tail' = data_tail
      /\ flushing = Idle
  BY <1>1, BeginCpus
<1>3. \A d \in Cpus : Times(d)' /\ Keeps(d)'
  BY <1>1 DEF IInv, Times, Keeps, Young, samplerVars
<1>4. TypeOK'
  BY <1>1, <1>2 DEF IInv, TypeOK, samplerVars
<1>5. ASSUME NEW d \in Cpus, Done(d), ~active[d] PROVE Done(d)'
  <2>1. d # c /\ flushing.cpu # d
    BY <1>1, <1>2, <1>5, IdleType DEF IInv
  <2> QED
    BY <1>1, <1>2, <1>5, <2>1 DEF Done
<1>6. Phases'
  BY <1>1, <1>2, <1>5 DEF IInv, Phases, samplerVars
<1> QED
  BY <1>2, <1>3, <1>4, <1>6 DEF IInv

(* The fiber disables a stream, and flushes it, or it does neither.         *)
LEMMA DisableStep ==
  ASSUME IInv, NEW c \in Cpus, DisableNext(c)
  PROVE  IInv'
<1>1. /\ UNCHANGED <<clock, start_time, phase, attempt, opened, kept, lost>>
      /\ todo' = todo \ {c} /\ phase = "stopping" /\ flushing = Idle
  BY DEF DisableNext, Disable, FlushBegin
<1>2. CASE UNCHANGED perfVars
  <2>1. TypeOK'
    BY <1>1, <1>2 DEF IInv, TypeOK, perfVars, kernel
  <2>2. \A d \in Cpus : CpuInv(d)' /\ Times(d)' /\ Keeps(d)'
    <3>1. /\ UNCHANGED <<ring, head, log, data_tail, tail, flushing, delivered>>
          /\ UNCHANGED <<kept, start_time>>
      BY <1>1, <1>2 DEF perfVars, kernel
    <3>2. clock' \in Nat /\ clock <= clock'
      BY <1>1 DEF IInv, TypeOK
    <3> QED
      BY <3>1, <3>2, RingsKept
  <2>3. Phases'
    BY <1>1, <1>2 DEF IInv, Phases, Done, perfVars, kernel
  <2> QED
    BY <2>1, <2>2, <2>3 DEF IInv
<1>3. CASE /\ active[c] /\ FlushBegin(c)
           /\ enabled' = [enabled EXCEPT ![c] = FALSE] /\ active' = [active EXCEPT ![c] = FALSE]
           /\ UNCHANGED <<kernel, tail, delivered>>
  <2>1. /\ \A d \in Cpus : CpuInv(d)'
        /\ flushing' \in [cpu : Cpus, head : Nat, tail : Nat]
        /\ flushing'.cpu = c /\ flushing'.head = head[c] /\ data_tail' = data_tail
    BY <1>3, BeginCpus DEF kernel
  <2>2. UNCHANGED <<ring, head, log, tail, delivered, pending, dropped>>
    BY <1>3 DEF kernel
  <2>3. \A d \in Cpus : Times(d)' /\ Keeps(d)'
    BY <1>1, <2>2 DEF IInv, Times, Keeps, Young
  <2>4. TypeOK'
    <3>1. enabled' \in [Cpus -> BOOLEAN] /\ active' \in [Cpus -> BOOLEAN]
      BY <1>3 DEF IInv, TypeOK
    <3> QED
      BY <1>1, <2>1, <2>2, <3>1 DEF IInv, TypeOK
  <2>5. Phases'
    <3>1. ASSUME NEW d \in Cpus PROVE (active[d] \/ Done(d))'
      <4>1. CASE d = c
        BY <1>3, <2>1, <2>2, <4>1 DEF Done, IInv, TypeOK
      <4>2. CASE d # c
        <5>1. flushing.cpu # d /\ flushing'.cpu # d
          BY <1>1, <2>1, <4>2, IdleType DEF IInv
        <5>2. enabled'[d] = enabled[d] /\ active'[d] = active[d]
          BY <1>3, <4>2 DEF IInv, TypeOK
        <5>3. active[d] \/ Done(d)
          BY <1>1 DEF IInv, Phases
        <5> QED
          BY <2>2, <5>1, <5>2, <5>3 DEF Done
      <4> QED
        BY <4>1, <4>2
    <3> QED
      BY <1>1, <3>1 DEF IInv, Phases
  <2> QED
    BY <2>1, <2>3, <2>4, <2>5 DEF IInv
<1> QED
  BY <1>2, <1>3 DEF DisableNext, Disable

(* The next record goes through the callback.                               *)
LEMMA FlushStep ==
  ASSUME IInv, SampleFlush, NEW c \in Cpus, c = flushing.cpu,
         NEW d \in Nat, d = Len(delivered[c]) + 1
  PROVE  IInv'
<1>1. /\ flushing # Idle /\ Left >= 1
      /\ delivered' = [delivered EXCEPT ![c] = Append(@, RecordAt(c, flushing.tail))]
      /\ flushing' = [flushing EXCEPT !.tail = @ + NextSize]
      /\ UNCHANGED <<kernel, data_tail, enabled, active, tail>>
      /\ UNCHANGED <<clock, start_time, phase, todo, attempt, opened>>
  BY DEF SampleFlush, FlushRecord
<1>2. /\ d \in 1 .. Len(log[c])
      /\ NextSize = log[c][d].size /\ NextSize <= Left
      /\ RecordAt(c, flushing.tail) = d
  BY <1>1, FlushFinds
<1>3. /\ flushing \in [cpu : Cpus, head : Nat, tail : Nat]
      /\ flushing.head \in Nat /\ flushing.tail \in Nat
  BY <1>1 DEF IInv, TypeOK
<1>4. /\ log[c][d].size \in Nat /\ log[c][d].lost \in Nat
      /\ log[c][d].time \in Nat
  <2>1. log[c][d].size \in 1 .. Size /\ log[c][d].lost \in Nat /\ log[c][d].time \in Nat
    BY <1>2, RecordFields DEF IInv
  <2> QED
    BY <2>1, SizeType
<1>5. /\ delivered[c] \in Seq(Nat) /\ Len(delivered[c]) \in Nat /\ Len(log[c]) \in Nat
      /\ d \in Nat /\ data_tail[c] \in Nat /\ start_time \in Nat
  <2>1. delivered[c] \in Seq(Nat) /\ log[c] \in Seq(Record)
    BY <1>2 DEF IInv, TypeOK
  <2> QED
    BY <1>2, <2>1, SMTT(30) DEF IInv, TypeOK
<1>6. /\ delivered' = [delivered EXCEPT ![c] = Append(@, d)]
      /\ delivered'[c] = Append(delivered[c], d)
      /\ \A e \in Cpus \ {c} : delivered'[e] = delivered[e]
  BY <1>1, <1>2 DEF IInv, TypeOK
<1>7. /\ Len(delivered'[c]) = d
      /\ \A i \in 1 .. Len(delivered[c]) : delivered'[c][i] = delivered[c][i]
      /\ delivered'[c][d] = d
  BY <1>5, <1>6
<1>8. Callback(c, d)
  BY <1>2, <1>5 DEF SampleFlush
<1>9. flushing'.cpu = c /\ flushing'.head = flushing.head
      /\ flushing'.tail = flushing.tail + log[c][d].size
      /\ flushing' \in [cpu : Cpus, head : Nat, tail : Nat]
  BY <1>1, <1>2, <1>3, <1>4, SMTT(30)
<1>10. /\ kept' = kept \/ kept' = [kept EXCEPT ![c] = @ \cup {d}]
       /\ Young(c, d) => kept' = [kept EXCEPT ![c] = @ \cup {d}]
  <2>1. Young(c, d) => log[c][d].kind = "sample" /\ start_time # 0 /\ log[c][d].time >= start_time
    BY <1>4, <1>5, SMTT(30) DEF Young, NSEC_PER_USEC
  <2> QED
    BY <1>8, <2>1 DEF Callback
<1>11. lost' \in Nat
  <2>1. lost \in Nat
    BY DEF IInv, TypeOK
  <2>2. lost' = lost \/ lost' = lost + log[c][d].lost
    BY <1>8 DEF Callback
  <2> QED
    BY <1>4, <2>1, <2>2, SMTT(30)
<1>12. TypeOK'
  <2>1. delivered' \in [Cpus -> Seq(Nat)]
    <3>1. Append(delivered[c], d) \in Seq(Nat)
      BY <1>5
    <3> QED
      BY <1>2, <1>6, <3>1 DEF IInv, TypeOK
  <2>2. kept' \in [Cpus -> SUBSET Nat]
    <3>1. kept \in [Cpus -> SUBSET Nat] /\ kept[c] \cup {d} \in SUBSET Nat
      BY DEF IInv, TypeOK
    <3>2. CASE kept' = kept
      BY <3>1, <3>2
    <3>3. CASE kept' = [kept EXCEPT ![c] = @ \cup {d}]
      BY <3>1, <3>3
    <3> QED
      BY <1>10, <3>2, <3>3
  <2> QED
    BY <1>1, <1>9, <1>11, <2>1, <2>2 DEF IInv, TypeOK, kernel
<1>13. CpuInv(c)'
  <2>1. PICK at : /\ Chain(log[c], head[c], at)
                  /\ Holds(ring[c], log[c], at, data_tail[c])
                  /\ Stands(c, at)
    BY <1>2 DEF IInv, CpuInv
  <2>2. /\ flushing.tail = at[d] /\ data_tail[c] <= flushing.tail
        /\ \E h \in d .. Len(log[c]) + 1 : flushing.head = at[h]
    BY <2>1 DEF Stands
  <2>3. PICK h \in d .. Len(log[c]) + 1 : flushing.head = at[h]
    BY <2>2
  <2>4. d # h
    BY <1>1, <1>3, <2>2, <2>3 DEF Left
  <2>5. h \in d + 1 .. Len(log[c]) + 1
    BY <1>5, <2>3, <2>4
  <2>6. flushing'.tail = at[d + 1]
    BY <1>2, <1>9, <2>1, <2>2 DEF Chain
  <2>7. data_tail[c] <= flushing'.tail
    <3>1. flushing.tail \in Nat /\ data_tail[c] \in Nat /\ log[c][d].size \in Nat
      BY <1>3, <1>4, <1>5
    <3>2. data_tail[c] <= flushing.tail /\ flushing'.tail = flushing.tail + log[c][d].size
      BY <1>9, <2>2
    <3>3. \A x, y, z \in Nat : x <= y => x <= y + z
      OBVIOUS
    <3> QED
      BY <3>1, <3>2, <3>3, Zenon
  <2>8. /\ ring' = ring /\ log' = log /\ head' = head /\ data_tail' = data_tail /\ tail' = tail
    BY <1>1 DEF kernel
  <2>9. Stands(c, at)'
    BY <1>7, <1>9, <2>3, <2>5, <2>6, <2>7, <2>8 DEF Stands
  <2>10. \A i \in 1 .. Len(delivered'[c]) : delivered'[c][i] = i
    <3> SUFFICES ASSUME NEW i \in 1 .. d PROVE delivered'[c][i] = i
      BY <1>7
    <3>1. i = d \/ i \in 1 .. Len(delivered[c])
      BY <1>5
    <3> QED
      BY <1>2, <1>7, <3>1 DEF IInv, CpuInv
  <2>11. Len(delivered'[c]) <= Len(log[c])
    BY <1>2, <1>5, <1>7
  <2> QED
    BY <1>2, <2>1, <2>8, <2>9, <2>10, <2>11 DEF IInv, CpuInv
<1>14. ASSUME NEW e \in Cpus, e # c PROVE CpuInv(e)' /\ Times(e)' /\ Keeps(e)'
  <2>1. flushing.cpu # e /\ flushing'.cpu # e
    BY <1>9, <1>14
  <2>2. CpuInv(e)'
    BY <1>1, <1>6, <1>14, <2>1, CpuKept DEF IInv, kernel
  <2>3. Times(e)'
    BY <1>1 DEF IInv, Times, kernel
  <2>4. kept'[e] = kept[e] /\ delivered'[e] = delivered[e]
    BY <1>6, <1>10, <1>14 DEF IInv, TypeOK
  <2>5. Keeps(e)'
    BY <1>1, <2>4 DEF IInv, Keeps, Young, kernel
  <2> QED
    BY <2>2, <2>3, <2>5
<1>15. Times(c)'
  BY <1>1, <1>2 DEF IInv, Times, kernel
<1>16. Keeps(c)'
  <2> SUFFICES ASSUME NEW i \in 1 .. d, Young(c, i) PROVE i \in kept'[c]
    BY <1>1, <1>7 DEF Keeps, Young, kernel
  <2>1. CASE i = d
    BY <1>2, <1>10, <2>1 DEF IInv, TypeOK
  <2>2. CASE i # d
    <3>1. i \in 1 .. Len(delivered[c])
      BY <1>5, <2>2
    <3>2. i \in kept[c]
      BY <1>2, <3>1 DEF IInv, Keeps
    <3> QED
      BY <1>2, <1>10, <3>2 DEF IInv, TypeOK
  <2> QED
    BY <2>1, <2>2
<1>17. Phases'
  <2>1. flushing' # Idle
    BY <1>9, <1>2, PerfAssumption DEF Idle, PerfAssumption
  <2>2. \A e \in Cpus : Done(e) => Done(e)'
    BY <1>1, <1>9 DEF Done, kernel
  <2> QED
    BY <1>1, <1>9, <2>1, <2>2 DEF IInv, Phases, kernel
<1> QED
  BY <1>12, <1>13, <1>14, <1>15, <1>16, <1>17 DEF IInv

(* A flush ends only where it was to end.                                   *)
LEMMA FlushEndStep ==
  ASSUME IInv, SampleFlushEnd, NEW c \in Cpus, c = flushing.cpu
  PROVE  IInv'
<1>1. /\ flushing # Idle /\ flushing.head \in Nat /\ flushing.tail \in Nat
      /\ flushing' = Idle
      /\ UNCHANGED <<kernel, enabled, active, delivered>> /\ UNCHANGED samplerVars
  BY IdleType DEF SampleFlushEnd, FlushEnd, IInv
<1>2. ~(Left >= 1)
  <2> SUFFICES ASSUME Left >= 1 PROVE FALSE
    OBVIOUS
  <2>1. /\ Len(delivered[c]) + 1 \in 1 .. Len(log[c])
        /\ NextSize = log[c][Len(delivered[c]) + 1].size /\ ~Corrupt /\ NextSize <= Left
    BY <1>1, FlushFinds
  <2>2. NextSize \in 1 .. Size
    BY <2>1, RecordFields DEF IInv
  <2>3. NextSize \in Nat /\ Left \in Int
    BY <1>1, <2>2, SizeType DEF Left
  <2>4. Corrupt \/ NextSize > Left
    BY <2>3 DEF SampleFlushEnd, FlushEnd
  <2> QED
    BY <2>1, <2>3, <2>4
<1>3. /\ tail' = [tail EXCEPT ![c] = flushing.tail]
      /\ data_tail' = [data_tail EXCEPT ![c] = flushing.tail]
  BY <1>2 DEF SampleFlushEnd, FlushEnd
<1>4. /\ tail'[c] = flushing.tail /\ data_tail'[c] = flushing.tail
      /\ \A e \in Cpus \ {c} : tail'[e] = tail[e] /\ data_tail'[e] = data_tail[e]
      /\ tail' \in [Cpus -> Nat] /\ data_tail' \in [Cpus -> Nat]
  BY <1>1, <1>3 DEF IInv, TypeOK
<1>5. flushing'.cpu \notin Cpus
  BY <1>1, PerfAssumption DEF Idle, PerfAssumption
<1>6. TypeOK'
  BY <1>1, <1>4 DEF IInv, TypeOK, kernel, samplerVars
<1>7. \A e \in Cpus : Times(e)' /\ Keeps(e)'
  BY <1>1 DEF IInv, Times, Keeps, Young, kernel, samplerVars
<1>8. PICK at : /\ Chain(log[c], head[c], at)
                /\ Holds(ring[c], log[c], at, data_tail[c])
                /\ Stands(c, at)
  BY <1>1 DEF IInv, CpuInv
<1>9. /\ flushing.tail = at[Len(delivered[c]) + 1] /\ data_tail[c] <= flushing.tail
      /\ \E h \in Len(delivered[c]) + 1 .. Len(log[c]) + 1 : flushing.head = at[h]
  BY <1>8 DEF Stands
<1>10. /\ Len(delivered[c]) \in Nat /\ Len(log[c]) \in Nat /\ data_tail[c] \in Nat
       /\ head[c] \in Nat
  <2>1. delivered[c] \in Seq(Nat) /\ log[c] \in Seq(Record)
    BY <1>1 DEF IInv, TypeOK
  <2> QED
    BY <1>1, <2>1 DEF IInv, TypeOK
<1>11. PICK h \in Len(delivered[c]) + 1 .. Len(log[c]) + 1 : flushing.head = at[h]
  BY <1>9
<1>a. PICK d \in Nat : d = Len(delivered[c]) + 1
  BY <1>10
<1>12. flushing.tail = flushing.head /\ flushing.tail <= head[c]
  <2>1. /\ \A i \in 1 .. Len(log[c]) + 1 : at[i] \in Nat
        /\ \A i \in 1 .. Len(log[c]) : log[c][i].size \in Nat /\ at[i] + log[c][i].size <= head[c]
    <3>1. ASSUME NEW i \in 1 .. Len(log[c])
          PROVE log[c][i].size \in Nat /\ at[i] + log[c][i].size <= head[c]
      <4>1. log[c][i].size \in Nat
        BY <1>1, RecordFields, SizeType DEF IInv
      <4>2. i \in 1 .. Len(log[c]) + 1 /\ i < Len(log[c]) + 1 /\ Len(log[c]) + 1 \in 1 .. Len(log[c]) + 1
        BY <1>10
      <4> QED
        BY <1>8, <4>1, <4>2 DEF Chain
    <3> QED
      BY <1>8, <3>1 DEF Chain
  <2>2. d \in 1 .. Len(log[c]) + 1 /\ h \in 1 .. Len(log[c]) + 1 /\ (d < h \/ d = h)
    BY <1>10, <1>11, <1>a
  <2>3. at[d] \in Nat /\ at[d] <= head[c]
    <3>1. CASE d = Len(log[c]) + 1
      BY <1>8, <1>10, <1>a, <3>1 DEF Chain
    <3>2. CASE d # Len(log[c]) + 1
      <4>1. d \in 1 .. Len(log[c])
        BY <1>10, <2>2, <3>2
      <4>2. at[d] \in Nat /\ log[c][d].size \in Nat /\ at[d] + log[c][d].size <= head[c]
        BY <2>1, <2>2, <4>1
      <4> QED
        BY <1>10, <4>2, SMTT(30)
    <3> QED
      BY <3>1, <3>2
  <2>4. ~(d < h)
    <3> SUFFICES ASSUME d < h PROVE FALSE
      OBVIOUS
    <3>1. d \in 1 .. Len(log[c])
      BY <1>10, <1>11, <2>2
    <3>2. at[d] + log[c][d].size <= at[h] /\ log[c][d].size \in 1 .. Size
      BY <1>1, <1>8, <2>2, <3>1, RecordFields DEF Chain, IInv
    <3>3. at[h] = flushing.head /\ at[d] = flushing.tail
      BY <1>9, <1>11, <1>a
    <3> QED
      BY <1>1, <1>2, <3>2, <3>3, SizeType, SMTT(30) DEF Left
  <2> QED
    BY <1>9, <1>11, <1>a, <2>2, <2>3, <2>4
<1>13. CpuInv(c)'
  <2>1. Holds(ring[c], log[c], at, flushing.tail)
    <3> SUFFICES ASSUME NEW i \in 1 .. Len(log[c]), flushing.tail <= at[i]
                 PROVE  data_tail[c] <= at[i]
      BY <1>8 DEF Holds
    <3>1. at[i] \in Nat
      BY <1>8, <1>10 DEF Chain
    <3> QED
      BY <1>1, <1>9, <1>10, <3>1
  <2>2. Stands(c, at)'
    BY <1>1, <1>4, <1>5, <1>9 DEF Stands, kernel
  <2>3. head[c] < flushing.tail + Size
    <3>1. head[c] < data_tail[c] + Size
      BY <1>1 DEF IInv, CpuInv
    <3> QED
      BY <1>1, <1>9, <1>10, <3>1, SizeType, SMTT(30)
  <2>4. ring' = ring /\ log' = log /\ head' = head /\ delivered' = delivered
    BY <1>1 DEF kernel
  <2> QED
    BY <1>1, <1>4, <1>8, <1>12, <2>1, <2>2, <2>3, <2>4 DEF IInv, CpuInv
<1>14. ASSUME NEW e \in Cpus, e # c PROVE CpuInv(e)'
  BY <1>1, <1>4, <1>5, <1>14, CpuKept DEF IInv, kernel
<1>15. Phases'
  <2>1. ASSUME NEW e \in Cpus, Done(e) PROVE Done(e)'
    <3>1. flushing'.cpu # e /\ head' = head /\ enabled' = enabled
      BY <1>1, <1>5 DEF kernel
    <3>2. CASE e = c
      BY <1>4, <1>12, <2>1, <3>1, <3>2 DEF Done
    <3>3. CASE e # c
      BY <1>4, <2>1, <3>1, <3>3 DEF Done
    <3> QED
      BY <3>2, <3>3
  <2> QED
    BY <1>1, <2>1 DEF IInv, Phases, samplerVars
<1> QED
  BY <1>6, <1>7, <1>13, <1>14, <1>15 DEF IInv

LEMMA NextIInv == ASSUME IInv, [SamplerNext]_vars PROVE IInv'
<1>1. CASE TryAgain \/ Prepared \/ \E c \in Cpus : Answer(c)
  BY <1>1, OpeningStep
<1>2. CASE Abandon \/ Cancel \/ Stopped \/ Clear \/ Tick
  BY <1>2, OtherStep
<1>3. CASE Start
  BY <1>3, StartStep
<1>4. ASSUME NEW c \in Cpus, SampleDispatch(c) \/ DisableNext(c) PROVE IInv'
  BY <1>4, DispatchStep, DisableStep
<1>5. ASSUME NEW c \in Cpus, Happens(c) PROVE IInv'
  BY <1>5, HappensStep
<1>6. CASE SampleFlush \/ SampleFlushEnd
  <2>1. flushing # Idle
    BY <1>6 DEF SampleFlush, FlushRecord, SampleFlushEnd, FlushEnd
  <2>2. PICK c \in Cpus : c = flushing.cpu
    BY <2>1, IdleType DEF IInv
  <2>3. PICK d \in Nat : d = Len(delivered[c]) + 1
    <3>1. delivered[c] \in Seq(Nat)
      BY DEF IInv, TypeOK
    <3> QED
      BY <3>1
  <2> QED
    BY <1>6, <2>2, <2>3, FlushStep, FlushEndStep
<1>7. CASE UNCHANGED vars
  <2>1. /\ UNCHANGED <<ring, head, log, data_tail, tail, flushing, delivered, kept, start_time>>
        /\ clock' \in Nat /\ clock <= clock'
    BY <1>7 DEF vars, perfVars, kernel, samplerVars, IInv, TypeOK
  <2>2. \A c \in Cpus : CpuInv(c)' /\ Times(c)' /\ Keeps(c)'
    BY <2>1, RingsKept
  <2>3. TypeOK' /\ Phases'
    BY <1>7 DEF vars, perfVars, kernel, samplerVars, IInv, TypeOK, Phases, Done
  <2> QED
    BY <2>2, <2>3 DEF IInv
<1> QED
  BY <1>1, <1>2, <1>3, <1>4, <1>5, <1>6, <1>7 DEF SamplerNext

-----------------------------------------------------------------------------
(* Sums.                                                                    *)

LEMMA LeastElement ==
  ASSUME NEW T \in SUBSET Nat, T # {}
  PROVE  \E x \in T : \A y \in T : x <= y
<1> DEFINE R == OpToRel(<, Nat)
<1>1. IsWellFoundedOn(R, Nat)
  BY NatLessThanWellFounded
<1>2. \A a, b \in Nat : a < b => <<a, b>> \in R
  BY DEF OpToRel
<1> HIDE DEF R
<1>3. PICK x \in T : \A y \in T : ~ (<<y, x>> \in R)
  BY <1>1, WFMin
<1>4. \A y \in T : x \in Nat /\ y \in Nat /\ ~ (y < x)
  BY <1>2, <1>3
<1>5. \A y \in T : x <= y
  BY <1>4
<1> QED
  BY <1>5

(* A set of numbers that has the next of each of its members.               *)
LEMMA AllNumbers ==
  ASSUME NEW S, 0 \in S, \A n \in Nat : n \in S => n + 1 \in S
  PROVE  Nat \subseteq S
<1> DEFINE T == {n \in Nat : n \notin S}
<1> SUFFICES ASSUME T # {} PROVE FALSE
  OBVIOUS
<1>1. PICK x \in T : \A y \in T : x <= y
  <2>1. T \in SUBSET Nat
    OBVIOUS
  <2> HIDE DEF T
  <2> QED
    BY <2>1, LeastElement
<1>2. x \in Nat \ {0} /\ x - 1 \in Nat /\ (x - 1) + 1 = x
  OBVIOUS
<1>3. x - 1 \in S
  BY <1>1, <1>2
<1> QED
  BY <1>2, <1>3

Pick(s) == CHOOSE x \in s : TRUE

(* g has the sum of f over every set of family A.                           *)
Adds(A, f, g) ==
  /\ g = [s \in A |-> IF s = {} THEN 0 ELSE f[Pick(s)] + g[s \ {Pick(s)}]]
  
Sized(C, n) == {s \in SUBSET C : Cardinality(s) <= n}

LEMMA PickType == ASSUME NEW s, s # {} PROVE Pick(s) \in s
BY DEF Pick

LEMMA SizedLess ==
  ASSUME NEW C, IsFiniteSet(C), NEW n \in Nat, NEW s \in Sized(C, n + 1), s # {}
  PROVE  /\ Pick(s) \in C /\ s \ {Pick(s)} \in Sized(C, n)
<1>1. Pick(s) \in s /\ s \in SUBSET C /\ Cardinality(s) <= n + 1
  BY PickType DEF Sized
<1>2. IsFiniteSet(s)
  BY <1>1, FS_Subset
<1>3. Cardinality(s) \in Nat
  BY <1>2, FS_CardinalityType
<1>4. Cardinality(s \ {Pick(s)}) = Cardinality(s) - 1
  BY <1>1, <1>2, FS_RemoveElement
<1> QED
  BY <1>1, <1>3, <1>4 DEF Sized

LEMMA SizedNone ==
  ASSUME NEW C, IsFiniteSet(C)
  PROVE  Sized(C, 0) = {{}}
<1>1. {} \in Sized(C, 0)
  BY FS_EmptySet DEF Sized
<1>2. ASSUME NEW s \in Sized(C, 0) PROVE s = {}
  <2>1. IsFiniteSet(s) /\ Cardinality(s) <= 0
    BY FS_Subset DEF Sized
  <2>2. Cardinality(s) \in Nat
    BY <2>1, FS_CardinalityType
  <2>3. Cardinality(s) = 0
    BY <2>1, <2>2
  <2> QED
    BY <2>1, <2>3, FS_EmptySet
<1> QED
  BY <1>1, <1>2

LEMMA SizedAll ==
  ASSUME NEW C, IsFiniteSet(C)
  PROVE  Sized(C, Cardinality(C)) = SUBSET C /\ Cardinality(C) \in Nat
BY FS_Subset, FS_CardinalityType DEF Sized

(* There are such sums.                                                     *)
LEMMA SumsExist ==
  ASSUME NEW C, IsFiniteSet(C), NEW f
  PROVE  \E g : Adds(SUBSET C, f, g)
<1> DEFINE S == {n \in Nat : \E g : Adds(Sized(C, n), f, g)}
<1>1. 0 \in S
  <2> DEFINE g == [s \in Sized(C, 0) |-> 0]
  <2>1. Adds(Sized(C, 0), f, g)
    BY SizedNone DEF Adds
  <2> QED
    BY <2>1
<1>2. ASSUME NEW n \in Nat, n \in S PROVE n + 1 \in S
  <2> DEFINE few == Sized(C, n)
             many == Sized(C, n + 1)
  <2>1. PICK g : Adds(few, f, g)
    BY <1>2
  <2> DEFINE h == [s \in many |-> IF s = {} THEN 0 ELSE f[Pick(s)] + g[s \ {Pick(s)}]]
  <2>2. few \subseteq many
    <3>1. ASSUME NEW s \in few PROVE s \in many
      <4>1. s \in SUBSET C /\ Cardinality(s) <= n
        BY DEF Sized
      <4>2. Cardinality(s) \in Nat
        BY <4>1, FS_Subset, FS_CardinalityType
      <4>3. Cardinality(s) <= n + 1
        BY <4>1, <4>2
      <4> QED
        BY <4>1, <4>3 DEF Sized
    <3> QED
      BY <3>1
  <2>3. \A s \in many : s # {} => s \ {Pick(s)} \in few
    BY SizedLess
  <2> HIDE DEF few, many
  <2>4. \A s \in few : h[s] = g[s]
    BY <2>1, <2>2 DEF Adds
  <2>5. Adds(many, f, h)
    BY <2>3, <2>4 DEF Adds
  <2> QED
    BY <2>5 DEF many
<1> HIDE DEF S
<1>3. Cardinality(C) \in S
  BY <1>1, <1>2, AllNumbers, SizedAll
<1> QED
  BY <1>3, SizedAll DEF S

(* What holds of a set if it holds of it without one element, holds of all. *)
LEMMA AllSubsets ==
  ASSUME NEW C, IsFiniteSet(C), NEW S, {} \in S,
         \A s \in SUBSET C : s # {} /\ s \ {Pick(s)} \in S => s \in S
  PROVE  C \in S
<1> DEFINE N == {n \in Nat : Sized(C, n) \subseteq S}
<1>1. 0 \in N
  BY SizedNone
<1>2. ASSUME NEW n \in Nat, n \in N PROVE n + 1 \in N
  <2>1. ASSUME NEW s \in Sized(C, n + 1) PROVE s \in S
    <3>1. s \in SUBSET C
      BY DEF Sized
    <3>2. s # {} => s \ {Pick(s)} \in Sized(C, n)
      BY <1>2, SizedLess
    <3> QED
      BY <1>2, <3>1, <3>2
  <2> QED
    BY <2>1
<1> HIDE DEF N
<1>3. Cardinality(C) \in N
  BY <1>1, <1>2, AllNumbers, SizedAll
<1> QED
  BY <1>3, SizedAll DEF N

(* The sum of f over C.                                                     *)
Sum(C, f) == (CHOOSE g : Adds(SUBSET C, f, g))[C]

LEMMA SumAdds ==
  ASSUME NEW C, IsFiniteSet(C), NEW f
  PROVE  \E g : Adds(SUBSET C, f, g) /\ Sum(C, f) = g[C]
BY SumsExist DEF Sum

LEMMA SumZero ==
  ASSUME NEW C, IsFiniteSet(C), NEW f, \A c \in C : f[c] = 0
  PROVE  Sum(C, f) = 0
<1>1. PICK g : Adds(SUBSET C, f, g) /\ Sum(C, f) = g[C]
  BY SumAdds
<1> DEFINE S == {s \in SUBSET C : g[s] = 0}
<1>2. {} \in S
  BY <1>1 DEF Adds
<1>3. ASSUME NEW s \in SUBSET C, s # {}, s \ {Pick(s)} \in S PROVE s \in S
  <2>1. g[s] = f[Pick(s)] + g[s \ {Pick(s)}]
    BY <1>1, <1>3 DEF Adds
  <2>2. Pick(s) \in C
    BY <1>3, PickType
  <2> QED
    BY <1>3, <2>1, <2>2
<1> HIDE DEF S
<1>4. C \in S
  BY <1>2, <1>3, AllSubsets
<1> QED
  BY <1>1, <1>4 DEF S

(* One number more.                                                         *)
More(f, h, c, n) == h[c] = f[c] + n
LEMMA SumMore ==
  ASSUME NEW C, IsFiniteSet(C), NEW f \in [C -> Int], NEW h \in [C -> Int],
         NEW c \in C, NEW n \in Int, More(f, h, c, n),
         \A e \in C \ {c} : h[e] = f[e]
  PROVE  Sum(C, h) = Sum(C, f) + n /\ Sum(C, f) \in Int
<1>1. PICK g : Adds(SUBSET C, f, g) /\ Sum(C, f) = g[C]
  BY SumAdds
<1>2. PICK k : Adds(SUBSET C, h, k) /\ Sum(C, h) = k[C]
  BY SumAdds
<1> DEFINE S == {s \in SUBSET C : g[s] \in Int /\ k[s] = IF c \in s THEN g[s] + n ELSE g[s]}
<1>3. {} \in S
  BY <1>1, <1>2 DEF Adds
<1>4. ASSUME NEW s \in SUBSET C, s # {}, s \ {Pick(s)} \in S PROVE s \in S
  <2> DEFINE x == Pick(s)
             t == s \ {x}
  <2>1. /\ g[s] = f[x] + g[t]
        /\ k[s] = h[x] + k[t]
    BY <1>1, <1>2, <1>4 DEF Adds
  <2>2. x \in C /\ x \in s
    BY <1>4, PickType
  <2>3. g[t] \in Int /\ k[t] = IF c \in t THEN g[t] + n ELSE g[t]
    BY <1>4
  <2>4. f[x] \in Int /\ h[x] \in Int
    BY <2>2
  <2>5. CASE x = c
    <3>1. c \notin t /\ c \in s
      BY <2>2, <2>5
    <3>2. h[x] = f[x] + n
      BY <2>5 DEF More
    <3> HIDE DEF x, t
    <3> QED
      BY <2>1, <2>3, <2>4, <3>1, <3>2
  <2>6. CASE x # c
    <3>1. c \in t <=> c \in s
      BY <2>6
    <3>2. h[x] = f[x]
      BY <2>2, <2>6
    <3> HIDE DEF x, t
    <3> QED
      BY <2>1, <2>3, <2>4, <3>1, <3>2
  <2> QED
    BY <2>5, <2>6
<1> HIDE DEF S
<1>5. C \in S
  BY <1>3, <1>4, AllSubsets
<1> QED
  BY <1>1, <1>2, <1>5 DEF S

(* Greater numbers have a greater sum.                                      *)
LEMMA SumUp ==
  ASSUME NEW C, IsFiniteSet(C), NEW f \in [C -> Nat], NEW h \in [C -> Nat],
         \A c \in C : f[c] <= h[c]
  PROVE  Sum(C, f) <= Sum(C, h)
<1>1. PICK g : Adds(SUBSET C, f, g) /\ Sum(C, f) = g[C]
  BY SumAdds
<1>2. PICK k : Adds(SUBSET C, h, k) /\ Sum(C, h) = k[C]
  BY SumAdds
<1> DEFINE S == {s \in SUBSET C : g[s] \in Nat /\ k[s] \in Nat /\ g[s] <= k[s]}
<1>3. {} \in S
  BY <1>1, <1>2 DEF Adds
<1>4. ASSUME NEW s \in SUBSET C, s # {}, s \ {Pick(s)} \in S PROVE s \in S
  <2> DEFINE x == Pick(s)
             t == s \ {x}
  <2>1. /\ g[s] = f[x] + g[t]
        /\ k[s] = h[x] + k[t]
    BY <1>1, <1>2, <1>4 DEF Adds
  <2>2. x \in C
    BY <1>4, PickType
  <2>3. f[x] \in Nat /\ h[x] \in Nat /\ f[x] <= h[x]
    BY <2>2
  <2>4. g[t] \in Nat /\ k[t] \in Nat /\ g[t] <= k[t]
    BY <1>4
  <2> HIDE DEF x, t
  <2> QED
    BY <2>1, <2>3, <2>4
<1> HIDE DEF S
<1>5. C \in S
  BY <1>3, <1>4, AllSubsets
<1> QED
  BY <1>1, <1>2, <1>5 DEF S

(* The sum of the community modules is this one.                            *)
LEMMA SumIs ==
  ASSUME IsFiniteSet(Cpus)
  PROVE  MapThenSumSet(LAMBDA c : dropped[c] - pending[c], Cpus)
           = Sum(Cpus, [c \in Cpus |-> dropped[c] - pending[c]])
<1> DEFINE f == [c \in Cpus |-> dropped[c] - pending[c]]
           Q(g) == g = [s \in SUBSET Cpus |->
                          IF s = {} THEN 0
                          ELSE (dropped[Pick(s)] - pending[Pick(s)]) + g[s \ {Pick(s)}]]
<1>1. MapThenSumSet(LAMBDA c : dropped[c] - pending[c], Cpus) = (CHOOSE g : Q(g))[Cpus]
  BY Zenon DEF MapThenSumSet, MapThenFoldSet, Pick
<1>2. \A g : Q(g) <=> Adds(SUBSET Cpus, f, g)
  <2>1. ASSUME NEW s \in SUBSET Cpus, s # {}
        PROVE  f[Pick(s)] = dropped[Pick(s)] - pending[Pick(s)]
    BY <2>1, PickType
  <2> HIDE DEF f
  <2> QED
    BY <2>1 DEF Adds
<1> QED
  BY <1>1, <1>2 DEF Sum

-----------------------------------------------------------------------------
(* The records that were dropped.                                           *)

(* What record r says was dropped, and what the records of a CPU have said  *)
(* in front of each of them: together all but what is pending.              *)
Says(r) == IF r.kind = "lost" THEN r.lost ELSE 0
Tally(lg, said, all) ==
  /\ said \in [1 .. Len(lg) + 1 -> Nat]
  /\ said[1] = 0 /\ said[Len(lg) + 1] = all
  /\ \A i \in 1 .. Len(lg) : said[i + 1] = said[i] + Says(lg[i])

(* What was said up to some record is not more than what all say.           *)
LEMMA TallyUp ==
  ASSUME NEW lg \in Seq(Record), NEW said, NEW all, Tally(lg, said, all),
         NEW i \in 1 .. Len(lg) + 1
  PROVE  said[i] <= all
<1> DEFINE S == {n \in Nat : n <= Len(lg) => said[Len(lg) + 1 - n] <= all}
<1>1. Len(lg) \in Nat /\ all \in Nat
  BY DEF Tally
<1>2. 0 \in S
  BY <1>1 DEF Tally
<1>3. ASSUME NEW n \in Nat, n \in S PROVE n + 1 \in S
  <2> SUFFICES ASSUME n + 1 <= Len(lg) PROVE said[Len(lg) + 1 - (n + 1)] <= all
    OBVIOUS
  <2> DEFINE k == Len(lg) - n
  <2>1. k \in 1 .. Len(lg) /\ k = Len(lg) - n /\ k \in 1 .. Len(lg) + 1
    BY <1>1
  <2> HIDE DEF k
  <2>2. said[k + 1] <= all
    <3>1. n <= Len(lg) /\ Len(lg) + 1 - n = k + 1
      BY <1>1, <2>1
    <3> QED
      BY <1>3, <3>1
  <2>3. said[k + 1] = said[k] + Says(lg[k]) /\ said[k] \in Nat
    BY <2>1 DEF Tally
  <2>4. Says(lg[k]) \in Nat
    <3>1. lg[k] \in Record
      BY <2>1
    <3> QED
      BY <3>1 DEF Says, Record
  <2>5. Len(lg) + 1 - (n + 1) = k
    BY <1>1, <2>1
  <2> QED
    BY <1>1, <2>2, <2>3, <2>4, <2>5
<1> HIDE DEF S
<1>4. Nat \subseteq S
  BY <1>2, <1>3, AllNumbers
<1> DEFINE n == Len(lg) + 1 - i
<1>5. n \in Nat /\ n <= Len(lg) /\ Len(lg) + 1 - n = i
  BY <1>1
<1> HIDE DEF n
<1>6. n \in S
  BY <1>4, <1>5
<1> QED
  BY <1>5, <1>6 DEF S

(* Up to the records that the callback was given, it is n.                  *)
Told(c, n) ==
  \E said : /\ Tally(log[c], said, dropped[c] - pending[c])
            /\ said[Len(delivered[c]) + 1] = n

(* The counter is what all CPUs have told; nothing happens on those that    *)
(* have no stream.                                                          *)
Silent(c) == ~enabled[c] /\ log[c] = <<>>
Counted ==
  /\ \A c \in Cpus : pending[c] <= dropped[c]
  /\ \A c \in Cpus : phase = "opening" \/ c \notin Streams => Silent(c)
  /\ \E f \in [Cpus -> Nat] : lost = Sum(Cpus, f) /\ \A c \in Cpus : Told(c, f[c])

LEMMA InitCounted == SamplerInit => Counted
<1> SUFFICES ASSUME SamplerInit PROVE Counted
  OBVIOUS
<1> USE DEF SamplerInit, Init
<1>1. \A c \in Cpus : pending[c] = 0 /\ dropped[c] = 0 /\ Silent(c)
  BY DEF Silent
<1> DEFINE f == [c \in Cpus |-> 0]
<1>2. Sum(Cpus, f) = 0 /\ lost = 0
  BY SumZero, SamplerAssumption DEF SamplerAssumption
<1>3. ASSUME NEW c \in Cpus PROVE Told(c, f[c])
  <2> DEFINE said == [i \in 1 .. 1 |-> 0]
  <2>1. log[c] = <<>> /\ delivered[c] = <<>> /\ Len(log[c]) = 0 /\ Len(delivered[c]) = 0
    OBVIOUS
  <2>2. Tally(log[c], said, 0) /\ said[Len(delivered[c]) + 1] = 0
    BY <2>1 DEF Tally
  <2> HIDE DEF said
  <2> QED
    BY <1>1, <2>2 DEF Told
<1>4. f \in [Cpus -> Nat]
  OBVIOUS
<1> HIDE DEF f, SamplerInit, Init
<1>5. lost = Sum(Cpus, f) /\ \A c \in Cpus : Told(c, f[c])
  BY <1>2, <1>3
<1>6. \A c \in Cpus : pending[c] <= dropped[c]
  <2>1. 0 <= 0
    OBVIOUS
  <2> QED
    BY <1>1, <2>1, Zenon
<1> QED
  BY <1>1, <1>4, <1>5, <1>6, Zenon DEF Counted

(* A step that nothing is recorded, dropped or delivered in.                *)
LEMMA CountKept ==
  ASSUME Counted, UNCHANGED <<log, pending, dropped, delivered, lost>>,
         \A c \in Cpus : phase' = "opening" \/ c \notin Streams' => Silent(c)'
  PROVE  Counted'
<1>1. PICK f \in [Cpus -> Nat] : lost = Sum(Cpus, f) /\ \A c \in Cpus : Told(c, f[c])
  BY DEF Counted
<1>2. \A c \in Cpus : Told(c, f[c])'
  BY <1>1 DEF Told
<1>3. lost' = Sum(Cpus, f)
  BY <1>1
<1>4. \A c \in Cpus : pending'[c] <= dropped'[c]
  BY DEF Counted
<1> QED
  BY <1>2, <1>3, <1>4 DEF Counted

(* The counter of the next attempt begins at 0, and so did the last.        *)
LEMMA AgainCounted ==
  ASSUME IInv, Counted, TryAgain
  PROVE  Counted'
<1>1. PICK f \in [Cpus -> Nat] : lost = Sum(Cpus, f) /\ \A c \in Cpus : Told(c, f[c])
  BY DEF Counted
<1>2. ASSUME NEW c \in Cpus PROVE f[c] = 0
  <2>1. log[c] = <<>> /\ Len(log[c]) = 0
    BY DEF Counted, TryAgain, Silent
  <2>2. Len(delivered[c]) <= Len(log[c]) /\ delivered[c] \in Seq(Nat)
    BY DEF IInv, CpuInv, TypeOK
  <2>3. Len(delivered[c]) = 0
    BY <2>1, <2>2
  <2> QED
    BY <1>1, <2>3 DEF Told, Tally
<1>3. Sum(Cpus, f) = 0
  BY <1>2, SumZero, SamplerAssumption DEF SamplerAssumption
<1>4. UNCHANGED <<log, pending, dropped, delivered, lost, enabled>>
  BY <1>1, <1>3 DEF TryAgain, perfVars, kernel
<1>5. \A c \in Cpus : Silent(c)
  BY DEF Counted, TryAgain
<1> QED
  BY <1>4, <1>5, CountKept DEF Silent

(* The kernel's steps tell of what is pending, or add to it.                *)
LEMMA HappensCounted ==
  ASSUME IInv, Counted, NEW c \in Cpus, Happens(c)
  PROVE  Counted'
<1> DEFINE r == [kind |-> "sample", size |-> SampleSize,
                 time |-> clock * NSEC_PER_USEC, lost |-> 0]
<1>1. /\ r.kind = "sample" /\ enabled[c]
      /\ KernelPut(c, r) \/ KernelDrop(c, r)
      /\ UNCHANGED <<phase, opened, lost, enabled, delivered>>
  BY DEF Happens, KernelPut, KernelDrop, samplerVars
<1> HIDE DEF r
<1>2. /\ log \in [Cpus -> Seq(Record)] /\ pending \in [Cpus -> Nat] /\ dropped \in [Cpus -> Nat]
      /\ log[c] \in Seq(Record) /\ Len(log[c]) \in Nat /\ delivered[c] \in Seq(Nat)
      /\ Len(delivered[c]) \in Nat /\ Len(delivered[c]) <= Len(log[c])
      /\ pending[c] \in Nat /\ dropped[c] \in Nat /\ pending[c] <= dropped[c]
  <2>1. log[c] \in Seq(Record) /\ delivered[c] \in Seq(Nat)
    BY DEF IInv, TypeOK
  <2> QED
    BY <2>1 DEF IInv, TypeOK, CpuInv, Counted
<1>3. c \in Streams /\ phase # "opening"
  BY <1>1 DEF Counted, Silent
<1>4. PICK f \in [Cpus -> Nat] : lost = Sum(Cpus, f) /\ \A e \in Cpus : Told(e, f[e])
  BY DEF Counted
<1>5. PICK said : /\ Tally(log[c], said, dropped[c] - pending[c])
                  /\ said[Len(delivered[c]) + 1] = f[c]
  BY <1>4 DEF Told
<1>6. ASSUME NEW e \in Cpus, e # c
      PROVE  log'[e] = log[e] /\ pending'[e] = pending[e] /\ dropped'[e] = dropped[e]
  BY <1>1, <1>2, <1>6 DEF KernelPut, KernelDrop
<1>7. Told(c, f[c])' /\ pending'[c] <= dropped'[c]
  <2> DEFINE n == Len(log[c])
             end == Len(delivered[c]) + 1
             told == dropped[c] - pending[c]
  <2>1. /\ said \in [1 .. n + 1 -> Nat] /\ said[1] = 0 /\ said[n + 1] = told
        /\ \A i \in 1 .. n : said[i + 1] = said[i] + Says(log[c][i])
        /\ end \in 1 .. n + 1 /\ told \in Nat /\ n \in Nat
    BY <1>2, <1>5 DEF Tally
  <2>2. CASE KernelDrop(c, r)
    <3>1. /\ log' = log /\ pending'[c] = pending[c] + 1 /\ dropped'[c] = dropped[c] + 1
      BY <1>2, <2>2 DEF KernelDrop
    <3>2. dropped'[c] - pending'[c] = told /\ pending'[c] <= dropped'[c]
      BY <1>2, <3>1
    <3> QED
      BY <1>1, <1>5, <3>1, <3>2 DEF Told
  <2>3. CASE KernelPut(c, r) /\ ~(pending[c] > 0)
    <3> DEFINE more == [i \in 1 .. n + 2 |-> IF i = n + 2 THEN told ELSE said[i]]
    <3>1. log'[c] = Append(log[c], r) /\ pending'[c] = 0 /\ dropped'[c] = dropped[c]
      BY <1>2, <2>3 DEF KernelPut
    <3>2. dropped'[c] - pending'[c] = told /\ pending'[c] <= dropped'[c]
      BY <1>2, <2>3, <3>1
    <3>3. /\ Len(log'[c]) = n + 1 /\ log'[c][n + 1] = r
          /\ \A i \in 1 .. n : log'[c][i] = log[c][i]
      BY <1>2, <3>1, AppendProperties
    <3>4. Says(r) = 0
      BY <1>1 DEF Says
    <3> HIDE DEF n, end, told
    <3>5. Tally(log'[c], more, told)
      <4>1. more \in [1 .. n + 2 -> Nat] /\ more[1] = 0 /\ more[n + 2] = told /\ (n + 1) + 1 = n + 2
        BY <2>1
      <4>2. ASSUME NEW i \in 1 .. n + 1 PROVE more[i + 1] = more[i] + Says(log'[c][i])
        <5>1. CASE i = n + 1
          <6>1. more[i + 1] = told /\ more[i] = said[n + 1]
            BY <2>1, <5>1
          <6>2. Says(log'[c][i]) = 0
            BY <3>3, <3>4, <5>1
          <6> HIDE DEF more
          <6> QED
            BY <2>1, <6>1, <6>2
        <5>2. CASE i \in 1 .. n
          <6>1. more[i + 1] = said[i + 1] /\ more[i] = said[i]
            BY <2>1, <5>2
          <6>2. said[i + 1] = said[i] + Says(log'[c][i])
            BY <2>1, <3>3, <5>2
          <6> QED
            BY <6>1, <6>2
        <5> QED
          BY <2>1, <5>1, <5>2
      <4> QED
        BY <3>3, <4>1, <4>2 DEF Tally
    <3>6. more[end] = f[c]
      BY <1>5, <2>1 DEF end
    <3> HIDE DEF more
    <3> QED
      BY <1>1, <3>2, <3>5, <3>6 DEF Told, end
  <2>4. CASE KernelPut(c, r) /\ pending[c] > 0
    <3> DEFINE lr == [kind |-> "lost", size |-> LostSize, time |-> r.time, lost |-> pending[c]]
               more == [i \in 1 .. n + 3 |-> IF i \in n + 2 .. n + 3 THEN dropped[c] ELSE said[i]]
    <3>1. log'[c] = log[c] \o <<lr, r>> /\ pending'[c] = 0 /\ dropped'[c] = dropped[c]
      BY <1>2, <2>4 DEF KernelPut
    <3>2. dropped'[c] - pending'[c] = dropped[c] /\ pending'[c] <= dropped'[c]
      BY <1>2, <3>1
    <3>3. Says(r) = 0 /\ Says(lr) = pending[c]
      BY <1>1 DEF Says
    <3> HIDE DEF lr
    <3>4. /\ Len(log'[c]) = n + 2 /\ log'[c][n + 1] = lr /\ log'[c][n + 2] = r
          /\ \A i \in 1 .. n : log'[c][i] = log[c][i]
      BY <1>2, <3>1
    <3>5. told + pending[c] = dropped[c] /\ dropped[c] \in Nat
      BY <1>2
    <3> HIDE DEF n, end, told
    <3>6. Tally(log'[c], more, dropped[c])
      <4>1. /\ more \in [1 .. n + 3 -> Nat] /\ more[1] = 0 /\ more[n + 3] = dropped[c]
            /\ (n + 2) + 1 = n + 3
        BY <2>1, <3>5
      <4>2. ASSUME NEW i \in 1 .. n + 2 PROVE more[i + 1] = more[i] + Says(log'[c][i])
        <5>1. CASE i = n + 2
          <6>1. more[i + 1] = dropped[c] /\ more[i] = dropped[c]
            BY <2>1, <5>1
          <6>2. Says(log'[c][i]) = 0
            BY <3>3, <3>4, <5>1
          <6> HIDE DEF more
          <6> QED
            BY <3>5, <6>1, <6>2
        <5>2. CASE i = n + 1
          <6>1. more[i + 1] = dropped[c] /\ more[i] = told
            BY <2>1, <5>2
          <6>2. Says(log'[c][i]) = pending[c]
            BY <3>3, <3>4, <5>2
          <6> HIDE DEF more
          <6> QED
            BY <3>5, <6>1, <6>2
        <5>3. CASE i \in 1 .. n
          <6>1. more[i + 1] = said[i + 1] /\ more[i] = said[i]
            BY <2>1, <5>3
          <6>2. said[i + 1] = said[i] + Says(log'[c][i])
            BY <2>1, <3>4, <5>3
          <6> QED
            BY <6>1, <6>2
        <5> QED
          BY <2>1, <5>1, <5>2, <5>3
      <4> QED
        BY <3>4, <4>1, <4>2 DEF Tally
    <3>7. more[end] = f[c]
      BY <1>5, <2>1 DEF end
    <3> HIDE DEF more
    <3> QED
      BY <1>1, <3>2, <3>6, <3>7 DEF Told, end
  <2> QED
    BY <1>1, <2>2, <2>3, <2>4
<1>8. \A e \in Cpus : Told(e, f[e])' /\ pending'[e] <= dropped'[e]
  <2> SUFFICES ASSUME NEW e \in Cpus, e # c PROVE Told(e, f[e])' /\ pending'[e] <= dropped'[e]
    BY <1>7
  <2> QED
    BY <1>1, <1>4, <1>6 DEF Told, Counted
<1>9. \A e \in Cpus : phase' = "opening" \/ e \notin Streams' => Silent(e)'
  <2>1. Streams' = Streams
    BY <1>1 DEF Streams
  <2> QED
    BY <1>1, <1>3, <1>6, <2>1 DEF Counted, Silent
<1>10. lost' = Sum(Cpus, f)
  BY <1>1, <1>4
<1> QED
  BY <1>8, <1>9, <1>10 DEF Counted

(* What a record says that goes through the callback is counted.            *)
LEMMA FlushCounted ==
  ASSUME IInv, Counted, SampleFlush
  PROVE  Counted'
<1>1. PICK c \in Cpus : c = flushing.cpu
  BY IdleType DEF SampleFlush, FlushRecord, IInv
<1>2. /\ flushing # Idle /\ Left >= 1
      /\ delivered' = [delivered EXCEPT ![c] = Append(@, RecordAt(c, flushing.tail))]
      /\ UNCHANGED <<log, pending, dropped, enabled, phase, opened>>
  BY <1>1 DEF SampleFlush, FlushRecord, kernel
<1>3. PICK d \in Nat : d = Len(delivered[c]) + 1
  <2>1. delivered[c] \in Seq(Nat)
    BY DEF IInv, TypeOK
  <2> QED
    BY <2>1
<1>4. d \in 1 .. Len(log[c]) /\ RecordAt(c, flushing.tail) = d
  BY <1>1, <1>2, <1>3, FlushFinds
<1>5. /\ delivered'[c] = Append(delivered[c], d) /\ delivered[c] \in Seq(Nat)
      /\ \A e \in Cpus \ {c} : delivered'[e] = delivered[e]
  BY <1>2, <1>4 DEF IInv, TypeOK
<1>6. Len(delivered'[c]) = d
  BY <1>3, <1>5
<1>7. Callback(c, d)
  BY <1>1, <1>3, <1>4 DEF SampleFlush
<1>8. log[c][d].lost \in Nat /\ lost \in Nat
  BY <1>4, RecordFields DEF IInv, TypeOK
<1>9. PICK n \in Nat : n = Says(log[c][d]) /\ lost' = lost + n
  <2>1. Says(log[c][d]) \in Nat /\ lost' = lost + Says(log[c][d])
    BY <1>7, <1>8 DEF Callback, Says
  <2> QED
    BY <2>1
<1>10. PICK f \in [Cpus -> Nat] : lost = Sum(Cpus, f) /\ \A e \in Cpus : Told(e, f[e])
  BY DEF Counted
<1>11. PICK h \in [Cpus -> Nat] : More(f, h, c, n) /\ \A e \in Cpus \ {c} : h[e] = f[e]
  <2> DEFINE more == [f EXCEPT ![c] = @ + n]
  <2>1. more \in [Cpus -> Nat] /\ More(f, more, c, n) /\ \A e \in Cpus \ {c} : more[e] = f[e]
    BY DEF More
  <2> QED
    BY <2>1
<1>12. h[c] = f[c] + n
  BY <1>11 DEF More
<1>13. Sum(Cpus, h) = Sum(Cpus, f) + n
  <2>1. IsFiniteSet(Cpus) /\ f \in [Cpus -> Int] /\ h \in [Cpus -> Int] /\ n \in Int
    BY <1>9, <1>11, SamplerAssumption DEF SamplerAssumption
  <2> QED
    BY <1>11, <2>1, SumMore
<1>14. Told(c, h[c])'
  <2>1. PICK said : /\ Tally(log[c], said, dropped[c] - pending[c])
                    /\ said[d] = f[c]
    BY <1>3, <1>10 DEF Told
  <2>2. said[d + 1] = said[d] + n
    BY <1>4, <1>9, <2>1 DEF Tally
  <2>3. Tally(log'[c], said, dropped'[c] - pending'[c])
    BY <1>2, <2>1
  <2>4. said[Len(delivered'[c]) + 1] = h[c]
    BY <1>6, <1>12, <2>1, <2>2
  <2> QED
    BY <2>3, <2>4 DEF Told
<1>15. ASSUME NEW e \in Cpus, e # c PROVE Told(e, h[e])'
  <2>1. PICK said : /\ Tally(log[e], said, dropped[e] - pending[e])
                    /\ said[Len(delivered[e]) + 1] = f[e]
    BY <1>10 DEF Told
  <2>2. h[e] = f[e] /\ delivered'[e] = delivered[e]
    BY <1>5, <1>11, <1>15
  <2> QED
    BY <1>2, <2>1, <2>2 DEF Told
<1>16. \A e \in Cpus : /\ pending'[e] <= dropped'[e]
                       /\ phase' = "opening" \/ e \notin Streams' => Silent(e)'
  BY <1>2 DEF Counted, Silent, Streams
<1>17. lost' = Sum(Cpus, h)
  BY <1>9, <1>10, <1>13
<1>18. \A e \in Cpus : Told(e, h[e])'
  BY <1>14, <1>15
<1> QED
  BY <1>16, <1>17, <1>18, Zenon DEF Counted

LEMMA NextCounted == ASSUME IInv, Counted, [SamplerNext]_vars PROVE Counted'
<1>1. CASE TryAgain
  BY <1>1, AgainCounted
<1>2. ASSUME NEW c \in Cpus, Happens(c) PROVE Counted'
  BY <1>2, HappensCounted
<1>3. CASE SampleFlush
  BY <1>3, FlushCounted
<1>4. CASE Prepared
  <2>1. UNCHANGED <<log, pending, dropped, delivered, lost, opened>>
    BY <1>4 DEF Prepared, Enable, kernel
  <2>a. PICK done \in SUBSET Streams : enabled' = [c \in Cpus |-> enabled[c] \/ c \in done]
    BY <1>4 DEF Prepared, Enable
  <2>2. ASSUME NEW c \in Cpus, phase' = "opening" \/ c \notin Streams' PROVE Silent(c)'
    <3>1. c \notin Streams /\ Silent(c)
      BY <1>4, <2>1, <2>2 DEF Prepared, Streams, Counted
    <3> QED
      BY <2>1, <2>a, <3>1 DEF Silent
  <2> QED
    BY <2>1, <2>2, CountKept
<1>5. ASSUME NEW c \in Cpus, Answer(c) PROVE Counted'
  <2>1. UNCHANGED <<log, pending, dropped, delivered, lost, enabled>> /\ phase = "opening"
    BY <1>5 DEF Answer, perfVars, kernel
  <2> QED
    BY <2>1, CountKept DEF Counted, Silent
<1>6. ASSUME UNCHANGED <<log, pending, dropped, delivered, lost, opened>>,
             \A c \in Cpus : enabled'[c] => enabled[c],
             phase' = "opening" => phase = "opening"
      PROVE  Counted'
  BY <1>6, CountKept DEF Counted, Silent, Streams
<1>7. CASE Abandon \/ Cancel \/ Stopped \/ Clear \/ Tick \/ Start \/ SampleFlushEnd
  BY <1>6, <1>7 DEF Abandon, Cancel, Stopped, Clear, Finalize, Tick, Start, SampleFlushEnd,
       FlushEnd, perfVars, kernel, samplerVars
<1>8. ASSUME NEW c \in Cpus, SampleDispatch(c) \/ DisableNext(c) PROVE Counted'
  <2>1. \A e \in Cpus : enabled'[e] => enabled[e]
    BY <1>8 DEF SampleDispatch, DisableNext, Dispatch, Disable, perfVars, IInv, TypeOK
  <2> QED
    BY <1>6, <1>8, <2>1 DEF SampleDispatch, DisableNext, Dispatch, Disable, perfVars, kernel,
         samplerVars
<1>9. CASE UNCHANGED vars
  BY <1>6, <1>9 DEF vars, perfVars, kernel, samplerVars
<1> QED
  BY <1>1, <1>2, <1>3, <1>4, <1>5, <1>7, <1>8, <1>9 DEF SamplerNext

-----------------------------------------------------------------------------
(* The theorems.                                                            *)

(* IInv is an inductive invariant of the sampler and its streams.           *)
THEOREM Invariance == SamplerSpec => []IInv
<1>1. SamplerInit => IInv
  BY InitIInv
<1>2. IInv /\ [SamplerNext]_vars => IInv'
  BY NextIInv
<1> QED
  BY <1>1, <1>2, PTL DEF SamplerSpec

(* The ring and the positions keep their types.                             *)
THEOREM TypeCorrect == SamplerSpec => []TypeOK
<1>1. IInv => TypeOK
  BY DEF IInv
<1> QED
  BY <1>1, Invariance, PTL

(* sysprof_perf_event_stream_flush() hands over each record that the kernel *)
(* put into the ring, whole, once and in order, for every size of the ring  *)
(* and of the records, and however the kernel adds and drops meanwhile.     *)
THEOREM RecordsCorrect == SamplerSpec => []RecordsIntact
<1>1. IInv => RecordsIntact
  BY DEF IInv, CpuInv, RecordsIntact
<1> QED
  BY <1>1, Invariance, PTL

(* A sampler that has stopped has been through all records of the streams   *)
(* it could disable, and has kept every sample in them younger than the     *)
(* start, also while a stream that could not be disabled goes on.           *)
THEOREM StopCorrect == SamplerSpec => []NothingLeftBehind
<1>1. IInv => NothingLeftBehind
  <2> SUFFICES ASSUME IInv, phase = "stopped", NEW c \in Streams, ~active[c]
               PROVE  /\ Len(delivered[c]) = Len(log[c])
                      /\ \A i \in 1 .. Len(log[c]) :
                           log[c][i].kind = "sample" /\ log[c][i].time > start_time * NSEC_PER_USEC =>
                             i \in kept[c]
    BY DEF NothingLeftBehind
  <2>1. c \in Cpus /\ Done(c) /\ start_time # 0
    BY DEF IInv, Phases, Streams
  <2>2. flushing.cpu # c
    BY <2>1, IdleType DEF IInv, Phases
  <2>3. tail[c] = head[c]
    BY <2>1, <2>2 DEF Done
  <2>4. /\ Len(delivered[c]) \in Nat /\ Len(log[c]) \in Nat
        /\ Len(delivered[c]) <= Len(log[c])
    <3>1. delivered[c] \in Seq(Nat) /\ log[c] \in Seq(Record)
      BY <2>1 DEF IInv, TypeOK
    <3> QED
      BY <2>1, <3>1 DEF IInv, CpuInv
  <2>5. PICK at : Chain(log[c], head[c], at) /\ Stands(c, at)
    BY <2>1 DEF IInv, CpuInv
  <2>6. at[Len(delivered[c]) + 1] = at[Len(log[c]) + 1]
    BY <2>2, <2>3, <2>5 DEF Chain, Stands
  <2>7. Len(delivered[c]) = Len(log[c])
    <3> SUFFICES ASSUME Len(delivered[c]) < Len(log[c]) PROVE FALSE
      BY <2>4
    <3>1. PICK d \in 1 .. Len(log[c]) : d = Len(delivered[c]) + 1
      BY <2>4
    <3>2. d < Len(log[c]) + 1 /\ d \in 1 .. Len(log[c]) + 1
          /\ Len(log[c]) + 1 \in 1 .. Len(log[c]) + 1
      BY <2>4
    <3>3. at[d] + log[c][d].size <= at[Len(log[c]) + 1] /\ at[d] \in Nat
      BY <2>5, <3>2 DEF Chain
    <3>4. log[c][d].size \in 1 .. Size
      BY <2>1, RecordFields DEF IInv
    <3> QED
      BY <2>6, <3>1, <3>3, <3>4, SizeType
  <2> QED
    BY <2>1, <2>7 DEF IInv, Keeps, Young
<1> QED
  BY <1>1, Invariance, PTL
(* The counter "Lost Samples" is at any moment the sum of what the records  *)
(* of all CPUs have said that went through the callback.                    *)
THEOREM CountCorrect == SamplerSpec => []Counted
<1>1. SamplerInit => Counted
  BY InitCounted
<1>2. IInv /\ Counted /\ [SamplerNext]_vars => Counted'
  BY NextCounted
<1> QED
  BY <1>1, <1>2, Invariance, PTL DEF SamplerSpec

(* The counter in the capture is at any moment at most the number of        *)
(* records the kernel dropped on all CPUs, but for those after the last     *)
(* record it put into a ring; and that number when the sampler has stopped  *)
(* and could disable all its streams.                                       *)
THEOREM LostCorrect == SamplerSpec => []LostCounted
<1>1. IInv /\ NothingLeftBehind /\ Counted => LostCounted
  <2> SUFFICES ASSUME IInv, NothingLeftBehind, Counted PROVE LostCounted
    OBVIOUS
  <2> DEFINE h == [c \in Cpus |-> dropped[c] - pending[c]]
  <2>1. PICK f \in [Cpus -> Nat] : lost = Sum(Cpus, f) /\ \A c \in Cpus : Told(c, f[c])
    BY DEF Counted
  <2>2. ASSUME NEW c \in Cpus
        PROVE  /\ f[c] <= h[c] /\ h[c] \in Nat
               /\ Len(delivered[c]) = Len(log[c]) => f[c] = h[c]
    <3>1. PICK said : /\ Tally(log[c], said, dropped[c] - pending[c])
                      /\ said[Len(delivered[c]) + 1] = f[c]
      BY <2>1 DEF Told
    <3>2. /\ log[c] \in Seq(Record) /\ Len(log[c]) \in Nat
          /\ Len(delivered[c]) + 1 \in 1 .. Len(log[c]) + 1
      <4>1. delivered[c] \in Seq(Nat) /\ log[c] \in Seq(Record)
        BY DEF IInv, TypeOK
      <4> QED
        BY <4>1 DEF IInv, CpuInv
    <3>3. h[c] = dropped[c] - pending[c]
      OBVIOUS
    <3> HIDE DEF h
    <3>4. h[c] \in Nat /\ (Len(delivered[c]) = Len(log[c]) => f[c] = h[c])
      BY <3>1, <3>2, <3>3 DEF Tally
    <3>5. f[c] <= h[c]
      <4>1. Tally(log[c], said, h[c])
        BY <3>1, <3>3
      <4>2. said[Len(delivered[c]) + 1] <= h[c]
        BY <3>2, <4>1, TallyUp
      <4> QED
        BY <3>1, <4>2
    <3> QED
      BY <3>4, <3>5
  <2>3. MapThenSumSet(LAMBDA c : dropped[c] - pending[c], Cpus) = Sum(Cpus, h)
    BY SumIs, SamplerAssumption DEF SamplerAssumption
  <2>4. h \in [Cpus -> Nat]
    BY <2>2
  <2>5. ASSUME phase = "stopped", \A c \in Cpus : ~active[c] PROVE f = h
    <3>1. ASSUME NEW c \in Cpus PROVE Len(delivered[c]) = Len(log[c])
      <4>1. CASE c \in Streams
        BY <2>5, <4>1 DEF NothingLeftBehind
      <4>2. CASE c \notin Streams
        <5>1. log[c] = <<>> /\ Len(log[c]) = 0
          BY <4>2 DEF Counted, Silent
        <5>2. delivered[c] \in Seq(Nat) /\ Len(delivered[c]) <= Len(log[c])
          BY DEF IInv, CpuInv, TypeOK
        <5> QED
          BY <5>1, <5>2
      <4> QED
        BY <4>1, <4>2
    <3>2. \A c \in Cpus : f[c] = h[c]
      BY <2>2, <3>1
    <3> HIDE DEF h
    <3> QED
      BY <2>4, <3>2
  <2> HIDE DEF h
  <2>6. Sum(Cpus, f) <= Sum(Cpus, h)
    BY <2>2, <2>4, SumUp, SamplerAssumption DEF SamplerAssumption
  <2> DEFINE told == MapThenSumSet(LAMBDA c : dropped[c] - pending[c], Cpus)
  <2>7. lost <= told /\ (phase = "stopped" /\ (\A c \in Cpus : ~active[c]) => lost = told)
    <3> HIDE DEF told
    <3>1. told = Sum(Cpus, h)
      BY <2>3 DEF told
    <3> QED
      BY <2>1, <2>5, <2>6, <3>1
  <2> QED
    BY <2>7, Zenon DEF LostCounted
<1> QED
  BY <1>1, Invariance, StopCorrect, CountCorrect, PTL
=============================================================================
