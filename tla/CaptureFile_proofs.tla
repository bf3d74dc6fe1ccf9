------------------------- MODULE CaptureFile_proofs -------------------------
(***************************************************************************)
(* What the walk along a capture file finds, and that loading in parts     *)
(* finds the same: proved for files of any length and any cells.           *)
(*                                                                         *)
(* The walk and the chain are recursive functions.  What they compute is   *)
(* proved by induction in the form that the provers can use: a set of      *)
(* numbers, and the least one outside of it.                               *)
(***************************************************************************)
EXTENDS CaptureFile, SequenceTheorems, FiniteSetTheorems, WellFoundedInduction, TLAPS

-----------------------------------------------------------------------------
(* Induction.                                                               *)

LEMMA LeastElement ==
  ASSUME NEW T \in SUBSET Nat, T # {}
  PROVE  \E x \in T : \A y \in T : x <= y
<1> DEFINE R == OpToRel(<, Nat)
<1>1. IsWellFoundedOn(R, Nat)
  BY NatLessThanWellFounded
<1>2. \A a, b \in Nat : a < b => <<a, b>> \in R
  BY DEF OpToRel
<1> HIDE DEF R
<1>3. PICK x \in T : \A y \in T : ~ (<<y, x>> \in R)
  BY <1>1, WFMin
<1>4. \A y \in T : x \in Nat /\ y \in Nat /\ ~ (y < x)
  BY <1>2, <1>3
<1>5. \A y \in T : x <= y
  BY <1>4
<1> QED
  BY <1>5

(* From below.                                                              *)
LEMMA Upwards ==
  ASSUME NEW last \in Nat, NEW S, 0 \in S,
         \A n \in 0 .. last - 1 : n \in S => n + 1 \in S
  PROVE  \A n \in 0 .. last : n \in S
<1> DEFINE T == {n \in 0 .. last : n \notin S}
<1> SUFFICES ASSUME T # {} PROVE FALSE
  OBVIOUS
<1>1. PICK x \in T : \A y \in T : x <= y
  <2>1. T \in SUBSET Nat
    OBVIOUS
  <2> HIDE DEF T
  <2> QED
    BY <2>1, LeastElement
<1>2. x \in 0 .. last /\ x # 0
  OBVIOUS
<1>3. x - 1 \in 0 .. last - 1 /\ x - 1 \in S
  BY <1>1, <1>2
<1>4. (x - 1) + 1 \in S
  BY <1>3
<1> QED
  BY <1>2, <1>4

(* From below, all smaller ones at once.                                    *)
LEMMA UpwardsAll ==
  ASSUME NEW last \in Nat, NEW S,
         \A n \in 0 .. last : (\A m \in 0 .. n - 1 : m \in S) => n \in S
  PROVE  \A n \in 0 .. last : n \in S
<1> DEFINE T == {n \in 0 .. last : n \notin S}
<1> SUFFICES ASSUME T # {} PROVE FALSE
  OBVIOUS
<1>1. PICK x \in T : \A y \in T : x <= y
  <2>1. T \in SUBSET Nat
    OBVIOUS
  <2> HIDE DEF T
  <2> QED
    BY <2>1, LeastElement
<1>2. \A m \in 0 .. x - 1 : m \in S
  BY <1>1
<1> QED
  BY <1>2

(* From the end.                                                            *)
LEMMA Downwards ==
  ASSUME NEW first \in Nat, NEW last \in Nat, NEW S,
         \A pos \in first .. last : (\A q \in pos + 1 .. last : q \in S) => pos \in S
  PROVE  \A pos \in first .. last : pos \in S
<1> DEFINE T == {n \in Nat : n <= last - first /\ last - n \notin S}
<1>1. ASSUME T # {} PROVE FALSE
  <2>1. PICK n \in T : \A m \in T : n <= m
    <3>1. T \in SUBSET Nat
      OBVIOUS
    <3> HIDE DEF T
    <3> QED
      BY <1>1, <3>1, LeastElement
  <2>2. last - n \in first .. last
    OBVIOUS
  <2>3. \A q \in (last - n) + 1 .. last : q \in S
    <3> SUFFICES ASSUME NEW q \in (last - n) + 1 .. last, q \notin S PROVE FALSE
      OBVIOUS
    <3>1. last - q \in Nat /\ last - q < n /\ last - q <= last - first /\ last - (last - q) = q
      OBVIOUS
    <3>2. last - q \in T
      BY <3>1
    <3> QED
      BY <2>1, <3>1, <3>2
  <2> QED
    BY <2>2, <2>3
<1> SUFFICES ASSUME NEW pos \in first .. last, pos \notin S PROVE FALSE
  OBVIOUS
<1>2. last - pos \in Nat /\ last - pos <= last - first /\ last - (last - pos) = pos
  OBVIOUS
<1> QED
  BY <1>1, <1>2

-----------------------------------------------------------------------------
(* The walk is what its definition says.                                    *)

FramesOf(C) == {c.frame : c \in C}
Result(C) == [frames : Seq(FramesOf(C)), valid : BOOLEAN]

(* One step of the walk, and the rest of it.                                *)
Onward(file, last, skipped, walk, pos) ==
  IF ~FrameAt(file, pos, last)
  THEN [frames |-> <<>>, valid |-> pos = last]
  ELSE LET f == At(file, pos).frame
           rest == walk[pos + f.len]
       IN  [frames |-> IF f.kind \in skipped THEN rest.frames ELSE <<f>> \o rest.frames,
            valid |-> rest.valid]

LEMMA Size ==
  ASSUME NEW C, NEW file \in Seq(C)
  PROVE  Len(file) \in Nat /\ Bytes(file) = Len(file) + 1 /\ Header = 1
BY DEF Bytes, Header

LEMMA AtCell ==
  ASSUME NEW C, NEW file \in Seq(C), NEW pos \in Header .. Bytes(file) - 1
  PROVE  At(file, pos) = file[pos] /\ pos \in 1 .. Len(file) /\ At(file, pos) \in C
BY Size DEF At, Header

(* The next frame is further on.                                            *)
LEMMA NextFrame ==
  ASSUME NEW C, NEW file \in Seq(C), NEW last \in Header .. Bytes(file),
         NEW pos \in Header .. last, FrameAt(file, pos, last)
  PROVE  LET f == At(file, pos).frame
         IN  /\ f.len \in Nat \ {0} /\ pos + f.len \in pos + 1 .. last
             /\ pos + f.len \in Header .. last
             /\ At(file, pos) \in C /\ f \in FramesOf(C)
<1>1. Len(file) \in Nat /\ Bytes(file) = Len(file) + 1 /\ Header = 1
  BY Size
<1>2. pos < last /\ At(file, pos).frame.len \in 1 .. last - pos
  BY DEF FrameAt
<1>3. At(file, pos) \in C
  BY <1>1, <1>2, AtCell
<1> QED
  BY <1>1, <1>2, <1>3 DEF FramesOf

LEMMA OnwardType ==
  ASSUME NEW C, NEW file \in Seq(C), NEW last \in Header .. Bytes(file), NEW skipped,
         NEW pos \in Header .. last, NEW walk,
         \A q \in pos + 1 .. last : walk[q] \in Result(C)
  PROVE  Onward(file, last, skipped, walk, pos) \in Result(C)
<1>1. CASE ~FrameAt(file, pos, last)
  <2>1. <<>> \in Seq(FramesOf(C)) /\ (pos = last) \in BOOLEAN
    OBVIOUS
  <2> QED
    BY <1>1, <2>1 DEF Onward, Result
<1>2. CASE FrameAt(file, pos, last)
  <2> DEFINE f == At(file, pos).frame
             rest == walk[pos + f.len]
  <2>1. pos + f.len \in pos + 1 .. last /\ f \in FramesOf(C)
    BY <1>2, NextFrame
  <2>2. rest \in Result(C)
    BY <2>1
  <2>3. rest.frames \in Seq(FramesOf(C)) /\ rest.valid \in BOOLEAN
    BY <2>2 DEF Result
  <2>4. <<f>> \in Seq(FramesOf(C))
    BY <2>1
  <2>5. <<f>> \o rest.frames \in Seq(FramesOf(C))
    BY <2>3, <2>4, ConcatProperties
  <2>6. Onward(file, last, skipped, walk, pos)
          = [frames |-> IF f.kind \in skipped THEN rest.frames ELSE <<f>> \o rest.frames,
             valid |-> rest.valid]
    BY <1>2 DEF Onward
  <2> HIDE DEF rest, f
  <2> QED
    BY <2>3, <2>5, <2>6 DEF Result
<1> QED
  BY <1>1, <1>2

LEMMA OnwardSame ==
  ASSUME NEW C, NEW file \in Seq(C), NEW last \in Header .. Bytes(file), NEW skipped,
         NEW pos \in Header .. last, NEW walk, NEW other,
         \A q \in pos + 1 .. last : walk[q] = other[q]
  PROVE  Onward(file, last, skipped, walk, pos) = Onward(file, last, skipped, other, pos)
<1>1. CASE ~FrameAt(file, pos, last)
  BY <1>1 DEF Onward
<1>2. CASE FrameAt(file, pos, last)
  <2>1. pos + At(file, pos).frame.len \in pos + 1 .. last
    BY <1>2, NextFrame
  <2>2. walk[pos + At(file, pos).frame.len] = other[pos + At(file, pos).frame.len]
    BY <2>1
  <2> QED
    BY <1>2, <2>2 DEF Onward
<1> QED
  BY <1>1, <1>2

(* A function that does from each offset what a step does: it is there from *)
(* the last offset on, and from one before.                                 *)
LEMMA WalkExists ==
  ASSUME NEW C, NEW file \in Seq(C), NEW last \in Header .. Bytes(file), NEW skipped
  PROVE  \E walk : walk = [pos \in Header .. last |-> Onward(file, last, skipped, walk, pos)]
<1> DEFINE D == Header .. last
           Right(g, n) == \A pos \in D : pos > last - n =>
                            g[pos] = Onward(file, last, skipped, g, pos)
           S == {n \in Nat : \E g \in [D -> Result(C)] : Right(g, n)}
           N == last - Header + 1
<1>1. Header = 1 /\ last \in Nat /\ N \in Nat /\ N = last
  BY Size
<1>2. 0 \in S
  <2> DEFINE g == [pos \in D |-> [frames |-> <<>>, valid |-> FALSE]]
  <2>1. <<>> \in Seq(FramesOf(C))
    OBVIOUS
  <2>2. g \in [D -> Result(C)]
    BY <2>1 DEF Result
  <2>3. Right(g, 0)
    BY <1>1
  <2> QED
    BY <2>2, <2>3
<1>3. ASSUME NEW n \in 0 .. N - 1, n \in S
      PROVE  n + 1 \in S
  <2>1. PICK g \in [D -> Result(C)] : Right(g, n)
    BY <1>3
  <2> DEFINE p == last - n
             h == [g EXCEPT ![p] = Onward(file, last, skipped, g, p)]
  <2>2. p \in D
    BY <1>1
  <2>3. Onward(file, last, skipped, g, p) \in Result(C)
    <3>1. \A q \in p + 1 .. last : g[q] \in Result(C)
      BY <1>1, <2>1, <2>2
    <3> QED
      BY <2>2, <3>1, OnwardType
  <2>4. h \in [D -> Result(C)]
    BY <2>1, <2>3
  <2>5. \A q \in p + 1 .. last : h[q] = g[q]
    BY <1>1, <2>1, <2>2
  <2>6. h[p] = Onward(file, last, skipped, g, p)
    BY <2>1, <2>2
  <2>7. ASSUME NEW pos \in D, pos > last - (n + 1)
        PROVE  h[pos] = Onward(file, last, skipped, h, pos)
    <3> HIDE DEF h
    <3>1. \A q \in pos + 1 .. last : h[q] = g[q]
      BY <1>1, <2>5, <2>7
    <3>2. Onward(file, last, skipped, h, pos) = Onward(file, last, skipped, g, pos)
      BY <3>1, OnwardSame
    <3>3. CASE pos = p
      BY <2>6, <3>2, <3>3
    <3>4. CASE pos # p
      <4>1. pos \in p + 1 .. last /\ pos > last - n
        BY <1>1, <2>7, <3>4
      <4>2. h[pos] = g[pos] /\ g[pos] = Onward(file, last, skipped, g, pos)
        BY <2>1, <2>5, <4>1
      <4> QED
        BY <3>2, <4>2
    <3> QED
      BY <3>3, <3>4
  <2>8. Right(h, n + 1)
    BY <2>7
  <2>9. n + 1 \in Nat
    BY <1>1
  <2> QED
    BY <2>4, <2>8, <2>9
<1>4. N \in S
  <2>1. \A n \in 0 .. N : n \in S
    <3> HIDE DEF S, N
    <3> QED
      BY <1>1, <1>2, <1>3, Upwards
  <2>2. N \in 0 .. N
    BY <1>1
  <2> HIDE DEF S, N
  <2> QED
    BY <2>1, <2>2
<1>5. PICK g \in [D -> Result(C)] : Right(g, N)
  BY <1>4
<1>6. \A pos \in D : g[pos] = Onward(file, last, skipped, g, pos)
  BY <1>1, <1>5
<1>7. g = [pos \in D |-> Onward(file, last, skipped, g, pos)]
  <2>1. g = [pos \in D |-> g[pos]]
    OBVIOUS
  <2> QED
    BY <1>6, <2>1
<1> QED
  BY <1>7

LEMMA WalkDef ==
  ASSUME NEW C, NEW file \in Seq(C), NEW last \in Header .. Bytes(file), NEW skipped
  PROVE  LET walk == Walk(file, last, skipped)
         IN  \A pos \in Header .. last : walk[pos] = Onward(file, last, skipped, walk, pos)
<1> DEFINE P(walk) == walk = [pos \in Header .. last |-> Onward(file, last, skipped, walk, pos)]
<1>1. \E walk : P(walk)
  BY WalkExists
<1>2. Walk(file, last, skipped) = CHOOSE walk : P(walk)
  BY DEF Walk, Onward
<1>3. P(Walk(file, last, skipped))
  <2> HIDE DEF P
  <2> QED
    BY <1>1, <1>2
<1> HIDE DEF P
<1>4. Walk(file, last, skipped)
        = [pos \in Header .. last |->
             Onward(file, last, skipped, Walk(file, last, skipped), pos)]
  BY <1>3 DEF P
<1> QED
  BY <1>4

(* The walk has a result from each offset.                                  *)
LEMMA WalkType ==
  ASSUME NEW C, NEW file \in Seq(C), NEW last \in Header .. Bytes(file), NEW skipped
  PROVE  \A pos \in Header .. last : Walk(file, last, skipped)[pos] \in Result(C)
<1> DEFINE walk == Walk(file, last, skipped)
           S == {pos \in Nat : walk[pos] \in Result(C)}
<1>1. Header \in Nat /\ last \in Nat
  BY Size
<1>2. ASSUME NEW pos \in Header .. last, \A q \in pos + 1 .. last : q \in S
      PROVE  pos \in S
  <2>1. \A q \in pos + 1 .. last : walk[q] \in Result(C)
    BY <1>2
  <2>2. walk[pos] = Onward(file, last, skipped, walk, pos)
    BY WalkDef
  <2>3. pos \in Nat
    BY <1>1
  <2> HIDE DEF walk
  <2> QED
    BY <2>1, <2>2, <2>3, OnwardType
<1>3. \A pos \in Header .. last : pos \in S
  <2> HIDE DEF S
  <2> QED
    BY <1>1, <1>2, Downwards
<1> QED
  BY <1>3

LEMMA WalkEnd ==
  ASSUME NEW C, NEW file \in Seq(C), NEW last \in Header .. Bytes(file), NEW skipped,
         NEW pos \in Header .. last, ~FrameAt(file, pos, last)
  PROVE  /\ Walk(file, last, skipped)[pos].frames = <<>>
         /\ Walk(file, last, skipped)[pos].valid <=> pos = last
<1>1. Walk(file, last, skipped)[pos] = [frames |-> <<>>, valid |-> pos = last]
  BY WalkDef DEF Onward
<1>2. CASE pos = last
  <2>1. Walk(file, last, skipped)[pos] = [frames |-> <<>>, valid |-> TRUE]
    BY <1>1, <1>2, Zenon
  <2> QED
    BY <1>2, <2>1
<1>3. CASE pos # last
  <2>1. (pos = last) = FALSE
    BY <1>3
  <2>2. Walk(file, last, skipped)[pos] = [frames |-> <<>>, valid |-> FALSE]
    BY <1>1, <2>1, Zenon
  <2> QED
    BY <1>3, <2>2
<1> QED
  BY <1>2, <1>3

(* From a frame on it goes as from behind the frame.                        *)
StepsOn(C, file, last, skipped, pos) ==
  LET f == At(file, pos).frame
      walk == Walk(file, last, skipped)
      rest == walk[pos + f.len]
  IN  /\ walk[pos].frames = IF f.kind \in skipped THEN rest.frames ELSE <<f>> \o rest.frames
      /\ walk[pos].valid = rest.valid
      /\ rest.frames \in Seq(FramesOf(C)) /\ <<f>> \in Seq(FramesOf(C))
LEMMA WalkStep ==
  ASSUME NEW C, NEW file \in Seq(C), NEW last \in Header .. Bytes(file), NEW skipped,
         NEW pos \in Header .. last, FrameAt(file, pos, last)
  PROVE  StepsOn(C, file, last, skipped, pos)
<1> DEFINE f == At(file, pos).frame
           walk == Walk(file, last, skipped)
           rest == walk[pos + f.len]
<1>1. pos + f.len \in Header .. last /\ f \in FramesOf(C)
  BY NextFrame
<1>2. rest \in Result(C)
  BY <1>1, WalkType
<1>3. walk[pos] = [frames |-> IF f.kind \in skipped THEN rest.frames
                              ELSE <<f>> \o rest.frames,
                   valid |-> rest.valid]
  <2>1. walk[pos] = Onward(file, last, skipped, walk, pos)
    BY WalkDef
  <2> HIDE DEF walk
  <2> QED
    BY <2>1 DEF Onward
<1>4. rest.frames \in Seq(FramesOf(C)) /\ <<f>> \in Seq(FramesOf(C))
  BY <1>1, <1>2 DEF Result
<1> HIDE DEF rest, walk, f
<1>5. /\ walk[pos].frames = IF f.kind \in skipped THEN rest.frames ELSE <<f>> \o rest.frames
      /\ walk[pos].valid = rest.valid
  BY <1>3
<1> QED
  BY <1>4, <1>5 DEF rest, walk, f, StepsOn

-----------------------------------------------------------------------------
(* Walks put together.                                                      *)

Assoc(a, b, c) == (a \o b) \o c = a \o (b \o c)
LEMMA ConcatAssoc ==
  ASSUME NEW S, NEW a \in Seq(S), NEW b \in Seq(S), NEW c \in Seq(S)
  PROVE  Assoc(a, b, c)
BY ConcatAssociative DEF Assoc

LEMMA ConcatType ==
  ASSUME NEW S, NEW a \in Seq(S), NEW b \in Seq(S)
  PROVE  a \o b \in Seq(S)
BY ConcatProperties

LEMMA ConcatEmpty ==
  ASSUME NEW S, NEW a \in Seq(S)
  PROVE  <<>> \o a = a /\ a \o <<>> = a
BY ConcatEmptySeq

(* What is walked to the end of a part is walked on behind it.              *)
JoinsOn(file, mid, last, skipped, pos) ==
  LET to == Walk(file, mid, skipped)
      on == Walk(file, last, skipped)
  IN  to[pos].valid => /\ on[pos].frames = to[pos].frames \o on[mid].frames
                       /\ on[pos].valid = on[mid].valid
LEMMA Join ==
  ASSUME NEW C, NEW file \in Seq(C), NEW last \in Header .. Bytes(file), NEW skipped,
         NEW mid \in Header .. last, NEW begin \in Header .. mid
  PROVE  JoinsOn(file, mid, last, skipped, begin)
<1> DEFINE to == Walk(file, mid, skipped)
           on == Walk(file, last, skipped)
           P(pos) == to[pos].valid => /\ on[pos].frames = to[pos].frames \o on[mid].frames
                                      /\ on[pos].valid = on[mid].valid
           S == {pos \in Nat : P(pos)}
<1>1. Header \in Nat /\ mid \in Nat /\ last \in Nat /\ mid \in Header .. Bytes(file)
  BY Size
<1> HIDE DEF S
<1>2. ASSUME NEW pos \in Header .. mid, \A q \in pos + 1 .. mid : q \in S, to[pos].valid
      PROVE  /\ on[pos].frames = to[pos].frames \o on[mid].frames
             /\ on[pos].valid = on[mid].valid
  <2>0. pos \in Header .. last /\ on[mid] \in Result(C)
    BY <1>1, WalkType
  <2>3. on[mid].frames \in Seq(FramesOf(C))
    BY <2>0 DEF Result
  <2>1. CASE ~FrameAt(file, pos, mid)
    <3>1. to[pos].frames = <<>> /\ (to[pos].valid <=> pos = mid)
      BY <1>1, <2>1, WalkEnd
    <3> HIDE DEF on, to
    <3> QED
      BY <1>2, <2>3, <3>1, ConcatEmpty
  <2>2. CASE FrameAt(file, pos, mid)
    <3> DEFINE f == At(file, pos).frame
               q == pos + f.len
    <3>1. q \in pos + 1 .. mid /\ q \in Header .. mid
      BY <1>1, <2>2, NextFrame
    <3>2. FrameAt(file, pos, last)
      BY <1>1, <2>2 DEF FrameAt
    <3>3. /\ to[pos].frames = IF f.kind \in skipped THEN to[q].frames ELSE <<f>> \o to[q].frames
          /\ to[pos].valid = to[q].valid
          /\ to[q].frames \in Seq(FramesOf(C)) /\ <<f>> \in Seq(FramesOf(C))
      <4>1. StepsOn(C, file, mid, skipped, pos)
        BY <1>1, <2>2, WalkStep
      <4> QED
        BY <4>1 DEF StepsOn
    <3>4. /\ on[pos].frames = IF f.kind \in skipped THEN on[q].frames ELSE <<f>> \o on[q].frames
          /\ on[pos].valid = on[q].valid
      <4>1. StepsOn(C, file, last, skipped, pos)
        BY <2>0, <3>2, WalkStep
      <4> QED
        BY <4>1 DEF StepsOn
    <3>6. q \in S
      BY <1>2, <3>1
    <3> HIDE DEF on, to, f, q
    <3>7. on[q].frames = to[q].frames \o on[mid].frames /\ on[q].valid = on[mid].valid
      BY <1>2, <3>3, <3>6 DEF S
    <3>8. (<<f>> \o to[q].frames) \o on[mid].frames = <<f>> \o (to[q].frames \o on[mid].frames)
      <4>1. Assoc(<<f>>, to[q].frames, on[mid].frames)
        BY <2>3, <3>3, ConcatAssoc
      <4> QED
        BY <4>1 DEF Assoc
    <3> QED
      BY <3>3, <3>4, <3>7, <3>8
  <2> QED
    BY <2>1, <2>2
<1>3. ASSUME NEW pos \in Header .. mid, \A q \in pos + 1 .. mid : q \in S
      PROVE  pos \in S
  <2>1. P(pos)
    BY <1>2, <1>3
  <2>2. pos \in Nat
    BY <1>1
  <2> QED
    BY <2>1, <2>2 DEF S
<1>4. \A pos \in Header .. mid : pos \in S
  BY <1>1, <1>3, Downwards
<1> QED
  BY <1>4 DEF S, JoinsOn

(* The same cells at another place are walked the same way.                 *)
Apart(pos, q, d) == q = pos + d
SameCells(file, last, other, d) ==
  \A pos \in Header .. last - 1 : At(file, pos) = At(other, pos + d)
LEMMA Moved ==
  ASSUME NEW C, NEW file \in Seq(C), NEW other \in Seq(C), NEW skipped, NEW d \in Nat,
         NEW last \in Header .. Bytes(file), NEW to \in Header .. Bytes(other), NEW begin \in Header .. last, NEW q,
         SameCells(file, last, other, d), Apart(last, to, d), Apart(begin, q, d)
  PROVE  Walk(other, to, skipped)[q] = Walk(file, last, skipped)[begin]
<1> DEFINE one == Walk(file, last, skipped)
           two == Walk(other, to, skipped)
           S == {pos \in Nat : two[pos + d] = one[pos]}
<1>1. Header \in Nat /\ last \in Nat /\ to = last + d /\ q = begin + d
  BY Size DEF Apart
<1> HIDE DEF S
<1>2. ASSUME NEW pos \in Header .. last, \A p \in pos + 1 .. last : p \in S
      PROVE  two[pos + d] = one[pos]
  <2>1. pos \in Nat /\ pos + d \in Header .. to
    BY <1>1
  <2>2. one[pos] = Onward(file, last, skipped, one, pos)
    BY WalkDef
  <2>3. two[pos + d] = Onward(other, to, skipped, two, pos + d)
    BY <2>1, WalkDef
  <2>4. pos < last => At(file, pos) = At(other, pos + d)
    BY <1>1, <2>1 DEF SameCells
  <2>5. FrameAt(file, pos, last) <=> FrameAt(other, pos + d, to)
    BY <1>1, <2>1, <2>4 DEF FrameAt
  <2> HIDE DEF one, two
  <2>6. CASE ~FrameAt(file, pos, last)
    <3>1. (pos = last) = (pos + d = to)
      BY <1>1, <2>1
    <3>2. /\ one[pos] = [frames |-> <<>>, valid |-> pos = last]
          /\ two[pos + d] = [frames |-> <<>>, valid |-> pos + d = to]
      BY <2>2, <2>3, <2>5, <2>6, Zenon DEF Onward
    <3> QED
      BY <3>1, <3>2, Zenon
  <2>7. CASE FrameAt(file, pos, last)
    <3> DEFINE f == At(file, pos).frame
    <3>1. f = At(other, pos + d).frame
      BY <1>1, <2>4, <2>7 DEF FrameAt
    <3>2. pos + f.len \in pos + 1 .. last /\ f.len \in Nat
      BY <2>7, NextFrame
    <3>3. two[(pos + d) + f.len] = one[pos + f.len]
      <4>1. two[(pos + f.len) + d] = one[pos + f.len]
        BY <1>2, <3>2 DEF S, one, two
      <4>2. (pos + f.len) + d = (pos + d) + f.len
        <5> HIDE DEF f
        <5> QED
          BY <2>1, <3>2
      <4> QED
        BY <4>1, <4>2
    <3>4. /\ Onward(file, last, skipped, one, pos)
              = [frames |-> IF f.kind \in skipped THEN one[pos + f.len].frames
                            ELSE <<f>> \o one[pos + f.len].frames,
                 valid |-> one[pos + f.len].valid]
          /\ Onward(other, to, skipped, two, pos + d)
              = [frames |-> IF f.kind \in skipped THEN two[(pos + d) + f.len].frames
                            ELSE <<f>> \o two[(pos + d) + f.len].frames,
                 valid |-> two[(pos + d) + f.len].valid]
      BY <2>5, <2>7, <3>1 DEF Onward
    <3> QED
      BY <2>2, <2>3, <3>3, <3>4
  <2> QED
    BY <2>6, <2>7
<1>3. ASSUME NEW pos \in Header .. last, \A p \in pos + 1 .. last : p \in S
      PROVE  pos \in S
  <2>1. pos \in Nat
    BY <1>1
  <2> QED
    BY <1>2, <1>3, <2>1 DEF S
<1>4. \A pos \in Header .. last : pos \in S
  BY <1>1, <1>3, Downwards
<1> QED
  BY <1>1, <1>4 DEF S

(* Cells in front of or behind other cells.                                 *)
LEMMA AtJoined ==
  ASSUME NEW C, NEW a \in Seq(C), NEW b \in Seq(C)
  PROVE  /\ a \o b \in Seq(C) /\ Bytes(a \o b) = Bytes(a) + Len(b)
         /\ Bytes(a \o b) = Bytes(b) + Len(a)
         /\ \A pos \in Header .. Bytes(a) - 1 : At(a \o b, pos) = At(a, pos)
         /\ \A pos \in Header .. Bytes(b) - 1 : At(a \o b, pos + Len(a)) = At(b, pos)
<1>1. /\ a \o b \in Seq(C) /\ Len(a \o b) = Len(a) + Len(b)
      /\ \A i \in 1 .. Len(a) : (a \o b)[i] = a[i]
      /\ \A i \in 1 .. Len(b) : (a \o b)[Len(a) + i] = b[i]
  BY ConcatProperties
<1>2. /\ Len(a) \in Nat /\ Bytes(a) = Len(a) + 1 /\ Header = 1
      /\ Len(b) \in Nat /\ Bytes(b) = Len(b) + 1
      /\ Bytes(a \o b) = Len(a \o b) + 1
  BY Size DEF Bytes, Header
<1>3. ASSUME NEW pos \in Header .. Bytes(a) - 1
      PROVE  At(a \o b, pos) = At(a, pos)
  BY <1>1, <1>2 DEF At
<1>4. ASSUME NEW pos \in Header .. Bytes(b) - 1
      PROVE  At(a \o b, pos + Len(a)) = At(b, pos)
  <2> DEFINE c == a \o b
             n == Len(a)
  <2>1. c[n + pos] = b[pos]
    BY <1>1, <1>2
  <2>2. n \in Nat /\ pos \in Nat
    BY <1>2
  <2> HIDE DEF c, n
  <2>3. (pos + n) - 1 + 1 = n + pos /\ pos - 1 + 1 = pos
    BY <2>2
  <2>4. At(c, pos + n) = c[n + pos] /\ At(b, pos) = b[pos]
    BY <2>3 DEF At, Header
  <2> QED
    BY <2>1, <2>4 DEF c, n
<1> QED
  BY <1>1, <1>2, <1>3, <1>4

LEMMA WalkFront ==
  ASSUME NEW C, NEW a \in Seq(C), NEW b \in Seq(C), NEW skipped,
         NEW last \in Header .. Bytes(a), NEW pos \in Header .. last
  PROVE  Walk(a \o b, last, skipped)[pos] = Walk(a, last, skipped)[pos]
<1> DEFINE other == a \o b
<1>1. /\ other \in Seq(C) /\ last \in Header .. Bytes(other)
      /\ Apart(last, last, 0) /\ Apart(pos, pos, 0)
  BY Size, AtJoined DEF Apart
<1>2. SameCells(a, last, other, 0)
  BY Size, AtJoined DEF SameCells
<1> HIDE DEF other
<1>3. Walk(other, last, skipped)[pos] = Walk(a, last, skipped)[pos]
  BY <1>1, <1>2, Moved
<1> QED
  BY <1>1, <1>3 DEF other

LEMMA WalkBack ==
  ASSUME NEW C, NEW a \in Seq(C), NEW b \in Seq(C), NEW skipped
  PROVE  Walk(a \o b, Bytes(a \o b), skipped)[Bytes(a)] = Walk(b, Bytes(b), skipped)[Header]
<1> DEFINE other == a \o b
           last == Bytes(b)
           to == Bytes(a \o b)
           d == Len(a)
           q == Bytes(a)
           h == Header
<1>1. /\ other \in Seq(C) /\ Apart(last, to, d) /\ d \in Nat
      /\ Apart(h, q, d) /\ h \in Header .. last
      /\ last \in Header .. Bytes(b) /\ to \in Header .. Bytes(other)
  BY Size, AtJoined DEF Apart
<1>2. SameCells(b, last, other, d)
  BY AtJoined DEF SameCells
<1> HIDE DEF other, last, to, d, q, h
<1>3. Walk(other, to, skipped)[q] = Walk(b, last, skipped)[h]
  BY <1>1, <1>2, Moved
<1> QED
  BY <1>3 DEF other, last, to, q, h

(* A file behind one that the walk gets through.                            *)
Through(file, skipped) == Walk(file, Bytes(file), skipped)[Header]
Joined(a, b, skipped) ==
  /\ Through(a \o b, skipped).frames = Through(a, skipped).frames \o Through(b, skipped).frames
  /\ Through(a \o b, skipped).valid = Through(b, skipped).valid
LEMMA WalkJoined ==
  ASSUME NEW C, NEW a \in Seq(C), NEW b \in Seq(C), NEW skipped, Through(a, skipped).valid
  PROVE  Joined(a, b, skipped)
<1> DEFINE file == a \o b
           mid == Bytes(a)
<1>1. /\ file \in Seq(C) /\ Bytes(file) \in Header .. Bytes(file)
      /\ mid \in Header .. Bytes(file) /\ Header \in Header .. mid
      /\ mid \in Header .. Bytes(a)
  BY Size, AtJoined
<1>2. Walk(file, mid, skipped)[Header] = Walk(a, Bytes(a), skipped)[Header]
  BY <1>1, WalkFront
<1>3. Walk(file, Bytes(file), skipped)[mid] = Walk(b, Bytes(b), skipped)[Header]
  BY WalkBack
<1>4. Walk(file, mid, skipped)[Header].valid
  BY <1>2 DEF Through
<1> HIDE DEF file, mid
<1>5. /\ Walk(file, Bytes(file), skipped)[Header].frames
           = Walk(file, mid, skipped)[Header].frames \o Walk(file, Bytes(file), skipped)[mid].frames
      /\ Walk(file, Bytes(file), skipped)[Header].valid
           = Walk(file, Bytes(file), skipped)[mid].valid
  <2>1. JoinsOn(file, mid, Bytes(file), skipped, Header)
    BY <1>1, Join
  <2> QED
    BY <1>4, <2>1 DEF JoinsOn
<1> QED
  BY <1>2, <1>3, <1>5 DEF Through, file, Joined

(* Which kinds are skipped does not matter to where the walk comes out.     *)
LEMMA ValidAnyway ==
  ASSUME NEW C, NEW file \in Seq(C), NEW last \in Header .. Bytes(file), NEW skipped, NEW others,
         NEW begin \in Header .. last
  PROVE  Walk(file, last, skipped)[begin].valid <=> Walk(file, last, others)[begin].valid
<1> DEFINE one == Walk(file, last, skipped)
           two == Walk(file, last, others)
           S == {pos \in Nat : one[pos].valid <=> two[pos].valid}
<1>1. Header \in Nat /\ last \in Nat
  BY Size
<1> HIDE DEF S
<1>2. ASSUME NEW pos \in Header .. last, \A q \in pos + 1 .. last : q \in S
      PROVE  pos \in S
  <2>1. CASE ~FrameAt(file, pos, last)
    <3>1. (one[pos].valid <=> pos = last) /\ (two[pos].valid <=> pos = last)
      BY <2>1, WalkEnd
    <3>2. pos \in Nat
      BY <1>1
    <3> QED
      BY <3>1, <3>2 DEF S
  <2>2. CASE FrameAt(file, pos, last)
    <3> DEFINE q == pos + At(file, pos).frame.len
    <3>1. q \in S /\ pos \in Nat
      BY <1>1, <1>2, <2>2, NextFrame
    <3>2. StepsOn(C, file, last, skipped, pos) /\ StepsOn(C, file, last, others, pos)
      BY <2>2, WalkStep
    <3>3. one[pos].valid = one[q].valid /\ two[pos].valid = two[q].valid
      BY <3>2 DEF StepsOn
    <3> QED
      BY <3>1, <3>3 DEF S
  <2> QED
    BY <2>1, <2>2
<1>3. begin \in S
  BY <1>1, <1>2, Downwards
<1> QED
  BY <1>3 DEF S

Valid(file) == Scan(file, Header, Bytes(file)).valid
LEMMA ValidThrough ==
  ASSUME NEW C, NEW file \in Seq(C), NEW skipped
  PROVE  /\ Through(file, skipped).valid <=> Valid(file)
         /\ Through(file, skipped).frames \in Seq(FramesOf(C))
<1>1. Bytes(file) \in Header .. Bytes(file) /\ Header \in Header .. Bytes(file)
  BY Size
<1>2. Through(file, skipped).valid <=> Valid(file)
  BY <1>1, ValidAnyway DEF Through, Valid, Scan
<1>3. Through(file, skipped) \in Result(C)
  BY <1>1, WalkType DEF Through
<1> QED
  BY <1>2, <1>3 DEF Result

(* What is found in one frame, and in nothing.                              *)
LEMMA ThroughCells ==
  ASSUME NEW C, NEW f, Cells(f) \in Seq(C), f.len \in Nat \ {0}, NEW skipped
  PROVE  /\ Through(Cells(f), skipped).frames = IF f.kind \in skipped THEN <<>> ELSE <<f>>
         /\ Valid(Cells(f)) /\ Len(Cells(f)) = f.len
<1> DEFINE file == Cells(f)
           last == Bytes(file)
           on == Walk(file, last, skipped)
<1>1. Len(file) = f.len /\ Header = 1 /\ last = f.len + 1
  BY Size DEF Cells
<1>2. At(file, Header) = [frame |-> f, off |-> 0]
  BY <1>1 DEF At, Cells
<1> HIDE DEF file
<1>3. /\ last \in Header .. Bytes(file) /\ Header \in Header .. last /\ Header + f.len = last
      /\ FrameAt(file, Header, last) /\ At(file, Header).frame = f
  BY <1>1, <1>2 DEF FrameAt
<1>4. StepsOn(C, file, last, skipped, Header) /\ file \in Seq(C)
  BY <1>3, WalkStep DEF file
<1>5. /\ on[Header].frames = IF f.kind \in skipped THEN on[last].frames ELSE <<f>> \o on[last].frames
      /\ on[Header].valid = on[last].valid /\ <<f>> \in Seq(FramesOf(C))
  BY <1>3, <1>4 DEF StepsOn
<1>6. last \in Header .. last /\ ~FrameAt(file, last, last)
  BY <1>1 DEF FrameAt
<1>7. on[last].frames = <<>> /\ on[last].valid
  BY <1>3, <1>4, <1>6, WalkEnd
<1>8. on[Header].frames = IF f.kind \in skipped THEN <<>> ELSE <<f>>
  BY <1>5, <1>7, ConcatEmpty
<1>9. Through(file, skipped).frames = (IF f.kind \in skipped THEN <<>> ELSE <<f>>)
      /\ Through(file, skipped).valid
  BY <1>5, <1>7, <1>8 DEF Through
<1> QED
  BY <1>1, <1>4, <1>9, ValidThrough DEF file

LEMMA ThroughNothing ==
  ASSUME NEW skipped
  PROVE  Through(<<>>, skipped).frames = <<>> /\ Valid(<<>>)
<1> DEFINE file == <<>>
           C == {}
<1>1. file \in Seq(C) /\ Len(file) = 0
  OBVIOUS
<1> HIDE DEF file
<1>2. Bytes(file) = Header /\ Header \in Nat
  BY <1>1 DEF Bytes, Header
<1>3. Header \in Header .. Bytes(file) /\ ~FrameAt(file, Header, Header)
  BY <1>2 DEF FrameAt
<1>4. Walk(file, Header, skipped)[Header].frames = <<>> /\ Walk(file, Header, skipped)[Header].valid
  <2> HIDE DEF C
  <2>1. Header \in Header .. Header
    BY <1>2
  <2> QED
    BY <1>1, <1>3, <2>1, WalkEnd
<1>5. Through(file, skipped).frames = <<>> /\ Through(file, skipped).valid
  BY <1>2, <1>4 DEF Through
<1> HIDE DEF C
<1> QED
  BY <1>1, <1>5, ValidThrough DEF file

-----------------------------------------------------------------------------
(* The chain of index frames.                                               *)

(* One link of the chain, and those before it.                              *)
Before(file, pos) == At(file, pos).frame.prev
Link(file, chain, pos) ==
  IF pos = 0 THEN <<>>
  ELSE IF IsIndex(file, pos) /\ Before(file, pos) \in 0 .. pos - 1
       THEN IF chain[Before(file, pos)] = Broken THEN Broken
            ELSE Append(chain[Before(file, pos)], pos)
       ELSE Broken

LEMMA LinkType ==
  ASSUME NEW file, NEW pos \in Nat, NEW chain, \A q \in 0 .. pos - 1 : chain[q] \in Seq(Nat)
  PROVE  Link(file, chain, pos) \in Seq(Nat)
<1>1. <<>> \in Seq(Nat) /\ Broken \in Seq(Nat)
  BY DEF Broken
<1>2. Before(file, pos) \in 0 .. pos - 1 =>
        Append(chain[Before(file, pos)], pos) \in Seq(Nat)
  <2> DEFINE before == Before(file, pos)
  <2>1. before \in 0 .. pos - 1 => chain[before] \in Seq(Nat)
    OBVIOUS
  <2> HIDE DEF before
  <2>2. before \in 0 .. pos - 1 => Append(chain[before], pos) \in Seq(Nat)
    BY <2>1
  <2> QED
    BY <2>2 DEF before
<1> QED
  BY <1>1, <1>2 DEF Link

LEMMA LinkSame ==
  ASSUME NEW file, NEW pos \in Nat, NEW chain, NEW other,
         \A q \in 0 .. pos - 1 : chain[q] = other[q]
  PROVE  Link(file, chain, pos) = Link(file, other, pos)
BY DEF Link

LEMMA ChainExists ==
  ASSUME NEW C, NEW file \in Seq(C)
  PROVE  \E chain : chain = [pos \in 0 .. Bytes(file) - 1 |-> Link(file, chain, pos)]
<1> DEFINE N == Bytes(file)
           D == 0 .. N - 1
           Right(g, n) == \A pos \in D : pos < n => g[pos] = Link(file, g, pos)
           S == {n \in Nat : \E g \in [D -> Seq(Nat)] : Right(g, n)}
<1>1. N \in Nat
  BY Size
<1> HIDE DEF N
<1>2. 0 \in S
  <2> DEFINE g == [pos \in D |-> <<>>]
  <2>1. g \in [D -> Seq(Nat)]
    OBVIOUS
  <2>2. Right(g, 0)
    BY <1>1
  <2> QED
    BY <2>1, <2>2
<1>3. ASSUME NEW n \in 0 .. N - 1, n \in S
      PROVE  n + 1 \in S
  <2>1. PICK g \in [D -> Seq(Nat)] : Right(g, n)
    BY <1>3
  <2> DEFINE h == [g EXCEPT ![n] = Link(file, g, n)]
  <2>2. n \in D /\ n \in Nat /\ n + 1 \in Nat
    BY <1>1
  <2>3. Link(file, g, n) \in Seq(Nat)
    <3>1. \A q \in 0 .. n - 1 : g[q] \in Seq(Nat)
      BY <1>1, <2>1, <2>2
    <3> QED
      BY <2>2, <3>1, LinkType
  <2>4. h \in [D -> Seq(Nat)]
    BY <2>1, <2>3
  <2>5. \A q \in 0 .. n - 1 : h[q] = g[q]
    BY <1>1, <2>1, <2>2
  <2>6. h[n] = Link(file, g, n)
    BY <2>1, <2>2
  <2> HIDE DEF h
  <2>7. ASSUME NEW pos \in D, pos < n + 1
        PROVE  h[pos] = Link(file, h, pos)
    <3>1. pos \in Nat /\ \A q \in 0 .. pos - 1 : h[q] = g[q]
      BY <1>1, <2>2, <2>5, <2>7
    <3>2. Link(file, h, pos) = Link(file, g, pos)
      BY <3>1, LinkSame
    <3>3. CASE pos = n
      BY <2>6, <3>2, <3>3
    <3>4. CASE pos # n
      <4>1. pos \in 0 .. n - 1 /\ pos < n
        BY <1>1, <2>7, <3>4
      <4>2. h[pos] = g[pos] /\ g[pos] = Link(file, g, pos)
        BY <2>1, <2>5, <4>1
      <4> QED
        BY <3>2, <4>2
    <3> QED
      BY <3>3, <3>4
  <2>8. Right(h, n + 1)
    BY <2>7
  <2> QED
    BY <2>2, <2>4, <2>8
<1>4. N \in S
  <2> HIDE DEF S
  <2>1. \A n \in 0 .. N : n \in S
    BY <1>1, <1>2, <1>3, Upwards
  <2>2. N \in 0 .. N
    BY <1>1
  <2> QED
    BY <2>1, <2>2
<1>5. PICK g \in [D -> Seq(Nat)] : Right(g, N)
  BY <1>4
<1>6. \A pos \in D : g[pos] = Link(file, g, pos)
  BY <1>1, <1>5
<1>7. g = [pos \in D |-> Link(file, g, pos)]
  <2>1. g = [pos \in D |-> g[pos]]
    OBVIOUS
  <2> QED
    BY <1>6, <2>1
<1> QED
  BY <1>7 DEF N

LEMMA ChainDef ==
  ASSUME NEW C, NEW file \in Seq(C), NEW pos \in 0 .. Bytes(file) - 1
  PROVE  ChainTo(file)[pos] = Link(file, ChainTo(file), pos)
<1> DEFINE P(chain) == chain = [q \in 0 .. Bytes(file) - 1 |-> Link(file, chain, q)]
<1>1. \E chain : P(chain)
  BY ChainExists
<1>2. ChainTo(file) = CHOOSE chain : P(chain)
  BY DEF ChainTo, Link, Before
<1>3. P(ChainTo(file))
  <2> HIDE DEF P
  <2> QED
    BY <1>1, <1>2
<1> HIDE DEF P
<1>4. ChainTo(file) = [q \in 0 .. Bytes(file) - 1 |-> Link(file, ChainTo(file), q)]
  BY <1>3 DEF P
<1> QED
  BY <1>4

(* A chain that is not broken goes along index frames, to the one that it   *)
(* was asked for.                                                           *)
Along(file, at, pos) ==
  /\ at \in Seq(Nat)
  /\ at # Broken => /\ \A i \in 1 .. Len(at) : IsIndex(file, at[i])
                    /\ IF pos = 0 THEN at = <<>> ELSE Len(at) > 0 /\ at[Len(at)] = pos

LEMMA ChainShape ==
  ASSUME NEW C, NEW file \in Seq(C)
  PROVE  \A pos \in 0 .. Bytes(file) - 1 : Along(file, ChainTo(file)[pos], pos)
<1> DEFINE chain == ChainTo(file)
           N == Bytes(file) - 1
           S == {pos \in Nat : Along(file, chain[pos], pos)}
<1>1. N \in Nat
  BY Size
<1>2. \A pos \in 0 .. N : chain[pos] = Link(file, chain, pos)
  BY ChainDef
<1> HIDE DEF chain, N
<1>3. ASSUME NEW pos \in 0 .. N, \A q \in 0 .. pos - 1 : q \in S
      PROVE  pos \in S
  <2>1. pos \in Nat /\ \A q \in 0 .. pos - 1 : Along(file, chain[q], q)
    BY <1>1, <1>3
  <2> HIDE DEF S
  <2>2. CASE pos = 0
    <3>1. chain[pos] = <<>>
      BY <1>2, <2>2 DEF Link
    <3>2. Along(file, <<>>, 0)
      BY DEF Along
    <3> QED
      BY <2>2, <3>1, <3>2 DEF S
  <2>3. CASE pos # 0 /\ chain[pos] = Broken
    <3>1. Broken \in Seq(Nat)
      BY DEF Broken
    <3> QED
      BY <2>1, <2>3, <3>1 DEF S, Along
  <2>4. CASE pos # 0 /\ chain[pos] # Broken
    <3> DEFINE before == chain[Before(file, pos)]
    <3>1. /\ IsIndex(file, pos) /\ Before(file, pos) \in 0 .. pos - 1
          /\ before # Broken /\ chain[pos] = Append(before, pos)
      BY <1>2, <2>4 DEF Link
    <3>2. Along(file, before, Before(file, pos))
      BY <2>1, <3>1
    <3> HIDE DEF before
    <3>3. /\ before \in Seq(Nat) /\ Len(before) \in Nat
          /\ \A i \in 1 .. Len(before) : IsIndex(file, before[i])
      BY <3>1, <3>2 DEF Along
    <3>4. /\ Append(before, pos) \in Seq(Nat) /\ Len(Append(before, pos)) = Len(before) + 1
          /\ \A i \in 1 .. Len(before) : Append(before, pos)[i] = before[i]
          /\ Append(before, pos)[Len(before) + 1] = pos
      BY <2>1, <3>3
    <3> DEFINE at == Append(before, pos)
    <3> HIDE DEF at
    <3>5. at \in Seq(Nat) /\ Len(at) > 0 /\ at[Len(at)] = pos
      BY <3>3, <3>4 DEF at
    <3>6. ASSUME NEW i \in 1 .. Len(at)
          PROVE  IsIndex(file, at[i])
      <4>1. CASE i \in 1 .. Len(before)
        BY <3>3, <3>4, <4>1 DEF at
      <4>2. CASE i = Len(before) + 1
        BY <3>1, <3>4, <4>2 DEF at
      <4> QED
        BY <3>3, <3>4, <4>1, <4>2 DEF at
    <3> QED
      BY <2>1, <2>4, <3>1, <3>5, <3>6 DEF S, Along, at
  <2> QED
    BY <2>2, <2>3, <2>4
<1>4. \A pos \in 0 .. N : pos \in S
  <2> HIDE DEF S
  <2> QED
    BY <1>1, <1>3, UpwardsAll
<1> QED
  BY <1>4 DEF chain, N

(* What is written behind a file leaves its index frames and its chain.     *)
LEMMA IndexKept ==
  ASSUME NEW C, NEW a \in Seq(C), NEW b \in Seq(C), NEW pos, IsIndex(a, pos)
  PROVE  IsIndex(a \o b, pos) /\ At(a \o b, pos) = At(a, pos)
<1>1. /\ Header = 1 /\ Bytes(a) \in Nat /\ Len(b) \in Nat
      /\ Bytes(a \o b) = Bytes(a) + Len(b)
  BY Size, AtJoined
<1>2. pos \in Header .. Bytes(a) - 1
  BY DEF IsIndex
<1>3. At(a \o b, pos) = At(a, pos)
  BY <1>2, AtJoined
<1> QED
  BY <1>1, <1>2, <1>3 DEF IsIndex, FrameAt

LEMMA ChainKept ==
  ASSUME NEW C, NEW a \in Seq(C), NEW b \in Seq(C), NEW last \in 0 .. Bytes(a) - 1,
         ChainTo(a)[last] # Broken
  PROVE  ChainTo(a \o b)[last] = ChainTo(a)[last]
<1> DEFINE file == a \o b
           one == ChainTo(a)
           two == ChainTo(file)
           N == Bytes(a) - 1
           S == {pos \in Nat : one[pos] # Broken => two[pos] = one[pos]}
<1>1. N \in Nat /\ \A pos \in 0 .. N : pos \in Nat /\ pos \in 0 .. Bytes(file) - 1
  BY Size, AtJoined
<1>2. /\ \A pos \in 0 .. N : one[pos] = Link(a, one, pos)
      /\ \A pos \in 0 .. N : two[pos] = Link(file, two, pos)
  <2>1. file \in Seq(C)
    BY AtJoined
  <2> QED
    BY <1>1, <2>1, ChainDef
<1>3. \A pos : IsIndex(a, pos) => IsIndex(file, pos) /\ At(file, pos) = At(a, pos)
  BY IndexKept
<1> HIDE DEF one, two, file, N, S
<1>4. ASSUME NEW pos \in 0 .. N, \A q \in 0 .. pos - 1 : q \in S
      PROVE  pos \in S
  <2>1. CASE one[pos] = Broken
    BY <1>1, <2>1 DEF S
  <2>2. CASE pos = 0
    BY <1>1, <1>2, <2>2 DEF Link, S
  <2>3. CASE one[pos] # Broken /\ pos # 0
    <3> DEFINE q == Before(a, pos)
    <3>1. IsIndex(a, pos) /\ q \in 0 .. pos - 1 /\ one[q] # Broken /\ one[pos] = Append(one[q], pos)
      BY <1>2, <2>3 DEF Link
    <3>2. IsIndex(file, pos) /\ Before(file, pos) = q
      BY <1>3, <3>1 DEF Before
    <3> HIDE DEF q
    <3>3. two[q] = one[q]
      BY <1>4, <3>1 DEF S
    <3>4. two[pos] = Append(one[q], pos)
      BY <1>2, <2>3, <3>1, <3>2, <3>3 DEF Link
    <3> QED
      BY <1>1, <3>1, <3>4 DEF S
  <2> QED
    BY <2>1, <2>2, <2>3
<1>5. last \in S
  BY <1>1, <1>4, UpwardsAll DEF N
<1> QED
  BY <1>5 DEF S, one, two, file

(* From each of these places in the file an index frame leads back to       *)
(* another one, or to none.                                                 *)
Linked(cells, places) ==
  \A pos \in places :
    /\ IsIndex(cells, pos)
    /\ At(cells, pos).frame.prev \in places \cup {0}
    /\ At(cells, pos).frame.prev < pos

(* The chain from such a place is not broken.                               *)
LEMMA LinkedChain ==
  ASSUME NEW C, NEW file \in Seq(C), NEW places \in SUBSET Nat, Linked(file, places),
         NEW last \in places \cup {0}
  PROVE  last \in 0 .. Bytes(file) - 1 /\ ChainTo(file)[last] # Broken
<1> DEFINE chain == ChainTo(file)
           N == Bytes(file) - 1
           S == {pos \in Nat : pos \in places \cup {0} => chain[pos] # Broken}
<1>1. N \in Nat /\ Header = 1
  BY Size
<1>2. \A pos \in 0 .. N : chain[pos] = Link(file, chain, pos)
  BY ChainDef
<1>3. \A pos \in places : pos \in 1 .. N /\ IsIndex(file, pos) /\ Before(file, pos) \in places \cup {0}
                           /\ Before(file, pos) < pos
  BY <1>1 DEF Linked, IsIndex, Before
<1> HIDE DEF chain, N, S
<1>4. ASSUME NEW pos \in 0 .. N, \A q \in 0 .. pos - 1 : q \in S
      PROVE  pos \in S
  <2>1. pos \in Nat
    OBVIOUS
  <2>2. CASE pos = 0
    <3>1. chain[pos] = <<>> /\ <<>> # Broken
      BY <1>2, <2>2 DEF Link, Broken
    <3> QED
      BY <2>1, <3>1 DEF S
  <2>3. CASE pos # 0 /\ pos \notin places
    BY <2>1, <2>3 DEF S
  <2>4. CASE pos # 0 /\ pos \in places
    <3> DEFINE q == Before(file, pos)
    <3> HIDE DEF q
    <3>1. IsIndex(file, pos) /\ q \in places \cup {0} /\ q \in 0 .. pos - 1
      <4>1. q < pos /\ q \in places \cup {0}
        BY <1>3, <2>4 DEF q
      <4>2. q \in Nat
        BY <4>1
      <4> QED
        BY <1>3, <2>1, <2>4, <4>1, <4>2
    <3>2. chain[q] # Broken
      BY <1>4, <3>1 DEF S
    <3>3. chain[pos] = Append(chain[q], pos)
      BY <1>2, <2>4, <3>1, <3>2 DEF Link, q
    <3>4. Append(chain[q], pos) # Broken
      <4>1. q \in 0 .. N
        BY <1>1, <3>1
      <4>2. Along(file, chain[q], q)
        BY <4>1, ChainShape DEF chain, N
      <4>3. chain[q] \in Seq(Nat)
        BY <4>2 DEF Along
      <4>4. /\ Len(Append(chain[q], pos)) = Len(chain[q]) + 1 /\ Len(chain[q]) \in Nat
            /\ Append(chain[q], pos)[Len(chain[q]) + 1] = pos
        BY <2>1, <4>3
      <4>5. Broken = <<0>> /\ Len(Broken) = 1 /\ Broken[1] = 0
        BY DEF Broken
      <4> QED
        BY <2>4, <4>4, <4>5
    <3> QED
      BY <2>1, <3>3, <3>4 DEF S
  <2> QED
    BY <2>2, <2>3, <2>4
<1>5. last \in 0 .. N
  BY <1>1, <1>3
<1>6. last \in S
  BY <1>1, <1>4, <1>5, UpwardsAll
<1> QED
  BY <1>5, <1>6 DEF S, N, chain

(* All on the chain are such places.                                        *)
LEMMA LinkedOnly ==
  ASSUME NEW C, NEW file \in Seq(C), NEW places \in SUBSET Nat, Linked(file, places),
         NEW last \in places \cup {0}
  PROVE  \A i \in 1 .. Len(ChainTo(file)[last]) : ChainTo(file)[last][i] \in places
<1> DEFINE chain == ChainTo(file)
           N == Bytes(file) - 1
           On(to) == \A i \in 1 .. Len(to) : to[i] \in places
           S == {pos \in Nat : pos \in places \cup {0} => On(chain[pos])}
<1>1. N \in Nat /\ Header = 1
  BY Size
<1>2. \A pos \in 0 .. N : chain[pos] = Link(file, chain, pos)
  BY ChainDef
<1>3. \A pos \in places : pos \in 1 .. N /\ IsIndex(file, pos) /\ Before(file, pos) \in places \cup {0}
                           /\ Before(file, pos) < pos
  BY <1>1 DEF Linked, IsIndex, Before
<1> HIDE DEF chain, N, S
<1>4. ASSUME NEW pos \in 0 .. N, \A q \in 0 .. pos - 1 : q \in S
      PROVE  pos \in S
  <2>1. pos \in Nat
    OBVIOUS
  <2>2. CASE pos = 0
    <3>1. chain[pos] = <<>>
      BY <1>2, <2>2 DEF Link
    <3>2. On(<<>>)
      OBVIOUS
    <3> HIDE DEF On
    <3> QED
      BY <2>1, <3>1, <3>2 DEF S
  <2>3. CASE pos # 0 /\ pos \notin places
    BY <2>1, <2>3 DEF S
  <2>4. CASE pos # 0 /\ pos \in places
    <3> DEFINE q == Before(file, pos)
    <3> HIDE DEF q
    <3>1. IsIndex(file, pos) /\ q \in places \cup {0} /\ q \in 0 .. pos - 1
      <4>1. q < pos /\ q \in places \cup {0}
        BY <1>3, <2>4 DEF q
      <4>2. q \in Nat
        BY <4>1
      <4> QED
        BY <1>3, <2>1, <2>4, <4>1, <4>2
    <3>2. On(chain[q])
      BY <1>4, <3>1 DEF S
    <3>3. chain[q] # Broken
      <4>1. ChainTo(file)[q] # Broken
        BY <3>1, LinkedChain
      <4> QED
        BY <4>1 DEF chain
    <3>4. chain[pos] = Append(chain[q], pos)
      BY <1>2, <2>4, <3>1, <3>3 DEF Link, q
    <3>5. On(Append(chain[q], pos))
      <4>1. q \in 0 .. N
        BY <1>1, <3>1
      <4>2. Along(file, chain[q], q)
        BY <4>1, <3>3, ChainShape DEF chain, N
      <4>3. chain[q] \in Seq(Nat)
        BY <4>2 DEF Along
      <4>4. /\ Len(Append(chain[q], pos)) = Len(chain[q]) + 1 /\ Len(chain[q]) \in Nat
            /\ Append(chain[q], pos)[Len(chain[q]) + 1] = pos
            /\ \A i \in 1 .. Len(chain[q]) : Append(chain[q], pos)[i] = chain[q][i]
        BY <2>1, <4>3
      <4> QED
        BY <2>4, <3>2, <4>4
    <3> HIDE DEF On
    <3> QED
      BY <2>1, <3>4, <3>5 DEF S
  <2> QED
    BY <2>2, <2>3, <2>4
<1>5. last \in 0 .. N
  BY <1>1, <1>3
<1>6. last \in S
  BY <1>1, <1>4, <1>5, UpwardsAll
<1> QED
  BY <1>5, <1>6 DEF S, N, chain

(* An index frame behind the file makes the chain one longer.               *)
NextLink(file, f, last) ==
  LET all == file \o Cells(f)
      pos == Bytes(file)
  IN  /\ IsIndex(all, pos) /\ At(all, pos).frame = f
      /\ pos \in 0 .. Bytes(all) - 1
      /\ ChainTo(all)[pos] = Append(ChainTo(file)[last], pos)
LEMMA ChainLonger ==
  ASSUME NEW C, NEW file \in Seq(C), NEW last \in 0 .. Bytes(file) - 1,
         ChainTo(file)[last] # Broken,
         NEW f, Cells(f) \in Seq(C), f.kind = "index", f.prev = last, f.len \in Nat \ {0}
  PROVE  NextLink(file, f, last)
<1> DEFINE more == Cells(f)
           all == file \o more
           pos == Bytes(file)
<1>1. more \in Seq(C) /\ Len(more) = f.len /\ At(more, Header) = [frame |-> f, off |-> 0]
  <2>1. Len(more) = f.len
    BY DEF Cells
  <2>2. At(more, Header) = [frame |-> f, off |-> 0]
    BY DEF Cells, At, Header
  <2> QED
    BY <2>1, <2>2
<1> HIDE DEF more
<1>2. /\ Header = 1 /\ pos \in Nat /\ pos = Len(file) + 1 /\ Len(file) \in Nat
      /\ Bytes(more) = f.len + 1
  <2>1. Bytes(more) = Len(more) + 1
    BY <1>1, Size
  <2> QED
    BY <1>1, <2>1, Size
<1>3. /\ all \in Seq(C) /\ Bytes(all) = pos + f.len
      /\ At(all, Header + Len(file)) = At(more, Header)
  <2>1. all \in Seq(C) /\ Bytes(all) = pos + Len(more)
    BY <1>1, AtJoined
  <2>2. Header \in Header .. Bytes(more) - 1
    BY <1>2
  <2>3. At(all, Header + Len(file)) = At(more, Header)
    BY <1>1, <2>2, AtJoined
  <2> QED
    BY <1>1, <2>1, <2>3
<1>4. At(all, pos) = [frame |-> f, off |-> 0]
  <2>1. Header + Len(file) = pos
    BY <1>2
  <2> QED
    BY <1>1, <1>3, <2>1
<1>5. ChainTo(all)[last] = ChainTo(file)[last]
  BY <1>1, ChainKept
<1> HIDE DEF all, pos
<1>6. IsIndex(all, pos) /\ pos \in 0 .. Bytes(all) - 1 /\ last \in 0 .. pos - 1
  BY <1>2, <1>3, <1>4 DEF IsIndex, FrameAt, pos
<1>7. Before(all, pos) = last
  BY <1>4 DEF Before
<1>8. ChainTo(all)[pos] = Link(all, ChainTo(all), pos)
  BY <1>3, <1>6, ChainDef
<1>9. ChainTo(all)[pos] = Append(ChainTo(file)[last], pos)
  BY <1>2, <1>5, <1>6, <1>7, <1>8 DEF Link
<1> QED
  BY <1>4, <1>6, <1>9 DEF all, pos, more, NextLink

-----------------------------------------------------------------------------
(* Sequences one behind the other.                                          *)

LEMMA OfLength ==
  ASSUME NEW T, NEW n \in Nat, NEW s \in [1 .. n -> T]
  PROVE  s \in Seq(T) /\ Len(s) = n
OBVIOUS

LEMMA FlattenExists ==
  ASSUME NEW T, NEW seqs \in Seq(Seq(T)), Len(seqs) > 0
  PROVE  \E flat : flat = [i \in 1 .. Len(seqs) |-> IF i = 1 THEN seqs[i]
                                                    ELSE flat[i - 1] \o seqs[i]]
<1> DEFINE N == Len(seqs)
           D == 1 .. N
           Put(g, i) == IF i = 1 THEN seqs[i] ELSE g[i - 1] \o seqs[i]
           Right(g, n) == \A i \in D : i <= n => g[i] = Put(g, i)
           S == {n \in Nat : \E g \in [D -> Seq(T)] : Right(g, n)}
<1>1. N \in Nat /\ \A i \in D : seqs[i] \in Seq(T)
  OBVIOUS
<1> HIDE DEF N
<1>2. 0 \in S
  <2> DEFINE g == [i \in D |-> <<>>]
  <2>1. g \in [D -> Seq(T)]
    OBVIOUS
  <2>2. Right(g, 0)
    BY <1>1
  <2> QED
    BY <2>1, <2>2
<1>3. ASSUME NEW n \in 0 .. N - 1, n \in S
      PROVE  n + 1 \in S
  <2>1. PICK g \in [D -> Seq(T)] : Right(g, n)
    BY <1>3
  <2> DEFINE m == n + 1
             h == [g EXCEPT ![m] = Put(g, m)]
  <2>2. m \in D /\ m \in Nat /\ n \in Nat
    BY <1>1
  <2>3. Put(g, m) \in Seq(T)
    <3>1. CASE m = 1
      BY <1>1, <2>2, <3>1
    <3>2. CASE m # 1
      <4>1. g[m - 1] \in Seq(T) /\ seqs[m] \in Seq(T)
        BY <1>1, <2>1, <2>2, <3>2
      <4> HIDE DEF m
      <4>2. g[m - 1] \o seqs[m] \in Seq(T)
        BY <4>1, ConcatProperties
      <4> QED
        BY <3>2, <4>2
    <3> QED
      BY <3>1, <3>2
  <2> HIDE DEF Put
  <2>4. h \in [D -> Seq(T)]
    BY <2>1, <2>3
  <2>5. \A i \in D : i # m => h[i] = g[i]
    BY <2>1, <2>2
  <2>6. h[m] = Put(g, m)
    BY <2>1, <2>2
  <2> HIDE DEF h
  <2>7. ASSUME NEW i \in D, i <= m
        PROVE  h[i] = Put(h, i)
    <3>1. i \in Nat /\ (i # 1 => i - 1 \in D /\ i - 1 # m)
      BY <1>1, <2>2, <2>7
    <3>2. i # 1 => h[i - 1] = g[i - 1]
      BY <2>5, <3>1
    <3>3. Put(h, i) = Put(g, i)
      BY <3>2 DEF Put
    <3>4. CASE i = m
      BY <2>6, <3>3, <3>4
    <3>5. CASE i # m
      <4>1. i <= n
        BY <2>2, <2>7, <3>1, <3>5
      <4>2. h[i] = g[i] /\ g[i] = Put(g, i)
        BY <2>1, <2>5, <3>5, <4>1
      <4> QED
        BY <3>3, <4>2
    <3> QED
      BY <3>4, <3>5
  <2>8. Right(h, n + 1)
    BY <2>7
  <2> QED
    BY <2>2, <2>4, <2>8
<1>4. N \in S
  <2> HIDE DEF S
  <2>1. \A n \in 0 .. N : n \in S
    BY <1>1, <1>2, <1>3, Upwards
  <2>2. N \in 0 .. N
    BY <1>1
  <2> QED
    BY <2>1, <2>2
<1>5. PICK g \in [D -> Seq(T)] : Right(g, N)
  BY <1>4
<1> HIDE DEF Put
<1>6. \A i \in D : g[i] = Put(g, i)
  BY <1>1, <1>5
<1>7. g = [i \in D |-> Put(g, i)]
  <2>1. g = [i \in D |-> g[i]]
    OBVIOUS
  <2> QED
    BY <1>6, <2>1
<1> QED
  BY <1>7 DEF N, Put

Flattens(flat, seqs) ==
  /\ FlattenSeq(seqs) = flat[Len(seqs)] /\ flat[1] = seqs[1]
  /\ \A i \in 2 .. Len(seqs) : flat[i] = flat[i - 1] \o seqs[i]
LEMMA FlattenDef ==
  ASSUME NEW T, NEW seqs \in Seq(Seq(T)), Len(seqs) > 0
  PROVE  \E flat : Flattens(flat, seqs)
<1> DEFINE P(flat) == flat = [i \in 1 .. Len(seqs) |-> IF i = 1 THEN seqs[i]
                                                       ELSE flat[i - 1] \o seqs[i]]
           flat == CHOOSE flat : P(flat)
<1>1. \E g : P(g)
  BY FlattenExists
<1>2. P(flat)
  <2> HIDE DEF P
  <2> QED
    BY <1>1
<1>3. FlattenSeq(seqs) = flat[Len(seqs)]
  BY DEF FlattenSeq
<1> HIDE DEF flat
<1>4. \A i \in 1 .. Len(seqs) : flat[i] = IF i = 1 THEN seqs[i] ELSE flat[i - 1] \o seqs[i]
  BY <1>2
<1>5. Len(seqs) \in Nat /\ 1 \in 1 .. Len(seqs)
  OBVIOUS
<1>6. flat[1] = seqs[1]
  BY <1>4, <1>5
<1>7. ASSUME NEW i \in 2 .. Len(seqs)
      PROVE  flat[i] = flat[i - 1] \o seqs[i]
  <2>1. i \in 1 .. Len(seqs) /\ i # 1
    BY <1>5
  <2> QED
    BY <1>4, <2>1
<1> QED
  BY <1>3, <1>6, <1>7 DEF Flattens

-----------------------------------------------------------------------------
(* Loading.                                                                 *)

(* An index frame is walked over.                                           *)
LEMMA OverIndex ==
  ASSUME NEW C, NEW file \in Seq(C), NEW pos, IsIndex(file, pos)
  PROVE  LET on == Walk(file, Bytes(file), {"index"})
             past == pos + At(file, pos).frame.len
         IN  /\ pos \in Header .. Bytes(file) /\ past \in Header .. Bytes(file)
             /\ on[pos].frames = on[past].frames
<1>1. Header = 1 /\ Bytes(file) \in Nat /\ Bytes(file) \in Header .. Bytes(file)
  BY Size
<1>2. /\ pos \in Header .. Bytes(file) /\ FrameAt(file, pos, Bytes(file))
      /\ At(file, pos).frame.kind = "index"
  BY <1>1 DEF IsIndex
<1>3. pos + At(file, pos).frame.len \in Header .. Bytes(file)
  BY <1>1, <1>2, NextFrame
<1> DEFINE skipped == {"index"}
           last == Bytes(file)
           on == Walk(file, last, skipped)
<1>4. on[pos].frames = on[pos + At(file, pos).frame.len].frames
  <2>1. /\ pos \in Header .. last /\ last \in Header .. Bytes(file)
        /\ FrameAt(file, pos, last) /\ At(file, pos).frame.kind \in skipped
    BY <1>1, <1>2
  <2> HIDE DEF skipped, last
  <2>2. StepsOn(C, file, last, skipped, pos)
    BY <2>1, WalkStep
  <2> QED
    BY <2>1, <2>2 DEF StepsOn
<1> QED
  BY <1>2, <1>3, <1>4

(* Parts that are all valid are one behind the other what the walk finds.   *)
LEMMA PartsJoin ==
  ASSUME NEW C, NEW file \in Seq(C), NEW at \in Seq(Nat),
         \A i \in 1 .. Len(at) : IsIndex(file, at[i]) /\ ~(at[i] < Past(file, at, i - 1)),
         NEW seqs, seqs = [i \in 1 .. Len(at) + 1 |->
                             Scan(file, Past(file, at, i - 1), Until(file, at, i)).frames],
         \A i \in 1 .. Len(at) + 1 : Scan(file, Past(file, at, i - 1), Until(file, at, i)).valid
  PROVE  FlattenSeq(seqs) = Serial(file)
<1> DEFINE n == Len(at) + 1
           F == FramesOf(C)
           on == Walk(file, Bytes(file), {"index"})
           Rest(i) == on[Until(file, at, i)].frames
<1>1. n \in Nat \ {0} /\ Len(at) \in Nat /\ n = Len(at) + 1
  OBVIOUS
<1>2. Header = 1 /\ Bytes(file) \in Nat /\ Bytes(file) \in Header .. Bytes(file)
  BY Size
<1> HIDE DEF n
<1>3. ASSUME NEW i \in 1 .. n
      PROVE  /\ Until(file, at, i) \in Header .. Bytes(file)
             /\ Past(file, at, i - 1) \in Header .. Until(file, at, i)
  <2>1. Until(file, at, i) \in Header .. Bytes(file)
    BY <1>1, <1>2, OverIndex DEF Until
  <2>2. Past(file, at, i - 1) \in Header .. Bytes(file)
    <3>1. CASE i = 1
      BY <1>2, <3>1 DEF Past
    <3>2. CASE i # 1
      <4>1. i - 1 \in 1 .. Len(at) /\ i - 1 # 0
        BY <1>1, <3>2
      <4> QED
        BY <4>1, OverIndex DEF Past
    <3> QED
      BY <3>1, <3>2
  <2>3. Past(file, at, i - 1) <= Until(file, at, i)
    <3>1. CASE i = n
      BY <1>1, <1>2, <2>2, <3>1 DEF Until
    <3>2. CASE i # n
      <4>1. i \in 1 .. Len(at) /\ Until(file, at, i) = at[i]
        BY <1>1, <3>2 DEF Until
      <4> QED
        BY <1>2, <2>1, <2>2, <4>1
    <3> QED
      BY <3>1, <3>2
  <2> QED
    BY <1>2, <2>1, <2>2, <2>3
<1>4. ASSUME NEW i \in 1 .. n
      PROVE  /\ seqs[i] \in Seq(F) /\ Rest(i) \in Seq(F)
             /\ on[Past(file, at, i - 1)].frames = seqs[i] \o Rest(i)
  <2> DEFINE a == Past(file, at, i - 1)
             b == Until(file, at, i)
  <2>1. b \in Header .. Bytes(file) /\ a \in Header .. b
    BY <1>3
  <2>2. seqs[i] = Walk(file, b, {"index"})[a].frames
    BY <1>1 DEF Scan
  <2>3. Walk(file, b, {"index"})[a].valid
    BY <1>1 DEF Scan
  <2> HIDE DEF a, b
  <2>4. Walk(file, b, {"index"})[a] \in Result(C) /\ on[b] \in Result(C)
    BY <1>2, <2>1, WalkType
  <2>5. on[a].frames = Walk(file, b, {"index"})[a].frames \o on[b].frames
    <3> DEFINE skipped == {"index"}
               last == Bytes(file)
    <3>1. /\ last \in Header .. Bytes(file) /\ b \in Header .. last /\ a \in Header .. b
          /\ Walk(file, b, skipped)[a].valid
      BY <1>2, <2>1, <2>3
    <3> HIDE DEF skipped, last
    <3>2. JoinsOn(file, b, last, skipped, a)
      BY <3>1, Join
    <3> QED
      BY <3>1, <3>2 DEF skipped, last, JoinsOn
  <2> HIDE DEF on
  <2>6. on[a].frames = seqs[i] \o on[b].frames /\ seqs[i] \in Seq(F) /\ on[b].frames \in Seq(F)
    BY <2>2, <2>4, <2>5 DEF Result
  <2> QED
    BY <2>6 DEF a, b
<1>5. seqs \in Seq(Seq(F)) /\ Len(seqs) = n
  <2>1. \A i \in 1 .. n : seqs[i] \in Seq(F)
    BY <1>4
  <2>2. seqs = [i \in 1 .. n |-> seqs[i]]
    BY <1>1
  <2> HIDE DEF F
  <2>3. seqs \in [1 .. n -> Seq(F)]
    BY <2>1, <2>2
  <2> QED
    BY <1>1, <2>3, OfLength
<1>6. PICK flat : /\ FlattenSeq(seqs) = flat[n] /\ flat[1] = seqs[1]
                  /\ \A i \in 2 .. n : flat[i] = flat[i - 1] \o seqs[i]
  <2> HIDE DEF F
  <2>1. Len(seqs) > 0 /\ seqs \in Seq(Seq(F))
    BY <1>1, <1>5
  <2>2. \E flat : Flattens(flat, seqs)
    BY <2>1, FlattenDef
  <2> QED
    BY <1>5, <2>2 DEF Flattens
<1> DEFINE S == {m \in Nat : /\ flat[m + 1] \in Seq(F)
                             /\ flat[m + 1] \o Rest(m + 1) = Serial(file)}
<1>7. 0 \in S
  <2>1. 1 \in 1 .. n /\ 1 - 1 = 0 /\ 0 + 1 = 1
    BY <1>1
  <2>2. Serial(file) = on[Past(file, at, 0)].frames
    BY DEF Serial, Scan, Past
  <2> HIDE DEF on, F
  <2>3. seqs[1] \in Seq(F) /\ on[Past(file, at, 0)].frames = seqs[1] \o Rest(1)
    BY <1>4, <2>1
  <2> QED
    BY <1>6, <2>1, <2>2, <2>3
<1>8. ASSUME NEW m \in 0 .. Len(at) - 1, m \in S
      PROVE  m + 1 \in S
  <2> DEFINE i == m + 1
             j == i + 1
  <2>1. i \in 1 .. Len(at) /\ j \in 2 .. n /\ j \in 1 .. n /\ i \in 1 .. n /\ i \in Nat
        /\ j - 1 = i /\ i # 0
    BY <1>1
  <2>2. flat[i] \in Seq(F) /\ flat[i] \o Rest(i) = Serial(file)
    BY <1>8
  <2> HIDE DEF S, i, F
  <2>3. Rest(i) = on[Past(file, at, i)].frames
    <3>1. Until(file, at, i) = at[i] /\ Past(file, at, i) = at[i] + At(file, at[i]).frame.len
      BY <1>1, <2>1 DEF Until, Past
    <3>2. IsIndex(file, at[i])
      BY <2>1
    <3>3. on[at[i]].frames = on[at[i] + At(file, at[i]).frame.len].frames
      BY <3>2, OverIndex
    <3> QED
      BY <3>1, <3>3
  <2> HIDE DEF on, j, Rest
  <2>4. seqs[j] \in Seq(F) /\ Rest(j) \in Seq(F) /\ on[Past(file, at, i)].frames = seqs[j] \o Rest(j)
    BY <1>4, <2>1
  <2>5. flat[j] = flat[i] \o seqs[j]
    BY <1>6, <2>1
  <2>6. flat[j] \in Seq(F) /\ flat[j] \o Rest(j) = flat[i] \o (seqs[j] \o Rest(j))
    <3> DEFINE x == flat[i]
               y == seqs[j]
               z == Rest(j)
    <3>1. x \in Seq(F) /\ y \in Seq(F) /\ z \in Seq(F)
      BY <2>2, <2>4
    <3> HIDE DEF x, y, z
    <3>2. Assoc(x, y, z) /\ x \o y \in Seq(F)
      BY <3>1, ConcatAssoc, ConcatType
    <3> QED
      BY <2>5, <3>2 DEF x, y, z, Assoc
  <2>7. flat[j] \o Rest(j) = Serial(file)
    BY <2>2, <2>3, <2>4, <2>6
  <2> QED
    BY <2>1, <2>6, <2>7 DEF S, i, j
<1>9. flat[n] \in Seq(F) /\ flat[n] \o Rest(n) = Serial(file)
  <2> HIDE DEF S
  <2>1. \A m \in 0 .. Len(at) : m \in S
    BY <1>1, <1>7, <1>8, Upwards
  <2>2. Len(at) \in S
    BY <1>1, <2>1
  <2> QED
    BY <1>1, <2>2 DEF S
<1>10. Rest(n) = <<>>
  <2>1. Until(file, at, n) = Bytes(file)
    BY <1>1 DEF Until
  <2>2. ~FrameAt(file, Bytes(file), Bytes(file))
    BY <1>2 DEF FrameAt
  <2>3. on[Bytes(file)].frames = <<>>
    BY <1>2, <2>2, WalkEnd
  <2> QED
    BY <2>1, <2>3
<1> HIDE DEF Rest, F
<1> QED
  BY <1>6, <1>9, <1>10, ConcatEmpty

(* A document that loads a file in parts has the frames that a walk finds,  *)
(* in the same order, whatever the file holds and wherever its header       *)
(* points: what is not a chain of valid parts is walked from the start.     *)
THEOREM LoadIsSerial ==
  ASSUME NEW C, NEW file \in Seq(C), NEW last_index
  PROVE  Load(file, last_index) = Serial(file)
<1> DEFINE parts == Parts(file, last_index)
           at == Chain(file, last_index)
           scans == [i \in 1 .. Len(parts) |-> Scan(file, parts[i][1], parts[i][2])]
           seqs == [i \in 1 .. Len(parts) |-> scans[i].frames]
           apart == Several(parts) /\ \A i \in 1 .. Len(parts) : scans[i].valid
<1>1. CASE ~(last_index # 0 /\ apart)
  BY <1>1 DEF Load
<1>2. CASE last_index # 0 /\ apart
  <2>1. Load(file, last_index) = FlattenSeq(seqs)
    BY <1>2 DEF Load
  <2>2. parts # <<>>
    <3>1. ASSUME parts = <<>> PROVE FALSE
      <4>1. {i \in DOMAIN parts : parts[i][1] < parts[i][2]} = {}
        BY <3>1
      <4>2. Cardinality({}) = 0
        BY FS_EmptySet
      <4>3. Several(parts)
        BY <1>2
      <4> HIDE DEF parts
      <4>4. Cardinality({}) >= 2
        BY <4>1, <4>3 DEF Several
      <4> QED
        BY <4>2, <4>4
    <3> QED
      BY <3>1
  <2>3. /\ at # Broken /\ \A i \in 1 .. Len(at) : ~(at[i] < Past(file, at, i - 1))
        /\ parts = [i \in 1 .. Len(at) + 1 |-> <<Past(file, at, i - 1), Until(file, at, i)>>]
    BY <2>2 DEF Parts
  <2>4. /\ last_index \in 0 .. Bytes(file) - 1
        /\ at = ChainTo(file)[last_index]
    BY <2>3 DEF Chain
  <2>5. Along(file, at, last_index)
    BY <2>4, ChainShape
  <2>6. at \in Seq(Nat) /\ \A i \in 1 .. Len(at) : IsIndex(file, at[i])
    BY <2>3, <2>5 DEF Along
  <2> DEFINE n == Len(at) + 1
  <2>7. n \in Nat /\ Len(parts) = n
    BY <2>3, <2>6
  <2>8. \A i \in 1 .. n : scans[i] = Scan(file, Past(file, at, i - 1), Until(file, at, i))
    <3> HIDE DEF n, at
    <3> QED
      BY <2>3, <2>7
  <2>9. /\ \A i \in 1 .. n : Scan(file, Past(file, at, i - 1), Until(file, at, i)).valid
        /\ seqs = [i \in 1 .. n |->
                     Scan(file, Past(file, at, i - 1), Until(file, at, i)).frames]
    <3> HIDE DEF n, at, parts
    <3>1. \A i \in 1 .. n : scans[i].valid
      BY <1>2, <2>7
    <3> HIDE DEF scans
    <3>2. seqs = [i \in 1 .. n |-> scans[i].frames]
      BY <2>7
    <3> QED
      BY <2>8, <3>1, <3>2
  <2> HIDE DEF seqs, at, parts, scans
  <2>10. FlattenSeq(seqs) = Serial(file)
    BY <2>3, <2>6, <2>9, PartsJoin
  <2> QED
    BY <2>1, <2>10
<1> QED
  BY <1>1, <1>2

-----------------------------------------------------------------------------
(* Parts of bounded length.                                                 *)

(* The parts that index frames have closed have at most so many frames, and *)
(* what is found behind the last index frame.                               *)
Spaced(file, last, most) ==
  LET at == ChainTo(file)[last]
  IN  /\ last \in 0 .. Bytes(file) - 1 /\ at # Broken
      /\ \A i \in 1 .. Len(at) :
           /\ Past(file, at, i - 1) \in Header .. at[i]
           /\ Len(Scan(file, Past(file, at, i - 1), at[i]).frames) <= most
Open(file, last) ==
  LET at == ChainTo(file)[last]
  IN  Scan(file, Past(file, at, Len(at)), Bytes(file))

(* Behind each index frame of a chain is a place in the file.               *)
Places(file, at) ==
  /\ at \in Seq(Nat) /\ Len(at) \in Nat
  /\ \A i \in 1 .. Len(at) : IsIndex(file, at[i])
  /\ \A i \in 0 .. Len(at) : Past(file, at, i) \in Header .. Bytes(file)
LEMMA PastType ==
  ASSUME NEW C, NEW file \in Seq(C), NEW last \in 0 .. Bytes(file) - 1,
         ChainTo(file)[last] # Broken
  PROVE  Places(file, ChainTo(file)[last])
<1> DEFINE at == ChainTo(file)[last]
<1>1. Along(file, at, last)
  BY ChainShape
<1> HIDE DEF at
<1>2. at # Broken
  BY DEF at
<1>3. at \in Seq(Nat) /\ \A i \in 1 .. Len(at) : IsIndex(file, at[i])
  BY <1>1, <1>2 DEF Along
<1>4. ASSUME NEW i \in 0 .. Len(at)
      PROVE  Past(file, at, i) \in Header .. Bytes(file)
  <2>1. CASE i = 0
    BY <2>1, Size DEF Past
  <2>2. CASE i # 0
    <3>1. i \in 1 .. Len(at)
      BY <1>3, <2>2
    <3>2. IsIndex(file, at[i])
      BY <1>3, <3>1
    <3>3. at[i] + At(file, at[i]).frame.len \in Header .. Bytes(file)
      BY <3>2, OverIndex
    <3> QED
      BY <2>2, <3>3 DEF Past
  <2> QED
    BY <2>1, <2>2
<1> QED
  BY <1>3, <1>4 DEF at, Places

LEMMA PastKept ==
  ASSUME NEW C, NEW file \in Seq(C), NEW more \in Seq(C), NEW at, Places(file, at)
  PROVE  \A i \in 0 .. Len(at) : Past(file \o more, at, i) = Past(file, at, i)
<1> SUFFICES ASSUME NEW i \in 0 .. Len(at)
             PROVE  Past(file \o more, at, i) = Past(file, at, i)
  OBVIOUS
<1>1. CASE i = 0
  BY <1>1 DEF Past
<1>2. CASE i # 0
  <2>1. IsIndex(file, at[i])
    BY <1>2 DEF Places
  <2>2. At(file \o more, at[i]) = At(file, at[i])
    BY <2>1, IndexKept
  <2> QED
    BY <1>2, <2>2 DEF Past
<1> QED
  BY <1>1, <1>2

(* Frames written behind the file come behind its last index frame.         *)
SpacedOn(file, more, last, most) ==
  LET all == file \o more
  IN  /\ Spaced(all, last, most)
      /\ Open(all, last).frames = Open(file, last).frames \o Serial(more)
      /\ Open(all, last).valid <=> Valid(more)
LEMMA SpacedBehind ==
  ASSUME NEW C, NEW file \in Seq(C), NEW more \in Seq(C), NEW last, NEW most,
         Spaced(file, last, most), Open(file, last).valid
  PROVE  SpacedOn(file, more, last, most)
<1> DEFINE all == file \o more
           at == ChainTo(file)[last]
           n == Len(at)
           p == Past(file, at, n)
           mid == Bytes(file)
           end == Bytes(all)
           skipped == {"index"}
<1>1. last \in 0 .. Bytes(file) - 1 /\ at # Broken
  BY DEF Spaced
<1>2. /\ at \in Seq(Nat) /\ n \in Nat
      /\ \A i \in 1 .. n : IsIndex(file, at[i])
      /\ \A i \in 0 .. n : Past(file, at, i) \in Header .. Bytes(file)
  <2> HIDE DEF n
  <2>1. Places(file, at)
    BY <1>1, PastType
  <2> HIDE DEF at
  <2> QED
    BY <2>1 DEF Places, n
<1>3. ChainTo(all)[last] = at
  BY <1>1, ChainKept
<1>4. \A i \in 0 .. n : Past(all, at, i) = Past(file, at, i)
  <2>1. Places(file, at)
    BY <1>2 DEF Places
  <2> HIDE DEF at
  <2> QED
    BY <2>1, PastKept
<1>5. /\ all \in Seq(C) /\ mid \in Header .. end /\ end \in Header .. Bytes(all)
      /\ mid \in Header .. Bytes(file) /\ last \in 0 .. end - 1 /\ Header = 1 /\ mid \in Nat
  <2>1. all \in Seq(C) /\ end = mid + Len(more)
    BY AtJoined
  <2>2. mid \in Nat /\ mid >= 1 /\ Header = 1 /\ Len(more) \in Nat
    BY Size
  <2> HIDE DEF at, all, mid, end
  <2> QED
    BY <1>1, <2>1, <2>2 DEF mid, end
<1>6. ASSUME NEW i \in 1 .. n
      PROVE  /\ Past(all, at, i - 1) \in Header .. at[i]
             /\ Len(Scan(all, Past(all, at, i - 1), at[i]).frames) <= most
  <2> DEFINE q == Past(file, at, i - 1)
             r == at[i]
  <2>1. q \in Header .. r /\ Len(Walk(file, r, skipped)[q].frames) <= most
    BY DEF Spaced, Scan
  <2>2. Past(all, at, i - 1) = q
    BY <1>2, <1>4
  <2>3. IsIndex(file, r)
    BY <1>2
  <2>4. r \in Header .. Bytes(file)
    BY <1>5, <2>3 DEF IsIndex
  <2> HIDE DEF q, r, skipped
  <2>5. Walk(all, r, skipped)[q] = Walk(file, r, skipped)[q]
    BY <2>1, <2>4, WalkFront
  <2>6. Scan(all, q, r) = Walk(all, r, skipped)[q]
    BY DEF Scan, skipped
  <2> QED
    BY <2>1, <2>2, <2>5, <2>6 DEF r
<1>7. Spaced(all, last, most)
  <2> HIDE DEF at, n, all, end
  <2>1. last \in 0 .. Bytes(all) - 1 /\ ChainTo(all)[last] # Broken
    BY <1>1, <1>3, <1>5 DEF end
  <2> QED
    BY <1>3, <1>6, <2>1 DEF Spaced, n
<1>8. p \in Header .. mid
  BY <1>2
<1>9. Walk(all, mid, skipped)[p] = Walk(file, mid, skipped)[p]
  <2> HIDE DEF p, mid, skipped
  <2> QED
    BY <1>5, <1>8, WalkFront
<1>10. Walk(all, end, skipped)[mid] = Through(more, skipped)
  BY WalkBack DEF Through
<1>11. Open(file, last) = Walk(file, mid, skipped)[p]
  BY DEF Open, Scan
<1>12. Open(all, last) = Walk(all, end, skipped)[p]
  <2>1. Open(all, last) = Scan(all, Past(all, at, n), end)
    BY <1>3 DEF Open
  <2>2. n \in 0 .. n
    BY <1>2
  <2>3. Past(all, at, n) = p
    BY <1>4, <2>2
  <2> HIDE DEF all, at, n, p, end
  <2> QED
    BY <2>1, <2>3 DEF Scan
<1>13. JoinsOn(all, mid, end, skipped, p)
  <2> HIDE DEF all, mid, end, p, skipped
  <2> QED
    BY <1>5, <1>8, Join
<1>14. /\ Open(all, last).frames = Open(file, last).frames \o Through(more, skipped).frames
       /\ Open(all, last).valid = Through(more, skipped).valid
  <2> HIDE DEF all, mid, end, p, skipped
  <2> QED
    BY <1>9, <1>10, <1>11, <1>12, <1>13 DEF JoinsOn
<1>15. Through(more, skipped).frames = Serial(more)
  BY DEF Through, Serial, Scan
<1> QED
  BY <1>7, <1>14, <1>15, ValidThrough DEF SpacedOn

(* An index frame closes the last part, and nothing is behind it.           *)
Closed(all, pos, most) ==
  /\ Spaced(all, pos, most)
  /\ Open(all, pos).frames = <<>> /\ Open(all, pos).valid
LEMMA SpacedIndex ==
  ASSUME NEW C, NEW file \in Seq(C), NEW last, NEW most,
         Spaced(file, last, most), Len(Open(file, last).frames) <= most,
         NEW f, Cells(f) \in Seq(C), f.kind = "index", f.prev = last, f.len \in Nat \ {0}
  PROVE  Closed(file \o Cells(f), Bytes(file), most)
<1> DEFINE more == Cells(f)
           all == file \o more
           pos == Bytes(file)
           end == Bytes(all)
           at == ChainTo(file)[last]
           to == ChainTo(all)[pos]
           n == Len(at)
           skipped == {"index"}
<1>1. last \in 0 .. Bytes(file) - 1 /\ at # Broken
  BY DEF Spaced
<1>2. /\ at \in Seq(Nat) /\ n \in Nat /\ Places(file, at)
      /\ \A i \in 1 .. n : IsIndex(file, at[i])
      /\ \A i \in 0 .. n : Past(file, at, i) \in Header .. Bytes(file)
  <2> HIDE DEF n
  <2>1. Places(file, at)
    BY <1>1, PastType
  <2> HIDE DEF at
  <2> QED
    BY <2>1 DEF Places, n
<1>3. /\ At(all, pos).frame = f /\ pos \in 0 .. end - 1 /\ to = Append(at, pos)
  <2>1. NextLink(file, f, last)
    BY <1>1, ChainLonger
  <2> QED
    BY <2>1 DEF NextLink
<1>4. /\ all \in Seq(C) /\ Header = 1 /\ pos \in Nat /\ Len(more) = f.len
      /\ end = pos + f.len /\ pos \in Header .. pos /\ end \in Header .. end
  <2>1. Len(more) = f.len
    BY DEF Cells
  <2>2. all \in Seq(C) /\ end = pos + Len(more) /\ Header = 1 /\ pos \in Nat /\ pos >= 1
    BY Size, AtJoined
  <2> HIDE DEF all, more, pos, end
  <2> QED
    BY <2>1, <2>2
<1>5. \A i \in 0 .. n : Past(all, at, i) = Past(file, at, i)
  <2> HIDE DEF at
  <2> QED
    BY <1>2, PastKept
<1> HIDE DEF at, to
<1>6. /\ Len(to) = n + 1 /\ to[n + 1] = pos
      /\ \A i \in 1 .. n : to[i] = at[i]
  <2> HIDE DEF pos
  <2> QED
    BY <1>2, <1>3, <1>4
<1>7. \A i \in 0 .. n : Past(all, to, i) = Past(file, at, i)
  <2> SUFFICES ASSUME NEW i \in 0 .. n PROVE Past(all, to, i) = Past(file, at, i)
    OBVIOUS
  <2>1. Past(all, at, i) = Past(file, at, i)
    BY <1>5
  <2> HIDE DEF all, n
  <2>2. Past(all, to, i) = Past(all, at, i)
    BY <1>2, <1>6 DEF Past
  <2> QED
    BY <2>1, <2>2
<1>8. Past(all, to, n + 1) = end
  <2>1. n + 1 # 0
    BY <1>2
  <2>2. Past(all, to, n + 1) = to[n + 1] + At(all, to[n + 1]).frame.len
    BY <2>1 DEF Past
  <2> HIDE DEF all, n, end, pos
  <2>3. to[n + 1] = pos
    BY <1>6
  <2> QED
    BY <1>3, <1>4, <2>2, <2>3
<1>9. ASSUME NEW i \in 1 .. n + 1
      PROVE  /\ Past(all, to, i - 1) \in Header .. to[i]
             /\ Len(Scan(all, Past(all, to, i - 1), to[i]).frames) <= most
  <2> DEFINE q == Past(file, at, i - 1)
             r == to[i]
  <2>1. Past(all, to, i - 1) = q
    BY <1>2, <1>7
  <2>2. r \in Header .. pos /\ q \in Header .. r /\ Len(Walk(file, r, skipped)[q].frames) <= most
    <3>1. CASE i = n + 1
      <4>1. r = pos /\ i - 1 = n
        BY <1>2, <1>6, <3>1
      <4>2. q = Past(file, at, n)
        BY <4>1
      <4>3. q \in Header .. pos
        BY <1>2, <4>2
      <4>4. Open(file, last) = Walk(file, pos, skipped)[Past(file, at, n)]
        BY DEF Open, Scan, at
      <4> HIDE DEF q, r, n, pos
      <4> QED
        BY <1>4, <4>1, <4>2, <4>3, <4>4
    <3>2. CASE i # n + 1
      <4>1. i \in 1 .. n /\ r = at[i]
        <5> HIDE DEF n
        <5>1. i \in 1 .. n
          BY <1>2, <3>2
        <5> QED
          BY <1>6, <5>1
      <4>2. q \in Header .. at[i] /\ Len(Walk(file, at[i], skipped)[q].frames) <= most
        BY <4>1 DEF Spaced, Scan, at
      <4>3. IsIndex(file, at[i])
        BY <1>2, <4>1
      <4>4. at[i] \in Header .. pos
        <5> HIDE DEF pos
        <5>1. at[i] \in Header .. pos - 1
          BY <4>3 DEF IsIndex, pos
        <5> QED
          BY <1>4, <5>1
      <4> QED
        BY <4>1, <4>2, <4>4
    <3> QED
      BY <3>1, <3>2
  <2> HIDE DEF q, r, skipped, n
  <2>3. Walk(all, r, skipped)[q] = Walk(file, r, skipped)[q]
    <3>1. more \in Seq(C) /\ r \in Header .. Bytes(file)
      BY <2>2
    <3> HIDE DEF more
    <3> QED
      BY <2>2, <3>1, WalkFront
  <2>4. Scan(all, q, r) = Walk(all, r, skipped)[q]
    BY DEF Scan, skipped
  <2> QED
    BY <2>1, <2>2, <2>3, <2>4 DEF r
<1>10. to # Broken
  <2>1. Broken = <<0>> /\ Broken[1] = 0 /\ Len(Broken) = 1
    BY DEF Broken
  <2> HIDE DEF n, pos
  <2>2. n + 1 = 1 => to[1] = pos /\ pos # 0
    BY <1>4, <1>6
  <2>3. ASSUME to = Broken PROVE FALSE
    <3>1. n + 1 = 1
      BY <1>6, <2>1, <2>3
    <3> QED
      BY <2>1, <2>2, <2>3, <3>1
  <2> QED
    BY <2>3
<1>11. Spaced(all, pos, most)
  <2> HIDE DEF n, all, end, pos
  <2> QED
    BY <1>3, <1>6, <1>9, <1>10 DEF Spaced, to, end
<1>12. Open(all, pos) = Walk(all, end, skipped)[end]
  <2>1. Open(all, pos) = Scan(all, Past(all, to, Len(to)), end)
    BY DEF Open, to
  <2>2. Past(all, to, Len(to)) = end
    BY <1>6, <1>8
  <2> HIDE DEF all, end
  <2> QED
    BY <2>1, <2>2 DEF Scan
<1>13. Walk(all, end, skipped)[end].frames = <<>> /\ Walk(all, end, skipped)[end].valid
  <2>1. ~FrameAt(all, end, end)
    BY <1>4 DEF FrameAt
  <2>2. end \in Header .. Bytes(all)
    BY <1>4
  <2> HIDE DEF all, end, skipped
  <2> QED
    BY <1>4, <2>1, <2>2, WalkEnd
<1> QED
  BY <1>11, <1>12, <1>13 DEF Closed

(* No part of a document that is loaded then has more frames.               *)
LEMMA SpacedParts ==
  ASSUME NEW C, NEW file \in Seq(C), NEW last, NEW most,
         Spaced(file, last, most), Len(Open(file, last).frames) <= most
  PROVE  \A i \in 1 .. Len(Parts(file, last)) :
           Len(Scan(file, Parts(file, last)[i][1], Parts(file, last)[i][2]).frames) <= most
<1> DEFINE at == ChainTo(file)[last]
           parts == Parts(file, last)
           n == Len(at)
<1>1. at \in Seq(Nat)
  <2>1. last \in 0 .. Bytes(file) - 1 /\ at # Broken
    BY DEF Spaced
  <2>2. Places(file, at)
    BY <2>1, PastType
  <2> QED
    BY <2>1, <2>2 DEF Places
<1>2. CASE parts = <<>>
  BY <1>2
<1>3. CASE parts # <<>>
  <2> DEFINE to == Chain(file, last)
  <2>7. to # Broken
    BY <1>3 DEF Parts
  <2>8. to = at
    BY <2>7 DEF Chain
  <2>9. parts = [i \in 1 .. Len(to) + 1 |-> <<Past(file, to, i - 1), Until(file, to, i)>>]
    BY <1>3 DEF Parts
  <2>1. parts = [i \in 1 .. n + 1 |-> <<Past(file, at, i - 1), Until(file, at, i)>>]
    BY <2>8, <2>9
  <2>2. n \in Nat
    BY <1>1
  <2>3. ASSUME NEW i \in 1 .. n + 1
        PROVE  Len(Scan(file, Past(file, at, i - 1), Until(file, at, i)).frames) <= most
    <3>1. CASE i = n + 1
      <4>1. i - 1 = n /\ Until(file, at, i) = Bytes(file)
        BY <2>2, <3>1 DEF Until
      <4> QED
        BY <4>1 DEF Open
    <3>2. CASE i # n + 1
      <4>1. i \in 1 .. n /\ Until(file, at, i) = at[i]
        BY <2>2, <3>2 DEF Until
      <4> QED
        BY <4>1 DEF Spaced
    <3> QED
      BY <3>1, <3>2
  <2> HIDE DEF parts, at, n
  <2>4. Len(parts) = n + 1
    BY <2>1, <2>2
  <2>5. \A i \in 1 .. n + 1 : /\ parts[i][1] = Past(file, at, i - 1)
                             /\ parts[i][2] = Until(file, at, i)
    BY <2>1, <2>2
  <2>6. \A i \in 1 .. Len(parts) : Len(Scan(file, parts[i][1], parts[i][2]).frames) <= most
    BY <2>3, <2>4, <2>5
  <2> QED
    BY <2>6 DEF parts
<1> QED
  BY <1>2, <1>3
=============================================================================
