------------------------- MODULE MuxerSource_proofs -------------------------
(***************************************************************************)
(* What module MuxerSource claims of the muxer of sysprof-muxer-source.c,  *)
(* proved for every size of its buffer, every set of frame lengths and any *)
(* number of frames, and carried over to module UserSampler, where the     *)
(* stream comes through a pipe from a process that may end anywhere.       *)
(*                                                                         *)
(* The invariant says that the frames of the stream lie one behind the     *)
(* other and that the muxer stands where the first one it has not taken    *)
(* is, so that the header it looks at is that of a frame.                  *)
(*                                                                         *)
(* And what module Callgraph claims of the stacks that samplers deliver,   *)
(* once they are read: proved for any stacks, symbols, processes and flags *)
(* and any number of traceables.  The invariant says that the nodes, and   *)
(* the summaries, are those of the paths that were shown so far.           *)
(***************************************************************************)
EXTENDS UserSampler, Callgraph, SequenceTheorems, FiniteSetTheorems, WellFoundedInduction, TLAPS

FrameType == [at : Nat, len : Lens]

(* Frames lie one behind the other, and none reaches into a later one.      *)
Contiguous ==
  /\ \A i \in 1 .. Len(frames) - 1 : frames[i + 1].at = frames[i].at + frames[i].len
  /\ \A i, j \in 1 .. Len(frames) :
       i < j => frames[i].at + frames[i].len <= frames[j].at

(* The muxer has taken the first frames, and nothing else.                  *)
Taken ==
  /\ Len(out) <= Len(frames)
  /\ \A i \in 1 .. Len(out) : out[i] = frames[i]

(* It stands, or will when the file header is skipped, where the next frame *)
(* is or will be.                                                           *)
Standing ==
  /\ Len(out) < Len(frames) => begin + to_skip = frames[Len(out) + 1].at
  /\ Len(out) = Len(frames) => begin + to_skip = Total

Inv ==
  /\ TypeOK
  /\ out \in Seq(FrameType)
  /\ written <= Total
  /\ Contiguous /\ Taken /\ Standing
  /\ RoomToRead

-----------------------------------------------------------------------------

(* What is known of each frame: it has a header, and fits the buffer.       *)
LEMMA FrameFields ==
  ASSUME frames \in Seq(FrameType), NEW k \in 1 .. Len(frames)
  PROVE  /\ frames[k] \in FrameType /\ frames[k].at \in Nat /\ frames[k].len \in Nat \ {0}
         /\ FrameHeader <= frames[k].len /\ frames[k].len <= Capacity
<1>1. frames[k] \in FrameType
  OBVIOUS
<1>2. frames[k].at \in Nat /\ frames[k].len \in Lens
  BY <1>1 DEF FrameType
<1>3. PICK l \in Lens : l = frames[k].len
  BY <1>2
<1>4. l \in FrameHeader .. Capacity /\ FrameHeader \in Nat \ {0} /\ Capacity \in Nat
  BY MuxerAssumption DEF MuxerAssumption
<1> QED
  BY <1>1, <1>2, <1>3, <1>4

(* A frame is found at the place where it starts, as none starts there but  *)
(* it.                                                                      *)
LEMMA FrameFound ==
  ASSUME frames \in Seq(FrameType), Contiguous, NEW k \in 1 .. Len(frames)
  PROVE  FrameAt(frames[k].at) = frames[k]
<1>1. frames[k].at \in Nat /\ frames[k].len \in Nat \ {0}
  BY FrameFields
<1>2. ASSUME NEW i \in 1 .. Len(frames), frames[i].at = frames[k].at PROVE i = k
  <2>1. frames[i].at \in Nat /\ frames[i].len \in Nat \ {0}
    BY FrameFields
  <2>2. ~(i < k)
    BY <1>1, <1>2, <2>1 DEF Contiguous
  <2>3. ~(k < i)
    BY <1>1, <1>2, <2>1 DEF Contiguous
  <2> QED
    BY <2>2, <2>3
<1>3. \A f \in {frames[i] : i \in 1 .. Len(frames)} : f.at = frames[k].at => f = frames[k]
  BY <1>2
<1>4. frames[k] \in {frames[i] : i \in 1 .. Len(frames)}
  OBVIOUS
<1>5. (CHOOSE f \in {frames[i] : i \in 1 .. Len(frames)} : f.at = frames[k].at) = frames[k]
  BY <1>3, <1>4
<1> QED
  BY <1>5 DEF FrameAt

(* Where the stream ends is behind each of its frames.                      *)
LEMMA TotalBehind ==
  ASSUME frames \in Seq(FrameType), Contiguous
  PROVE  /\ Total \in Nat
         /\ \A i \in 1 .. Len(frames) : frames[i].at + frames[i].len <= Total
<1>1. \A i \in 1 .. Len(frames) : frames[i].at \in Nat /\ frames[i].len \in Nat
  BY FrameFields
<1>2. CASE frames = <<>>
  BY <1>2, MuxerAssumption DEF Total, MuxerAssumption
<1>3. CASE frames # <<>>
  <2>1. Len(frames) \in 1 .. Len(frames)
    BY <1>3
  <2>2. Total = frames[Len(frames)].at + frames[Len(frames)].len
    BY <1>3 DEF Total
  <2>3. ASSUME NEW i \in 1 .. Len(frames) PROVE frames[i].at + frames[i].len <= Total
    <3>1. CASE i = Len(frames)
      BY <1>1, <2>1, <2>2, <3>1
    <3>2. CASE i < Len(frames)
      <4>1. frames[i].at + frames[i].len <= frames[Len(frames)].at
        BY <2>1, <3>2 DEF Contiguous
      <4>2. /\ frames[i].at \in Nat /\ frames[i].len \in Nat
            /\ frames[Len(frames)].at \in Nat /\ frames[Len(frames)].len \in Nat
        BY <1>1, <2>1
      <4> QED
        BY <2>2, <4>1, <4>2
    <3> QED
      BY <3>1, <3>2
  <2> QED
    BY <1>1, <2>1, <2>2, <2>3
<1> QED
  BY <1>2, <1>3

(* Init: nothing but the file header is in the stream.                      *)
LEMMA InitInv == Init => Inv
<1> SUFFICES ASSUME Init PROVE Inv
  OBVIOUS
<1>1. Total = FileHeader
  BY DEF Init, Total
<1>2. TypeOK
  BY MuxerAssumption DEF Init, TypeOK, MuxerAssumption
<1>3. Len(frames) = 0 /\ Len(out) = 0 /\ out \in Seq(FrameType)
  BY DEF Init
<1>4. RoomToRead
  BY MuxerAssumption DEF Init, RoomToRead, MuxerAssumption
<1> QED
  BY <1>1, <1>2, <1>3, <1>4, MuxerAssumption
  DEF Init, Inv, Contiguous, Taken, Standing, MuxerAssumption

(* Another frame of the unwinder: it starts where the stream ended.         *)
LEMMA ProduceInv ==
  ASSUME Inv, NEW len \in Lens, Produce(len)
  PROVE  Inv'
<1>1. /\ frames \in Seq(FrameType) /\ Contiguous /\ len \in Nat \ {0}
      /\ written = Total /\ written \in Nat
  BY MuxerAssumption DEF Inv, TypeOK, FrameType, Produce, MuxerAssumption
<1>2. /\ Total \in Nat
      /\ \A i \in 1 .. Len(frames) : frames[i].at + frames[i].len <= Total
  BY <1>1, TotalBehind
<1>3. PICK n \in Nat : n = Len(frames)
  BY <1>1
<1>4. PICK f \in FrameType : f = [at |-> written, len |-> len]
  BY <1>1 DEF FrameType
<1>5. frames' = Append(frames, f)
  BY <1>4 DEF Produce
<1>6. /\ frames' \in Seq(FrameType) /\ Len(frames') = n + 1 /\ frames'[n + 1] = f
      /\ \A i \in 1 .. n : frames'[i] = frames[i]
  BY <1>1, <1>3, <1>5
<1>7. Total' = written + len
  <2>1. frames' # <<>>
    BY <1>3, <1>6
  <2> QED
    BY <1>3, <1>4, <1>6, <2>1 DEF Total
<1>8. TypeOK'
  BY <1>6 DEF Inv, TypeOK, Produce, FrameType
<1>9. Contiguous'
  <2>1. \A i \in 1 .. n : frames[i].at \in Nat /\ frames[i].len \in Nat
    BY <1>1, <1>3, FrameFields
  <2>2. ASSUME NEW i \in 1 .. Len(frames') - 1
        PROVE  frames'[i + 1].at = frames'[i].at + frames'[i].len
    <3>1. CASE i = n
      <4>1. frames # <<>> /\ frames'[i] = frames[n]
        BY <1>1, <1>3, <1>6, <2>2, <3>1
      <4> QED
        BY <1>1, <1>3, <1>4, <1>6, <3>1, <4>1 DEF Total
    <3>2. CASE i < n
      <4>1. i \in 1 .. n /\ i + 1 \in 1 .. n /\ i \in 1 .. Len(frames) - 1
        BY <1>3, <1>6, <2>2, <3>2
      <4> QED
        BY <1>1, <1>6, <4>1 DEF Contiguous
    <3> QED
      BY <1>3, <1>6, <2>2, <3>1, <3>2
  <2>3. ASSUME NEW i \in 1 .. Len(frames'), NEW j \in 1 .. Len(frames'), i < j
        PROVE  frames'[i].at + frames'[i].len <= frames'[j].at
    <3>1. i \in 1 .. n /\ frames'[i] = frames[i]
      BY <1>3, <1>6, <2>3
    <3>2. CASE j = n + 1
      BY <1>1, <1>2, <1>3, <1>4, <1>6, <3>1, <3>2
    <3>3. CASE j \in 1 .. n
      BY <1>1, <1>3, <1>6, <2>3, <3>1, <3>3 DEF Contiguous
    <3> QED
      BY <1>3, <1>6, <2>3, <3>2, <3>3
  <2> QED
    BY <2>2, <2>3 DEF Contiguous
<1>10. out' = out /\ begin' = begin /\ to_skip' = to_skip /\ end' = end /\ written' = written
  BY DEF Produce
<1>11. Len(out) \in Nat /\ Len(out) <= n
  BY <1>1, <1>3 DEF Inv, Taken
<1>12. Taken'
  BY <1>3, <1>6, <1>10, <1>11 DEF Inv, Taken
<1>13. Standing'
  <2>1. CASE Len(out) < n
    BY <1>3, <1>6, <1>10, <1>11, <2>1 DEF Inv, Standing
  <2>2. CASE Len(out) = n
    BY <1>1, <1>3, <1>4, <1>6, <1>10, <1>11, <2>2 DEF Inv, Standing
  <2> QED
    BY <1>11, <2>1, <2>2, <1>3
<1>14. written' <= Total'
  BY <1>1, <1>7, <1>10
<1> QED
  BY <1>8, <1>9, <1>10, <1>12, <1>13, <1>14 DEF Inv, RoomToRead

(* More of the stream gets into the pipe.                                   *)
LEMMA WriteInv ==
  ASSUME Inv, NEW n \in Nat, Write(n)
  PROVE  Inv'
<1>1. Total \in Nat
  BY TotalBehind DEF Inv, TypeOK, FrameType
<1>2. Total' = Total
  BY DEF Write, Total
<1>3. TypeOK' /\ written' <= Total'
  BY <1>1, <1>2 DEF Inv, TypeOK, Write
<1> QED
  BY <1>2, <1>3 DEF Inv, Contiguous, Taken, Standing, RoomToRead, Write

(* A read, wherever it ends.                                                *)
LEMMA DispatchInv ==
  ASSUME Inv, NEW n \in Nat, Dispatch(n)
  PROVE  Inv'
<1> DEFINE skipped == Smaller(to_skip, end' - begin)
           pos == begin + skipped
           taken == Take(pos, end')
           m == Len(out)
<1>1. /\ frames \in Seq(FrameType) /\ Contiguous /\ Taken /\ Standing
      /\ out \in Seq(FrameType) /\ begin \in Nat /\ end \in Nat /\ to_skip \in Nat
      /\ to_skip <= FileHeader /\ begin <= end /\ written \in Nat /\ written <= Total
  BY DEF Inv, TypeOK, FrameType
<1>2. /\ frames' = frames /\ written' = written /\ Total' = Total
      /\ end' = end + n /\ end' <= written /\ end' - begin <= Capacity
      /\ to_skip' = to_skip - skipped /\ out' = out \o taken
      /\ begin' = pos + IF taken = <<>> THEN 0 ELSE taken[1].len
  BY <1>1, MuxerAssumption DEF Dispatch, Total, MuxerAssumption
<1>3. /\ skipped \in Nat /\ skipped <= to_skip /\ skipped <= end' - begin
      /\ skipped = to_skip \/ pos = end'
  BY <1>1, <1>2 DEF Smaller
<1>4. /\ Capacity \in Nat /\ 0 < Capacity /\ FrameHeader \in Nat /\ 0 < FrameHeader
      /\ FileHeader \in Nat
  BY MuxerAssumption DEF MuxerAssumption
<1>5. Total \in Nat /\ m \in Nat /\ m <= Len(frames)
  BY <1>1, TotalBehind DEF Taken
<1>6. \A i \in 1 .. Len(frames) :
        frames[i].at \in Nat /\ frames[i].len \in Nat
          /\ FrameHeader <= frames[i].len /\ frames[i].len <= Capacity
  BY <1>1, FrameFields
<1> HIDE DEF skipped
<1>7. CASE taken = <<>>
  <2>1. out' = out /\ begin' = pos
    BY <1>1, <1>2, <1>3, <1>7
  <2>2. begin' + to_skip' = begin + to_skip
    BY <1>1, <1>2, <1>3, <2>1
  <2>3. end' - begin' < Capacity
    <3>1. CASE pos = end'
      <4>1. end' - begin' = 0
        BY <1>1, <1>2, <2>1, <3>1
      <4> QED
        BY <1>4, <4>1
    <3>2. CASE skipped = to_skip /\ m < Len(frames)
      <4>1. m + 1 \in 1 .. Len(frames) /\ pos = frames[m + 1].at
        BY <1>1, <1>5, <3>2 DEF Standing
      <4>2. FrameAt(pos) = frames[m + 1]
        BY <1>1, <4>1, FrameFound
      <4>3. ~(end' - pos >= FrameHeader /\ frames[m + 1].len <= end' - pos)
        BY <1>7, <4>2 DEF Take
      <4> QED
        BY <1>1, <1>2, <1>3, <1>4, <1>6, <2>1, <4>1, <4>3, SMTT(30)
    <3>3. CASE skipped = to_skip /\ m = Len(frames)
      <4>1. pos = Total
        BY <1>1, <3>3 DEF Standing
      <4> QED
        BY <1>1, <1>2, <1>3, <1>4, <1>5, <2>1, <4>1
    <3> QED
      BY <1>3, <1>5, <3>1, <3>2, <3>3
  <2>4. TypeOK'
    BY <1>1, <1>2, <1>3, <1>4, <2>1, <2>3 DEF Inv, TypeOK
  <2> QED
    BY <1>1, <1>2, <2>1, <2>2, <2>3, <2>4 DEF Inv, Contiguous, Taken, Standing, RoomToRead
<1>8. CASE taken # <<>>
  <2>1. end' - pos >= FrameHeader /\ FrameAt(pos).len <= end' - pos /\ taken = <<FrameAt(pos)>>
    BY <1>8 DEF Take
  <2>2. skipped = to_skip /\ to_skip' = 0
    BY <1>1, <1>2, <1>3, <1>4, <2>1
  <2>3. m < Len(frames)
    <3>1. CASE m = Len(frames)
      <4>1. pos = Total
        BY <1>1, <2>2, <3>1 DEF Standing
      <4> QED
        BY <1>1, <1>2, <1>4, <1>5, <2>1, <4>1
    <3> QED
      BY <1>5, <3>1
  <2>4. m + 1 \in 1 .. Len(frames) /\ pos = frames[m + 1].at
    BY <1>1, <1>5, <2>2, <2>3 DEF Standing
  <2>5. PICK f \in FrameType : f = frames[m + 1]
    BY <1>1, <2>4
  <2>6. FrameAt(pos) = f
    BY <1>1, <2>4, <2>5, FrameFound
  <2>7. taken = <<f>> /\ begin' = pos + f.len /\ f.len <= end' - pos
    BY <1>2, <1>8, <2>1, <2>6
  <2>8. /\ f.at = pos /\ pos \in Nat /\ f.len \in Nat /\ FrameHeader <= f.len
    BY <1>1, <1>3, <1>6, <2>4, <2>5
  <2>9. out' = Append(out, f)
    <3>1. out' = out \o <<f>>
      BY <1>2, <2>7
    <3> QED
      BY <1>1, <2>5, <3>1
  <2>10. /\ out' \in Seq(FrameType) /\ Len(out') = m + 1 /\ out'[m + 1] = f
         /\ \A i \in 1 .. m : out'[i] = out[i]
    BY <1>1, <2>5, <2>9
  <2>11. Taken'
    BY <1>1, <1>2, <1>5, <2>3, <2>5, <2>10, SMTT(30) DEF Taken
  <2>12. Standing'
    <3>1. CASE m + 1 < Len(frames)
      <4>1. frames[m + 2].at = f.at + f.len
        BY <1>1, <1>5, <2>5, <3>1 DEF Contiguous
      <4> QED
        BY <1>2, <1>5, <2>2, <2>7, <2>8, <2>10, <3>1, <4>1 DEF Standing
    <3>2. CASE m + 1 = Len(frames)
      <4>1. Total = f.at + f.len
        BY <1>1, <1>5, <2>5, <3>2 DEF Total
      <4> QED
        BY <1>2, <1>5, <2>2, <2>7, <2>8, <2>10, <3>2, <4>1 DEF Standing
    <3> QED
      BY <1>5, <2>3, <3>1, <3>2
  <2>13. end' - begin' < Capacity /\ begin' \in 0 .. end'
    BY <1>1, <1>2, <1>3, <1>4, <2>7, <2>8, SMTT(30)
  <2>14. TypeOK'
    BY <1>1, <1>2, <1>4, <2>2, <2>13 DEF Inv, TypeOK
  <2> QED
    BY <1>1, <1>2, <2>10, <2>11, <2>12, <2>13, <2>14 DEF Inv, Contiguous, RoomToRead
<1> QED
  BY <1>7, <1>8

(* Nothing the muxer or its pipe knows of.                                  *)
LEMMA StutterInv == ASSUME Inv, UNCHANGED vars PROVE Inv'
BY DEF vars, Inv, TypeOK, Total, Contiguous, Taken, Standing, RoomToRead

(* The inductive invariant of the muxer on its own.                         *)
THEOREM MuxerInvariance == Spec => []Inv
<1>1. ASSUME Inv, [Next]_vars PROVE Inv'
  <2>1. ASSUME NEW len \in Lens, Produce(len) PROVE Inv'
    BY <1>1, <2>1, ProduceInv
  <2>2. ASSUME NEW n \in 1 .. Capacity, Write(n) PROVE Inv'
    BY <1>1, <2>2, WriteInv
  <2>3. ASSUME NEW n \in 1 .. Capacity, Dispatch(n) PROVE Inv'
    BY <1>1, <2>3, DispatchInv
  <2>4. CASE UNCHANGED vars
    BY <1>1, <2>4, StutterInv
  <2> QED
    BY <1>1, <2>1, <2>2, <2>3, <2>4 DEF Next
<1> QED
  BY <1>1, InitInv, PTL DEF Spec

(* The invariant holds too when the stream comes through a pipe, from an    *)
(* unwinder that may not start, be killed, or be told to exit.              *)
THEOREM UserInvariance == UserSpec => []Inv
<1>1. UserInit => Inv
  BY InitInv DEF UserInit
<1>2. ASSUME Inv, [UserNext]_userVars PROVE Inv'
  <2>1. ASSUME NEW len \in Lens, UnwinderProduce(len) PROVE Inv'
    BY <1>2, <2>1, ProduceInv DEF UnwinderProduce
  <2>2. ASSUME NEW n \in 1 .. PipeSize, UnwinderWrite(n) PROVE Inv'
    BY <1>2, <2>2, WriteInv DEF UnwinderWrite
  <2>3. ASSUME NEW n \in 1 .. Capacity, MuxerDispatch(n) PROVE Inv'
    BY <1>2, <2>3, DispatchInv DEF MuxerDispatch
  <2>4. CASE UNCHANGED vars
    BY <1>2, <2>4, StutterInv
  <2>5. CASE \/ Prepare \/ RecordBegin \/ Stop \/ DestroyMuxer \/ Abandon
             \/ UnwinderPipe \/ UnwinderExit \/ UnwinderKilled
    BY <2>4, <2>5
    DEF Prepare, RecordBegin, Stop, DestroyMuxer, Abandon, UnwinderPipe, UnwinderExit,
        UnwinderKilled
  <2> QED
    BY <1>2, <2>1, <2>2, <2>3, <2>4, <2>5 DEF UserNext, userVars
<1> QED
  BY <1>1, <1>2, PTL DEF UserSpec

(* The buffer holds a part of the stream that fits it.                      *)
THEOREM TypeCorrect == UserSpec => []TypeOK
BY UserInvariance, PTL DEF Inv

(* Wherever reads split the stream and however the unwinder ends, the       *)
(* frames it wrote come out of the muxer whole, in order and once.          *)
THEOREM FramesCorrect == UserSpec => []FramesIntact
<1>1. Inv => FramesIntact
  BY DEF Inv, Taken, Standing, FramesIntact
<1> QED
  BY <1>1, UserInvariance, PTL

(* The buffer never fills up: a read always has room for a byte, whatever   *)
(* lengths occur that fit the buffer.                                       *)
THEOREM RoomCorrect == UserSpec => []RoomToRead
BY UserInvariance, PTL DEF Inv

-----------------------------------------------------------------------------
(* The callgraph: induction.                                                *)

(* A set of numbers has a least one.                                       *)
LEMMA LeastElement ==
  ASSUME NEW T \in SUBSET Nat, T # {}
  PROVE  \E x \in T : \A y \in T : x <= y
<1> DEFINE R == OpToRel(<, Nat)
<1>1. IsWellFoundedOn(R, Nat)
  BY NatLessThanWellFounded
<1>2. \A a, b \in Nat : a < b => <<a, b>> \in R
  BY DEF OpToRel
<1> HIDE DEF R
<1>3. PICK x \in T : \A y \in T : ~ (<<y, x>> \in R)
  BY <1>1, WFMin
<1>4. \A y \in T : x \in Nat /\ y \in Nat /\ ~ (y < x)
  BY <1>2, <1>3
<1>5. \A y \in T : x <= y
  BY <1>4
<1> QED
  BY <1>5

(* From below.                                                              *)
LEMMA Upwards ==
  ASSUME NEW last \in Nat, NEW S, 0 \in S,
         \A n \in 0 .. last - 1 : n \in S => n + 1 \in S
  PROVE  \A n \in 0 .. last : n \in S
<1> DEFINE T == {n \in 0 .. last : n \notin S}
<1> SUFFICES ASSUME T # {} PROVE FALSE
  OBVIOUS
<1>1. PICK x \in T : \A y \in T : x <= y
  <2>1. T \in SUBSET Nat
    OBVIOUS
  <2> HIDE DEF T
  <2> QED
    BY <2>1, LeastElement
<1>2. x \in 0 .. last /\ x # 0
  OBVIOUS
<1>3. x - 1 \in 0 .. last - 1 /\ x - 1 \in S
  BY <1>1, <1>2
<1>4. (x - 1) + 1 \in S
  BY <1>3
<1> QED
  BY <1>2, <1>4

-----------------------------------------------------------------------------
(* Sequences.                                                               *)

(* What a sequence is.                                                     *)
LEMMA SeqIs ==
  ASSUME NEW S, NEW s \in Seq(S)
  PROVE  DOMAIN s = 1 .. Len(s) /\ Len(s) \in Nat /\ \A k \in 1 .. Len(s) : s[k] \in S
  OBVIOUS

(* What a sequence is with one element more.                               *)
LEMMA AppendIs ==
  ASSUME NEW S, NEW s \in Seq(S), NEW e \in S, NEW t, t = Append(s, e)
  PROVE  /\ t \in Seq(S) /\ Len(t) = Len(s) + 1 /\ t[Len(s) + 1] = e
         /\ DOMAIN t = 1 .. Len(s) + 1
         /\ \A k \in 1 .. Len(s) : t[k] = s[k]
  OBVIOUS

(* Two such are the same if their parts are.                               *)
LEMMA AppendsEqual ==
  ASSUME NEW S, NEW s \in Seq(S), NEW t \in Seq(S), NEW d \in S, NEW e \in S,
         Append(s, d) = Append(t, e)
  PROVE  s = t /\ d = e
<1>1. Len(s) = Len(t) /\ d = e
  <2>1. Len(Append(s, d)) = Len(s) + 1 /\ Len(Append(t, e)) = Len(t) + 1
    OBVIOUS
  <2>2. Append(s, d)[Len(s) + 1] = d /\ Append(t, e)[Len(t) + 1] = e
    OBVIOUS
  <2>3. Len(s) \in Nat /\ Len(t) \in Nat
    OBVIOUS
  <2> QED
    BY <2>1, <2>2, <2>3
<1>2. ASSUME NEW k \in 1 .. Len(s) PROVE s[k] = t[k]
  <2>1. Append(s, d)[k] = s[k]
    OBVIOUS
  <2>2. Append(t, e)[k] = t[k]
    BY <1>1
  <2> QED
    BY <2>1, <2>2
<1> QED
  BY <1>1, <1>2

(* The first of a sequence are those of another.                            *)
LEMMA PrefixIs ==
  ASSUME NEW S, NEW s \in Seq(S), NEW t \in Seq(S)
  PROVE  IsPrefix(s, t) <=> Len(s) <= Len(t) /\ \A k \in 1 .. Len(s) : s[k] = t[k]
<1>1. Len(s) \in Nat /\ Len(t) \in Nat
  OBVIOUS
<1>2. SubSeq(s, 1, Len(s)) = s
  OBVIOUS
<1>3. ASSUME Len(s) <= Len(t)
      PROVE  (s = SubSeq(t, 1, Len(s))) <=> \A k \in 1 .. Len(s) : s[k] = t[k]
  <2> DEFINE u == SubSeq(t, 1, Len(s))
  <2>1. u \in Seq(S) /\ Len(u) = Len(s) /\ \A k \in 1 .. Len(s) : u[k] = t[k]
    BY <1>1, <1>3
  <2> HIDE DEF u
  <2>2. (s = u) <=> \A k \in 1 .. Len(s) : s[k] = u[k]
    BY <2>1
  <2> QED
    BY <2>1, <2>2 DEF u
<1> QED
  BY <1>2, <1>3 DEF IsPrefix

-----------------------------------------------------------------------------
(* The tree.                                                                *)

Nodes(S) == [parent : Nat, symbol : S, count : Nat, size : Nat, total : Nat]

Linked(graph) ==
  /\ Len(graph) >= 1 /\ graph[1].parent = 0
  /\ \A n \in 2 .. Len(graph) : graph[n].parent \in 1 .. n - 1

Apart(graph) ==
  \A m, n \in 2 .. Len(graph) :
    graph[m].parent = graph[n].parent /\ graph[m].symbol = graph[n].symbol => m = n

Tree(graph, S) == graph \in Seq(Nodes(S)) /\ Linked(graph) /\ Apart(graph)

Climbing(graph, way) ==
  way = [n \in 0 .. Len(graph) |-> IF n = 0 THEN <<>> ELSE Append(way[graph[n].parent], n)]

(* There is a function that climbs a tree as Way does ...                  *)
LEMMA ClimbExists ==
  ASSUME NEW graph, Len(graph) \in Nat,
         \A n \in 1 .. Len(graph) : graph[n].parent \in 0 .. n - 1
  PROVE  \E way : Climbing(graph, way)
<1> DEFINE last == Len(graph)
           D == 0 .. last
           Put(g, i) == IF i = 0 THEN <<>> ELSE Append(g[graph[i].parent], i)
           Right(g, n) == \A i \in D : i <= n => g[i] = Put(g, i)
           S == {n \in Nat : \E g : Right(g, n)}
<1>1. last \in Nat
  OBVIOUS
<1> HIDE DEF last
<1>2. 0 \in S
  <2> DEFINE g == [i \in D |-> <<>>]
  <2>1. Right(g, 0)
    <3>1. \A i \in D : i <= 0 => i = 0
      OBVIOUS
    <3> QED
      BY <3>1
  <2>2. \E h : Right(h, 0)
    BY <2>1
  <2> QED
    BY <2>2
<1>3. ASSUME NEW n \in 0 .. last - 1, n \in S
      PROVE  n + 1 \in S
  <2>1. PICK g : Right(g, n)
    BY <1>3
  <2> DEFINE m == n + 1
             x == Append(g[graph[m].parent], m)
             h == [i \in D |-> IF i = m THEN x ELSE g[i]]
  <2>2. m \in D /\ m \in Nat /\ n \in Nat /\ n \in D /\ m # 0
    BY <1>1
  <2>3. \A i \in D : i # 0 => graph[i].parent \in D /\ graph[i].parent < i
    BY <1>1 DEF last
  <2> HIDE DEF x
  <2>4. h[m] = x /\ \A i \in D : i # m => h[i] = g[i]
    BY <2>2
  <2> HIDE DEF h
  <2>5. ASSUME NEW i \in D, i <= m
        PROVE  h[i] = Put(h, i)
    <3>1. CASE i = m
      <4>1. h[graph[m].parent] = g[graph[m].parent]
        BY <2>2, <2>3, <2>4
      <4>2. Put(h, m) = Append(h[graph[m].parent], m)
        BY <2>2
      <4> QED
        BY <2>4, <3>1, <4>1, <4>2 DEF x
    <3>2. CASE i # m /\ i # 0
      <4>1. i <= n /\ graph[i].parent \in D /\ graph[i].parent # m
        BY <2>2, <2>3, <2>5, <3>2
      <4>2. g[i] = Append(g[graph[i].parent], i) /\ h[i] = g[i]
            /\ h[graph[i].parent] = g[graph[i].parent]
        BY <2>1, <2>4, <3>2, <4>1
      <4> QED
        BY <3>2, <4>2
    <3>3. CASE i # m /\ i = 0
      <4>1. 0 <= n
        BY <2>2
      <4> QED
        BY <2>1, <2>4, <3>3, <4>1
    <3> QED
      BY <3>1, <3>2, <3>3
  <2>6. Right(h, n + 1)
    BY <2>5
  <2>7. \E k : Right(k, n + 1)
    BY <2>6
  <2> QED
    BY <2>2, <2>7
<1>4. last \in S
  <2> HIDE DEF S
  <2>1. \A n \in 0 .. last : n \in S
    BY <1>1, <1>2, <1>3, Upwards
  <2> QED
    BY <1>1, <2>1
<1>5. PICK f : Right(f, last)
  BY <1>4
<1> DEFINE g == [i \in D |-> f[i]]
<1>6. \A i \in D : g[i] = Put(g, i)
  <2>1. ASSUME NEW i \in D PROVE g[i] = Put(g, i)
    <3>1. g[i] = f[i] /\ f[i] = Put(f, i)
      BY <1>1, <1>5
    <3>2. i # 0 => graph[i].parent \in D
      BY <1>1 DEF last
    <3>3. i # 0 => g[graph[i].parent] = f[graph[i].parent]
      BY <3>2
    <3> HIDE DEF g
    <3> QED
      BY <3>1, <3>3
  <2> QED
    BY <2>1
<1>7. g = [i \in D |-> Put(g, i)]
  <2>1. g = [i \in D |-> g[i]]
    OBVIOUS
  <2> HIDE DEF Put, g
  <2> QED
    BY <1>6, <2>1
<1> HIDE DEF g
<1>8. Climbing(graph, g)
  BY <1>7 DEF Climbing, last
<1> QED
  BY <1>8

(* ... so that the way to a node is that to its parent, and the node.      *)
LEMMA WayClimbs ==
  ASSUME NEW graph, Len(graph) \in Nat,
         \A n \in 1 .. Len(graph) : graph[n].parent \in 0 .. n - 1
  PROVE  /\ Way(graph, 0) = <<>>
         /\ \A n \in 1 .. Len(graph) : Way(graph, n) = Append(Way(graph, graph[n].parent), n)
<1> DEFINE P(way) == Climbing(graph, way)
           way == CHOOSE way : P(way)
<1>1. \A n : Way(graph, n) = way[n]
  BY DEF Way, Climbing
<1>2. PICK g : P(g)
  BY ClimbExists
<1>3. P(way)
  <2> HIDE DEF P
  <2> QED
    BY <1>2
<1> HIDE DEF way
<1>4. \A n \in 0 .. Len(graph) :
        way[n] = IF n = 0 THEN <<>> ELSE Append(way[graph[n].parent], n)
  BY <1>3 DEF Climbing
<1>5. way[0] = <<>>
  <2>1. 0 \in 0 .. Len(graph)
    OBVIOUS
  <2> QED
    BY <1>4, <2>1
<1>6. ASSUME NEW n \in 1 .. Len(graph) PROVE way[n] = Append(way[graph[n].parent], n)
  <2>1. n \in 0 .. Len(graph) /\ n # 0
    OBVIOUS
  <2> QED
    BY <1>4, <2>1
<1> QED
  BY <1>1, <1>5, <1>6

(* What there is to say of the way to a node.                               *)
WayRight(graph, n) ==
  LET way == Way(graph, n)
      parent == graph[n].parent
  IN  /\ way \in Seq(1 .. n) /\ Len(way) >= 1 /\ way[1] = 1 /\ way[Len(way)] = n
      /\ way = Append(Way(graph, parent), n)
      /\ n = 1 => way = <<1>>
      /\ n # 1 => parent \in 1 .. n - 1 /\ Len(way) = Len(Way(graph, parent)) + 1

(* What a tree is, node by node.                                           *)
LEMMA TreeIs ==
  ASSUME NEW S, NEW graph, Tree(graph, S)
  PROVE  /\ Len(graph) \in Nat /\ Len(graph) >= 1 /\ DOMAIN graph = 1 .. Len(graph)
         /\ graph[1].parent = 0
         /\ \A n \in 1 .. Len(graph) : graph[n] \in Nodes(S) /\ graph[n].symbol \in S
         /\ \A n \in 1 .. Len(graph) : graph[n].parent \in 0 .. n - 1
         /\ \A n \in 2 .. Len(graph) : graph[n].parent \in 1 .. n - 1
<1>1. Len(graph) \in Nat /\ DOMAIN graph = 1 .. Len(graph)
  BY DEF Tree
<1>2. ASSUME NEW n \in 1 .. Len(graph) PROVE graph[n] \in Nodes(S) /\ graph[n].symbol \in S
  <2>1. graph[n] \in Nodes(S)
    BY DEF Tree
  <2> QED
    BY <2>1 DEF Nodes
<1>3. ASSUME NEW n \in 1 .. Len(graph) PROVE graph[n].parent \in 0 .. n - 1
  <2>1. CASE n = 1
    BY <2>1 DEF Tree, Linked
  <2>2. CASE n # 1
    <3>1. n \in 2 .. Len(graph)
      BY <1>1, <2>2
    <3>2. graph[n].parent \in 1 .. n - 1
      BY <3>1 DEF Tree, Linked
    <3> QED
      BY <1>1, <3>2
  <2> QED
    BY <2>1, <2>2
<1> QED
  BY <1>1, <1>2, <1>3 DEF Tree, Linked

(* Every node has such a way.                                              *)
LEMMA WayIs ==
  ASSUME NEW S, NEW graph, Tree(graph, S)
  PROVE  Way(graph, 0) = <<>> /\ \A n \in 1 .. Len(graph) : WayRight(graph, n)
<1>1. /\ Len(graph) \in Nat /\ Len(graph) >= 1 /\ graph[1].parent = 0
      /\ \A n \in 1 .. Len(graph) : graph[n].parent \in 0 .. n - 1
      /\ \A n \in 2 .. Len(graph) : graph[n].parent \in 1 .. n - 1
  BY TreeIs
<1>2. /\ Way(graph, 0) = <<>>
      /\ \A n \in 1 .. Len(graph) : Way(graph, n) = Append(Way(graph, graph[n].parent), n)
  BY <1>1, WayClimbs
<1> DEFINE T == {n \in 1 .. Len(graph) : ~WayRight(graph, n)}
<1> SUFFICES ASSUME T # {} PROVE FALSE
  BY <1>2
<1>3. PICK n \in T : \A m \in T : n <= m
  <2>1. T \in SUBSET Nat
    OBVIOUS
  <2> HIDE DEF T
  <2> QED
    BY <2>1, LeastElement
<1> DEFINE parent == graph[n].parent
           way == Way(graph, n)
           up == Way(graph, parent)
<1>4. n \in 1 .. Len(graph) /\ way = Append(up, n) /\ n \in Nat
  BY <1>1, <1>2
<1>5. CASE n = 1
  <2>1. up = <<>> /\ way = <<1>>
    <3>1. parent = 0
      BY <1>1, <1>5
    <3>2. up = <<>>
      BY <1>2, <3>1
    <3>3. way = Append(<<>>, 1)
      BY <1>4, <1>5, <3>2
    <3> QED
      BY <3>2, <3>3
  <2>2. WayRight(graph, n)
    BY <1>4, <1>5, <2>1 DEF WayRight
  <2> QED
    BY <2>2
<1>6. CASE n # 1
  <2>1. parent \in 1 .. n - 1 /\ parent \in 1 .. Len(graph) /\ parent < n
    BY <1>1, <1>4, <1>6
  <2>2. WayRight(graph, parent)
    BY <1>3, <2>1
  <2>3. up \in Seq(1 .. parent) /\ Len(up) >= 1 /\ up[1] = 1
    BY <2>2 DEF WayRight
  <2> HIDE DEF way, up, parent
  <2>4. up \in Seq(1 .. n)
    BY <1>4, <2>1, <2>3
  <2>5. /\ way \in Seq(1 .. n) /\ Len(way) = Len(up) + 1 /\ way[Len(up) + 1] = n
        /\ \A k \in 1 .. Len(up) : way[k] = up[k]
    <3>1. n \in 1 .. n
      BY <1>4
    <3> QED
      BY <1>4, <2>4, <3>1
  <2>6. WayRight(graph, n)
    <3>1. Len(up) \in Nat /\ 1 \in 1 .. Len(up)
      BY <2>3
    <3>2. way[1] = 1 /\ Len(way) >= 1 /\ way[Len(way)] = n
      BY <2>3, <2>5, <3>1
    <3> QED
      BY <1>4, <1>6, <2>1, <2>5, <3>2 DEF WayRight, way, up, parent
  <2> QED
    BY <2>6
<1> QED
  BY <1>5, <1>6

(* What is on the way to n does not change when nodes are added or counted. *)
Extends(graph, other) ==
  /\ Len(graph) <= Len(other)
  /\ \A n \in 1 .. Len(graph) : /\ other[n].parent = graph[n].parent
                                /\ other[n].symbol = graph[n].symbol

(* Nodes that are added, and weights, change no way.                       *)
LEMMA SameWay ==
  ASSUME NEW S, NEW graph, Tree(graph, S), NEW other, Tree(other, S), Extends(graph, other)
  PROVE  \A n \in 0 .. Len(graph) : Way(other, n) = Way(graph, n)
<1>1. Len(graph) \in Nat /\ Len(other) \in Nat /\ Len(graph) <= Len(other)
  BY TreeIs DEF Extends
<1>2. Way(graph, 0) = <<>> /\ \A n \in 1 .. Len(graph) : WayRight(graph, n)
  BY WayIs
<1>3. Way(other, 0) = <<>> /\ \A n \in 1 .. Len(other) : WayRight(other, n)
  BY WayIs
<1>4. \A n \in 1 .. Len(graph) : graph[n].parent \in 0 .. n - 1
  BY TreeIs
<1> DEFINE T == {n \in 0 .. Len(graph) : Way(other, n) # Way(graph, n)}
<1> SUFFICES ASSUME T # {} PROVE FALSE
  OBVIOUS
<1>5. PICK n \in T : \A m \in T : n <= m
  <2>1. T \in SUBSET Nat
    OBVIOUS
  <2> HIDE DEF T
  <2> QED
    BY <2>1, LeastElement
<1>6. n \in 1 .. Len(graph) /\ n \in 1 .. Len(other) /\ n \in Nat
  <2>1. n \in 0 .. Len(graph) /\ n # 0
    BY <1>2, <1>3
  <2> QED
    BY <1>1, <2>1
<1>7. Way(graph, n) = Append(Way(graph, graph[n].parent), n)
  BY <1>2, <1>6 DEF WayRight
<1>8. Way(other, n) = Append(Way(other, graph[n].parent), n)
  <2>1. other[n].parent = graph[n].parent
    BY <1>6 DEF Extends
  <2>2. WayRight(other, n)
    BY <1>3, <1>6
  <2> QED
    BY <2>1, <2>2 DEF WayRight
<1>9. Way(other, graph[n].parent) = Way(graph, graph[n].parent)
  <2>1. graph[n].parent \in 0 .. Len(graph) /\ graph[n].parent < n
    BY <1>1, <1>4, <1>6
  <2> QED
    BY <1>5, <1>6, <2>1
<1>10. Way(other, n) = Way(graph, n)
  BY <1>7, <1>8, <1>9
<1> QED
  BY <1>10

PathRight(graph, S, n) ==
  LET path == PathTo(graph, n)
      way == Way(graph, n)
  IN  /\ path \in Seq(S) /\ Len(path) = Len(way) /\ Len(path) >= 1
      /\ \A k \in 1 .. Len(way) : path[k] = graph[way[k]].symbol
      /\ path[Len(path)] = graph[n].symbol
      /\ path = Append(PathTo(graph, graph[n].parent), graph[n].symbol)
      /\ PathTo(graph, graph[n].parent) \in Seq(S)
      /\ Len(path) = 1 <=> n = 1

(* The symbols on the way to a node, one by one ...                        *)
LEMMA PathAt ==
  ASSUME NEW S, NEW graph, Tree(graph, S), NEW n \in 1 .. Len(graph),
         NEW path, path = PathTo(graph, n), NEW way, way = Way(graph, n)
  PROVE  /\ path \in Seq(S) /\ Len(path) = Len(way) /\ Len(path) >= 1
         /\ way \in Seq(1 .. n) /\ DOMAIN path = 1 .. Len(way) /\ Len(way) \in Nat
         /\ \A k \in 1 .. Len(way) : path[k] = graph[way[k]].symbol
<1>1. WayRight(graph, n)
  BY WayIs
<1>2. way \in Seq(1 .. n) /\ Len(way) >= 1
  BY <1>1 DEF WayRight
<1>3. DOMAIN way = 1 .. Len(way) /\ Len(way) \in Nat
  BY <1>2
<1>4. path = [k \in 1 .. Len(way) |-> graph[way[k]].symbol]
  BY <1>3 DEF PathTo
<1>5. \A k \in 1 .. Len(way) : graph[way[k]].symbol \in S
  <2>1. ASSUME NEW k \in 1 .. Len(way) PROVE graph[way[k]].symbol \in S
    <3>1. way[k] \in 1 .. n
      BY <1>2
    <3>2. way[k] \in 1 .. Len(graph)
      BY <3>1, TreeIs
    <3> QED
      BY <3>2, TreeIs
  <2> QED
    BY <2>1
<1>6. path \in Seq(S) /\ Len(path) = Len(way)
  BY <1>3, <1>4, <1>5
<1> QED
  BY <1>2, <1>3, <1>4, <1>6

(* ... and as those on the way to its parent, and its own.                 *)
LEMMA PathIs ==
  ASSUME NEW S, NEW graph, Tree(graph, S), NEW n \in 1 .. Len(graph)
  PROVE  PathRight(graph, S, n)
<1> DEFINE path == PathTo(graph, n)
           way == Way(graph, n)
           parent == graph[n].parent
           up == Way(graph, parent)
           above == PathTo(graph, parent)
<1>1. /\ path \in Seq(S) /\ Len(path) = Len(way) /\ Len(path) >= 1 /\ Len(way) \in Nat
      /\ \A k \in 1 .. Len(way) : path[k] = graph[way[k]].symbol
  BY PathAt
<1>2. /\ way \in Seq(1 .. n) /\ Len(way) >= 1 /\ way[Len(way)] = n
      /\ way = Append(up, n)
      /\ n = 1 => way = <<1>>
      /\ n # 1 => parent \in 1 .. n - 1 /\ Len(way) = Len(up) + 1
  <2>1. WayRight(graph, n)
    BY WayIs
  <2> QED
    BY <2>1 DEF WayRight
<1>3. graph[n].symbol \in S /\ Len(graph) \in Nat
  BY TreeIs
<1>4. path[Len(path)] = graph[n].symbol
  <2>1. Len(way) \in 1 .. Len(way)
    BY <1>1, <1>2
  <2> QED
    BY <1>1, <1>2, <2>1
<1>5. CASE n = 1
  <2>1. parent = 0 /\ up = <<>>
    <3>1. parent = 0
      BY <1>5, TreeIs
    <3> QED
      BY <3>1, WayIs
  <2>2. above = <<>>
    <3>1. DOMAIN up = 1 .. 0
      BY <2>1
    <3>2. above = [k \in 1 .. 0 |-> graph[up[k]].symbol]
      BY <3>1 DEF PathTo
    <3> QED
      BY <3>2
  <2>3. Len(path) = 1
    <3>1. Len(way) = 1
      BY <1>2, <1>5
    <3> QED
      BY <1>1, <3>1
  <2>4. path = Append(above, graph[n].symbol)
    <3> DEFINE q == Append(above, graph[n].symbol)
    <3>1. q \in Seq(S) /\ Len(q) = 1 /\ q[1] = graph[n].symbol
      BY <1>3, <2>2
    <3> HIDE DEF q, path
    <3> QED
      BY <1>1, <1>4, <2>3, <3>1 DEF q
  <2>5. above \in Seq(S)
    BY <2>2
  <2> QED
    BY <1>1, <1>4, <1>5, <2>3, <2>4, <2>5 DEF PathRight
<1>6. CASE n # 1
  <2>1. parent \in 1 .. Len(graph) /\ parent \in 1 .. n - 1
    BY <1>2, <1>3, <1>6
  <2>2. /\ above \in Seq(S) /\ Len(above) = Len(up) /\ Len(above) >= 1 /\ Len(up) \in Nat
        /\ up \in Seq(1 .. parent)
        /\ \A k \in 1 .. Len(up) : above[k] = graph[up[k]].symbol
    <3> HIDE DEF parent
    <3> QED
      BY <2>1, PathAt
  <2>3. Len(path) = Len(above) + 1 /\ Len(path) # 1
    BY <1>1, <1>2, <1>6, <2>2
  <2>4. ASSUME NEW k \in 1 .. Len(above) PROVE path[k] = above[k]
    <3>1. way[k] = up[k]
      BY <1>2, <2>2
    <3>2. k \in 1 .. Len(way)
      BY <1>1, <2>2, <2>3
    <3> QED
      BY <1>1, <2>2, <3>1, <3>2
  <2>5. path = Append(above, graph[n].symbol)
    <3> DEFINE q == Append(above, graph[n].symbol)
    <3>1. /\ q \in Seq(S) /\ Len(q) = Len(above) + 1 /\ q[Len(above) + 1] = graph[n].symbol
          /\ \A k \in 1 .. Len(above) : q[k] = above[k]
      BY <1>3, <2>2
    <3> HIDE DEF q, path, above
    <3>2. \A k \in 1 .. Len(path) : path[k] = q[k]
      BY <1>4, <2>2, <2>3, <2>4, <3>1
    <3> QED
      BY <1>1, <2>3, <3>1, <3>2 DEF q
  <2> QED
    BY <1>1, <1>4, <1>6, <2>2, <2>3, <2>5 DEF PathRight
<1> QED
  BY <1>5, <1>6

(* A tree that is extended keeps its paths.                                *)
LEMMA SamePath ==
  ASSUME NEW S, NEW graph, Tree(graph, S), NEW other, Tree(other, S), Extends(graph, other)
  PROVE  \A n \in 1 .. Len(graph) : PathTo(other, n) = PathTo(graph, n)
<1> SUFFICES ASSUME NEW n \in 1 .. Len(graph) PROVE PathTo(other, n) = PathTo(graph, n)
  OBVIOUS
<1> DEFINE way == Way(graph, n)
<1>1. Len(graph) \in Nat /\ Len(other) \in Nat /\ Len(graph) <= Len(other)
  BY TreeIs DEF Extends
<1>2. Way(other, n) = way /\ n \in 1 .. Len(other)
  <2>1. n \in 0 .. Len(graph) /\ n \in 1 .. Len(other)
    BY <1>1
  <2> QED
    BY <2>1, SameWay
<1>3. DOMAIN way = 1 .. Len(way) /\ \A k \in 1 .. Len(way) : way[k] \in 1 .. Len(graph)
  <2>1. way \in Seq(1 .. n)
    BY PathAt
  <2>2. way \in Seq(1 .. Len(graph))
    BY <1>1, <2>1
  <2> HIDE DEF way
  <2> QED
    BY <2>2
<1>4. \A k \in DOMAIN way : other[way[k]].symbol = graph[way[k]].symbol
  BY <1>3 DEF Extends
<1> QED
  BY <1>2, <1>4 DEF PathTo

(* No two nodes are at the end of the same way.                             *)
LEMMA WaysApart ==
  ASSUME NEW S, NEW graph, Tree(graph, S), NEW m \in 1 .. Len(graph), NEW n \in 1 .. Len(graph),
         PathTo(graph, m) = PathTo(graph, n)
  PROVE  m = n
<1> DEFINE Twins(k) == \E l \in 1 .. Len(graph) : l # k /\ PathTo(graph, l) = PathTo(graph, k)
           T == {k \in 1 .. Len(graph) : Twins(k)}
<1> SUFFICES ASSUME T # {} PROVE FALSE
  OBVIOUS
<1>1. PICK k \in T : \A l \in T : k <= l
  <2>1. T \in SUBSET Nat
    OBVIOUS
  <2> HIDE DEF T
  <2> QED
    BY <2>1, LeastElement
<1>2. PICK l \in 1 .. Len(graph) : l # k /\ PathTo(graph, l) = PathTo(graph, k)
  BY <1>1
<1>3. k \in 1 .. Len(graph) /\ Len(graph) \in Nat
  BY TreeIs
<1>4. PathRight(graph, S, k) /\ PathRight(graph, S, l)
  BY <1>3, PathIs
<1>5. k # 1 /\ l # 1
  BY <1>2, <1>4 DEF PathRight
<1>6. k \in 2 .. Len(graph) /\ l \in 2 .. Len(graph)
  BY <1>2, <1>3, <1>5
<1> DEFINE p == graph[k].parent
           q == graph[l].parent
<1>7. /\ p \in 1 .. k - 1 /\ q \in 1 .. l - 1
      /\ graph[k].symbol \in S /\ graph[l].symbol \in S
  BY <1>2, <1>3, <1>6, TreeIs
<1>8. p \in 1 .. Len(graph) /\ q \in 1 .. Len(graph) /\ p < k
  BY <1>2, <1>3, <1>7, SMTT(30)
<1>9. PathTo(graph, p) = PathTo(graph, q) /\ graph[k].symbol = graph[l].symbol
  <2> DEFINE a == PathTo(graph, p)
             b == PathTo(graph, q)
             d == graph[k].symbol
             e == graph[l].symbol
  <2>1. a \in Seq(S) /\ b \in Seq(S) /\ Append(a, d) = Append(b, e)
    BY <1>2, <1>4 DEF PathRight
  <2> HIDE DEF a, b, d, e
  <2>2. d \in S /\ e \in S
    BY <1>7 DEF d, e
  <2>3. a = b /\ d = e
    BY <2>1, <2>2, AppendsEqual
  <2> QED
    BY <2>3 DEF a, b, d, e
<1>10. p = q
  <2>1. p \notin T
    BY <1>1, <1>3, <1>7, <1>8
  <2> QED
    BY <1>8, <1>9, <2>1
<1>11. k = l
  BY <1>6, <1>9, <1>10 DEF Tree, Apart
<1> QED
  BY <1>2, <1>11

(* The way to a node on the way is the first part of the way.               *)
LEMMA PartOfWay ==
  ASSUME NEW S, NEW graph, Tree(graph, S)
  PROVE  \A n \in 1 .. Len(graph) : \A k \in 1 .. Len(Way(graph, n)) :
           /\ Way(graph, n)[k] \in 1 .. Len(graph)
           /\ Len(Way(graph, Way(graph, n)[k])) = k
           /\ \A j \in 1 .. k : Way(graph, Way(graph, n)[k])[j] = Way(graph, n)[j]
<1> DEFINE Part(n, k) == /\ Way(graph, n)[k] \in 1 .. Len(graph)
                         /\ Len(Way(graph, Way(graph, n)[k])) = k
                         /\ \A j \in 1 .. k : Way(graph, Way(graph, n)[k])[j] = Way(graph, n)[j]
           T == {n \in 1 .. Len(graph) : \E k \in 1 .. Len(Way(graph, n)) : ~Part(n, k)}
<1> SUFFICES ASSUME T # {} PROVE FALSE
  OBVIOUS
<1>1. PICK n \in T : \A m \in T : n <= m
  <2>1. T \in SUBSET Nat
    OBVIOUS
  <2> HIDE DEF T
  <2> QED
    BY <2>1, LeastElement
<1>2. n \in 1 .. Len(graph) /\ Len(graph) \in Nat
  BY TreeIs
<1> DEFINE way == Way(graph, n)
           parent == graph[n].parent
           up == Way(graph, parent)
<1>3. PICK k \in 1 .. Len(way) : ~Part(n, k)
  BY <1>1
<1>4. /\ way \in Seq(1 .. n) /\ Len(way) >= 1 /\ way[Len(way)] = n
      /\ way = Append(up, n)
      /\ n = 1 => way = <<1>>
      /\ n # 1 => parent \in 1 .. n - 1 /\ Len(way) = Len(up) + 1
  <2>1. WayRight(graph, n)
    BY <1>2, WayIs
  <2> QED
    BY <2>1 DEF WayRight
<1>5. CASE k = Len(way)
  BY <1>2, <1>3, <1>4, <1>5
<1>6. CASE k # Len(way)
  <2>1. n # 1
    <3>1. ASSUME n = 1 PROVE FALSE
      <4>1. Len(way) = 1
        BY <1>4, <3>1
      <4> QED
        BY <1>3, <1>6, <4>1
    <3> QED
      BY <3>1
  <2>2. parent \in 1 .. Len(graph) /\ parent < n /\ Len(way) = Len(up) + 1
    <3>1. parent \in 1 .. n - 1 /\ Len(way) = Len(up) + 1
      BY <1>4, <2>1
    <3> HIDE DEF parent, way, up, T
    <3> QED
      BY <1>2, <3>1
  <2>3. up \in Seq(1 .. parent) /\ Len(up) \in Nat
    BY <2>2, PathAt
  <2>4. k \in 1 .. Len(up)
    BY <1>3, <1>6, <2>2, <2>3
  <2>5. Part(parent, k)
    <3>1. parent \notin T
      <4>1. parent \in Nat /\ n \in Nat /\ ~(n <= parent)
        BY <1>2, <2>2, SMTT(30)
      <4> HIDE DEF T, parent
      <4> QED
        BY <1>1, <4>1
    <3> HIDE DEF Part
    <3> QED
      BY <2>2, <2>4, <3>1
  <2>6. \A j \in 1 .. k : way[j] = up[j]
    <3>1. up \in Seq(1 .. n) /\ n \in 1 .. n
      BY <1>2, <1>4, <2>1, <2>3
    <3>2. \A j \in 1 .. Len(up) : way[j] = up[j]
      BY <1>4, <3>1
    <3> QED
      BY <2>3, <2>4, <3>2
  <2>7. way[k] = up[k]
    BY <1>3, <2>6
  <2>8. Part(n, k)
    <3> DEFINE at == way[k]
    <3>1. /\ up[k] \in 1 .. Len(graph) /\ Len(Way(graph, up[k])) = k
          /\ \A j \in 1 .. k : Way(graph, up[k])[j] = up[j]
      BY <2>5
    <3> QED
      BY <2>6, <2>7, <3>1
  <2> QED
    BY <1>3, <2>8
<1> QED
  BY <1>5, <1>6

(* A node is on the way to another if its path begins that of the other.   *)
LEMMA OnTheWay ==
  ASSUME NEW S, NEW graph, Tree(graph, S), NEW m \in 1 .. Len(graph), NEW n \in 1 .. Len(graph)
  PROVE  IsPrefix(PathTo(graph, m), PathTo(graph, n)) <=> m \in Range(Way(graph, n))
<1> DEFINE p == PathTo(graph, m)
           q == PathTo(graph, n)
           v == Way(graph, m)
           w == Way(graph, n)
<1>1. /\ p \in Seq(S) /\ Len(p) = Len(v) /\ Len(p) >= 1 /\ Len(v) \in Nat
      /\ \A k \in 1 .. Len(v) : p[k] = graph[v[k]].symbol
  BY PathAt
<1>2. /\ q \in Seq(S) /\ Len(q) = Len(w) /\ Len(w) \in Nat /\ w \in Seq(1 .. n)
      /\ \A k \in 1 .. Len(w) : q[k] = graph[w[k]].symbol
  BY PathAt
<1>3. IsPrefix(p, q) <=> Len(p) <= Len(q) /\ \A k \in 1 .. Len(p) : p[k] = q[k]
  <2>1. p \in Seq(S) /\ q \in Seq(S)
    BY <1>1, <1>2
  <2> HIDE DEF p, q
  <2> QED
    BY ONLY <2>1, PrefixIs
<1>4. \A k \in 1 .. Len(w) : /\ w[k] \in 1 .. Len(graph) /\ Len(Way(graph, w[k])) = k
                             /\ \A j \in 1 .. k : Way(graph, w[k])[j] = w[j]
  BY PartOfWay
<1>5. ASSUME IsPrefix(p, q) PROVE m \in Range(w)
  <2> DEFINE k == Len(p)
             a == w[k]
             r == PathTo(graph, a)
             x == Way(graph, a)
  <2>1. k \in 1 .. Len(w) /\ a \in 1 .. Len(graph)
    BY <1>1, <1>2, <1>3, <1>4, <1>5
  <2>2. /\ r \in Seq(S) /\ Len(r) = Len(x)
        /\ \A j \in 1 .. Len(x) : r[j] = graph[x[j]].symbol
    BY <2>1, PathAt, SMTT(30)
  <2>3. Len(x) = k /\ \A j \in 1 .. k : x[j] = w[j]
    BY <1>4, <2>1
  <2> HIDE DEF r, x, p, q, w, v, a, k
  <2>4. ASSUME NEW j \in 1 .. k PROVE r[j] = p[j]
    <3>1. r[j] = graph[w[j]].symbol
      BY <2>2, <2>3
    <3>2. j \in 1 .. Len(w)
      BY <1>2, <2>1
    <3>3. q[j] = graph[w[j]].symbol
      BY <1>2, <3>2
    <3>4. p[j] = q[j]
      BY <1>3, <1>5 DEF k
    <3> QED
      BY <3>1, <3>3, <3>4
  <2>5. r = p
    BY <1>1, <2>2, <2>3, <2>4 DEF k
  <2>6. a = m
    BY <2>1, <2>5, WaysApart DEF r, p
  <2> QED
    BY <1>2, <2>1, <2>6 DEF Range, a
<1>6. ASSUME m \in Range(w) PROVE IsPrefix(p, q)
  <2>1. PICK k \in 1 .. Len(w) : m = w[k]
    BY <1>2, <1>6 DEF Range
  <2>2. Len(v) = k /\ \A j \in 1 .. k : v[j] = w[j]
    BY <1>4, <2>1
  <2> HIDE DEF p, q, w, v
  <2>3. ASSUME NEW j \in 1 .. Len(p) PROVE p[j] = q[j]
    <3>1. j \in 1 .. k /\ j \in 1 .. Len(w) /\ j \in 1 .. Len(v)
      BY <1>1, <1>2, <2>1, <2>2
    <3> QED
      BY <1>1, <1>2, <2>2, <3>1
  <2>4. Len(p) <= Len(q)
    BY <1>1, <1>2, <2>1, <2>2
  <2> QED
    BY <1>3, <2>3, <2>4
<1> QED
  BY <1>5, <1>6

-----------------------------------------------------------------------------
(* The loops over symbols and addresses.                                    *)

Shows(path, s) == IF Hidden(s) THEN path ELSE Append(path, s)

Keeps(kept, x, s) == IF s \in kept THEN Append(x, s) ELSE x

TreeTurn(s, x, i) ==
  IF i \in summaries[s].traceables THEN AddBelow(x, Below(traces[i], s)) ELSE x

Turned(loop, t, x, s) ==
  CASE loop = "add" -> AddTurn(x, s)
    [] loop = "path" -> Shows(x, s)
    [] loop = "symbolize" -> SymbolizeTurn(t, x, s)
    [] loop = "only" -> Keeps(t, x, s)
    [] loop = "seek" -> PrefixTurn(t, x, s)
    [] loop = "descend" -> DescendTurn(x, s)
    [] loop = "tree" -> TreeTurn(t, x, s)

(* The turns of the loops.                                                 *)
LEMMA TurnedIs ==
  ASSUME NEW t, NEW x, NEW s
  PROVE  /\ Turned("add", t, x, s) = AddTurn(x, s)
         /\ Turned("path", t, x, s) = Shows(x, s)
         /\ Turned("symbolize", t, x, s) = SymbolizeTurn(t, x, s)
         /\ Turned("only", t, x, s) = Keeps(t, x, s)
         /\ Turned("seek", t, x, s) = PrefixTurn(t, x, s)
         /\ Turned("descend", t, x, s) = DescendTurn(x, s)
         /\ Turned("tree", t, x, s) = TreeTurn(t, x, s)
<1> DEFINE a == AddTurn(x, s)
           b == Shows(x, s)
           c == SymbolizeTurn(t, x, s)
           d == Keeps(t, x, s)
           e == PrefixTurn(t, x, s)
           f == DescendTurn(x, s)
           g == TreeTurn(t, x, s)
<1>1. \A loop : Turned(loop, t, x, s) = CASE loop = "add" -> a [] loop = "path" -> b
                                           [] loop = "symbolize" -> c [] loop = "only" -> d
                                           [] loop = "seek" -> e [] loop = "descend" -> f
                                           [] loop = "tree" -> g
  BY DEF Turned
<1> HIDE DEF a, b, c, d, e, f, g
<1>2. Turned("add", t, x, s) = a
  BY <1>1
<1>3. Turned("path", t, x, s) = b
  BY <1>1
<1>4. Turned("symbolize", t, x, s) = c
  BY <1>1
<1>5. Turned("only", t, x, s) = d
  BY <1>1
<1>6. Turned("seek", t, x, s) = e
  BY <1>1
<1>7. Turned("descend", t, x, s) = f
  BY <1>1
<1>8. Turned("tree", t, x, s) = g
  BY <1>1
<1> QED
  BY <1>2, <1>3, <1>4, <1>5, <1>6, <1>7, <1>8 DEF a, b, c, d, e, f, g

Turning(loop, t, start, args, last, turn) ==
  turn = [n \in 0 .. last |-> IF n = 0 THEN start ELSE Turned(loop, t, turn[n - 1], args[n])]

(* Such a loop computes something for any number of turns.                 *)
LEMMA LoopExists ==
  ASSUME NEW loop, NEW t, NEW start, NEW args, NEW last \in Nat
  PROVE  \E turn : Turning(loop, t, start, args, last, turn)
<1> DEFINE D == 0 .. last
           Put(g, i) == IF i = 0 THEN start ELSE Turned(loop, t, g[i - 1], args[i])
           Right(g, n) == \A i \in D : i <= n => g[i] = Put(g, i)
           S == {n \in Nat : \E g : Right(g, n)}
<1>2. 0 \in S
  <2> DEFINE g == [i \in D |-> start]
  <2>1. Right(g, 0)
    <3>1. \A i \in D : i <= 0 => i = 0
      OBVIOUS
    <3> QED
      BY <3>1
  <2>2. \E h : Right(h, 0)
    BY <2>1
  <2> QED
    BY <2>2
<1>3. ASSUME NEW n \in 0 .. last - 1, n \in S
      PROVE  n + 1 \in S
  <2>1. PICK g : Right(g, n)
    BY <1>3
  <2> DEFINE m == n + 1
             x == Turned(loop, t, g[n], args[m])
             h == [i \in D |-> IF i = m THEN x ELSE g[i]]
  <2>2. m \in D /\ m \in Nat /\ n \in Nat /\ n \in D /\ m - 1 = n /\ m # 0
    OBVIOUS
  <2> HIDE DEF x
  <2>4. h[m] = x /\ \A i \in D : i # m => h[i] = g[i]
    BY <2>2
  <2> HIDE DEF h
  <2>5. ASSUME NEW i \in D, i <= m
        PROVE  h[i] = Put(h, i)
    <3>1. CASE i = m
      <4>1. h[n] = g[n]
        BY <2>2, <2>4
      <4>2. Put(h, m) = Turned(loop, t, h[n], args[m])
        BY <2>2
      <4> QED
        BY <2>4, <3>1, <4>1, <4>2 DEF x
    <3>2. CASE i # m /\ i # 0
      <4>1. i <= n /\ i - 1 \in D /\ i - 1 # m
        BY <2>2, <2>5, <3>2
      <4>2. g[i] = Turned(loop, t, g[i - 1], args[i]) /\ h[i] = g[i] /\ h[i - 1] = g[i - 1]
        BY <2>1, <2>4, <3>2, <4>1
      <4> QED
        BY <3>2, <4>2
    <3>3. CASE i # m /\ i = 0
      BY <2>1, <2>2, <2>4, <3>3
    <3> QED
      BY <3>1, <3>2, <3>3
  <2>6. Right(h, n + 1)
    BY <2>5
  <2>7. \E k : Right(k, n + 1)
    BY <2>6
  <2> QED
    BY <2>2, <2>7
<1>4. last \in S
  <2> HIDE DEF S
  <2>1. \A n \in 0 .. last : n \in S
    BY <1>2, <1>3, Upwards
  <2> QED
    BY <2>1
<1>5. PICK f : Right(f, last)
  BY <1>4
<1> DEFINE g == [i \in D |-> f[i]]
<1>6. \A i \in D : g[i] = Put(g, i)
  <2>1. ASSUME NEW i \in D PROVE g[i] = Put(g, i)
    <3>1. g[i] = f[i] /\ f[i] = Put(f, i)
      BY <1>5
    <3>2. i # 0 => i - 1 \in D /\ g[i - 1] = f[i - 1]
      OBVIOUS
    <3> HIDE DEF g
    <3> QED
      BY <3>1, <3>2
  <2> QED
    BY <2>1
<1>7. g = [i \in D |-> Put(g, i)]
  <2>1. g = [i \in D |-> g[i]]
    OBVIOUS
  <2> HIDE DEF Put, g
  <2> QED
    BY <1>6, <2>1
<1> HIDE DEF g
<1>8. Turning(loop, t, start, args, last, g)
  BY <1>7 DEF Turning
<1> QED
  BY <1>8

AddTurns(symbols, at) ==
  /\ AddTrace(symbols) = at[Len(symbols) - 1]
  /\ at[0] = [graph |-> [nodes EXCEPT ![1].count = @ + 1], node |-> 1]
  /\ \A k \in 0 .. Len(symbols) - 2 : at[k + 1] = AddTurn(at[k], symbols[Len(symbols) - (k + 1)])

(* The loop that adds a trace.                                             *)
LEMMA AddTraceHasTurns ==
  ASSUME NEW symbols, Len(symbols) \in Nat, Len(symbols) >= 1
  PROVE  \E at : AddTurns(symbols, at)
<1> DEFINE last == Len(symbols) - 1
           start == [graph |-> [nodes EXCEPT ![1].count = @ + 1], node |-> 1]
           args == [k \in 1 .. last |-> symbols[Len(symbols) - k]]
           P(at) == at = [k \in 0 .. last |-> IF k = 0 THEN start
                                             ELSE AddTurn(at[k - 1], symbols[Len(symbols) - k])]
           at == CHOOSE at : P(at)
<1>1. AddTrace(symbols) = at[last]
  BY DEF AddTrace
<1>2. last \in Nat /\ last \in 0 .. last
  OBVIOUS
<1>3. PICK f : Turning("add", 0, start, args, last, f)
  <2> HIDE DEF last, start, args
  <2> QED
    BY <1>2, LoopExists
<1>4. P(f)
  <2>1. f = [n \in 0 .. last |-> IF n = 0 THEN start ELSE Turned("add", 0, f[n - 1], args[n])]
    BY <1>3 DEF Turning
  <2>2. ASSUME NEW n \in 0 .. last, n # 0
        PROVE  Turned("add", 0, f[n - 1], args[n]) = AddTurn(f[n - 1], symbols[Len(symbols) - n])
    <3>1. args[n] = symbols[Len(symbols) - n]
      <4>1. n \in 1 .. last
        BY <1>2, <2>2
      <4> HIDE DEF last
      <4> QED
        BY <4>1
    <3> HIDE DEF args, start, last
    <3> QED
      BY <3>1, TurnedIs
  <2> HIDE DEF start, args, last
  <2> QED
    BY <2>1, <2>2
<1>5. P(at)
  <2> HIDE DEF P
  <2> QED
    BY <1>4
<1> HIDE DEF at
<1>6. \A k \in 0 .. last : at[k] = IF k = 0 THEN start
                                   ELSE AddTurn(at[k - 1], symbols[Len(symbols) - k])
  <2> HIDE DEF last, start
  <2> QED
    BY <1>5
<1>7. at[0] = start
  <2>1. 0 \in 0 .. last
    BY <1>2
  <2> HIDE DEF last, start
  <2> QED
    BY <1>6, <2>1
<1>8. ASSUME NEW k \in 0 .. Len(symbols) - 2
      PROVE  at[k + 1] = AddTurn(at[k], symbols[Len(symbols) - (k + 1)])
  <2>1. k + 1 \in 0 .. last /\ k + 1 # 0 /\ (k + 1) - 1 = k
    BY <1>2
  <2> HIDE DEF last, start
  <2> QED
    BY <1>6, <2>1
<1>9. AddTurns(symbols, at)
  BY <1>1, <1>7, <1>8 DEF AddTurns
<1> QED
  BY <1>9

PathTurns(symbols, path) ==
  /\ Path(symbols) = path[Len(symbols)]
  /\ path[0] = <<>>
  /\ \A k \in 0 .. Len(symbols) - 1 : path[k + 1] = Shows(path[k], symbols[Len(symbols) - k])

(* The loop that leaves out what is hidden.                                *)
LEMMA PathHasTurns ==
  ASSUME NEW symbols, Len(symbols) \in Nat
  PROVE  \E path : PathTurns(symbols, path)
<1> DEFINE last == Len(symbols)
           args == [k \in 1 .. last |-> symbols[last + 1 - k]]
           P(path) == path = [k \in 0 .. last |->
                        IF k = 0 THEN <<>>
                        ELSE LET s == symbols[last + 1 - k]
                             IN  IF Hidden(s) THEN path[k - 1] ELSE Append(path[k - 1], s)]
           path == CHOOSE path : P(path)
<1>1. Path(symbols) = path[last]
  BY DEF Path
<1>2. last \in Nat /\ last \in 0 .. last
  OBVIOUS
<1>3. PICK f : Turning("path", 0, <<>>, args, last, f)
  <2> HIDE DEF last, args
  <2> QED
    BY <1>2, LoopExists
<1>4. P(f)
  <2>1. f = [n \in 0 .. last |-> IF n = 0 THEN <<>> ELSE Turned("path", 0, f[n - 1], args[n])]
    BY <1>3 DEF Turning
  <2>2. ASSUME NEW n \in 0 .. last, n # 0
        PROVE  Turned("path", 0, f[n - 1], args[n])
                 = LET s == symbols[last + 1 - n]
                   IN  IF Hidden(s) THEN f[n - 1] ELSE Append(f[n - 1], s)
    <3>1. args[n] = symbols[last + 1 - n]
      <4>1. n \in 1 .. last
        BY <1>2, <2>2
      <4> HIDE DEF last
      <4> QED
        BY <4>1
    <3> HIDE DEF args, last
    <3>2. Turned("path", 0, f[n - 1], args[n]) = Shows(f[n - 1], symbols[last + 1 - n])
      BY <3>1, TurnedIs
    <3> QED
      BY <3>2 DEF Shows
  <2> HIDE DEF args, last
  <2> QED
    BY <2>1, <2>2
<1>5. P(path)
  <2> HIDE DEF P
  <2> QED
    BY <1>4
<1> HIDE DEF path
<1>6. \A k \in 0 .. last : path[k] = IF k = 0 THEN <<>>
                                     ELSE Shows(path[k - 1], symbols[last + 1 - k])
  <2> HIDE DEF last
  <2> QED
    BY <1>5 DEF Shows
<1>7. path[0] = <<>>
  <2>1. 0 \in 0 .. last
    BY <1>2
  <2> HIDE DEF last
  <2> QED
    BY <1>6, <2>1
<1>8. ASSUME NEW k \in 0 .. Len(symbols) - 1
      PROVE  path[k + 1] = Shows(path[k], symbols[Len(symbols) - k])
  <2>1. k + 1 \in 0 .. last /\ k + 1 # 0 /\ (k + 1) - 1 = k /\ last + 1 - (k + 1) = Len(symbols) - k
    BY <1>2
  <2> HIDE DEF last
  <2> QED
    BY <1>6, <2>1
<1>9. PathTurns(symbols, path)
  BY <1>1, <1>7, <1>8 DEF PathTurns
<1> QED
  BY <1>9

SymbolizeTurns(t, done) ==
  /\ Symbolize(t) = done[Len(t.stack)]
  /\ done[0] = [symbols |-> <<>>, context |-> "NONE"]
  /\ \A k \in 0 .. Len(t.stack) - 1 : done[k + 1] = SymbolizeTurn(t, done[k], t.stack[k + 1])

(* The loop over the addresses of a stack.                                 *)
LEMMA SymbolizeHasTurns ==
  ASSUME NEW t, Len(t.stack) \in Nat
  PROVE  \E done : SymbolizeTurns(t, done)
<1> DEFINE last == Len(t.stack)
           start == [symbols |-> <<>>, context |-> "NONE"]
           args == t.stack
           P(done) == done = [k \in 0 .. last |-> IF k = 0 THEN start
                                                 ELSE SymbolizeTurn(t, done[k - 1], t.stack[k])]
           done == CHOOSE done : P(done)
<1>1. Symbolize(t) = done[last]
  BY DEF Symbolize
<1>2. last \in Nat /\ last \in 0 .. last
  OBVIOUS
<1>3. PICK f : Turning("symbolize", t, start, args, last, f)
  <2> HIDE DEF last, start, args
  <2> QED
    BY <1>2, LoopExists
<1>4. P(f)
  <2>1. f = [n \in 0 .. last |-> IF n = 0 THEN start ELSE Turned("symbolize", t, f[n - 1], args[n])]
    BY <1>3 DEF Turning
  <2>2. ASSUME NEW n \in 0 .. last, n # 0
        PROVE  Turned("symbolize", t, f[n - 1], args[n]) = SymbolizeTurn(t, f[n - 1], args[n])
    <3> HIDE DEF args, start, last
    <3> QED
      BY TurnedIs
  <2> HIDE DEF start, args, last
  <2>3. f = [n \in 0 .. last |-> IF n = 0 THEN start ELSE SymbolizeTurn(t, f[n - 1], args[n])]
    BY <2>1, <2>2
  <2> QED
    BY <2>3 DEF args
<1>5. P(done)
  <2> HIDE DEF P
  <2> QED
    BY <1>4
<1> HIDE DEF done
<1>6. \A k \in 0 .. last : done[k] = IF k = 0 THEN start
                                     ELSE SymbolizeTurn(t, done[k - 1], t.stack[k])
  <2> HIDE DEF last, start
  <2> QED
    BY <1>5
<1>7. done[0] = start
  <2>1. 0 \in 0 .. last
    BY <1>2
  <2> HIDE DEF last, start
  <2> QED
    BY <1>6, <2>1
<1>8. ASSUME NEW k \in 0 .. Len(t.stack) - 1
      PROVE  done[k + 1] = SymbolizeTurn(t, done[k], t.stack[k + 1])
  <2>1. k + 1 \in 0 .. last /\ k + 1 # 0 /\ (k + 1) - 1 = k
    BY <1>2
  <2> HIDE DEF last, start
  <2> QED
    BY <1>6, <2>1
<1>9. SymbolizeTurns(t, done)
  BY <1>1, <1>7, <1>8 DEF SymbolizeTurns
<1> QED
  BY <1>9

-----------------------------------------------------------------------------
(* A turn of the loop that adds a trace.                                    *)

(* From node to n, its child with symbol s.                                 *)
Entered(graph, node, s, S, g, n) ==
  /\ Tree(g, S) /\ Extends(graph, g)
  /\ n \in 2 .. Len(g) /\ node < n /\ g[n].parent = node /\ g[n].symbol = s
  /\ \A m \in 1 .. Len(graph) : g[m] = graph[m]
  /\ Len(g) # Len(graph) => /\ Len(g) = Len(graph) + 1 /\ n = Len(g)
                           /\ g[n].count = 0 /\ g[n].size = 0 /\ g[n].total = 0

(* A child that is found is one, and if none is found there is none.       *)
LEMMA ChildIs ==
  ASSUME NEW S, NEW graph, Tree(graph, S), NEW node \in 1 .. Len(graph), NEW s,
         NEW c, c = Child(graph, node, s)
  PROVE  IF c = 0 THEN \A n \in 1 .. Len(graph) : ~(graph[n].parent = node /\ graph[n].symbol = s)
         ELSE c \in 2 .. Len(graph) /\ graph[c].parent = node /\ graph[c].symbol = s
<1> DEFINE I == {n \in 1 .. Len(graph) : graph[n].parent = node /\ graph[n].symbol = s}
<1>1. c = IF I # {} THEN Min(I) ELSE 0
  BY DEF Child, SelectInSeq
<1>2. CASE I = {}
  BY <1>1, <1>2
<1>3. CASE I # {}
  <2>1. PICK x \in I : \A y \in I : x <= y
    <3>1. I \in SUBSET Nat
      OBVIOUS
    <3> HIDE DEF I
    <3> QED
      BY <1>3, <3>1, LeastElement
  <2>2. Min(I) \in I
    <3> HIDE DEF I
    <3> QED
      BY <2>1 DEF Min
  <2>3. c \in 1 .. Len(graph) /\ graph[c].parent = node /\ graph[c].symbol = s
    BY <1>1, <1>3, <2>2
  <2>4. c # 1 /\ c # 0
    <3>1. graph[1].parent = 0 /\ Len(graph) \in Nat
      BY TreeIs
    <3> QED
      BY <2>3, <3>1
  <2>5. c \in 2 .. Len(graph)
    <3>1. Len(graph) \in Nat
      BY TreeIs
    <3> QED
      BY <2>3, <2>4, <3>1
  <2> QED
    BY <2>3, <2>4, <2>5
<1> QED
  BY <1>2, <1>3

(* Entering a child leaves a tree in which no two children look the same.  *)
LEMMA EnterRight ==
  ASSUME NEW S, NEW graph, Tree(graph, S), NEW node \in 1 .. Len(graph), NEW s \in S,
         NEW e, e = Enter(graph, node, s)
  PROVE  Entered(graph, node, s, S, e.graph, e.node)
<1> DEFINE c == Child(graph, node, s)
<1>1. IF c = 0 THEN \A n \in 1 .. Len(graph) : ~(graph[n].parent = node /\ graph[n].symbol = s)
      ELSE c \in 2 .. Len(graph) /\ graph[c].parent = node /\ graph[c].symbol = s
  BY ChildIs
<1>2. /\ Len(graph) \in Nat /\ Len(graph) >= 1 /\ graph \in Seq(Nodes(S))
      /\ \A n \in 2 .. Len(graph) : graph[n].parent \in 1 .. n - 1
  BY TreeIs DEF Tree
<1>3. e = IF c # 0 THEN [graph |-> graph, node |-> c]
          ELSE [graph |-> Append(graph, NewNode(node, s)), node |-> Len(graph) + 1]
  BY DEF Enter
<1> HIDE DEF c
<1>4. CASE c # 0
  <2>1. e.graph = graph /\ e.node = c
    BY <1>3, <1>4
  <2>2. c \in 2 .. Len(graph) /\ graph[c].parent = node /\ graph[c].symbol = s
    BY <1>1, <1>4
  <2>3. node < c
    BY <1>2, <2>2
  <2>4. Extends(graph, graph)
    BY <1>2 DEF Extends
  <2> QED
    BY <2>1, <2>2, <2>3, <2>4 DEF Entered
<1>5. CASE c = 0
  <2> DEFINE new == NewNode(node, s)
             g == Append(graph, new)
             l == Len(graph) + 1
  <2>1. e.graph = g /\ e.node = l
    BY <1>3, <1>5
  <2>2. /\ new \in Nodes(S) /\ new.parent = node /\ new.symbol = s
        /\ new.count = 0 /\ new.size = 0 /\ new.total = 0
    BY <1>2 DEF NewNode, Nodes
  <2> HIDE DEF new
  <2>3. /\ g \in Seq(Nodes(S)) /\ Len(g) = l /\ g[l] = new
        /\ \A n \in 1 .. Len(graph) : g[n] = graph[n]
    BY <1>2, <2>2
  <2> HIDE DEF g
  <2>4. l \in 2 .. Len(g) /\ node < l /\ l - 1 = Len(graph) /\ l \in Nat
    BY <1>2, <2>3
  <2>5. \A n \in 1 .. Len(g) : n \in 1 .. Len(graph) \/ n = l
    BY <1>2, <2>3
  <2>6. Linked(g)
    <3>1. Len(g) >= 1 /\ g[1].parent = 0
      <4>1. 1 \in 1 .. Len(graph) /\ graph[1].parent = 0
        BY <1>2, TreeIs
      <4> QED
        BY <2>3, <2>4, <4>1
    <3>2. ASSUME NEW n \in 2 .. Len(g) PROVE g[n].parent \in 1 .. n - 1
      <4>1. CASE n = l
        BY <2>2, <2>3, <2>4, <4>1
      <4>2. CASE n # l
        <5>1. n \in 2 .. Len(graph) /\ n \in 1 .. Len(graph)
          BY <1>2, <2>3, <4>2
        <5> QED
          BY <1>2, <2>3, <5>1
      <4> QED
        BY <4>1, <4>2
    <3> QED
      BY <3>1, <3>2 DEF Linked
  <2>7. Apart(g)
    <3>1. SUFFICES ASSUME NEW m \in 2 .. Len(g), NEW n \in 2 .. Len(g),
                          g[m].parent = g[n].parent, g[m].symbol = g[n].symbol
                   PROVE  m = n
      BY DEF Apart
    <3>2. \A k \in 1 .. Len(graph) : ~(g[k].parent = node /\ g[k].symbol = s)
      BY <1>1, <1>5, <2>3
    <3>3. g[l].parent = node /\ g[l].symbol = s
      BY <2>2, <2>3
    <3>4. CASE m = l
      <4>1. g[n].parent = node /\ g[n].symbol = s
        BY <3>1, <3>3, <3>4
      <4>2. n \in 1 .. Len(g)
        BY <2>3, <2>4
      <4> QED
        BY <2>5, <3>2, <3>4, <4>1, <4>2
    <3>5. CASE n = l
      <4>1. g[m].parent = node /\ g[m].symbol = s
        BY <3>1, <3>3, <3>5
      <4>2. m \in 1 .. Len(g)
        BY <2>3, <2>4
      <4> QED
        BY <2>5, <3>2, <3>5, <4>1, <4>2
    <3>6. CASE m # l /\ n # l
      <4>1. m \in 2 .. Len(graph) /\ n \in 2 .. Len(graph)
        BY <1>2, <2>3, <3>6
      <4>2. g[m] = graph[m] /\ g[n] = graph[n]
        <5>1. m \in 1 .. Len(graph) /\ n \in 1 .. Len(graph)
          BY <1>2, <4>1
        <5> QED
          BY <2>3, <5>1
      <4> QED
        BY <3>1, <4>1, <4>2 DEF Tree, Apart
    <3> QED
      BY <3>4, <3>5, <3>6
  <2>8. Tree(g, S) /\ Extends(graph, g)
    BY <1>2, <2>3, <2>4, <2>6, <2>7 DEF Tree, Extends
  <2>9. g[l].parent = node /\ g[l].symbol = s /\ g[l].count = 0 /\ g[l].size = 0 /\ g[l].total = 0
    BY <2>2, <2>3
  <2> QED
    BY <2>1, <2>3, <2>4, <2>8, <2>9 DEF Entered
<1> QED
  BY <1>4, <1>5

(* Of two trees that are linked alike one is a tree if the other is.        *)
LEMMA SameTree ==
  ASSUME NEW S, NEW graph, Tree(graph, S), NEW other \in Seq(Nodes(S)),
         Len(other) = Len(graph), Extends(graph, other)
  PROVE  Tree(other, S)
<1>1. Len(graph) \in Nat /\ Len(graph) >= 1
  BY TreeIs
<1>2. \A n \in 2 .. Len(graph) : n \in 1 .. Len(graph)
  BY <1>1
<1>3. Linked(other)
  <2>1. 1 \in 1 .. Len(graph)
    BY <1>1
  <2> QED
    BY <1>1, <1>2, <2>1 DEF Linked, Extends, Tree
<1>4. Apart(other)
  BY <1>2 DEF Apart, Extends, Tree
<1> QED
  BY <1>3, <1>4 DEF Tree

(* A node that is counted.                                                  *)
Counted(g, n, h, S) ==
  /\ h \in Seq(Nodes(S)) /\ Len(h) = Len(g) /\ Extends(g, h)
  /\ h[n].count = g[n].count + 1
  /\ \A m \in 1 .. Len(g) : /\ h[m].size = g[m].size /\ h[m].total = g[m].total
                            /\ m # n => h[m].count = g[m].count

(* Counting a node changes nothing else.                                   *)
LEMMA CountIs ==
  ASSUME NEW S, NEW g \in Seq(Nodes(S)), NEW n \in 1 .. Len(g),
         NEW h, h = [g EXCEPT ![n].count = @ + 1]
  PROVE  Counted(g, n, h, S)
<1> DEFINE x == [g[n] EXCEPT !.count = g[n].count + 1]
<1>1. g[n] \in Nodes(S) /\ Len(g) \in Nat /\ DOMAIN g = 1 .. Len(g)
  OBVIOUS
<1>2. /\ x \in Nodes(S) /\ x.count = g[n].count + 1
      /\ x.parent = g[n].parent /\ x.symbol = g[n].symbol
      /\ x.size = g[n].size /\ x.total = g[n].total
  <2> DEFINE r == g[n]
             c == r.count + 1
  <2>1. /\ r = [parent |-> r.parent, symbol |-> r.symbol, count |-> r.count,
                size |-> r.size, total |-> r.total]
        /\ r.parent \in Nat /\ r.symbol \in S /\ r.count \in Nat /\ r.size \in Nat /\ r.total \in Nat
    BY <1>1 DEF Nodes
  <2>2. x = [r EXCEPT !.count = c]
    OBVIOUS
  <2> HIDE DEF r, c, x
  <2>3. x = [parent |-> r.parent, symbol |-> r.symbol, count |-> c,
             size |-> r.size, total |-> r.total]
    BY <2>1, <2>2
  <2>4. c \in Nat
    BY <2>1 DEF c
  <2>5. /\ x \in Nodes(S) /\ x.count = c
        /\ x.parent = r.parent /\ x.symbol = r.symbol
        /\ x.size = r.size /\ x.total = r.total
    BY <2>1, <2>3, <2>4 DEF Nodes
  <2> QED
    BY <2>5 DEF c, r
<1>3. h = [g EXCEPT ![n] = x]
  OBVIOUS
<1> HIDE DEF x
<1>4. /\ h \in Seq(Nodes(S)) /\ Len(h) = Len(g) /\ h[n] = x
      /\ \A m \in 1 .. Len(g) : m # n => h[m] = g[m]
  BY <1>1, <1>2, <1>3
<1>5. Extends(g, h)
  BY <1>1, <1>2, <1>4 DEF Extends
<1> QED
  BY <1>2, <1>4, <1>5 DEF Counted

Along(g0, graph, node, path, S) ==
  /\ Tree(graph, S) /\ Extends(g0, graph)
  /\ node \in 1 .. Len(graph) /\ PathTo(graph, node) = path
  /\ \A n \in 1 .. Len(g0) :
       /\ graph[n].size = g0[n].size /\ graph[n].total = g0[n].total
       /\ graph[n].count = g0[n].count + (IF n \in Range(Way(graph, node)) THEN 1 ELSE 0)
  /\ \A n \in Len(g0) + 1 .. Len(graph) :
       /\ graph[n].size = 0 /\ graph[n].total = 0 /\ graph[n].count = 1
       /\ n \in Range(Way(graph, node))

(* An extension of an extension is one.                                    *)
LEMMA ExtendsOn ==
  ASSUME NEW f, Len(f) \in Nat, NEW g, Len(g) \in Nat, NEW h, Extends(f, g), Extends(g, h),
         Len(h) \in Nat
  PROVE  Extends(f, h)
<1>1. \A n \in 1 .. Len(f) : n \in 1 .. Len(g)
  BY DEF Extends
<1> QED
  BY <1>1 DEF Extends

(* What is on a way that goes one node further.                            *)
LEMMA RangeOfAppend ==
  ASSUME NEW S, NEW s \in Seq(S), NEW e \in S
  PROVE  Range(Append(s, e)) = Range(s) \cup {e}
<1> DEFINE t == Append(s, e)
<1>1. /\ Len(s) \in Nat /\ DOMAIN s = 1 .. Len(s) /\ DOMAIN t = 1 .. Len(s) + 1
      /\ t[Len(s) + 1] = e /\ \A k \in 1 .. Len(s) : t[k] = s[k]
  OBVIOUS
<1> HIDE DEF t
<1>2. \A k \in DOMAIN t : k \in DOMAIN s \/ k = Len(s) + 1
  BY <1>1
<1>3. \A k \in DOMAIN s : k \in DOMAIN t
  BY <1>1
<1>4. Len(s) + 1 \in DOMAIN t
  BY <1>1
<1>5. ASSUME NEW x \in Range(t) PROVE x \in Range(s) \cup {e}
  BY <1>1, <1>2 DEF Range
<1>6. ASSUME NEW x \in Range(s) PROVE x \in Range(t)
  BY <1>1, <1>3 DEF Range
<1>7. e \in Range(t)
  BY <1>1, <1>4 DEF Range
<1> QED
  BY <1>5, <1>6, <1>7 DEF t

(* A turn goes one symbol further, unless it is hidden.                    *)
LEMMA AddTurnRight ==
  ASSUME NEW S, NEW g0, Len(g0) \in Nat, \A n \in 1 .. Len(g0) : g0[n].count \in Nat,
         NEW at, NEW path, Along(g0, at.graph, at.node, path, S),
         NEW s \in S, NEW next, next = AddTurn(at, s)
  PROVE  Along(g0, next.graph, next.node, Shows(path, s), S)
<1>1. CASE Hidden(s)
  BY <1>1 DEF AddTurn, Shows
<1>2. CASE ~Hidden(s)
  <2> DEFINE graph == at.graph
             node == at.node
             e == Enter(graph, node, s)
             g == e.graph
             n == e.node
             h == [g EXCEPT ![n].count = @ + 1]
  <2>1. next = [e EXCEPT !.graph = h]
    BY <1>2 DEF AddTurn
  <2>2. next.graph = h /\ next.node = n
    <3>1. \E a, b : e = [graph |-> a, node |-> b]
      BY DEF Enter
    <3> HIDE DEF e, h
    <3> QED
      BY <2>1, <3>1 DEF n
  <2>3. Tree(graph, S) /\ node \in 1 .. Len(graph)
    BY DEF Along
  <2>4. Entered(graph, node, s, S, g, n)
    <3> HIDE DEF graph, node
    <3> QED
      BY <2>3, EnterRight
  <2>5. /\ Tree(g, S) /\ Extends(graph, g) /\ n \in 2 .. Len(g) /\ node < n /\ g[n].parent = node
        /\ g[n].symbol = s /\ \A m \in 1 .. Len(graph) : g[m] = graph[m]
        /\ Len(g) # Len(graph) => /\ Len(g) = Len(graph) + 1 /\ n = Len(g)
                                 /\ g[n].count = 0 /\ g[n].size = 0 /\ g[n].total = 0
    BY <2>4 DEF Entered
  <2>6. /\ Len(graph) \in Nat /\ Len(g) \in Nat /\ n \in 1 .. Len(g) /\ g \in Seq(Nodes(S))
        /\ Len(graph) <= Len(g)
    <3> HIDE DEF graph, g, n
    <3>1. Len(g) \in Nat /\ Len(graph) \in Nat
      BY <2>3, <2>5, TreeIs
    <3> QED
      BY <2>5, <3>1 DEF Tree, Extends
  <2> HIDE DEF e, g, n, h
  <2>7. Counted(g, n, h, S)
    BY <2>6, CountIs DEF h
  <2>8. /\ h \in Seq(Nodes(S)) /\ Len(h) = Len(g) /\ Extends(g, h)
        /\ h[n].count = g[n].count + 1
        /\ \A m \in 1 .. Len(g) : /\ h[m].size = g[m].size /\ h[m].total = g[m].total
                                  /\ m # n => h[m].count = g[m].count
    BY <2>7 DEF Counted
  <2>9. Tree(h, S)
    BY <2>5, <2>8, SameTree
  <2>10. Extends(graph, h) /\ Extends(g0, h)
    <3>1. Extends(g0, graph)
      BY DEF Along
    <3>2. Extends(graph, h)
      <4> HIDE DEF graph
      <4> QED
        BY <2>5, <2>6, <2>8, ExtendsOn
    <3> HIDE DEF graph
    <3> QED
      BY <2>6, <2>8, <3>1, <3>2, ExtendsOn
  <2>11. h[n].parent = node /\ h[n].symbol = s
    BY <2>5, <2>6, <2>8 DEF Extends
  <2> DEFINE old == Way(graph, node)
             way == Way(h, n)
  <2>12. way = Append(old, n) /\ old \in Seq(1 .. node)
    <3>1. WayRight(h, n)
      BY <2>6, <2>8, <2>9, WayIs
    <3>2. way = Append(Way(h, node), n)
      BY <2>11, <3>1 DEF WayRight
    <3>3. Way(h, node) = old
      <4>1. node \in 0 .. Len(graph)
        BY <2>3, <2>6
      <4> HIDE DEF graph, node
      <4> QED
        BY <2>3, <2>9, <2>10, <4>1, SameWay
    <3>4. old \in Seq(1 .. node)
      <4> HIDE DEF graph, node
      <4> QED
        BY <2>3, PathAt
    <3> QED
      BY <3>2, <3>3, <3>4
  <2>13. Range(way) = Range(old) \cup {n} /\ n \notin Range(old)
    <3>1. old \in Seq(Nat) /\ n \in Nat
      BY <2>3, <2>6, <2>12
    <3>2. \A x \in Range(old) : x \in 1 .. node
      <4> HIDE DEF old, node
      <4>1. old \in Seq(1 .. node)
        BY <2>12
      <4>2. DOMAIN old = 1 .. Len(old) /\ \A k \in 1 .. Len(old) : old[k] \in 1 .. node
        BY ONLY <4>1, SeqIs
      <4> QED
        BY <4>2 DEF Range
    <3> HIDE DEF old, way, node
    <3>3. Range(Append(old, n)) = Range(old) \cup {n}
      BY <3>1, RangeOfAppend
    <3>4. n \notin Range(old)
      BY <2>3, <2>5, <2>6, <3>2
    <3> QED
      BY <2>12, <3>3, <3>4
  <2>14. PathTo(h, n) = Append(path, s)
    <3>1. PathRight(h, S, n)
      BY <2>6, <2>8, <2>9, PathIs
    <3>2. PathTo(h, n) = Append(PathTo(h, node), s)
      BY <2>11, <3>1 DEF PathRight
    <3>3. PathTo(h, node) = PathTo(graph, node)
      <4> HIDE DEF graph, node
      <4> QED
        BY <2>3, <2>9, <2>10, SamePath
    <3> QED
      BY <3>2, <3>3 DEF Along
  <2>15. Shows(path, s) = Append(path, s)
    BY <1>2 DEF Shows
  <2>16. /\ Extends(g0, graph)
         /\ \A m \in 1 .. Len(g0) :
              /\ graph[m].size = g0[m].size /\ graph[m].total = g0[m].total
              /\ graph[m].count = g0[m].count + (IF m \in Range(old) THEN 1 ELSE 0)
         /\ \A m \in Len(g0) + 1 .. Len(graph) :
              /\ graph[m].size = 0 /\ graph[m].total = 0 /\ graph[m].count = 1
              /\ m \in Range(old)
    BY DEF Along
  <2>17. \A m \in 1 .. Len(graph) : graph[m].count \in Nat
    <3> HIDE DEF graph
    <3>1. \A m \in 1 .. Len(graph) : graph[m] \in Nodes(S)
      BY <2>3, TreeIs
    <3> QED
      BY <3>1 DEF Nodes
  <2> HIDE DEF graph, node, old, way
  <2>18. ASSUME NEW m \in 1 .. Len(g0)
         PROVE  /\ h[m].size = g0[m].size /\ h[m].total = g0[m].total
                /\ h[m].count = g0[m].count + (IF m \in Range(way) THEN 1 ELSE 0)
    <3>1. m \in 1 .. Len(graph) /\ m \in 1 .. Len(g) /\ g[m] = graph[m]
      <4>1. m \in 1 .. Len(graph)
        BY <2>6, <2>16 DEF Extends
      <4> QED
        BY <2>5, <2>6, <4>1
    <3>2. CASE m = n
      <4>1. graph[m].count = g0[m].count + 0
        BY <2>13, <2>16, <3>2
      <4>2. h[m].count = (g0[m].count + 0) + 1
        BY <2>8, <3>1, <3>2, <4>1
      <4>3. g0[m].count \in Nat
        OBVIOUS
      <4>4. m \in Range(way)
        BY <2>13, <3>2
      <4>5. h[m].count = g0[m].count + 1
        BY <4>2, <4>3
      <4> QED
        BY <2>8, <2>16, <3>1, <4>4, <4>5
    <3>3. CASE m # n
      <4>1. m \in Range(way) <=> m \in Range(old)
        BY <2>13, <3>3
      <4> QED
        BY <2>8, <2>16, <3>1, <3>3, <4>1
    <3> QED
      BY <3>2, <3>3
  <2>19. ASSUME NEW m \in Len(g0) + 1 .. Len(h)
         PROVE  /\ h[m].size = 0 /\ h[m].total = 0 /\ h[m].count = 1 /\ m \in Range(way)
    <3>0. m \in 1 .. Len(g) /\ m \in Nat
      BY <2>6, <2>8
    <3>1. CASE m \in 1 .. Len(graph)
      <4>1. m \in Len(g0) + 1 .. Len(graph)
        BY <2>6, <3>1
      <4>2. m \in Range(old) /\ graph[m].size = 0 /\ graph[m].total = 0 /\ graph[m].count = 1
        BY <2>16, <4>1
      <4>3. m # n /\ m \in Range(way) /\ g[m] = graph[m]
        BY <2>5, <2>13, <3>1, <4>2
      <4> QED
        BY <2>8, <3>0, <4>2, <4>3
    <3>2. CASE m \notin 1 .. Len(graph)
      <4>1. Len(g) # Len(graph) /\ m = n
        BY <2>5, <2>6, <3>0, <3>2
      <4>2. g[n].count = 0 /\ g[n].size = 0 /\ g[n].total = 0
        BY <2>5, <4>1
      <4> QED
        BY <2>8, <2>13, <3>0, <4>1, <4>2
    <3> QED
      BY <3>1, <3>2
  <2>20. n \in 1 .. Len(h)
    BY <2>6, <2>8
  <2>21. Along(g0, h, n, Append(path, s), S)
    BY <2>9, <2>10, <2>14, <2>18, <2>19, <2>20 DEF Along, way
  <2> QED
    BY <2>2, <2>15, <2>21
<1> QED
  BY <1>1, <1>2

(* A trace ends at the node of its path, and is counted on the way.        *)
LEMMA AddTraceRight ==
  ASSUME NEW S, Tree(nodes, S), nodes[1].symbol = everything,
         NEW symbols \in Seq(S), Len(symbols) >= 1,
         symbols[Len(symbols)] = everything, NEW added, added = AddTrace(symbols)
  PROVE  Along(nodes, added.graph, added.node, Path(symbols), S)
<1> DEFINE last == Len(symbols) - 1
<1>1. Len(symbols) \in Nat /\ last \in Nat
  OBVIOUS
<1>2. PICK at : AddTurns(symbols, at)
  BY <1>1, AddTraceHasTurns
<1>3. PICK path : PathTurns(symbols, path)
  BY <1>1, PathHasTurns
<1>4. /\ added = at[last] /\ at[0] = [graph |-> [nodes EXCEPT ![1].count = @ + 1], node |-> 1]
      /\ \A k \in 0 .. last - 1 : at[k + 1] = AddTurn(at[k], symbols[Len(symbols) - (k + 1)])
  <2>1. Len(symbols) - 2 = last - 1
    BY <1>1
  <2> HIDE DEF last
  <2> QED
    BY <1>2, <2>1 DEF AddTurns, last
<1>5. /\ Path(symbols) = path[last + 1] /\ path[0] = <<>>
      /\ path[1] = Shows(path[0], symbols[Len(symbols)])
      /\ \A k \in 0 .. last - 1 : path[(k + 1) + 1] = Shows(path[k + 1], symbols[Len(symbols) - (k + 1)])
  <2>1. last + 1 = Len(symbols) /\ 0 \in 0 .. Len(symbols) - 1 /\ Len(symbols) - 0 = Len(symbols)
    BY <1>1
  <2>2. \A k \in 0 .. last - 1 : k + 1 \in 0 .. Len(symbols) - 1
    BY <1>1
  <2>3. path[0 + 1] = Shows(path[0], symbols[Len(symbols) - 0])
    BY <1>3, <2>1 DEF PathTurns
  <2> HIDE DEF last
  <2> QED
    BY <1>3, <2>1, <2>2, <2>3 DEF PathTurns
<1>6. /\ Len(nodes) \in Nat /\ Len(nodes) >= 1 /\ nodes \in Seq(Nodes(S))
      /\ \A n \in 1 .. Len(nodes) : nodes[n].count \in Nat
  <2>1. \A n \in 1 .. Len(nodes) : nodes[n] \in Nodes(S)
    BY TreeIs
  <2> QED
    BY <2>1, TreeIs DEF Tree, Nodes
<1> DEFINE R(k) == Along(nodes, at[k].graph, at[k].node, path[k + 1], S)
           T == {k \in Nat : R(k)}
<1> HIDE DEF last
<1>7. 0 \in T
  <2> DEFINE h == [nodes EXCEPT ![1].count = @ + 1]
  <2>1. at[0].graph = h /\ at[0].node = 1 /\ 1 \in 1 .. Len(nodes)
    BY <1>4, <1>6
  <2>2. Counted(nodes, 1, h, S)
    BY <1>6, <2>1, CountIs
  <2> HIDE DEF h
  <2>3. /\ h \in Seq(Nodes(S)) /\ Len(h) = Len(nodes) /\ Extends(nodes, h)
        /\ h[1].count = nodes[1].count + 1
        /\ \A m \in 1 .. Len(nodes) : /\ h[m].size = nodes[m].size /\ h[m].total = nodes[m].total
                                      /\ m # 1 => h[m].count = nodes[m].count
    BY <2>2 DEF Counted
  <2>4. Tree(h, S)
    BY <2>3, SameTree
  <2>5. Way(h, 1) = <<1>> /\ PathTo(h, 1) = <<everything>>
    <3>1. WayRight(h, 1) /\ 1 \in 1 .. Len(h)
      BY <2>1, <2>3, <2>4, WayIs
    <3>2. Way(h, 1) = <<1>>
      BY <3>1 DEF WayRight
    <3> DEFINE p == PathTo(h, 1)
    <3>3. PathRight(h, S, 1)
      BY <2>4, <3>1, PathIs
    <3>4. p \in Seq(S) /\ Len(p) = 1 /\ p[Len(p)] = h[1].symbol
      BY <3>3 DEF PathRight
    <3>5. h[1].symbol = everything
      BY <2>1, <2>3 DEF Extends
    <3> HIDE DEF p
    <3>6. p = <<everything>>
      BY <3>4, <3>5
    <3> QED
      BY <3>2, <3>6 DEF p
  <2>6. path[1] = <<everything>>
    <3>1. ~Hidden(everything)
      BY DEF Hidden, IsSystemLibrary, everything, Symbol
    <3>2. path[1] = Append(<<>>, everything)
      BY <1>5, <3>1 DEF Shows
    <3> QED
      BY <3>2
  <2>7. Range(<<1>>) = {1}
    BY DEF Range
  <2>8. \A m \in 1 .. Len(nodes) :
          h[m].count = nodes[m].count + (IF m \in Range(Way(h, 1)) THEN 1 ELSE 0)
    <3>1. ASSUME NEW m \in 1 .. Len(nodes)
          PROVE  h[m].count = nodes[m].count + (IF m \in {1} THEN 1 ELSE 0)
      <4>1. nodes[m].count \in Nat
        BY <1>6
      <4> QED
        BY <2>3, <4>1
    <3> QED
      BY <2>5, <2>7, <3>1
  <2>9. \A m \in Len(nodes) + 1 .. Len(h) : FALSE
    BY <1>6, <2>3
  <2>10. 1 \in 1 .. Len(h)
    BY <2>1, <2>3
  <2>11. Along(nodes, h, 1, <<everything>>, S)
    BY <2>3, <2>4, <2>5, <2>8, <2>9, <2>10 DEF Along
  <2> QED
    BY <2>1, <2>6, <2>11
<1>8. ASSUME NEW k \in 0 .. last - 1, k \in T PROVE k + 1 \in T
  <2> DEFINE s == symbols[Len(symbols) - (k + 1)]
  <2>1. s \in S
    <3>1. Len(symbols) - (k + 1) \in 1 .. Len(symbols)
      BY <1>1 DEF last
    <3> QED
      BY <3>1
  <2>2. at[k + 1] = AddTurn(at[k], s) /\ path[(k + 1) + 1] = Shows(path[k + 1], s)
    BY <1>4, <1>5
  <2>3. Along(nodes, at[k].graph, at[k].node, path[k + 1], S)
    BY <1>8
  <2> HIDE DEF s
  <2>4. Along(nodes, at[k + 1].graph, at[k + 1].node, Shows(path[k + 1], s), S)
    BY <1>6, <2>1, <2>2, <2>3, AddTurnRight
  <2>5. R(k + 1)
    BY <2>2, <2>4
  <2> QED
    BY <2>5
<1>9. last \in T
  <2> HIDE DEF T
  <2>1. \A k \in 0 .. last : k \in T
    BY <1>1, <1>7, <1>8, Upwards
  <2> QED
    BY <1>1, <2>1
<1> QED
  BY <1>4, <1>5, <1>9

-----------------------------------------------------------------------------
(* A trace that is added and weighed.                                       *)

One(b) == IF b THEN 1 ELSE 0

Traced(g, h, path, S) ==
  /\ Tree(h, S) /\ Extends(g, h)
  /\ \E n \in 1 .. Len(h) : PathTo(h, n) = path
  /\ \A m \in 1 .. Len(g) :
       /\ h[m].count = g[m].count + One(IsPrefix(PathTo(h, m), path))
       /\ h[m].total = g[m].total + One(IsPrefix(PathTo(h, m), path))
       /\ h[m].size = g[m].size + One(PathTo(h, m) = path)
  /\ \A m \in Len(g) + 1 .. Len(h) :
       /\ IsPrefix(PathTo(h, m), path)
       /\ h[m].count = 1 /\ h[m].total = 1 /\ h[m].size = One(PathTo(h, m) = path)

Weighed(g, way, h, S) ==
  /\ h \in Seq(Nodes(S)) /\ Len(h) = Len(g) /\ Extends(g, h)
  /\ \A m \in 1 .. Len(g) : /\ h[m].count = g[m].count
                            /\ h[m].total = g[m].total + One(m \in Range(way))
                            /\ h[m].size = g[m].size + One(m = Last(way))

(* What is weighed for a trace, node by node.                              *)
LEMMA WeighIs ==
  ASSUME NEW S, NEW g \in Seq(Nodes(S)), NEW way, NEW h, h = Weigh(g, way)
  PROVE  Weighed(g, way, h, S)
<1> DEFINE x(n) == [g[n] EXCEPT !.total = @ + (IF n \in Range(way) THEN 1 ELSE 0),
                                !.size = @ + (IF n = Last(way) THEN 1 ELSE 0)]
<1>1. Len(g) \in Nat /\ DOMAIN g = 1 .. Len(g)
  OBVIOUS
<1>2. h = [n \in 1 .. Len(g) |-> x(n)]
  BY <1>1 DEF Weigh
<1>3. ASSUME NEW n \in 1 .. Len(g)
      PROVE  /\ x(n) \in Nodes(S) /\ x(n).parent = g[n].parent /\ x(n).symbol = g[n].symbol
             /\ x(n).count = g[n].count
             /\ x(n).total = g[n].total + One(n \in Range(way))
             /\ x(n).size = g[n].size + One(n = Last(way))
  <2> DEFINE r == g[n]
             a == r.total + One(n \in Range(way))
             b == r.size + One(n = Last(way))
  <2>1. /\ r = [parent |-> r.parent, symbol |-> r.symbol, count |-> r.count,
                size |-> r.size, total |-> r.total]
        /\ r.parent \in Nat /\ r.symbol \in S /\ r.count \in Nat /\ r.size \in Nat /\ r.total \in Nat
    <3>1. r \in Nodes(S)
      OBVIOUS
    <3> HIDE DEF r, a, b, x
    <3> QED
      BY <3>1 DEF Nodes
  <2>2. x(n) = [r EXCEPT !.total = a, !.size = b]
    BY DEF One
  <2>3. a \in Nat /\ b \in Nat
    BY <2>1 DEF One
  <2> HIDE DEF r, a, b, x
  <2>4. x(n) = [parent |-> r.parent, symbol |-> r.symbol, count |-> r.count,
                size |-> b, total |-> a]
    BY <2>1, <2>2
  <2>5. /\ x(n) \in Nodes(S) /\ x(n).parent = r.parent /\ x(n).symbol = r.symbol
        /\ x(n).count = r.count /\ x(n).total = a /\ x(n).size = b
    BY <2>1, <2>3, <2>4 DEF Nodes
  <2> QED
    BY <2>5 DEF a, b, r
<1> HIDE DEF x
<1>4. h \in Seq(Nodes(S)) /\ Len(h) = Len(g) /\ \A n \in 1 .. Len(g) : h[n] = x(n)
  BY <1>1, <1>2, <1>3
<1>5. Extends(g, h)
  BY <1>1, <1>3, <1>4 DEF Extends
<1> QED
  BY <1>3, <1>4, <1>5 DEF Weighed

(* A trace is weighed in the nodes whose paths begin its own.              *)
LEMMA TraceRight ==
  ASSUME NEW S, Tree(nodes, S), nodes[1].symbol = everything,
         NEW symbols \in Seq(S), Len(symbols) >= 1,
         symbols[Len(symbols)] = everything, NEW added, added = AddTrace(symbols),
         NEW h, h = Weigh(added.graph, Way(added.graph, added.node))
  PROVE  /\ Traced(nodes, h, Path(symbols), S)
         /\ Tree(added.graph, S) /\ added.node \in 1 .. Len(added.graph)
         /\ PathTo(added.graph, added.node) = Path(symbols)
<1> DEFINE g == added.graph
           e == added.node
           path == Path(symbols)
           way == Way(g, e)
<1>1. Along(nodes, g, e, path, S)
  BY AddTraceRight
<1> HIDE DEF g, e, path
<1>2. /\ Tree(g, S) /\ Extends(nodes, g)
      /\ e \in 1 .. Len(g) /\ PathTo(g, e) = path
      /\ \A n \in 1 .. Len(nodes) :
           /\ g[n].size = nodes[n].size /\ g[n].total = nodes[n].total
           /\ g[n].count = nodes[n].count + One(n \in Range(way))
      /\ \A n \in Len(nodes) + 1 .. Len(g) :
           /\ g[n].size = 0 /\ g[n].total = 0 /\ g[n].count = 1
           /\ n \in Range(way)
  BY <1>1 DEF Along, One
<1>3. Weighed(g, way, h, S)
  <2>1. g \in Seq(Nodes(S))
    BY <1>2 DEF Tree
  <2> QED
    BY <2>1, WeighIs DEF g, e
<1> HIDE DEF way
<1>4. /\ h \in Seq(Nodes(S)) /\ Len(h) = Len(g) /\ Extends(g, h)
      /\ \A m \in 1 .. Len(g) : /\ h[m].count = g[m].count
                                /\ h[m].total = g[m].total + One(m \in Range(way))
                                /\ h[m].size = g[m].size + One(m = Last(way))
  BY <1>3 DEF Weighed
<1>5. Tree(h, S) /\ Len(nodes) \in Nat /\ Len(g) \in Nat
  BY <1>2, <1>4, SameTree, TreeIs
<1>6. Extends(nodes, h) /\ Len(nodes) <= Len(g)
  <2>1. Len(nodes) <= Len(g)
    BY <1>2 DEF Extends
  <2> QED
    BY <1>2, <1>4, <1>5, <2>1, ExtendsOn
<1>7. Last(way) = e
  <2>1. WayRight(g, e)
    BY <1>2, WayIs
  <2> QED
    BY <2>1 DEF WayRight, Last, way
<1>8. \A m \in 1 .. Len(g) : PathTo(h, m) = PathTo(g, m)
  BY <1>2, <1>4, <1>5, SamePath
<1>9. ASSUME NEW m \in 1 .. Len(g)
      PROVE  /\ m \in Range(way) <=> IsPrefix(PathTo(h, m), path)
             /\ m = Last(way) <=> PathTo(h, m) = path
  <2>1. IsPrefix(PathTo(g, m), PathTo(g, e)) <=> m \in Range(Way(g, e))
    BY <1>2, OnTheWay
  <2>2. PathTo(g, m) = PathTo(g, e) => m = e
    BY <1>2, WaysApart
  <2> QED
    BY <1>2, <1>7, <1>8, <2>1, <2>2 DEF way
<1>10. ASSUME NEW m \in 1 .. Len(nodes)
       PROVE  /\ h[m].count = nodes[m].count + One(IsPrefix(PathTo(h, m), path))
              /\ h[m].total = nodes[m].total + One(IsPrefix(PathTo(h, m), path))
              /\ h[m].size = nodes[m].size + One(PathTo(h, m) = path)
  <2>1. m \in 1 .. Len(g)
    BY <1>5, <1>6
  <2>2. /\ One(m \in Range(way)) = One(IsPrefix(PathTo(h, m), path))
        /\ One(m = Last(way)) = One(PathTo(h, m) = path)
    BY <1>9, <2>1 DEF One
  <2> QED
    BY <1>2, <1>4, <2>1, <2>2
<1>11. ASSUME NEW m \in Len(nodes) + 1 .. Len(h)
       PROVE  /\ IsPrefix(PathTo(h, m), path)
              /\ h[m].count = 1 /\ h[m].total = 1 /\ h[m].size = One(PathTo(h, m) = path)
  <2>1. m \in 1 .. Len(g) /\ m \in Len(nodes) + 1 .. Len(g)
    BY <1>4, <1>5
  <2>2. g[m].size = 0 /\ g[m].total = 0 /\ g[m].count = 1 /\ m \in Range(way)
    BY <1>2, <2>1
  <2>3. IsPrefix(PathTo(h, m), path) /\ One(m \in Range(way)) = 1
    BY <1>9, <2>1, <2>2 DEF One
  <2>4. One(m = Last(way)) = One(PathTo(h, m) = path) /\ One(m = Last(way)) \in Nat
    BY <1>9, <2>1 DEF One
  <2>5. h[m].count = 1 /\ h[m].total = 0 + 1 /\ h[m].size = 0 + One(m = Last(way))
    BY <1>4, <2>1, <2>2, <2>3
  <2> QED
    BY <2>3, <2>4, <2>5
<1>12. \E n \in 1 .. Len(h) : PathTo(h, n) = path
  BY <1>2, <1>4, <1>8
<1>13. Traced(nodes, h, path, S)
  BY <1>5, <1>6, <1>10, <1>11, <1>12 DEF Traced
<1> QED
  BY <1>2, <1>13 DEF g, e, path

-----------------------------------------------------------------------------
(* What the nodes and the summaries know of the paths p that were added.    *)

Through(p, way) == {i \in DOMAIN p : IsPrefix(way, p[i])}
EndingAt(p, way) == {i \in DOMAIN p : p[i] = way}

NodesRight(g, p) ==
  /\ \A i \in DOMAIN p : \E n \in 1 .. Len(g) : PathTo(g, n) = p[i]
  /\ \A n \in 1 .. Len(g) :
       /\ g[n].count = Cardinality(Through(p, PathTo(g, n)))
       /\ g[n].total = Cardinality(Through(p, PathTo(g, n)))
       /\ g[n].size = Cardinality(EndingAt(p, PathTo(g, n)))
  /\ \A n \in 2 .. Len(g) : \E i \in DOMAIN p : IsPrefix(PathTo(g, n), p[i])

(* p and one path more.                                                     *)
Plus(p, j, path, q) ==
  /\ DOMAIN q = DOMAIN p \cup {j} /\ j \notin DOMAIN p
  /\ q[j] = path /\ \A i \in DOMAIN p : q[i] = p[i]

(* A set has one element more, or the same.                                *)
LEMMA OneMore ==
  ASSUME NEW A, IsFiniteSet(A), NEW j, j \notin A, NEW c
  PROVE  Cardinality(IF c THEN A \cup {j} ELSE A) = Cardinality(A) + One(c)
<1>1. Cardinality(A) \in Nat
  BY FS_CardinalityType
<1>2. Cardinality(A \cup {j}) = Cardinality(A) + 1
  BY FS_AddElement
<1> QED
  BY <1>1, <1>2 DEF One

(* What goes through a path, or ends there, after one trace more.          *)
LEMMA MoreThrough ==
  ASSUME NEW p, IsFiniteSet(DOMAIN p), NEW j, NEW path, NEW q, Plus(p, j, path, q), NEW way
  PROVE  /\ Cardinality(Through(q, way)) = Cardinality(Through(p, way)) + One(IsPrefix(way, path))
         /\ Cardinality(EndingAt(q, way)) = Cardinality(EndingAt(p, way)) + One(way = path)
         /\ Cardinality(Through(p, way)) \in Nat /\ Cardinality(EndingAt(p, way)) \in Nat
<1> DEFINE A == Through(p, way)
           B == EndingAt(p, way)
<1>1. A \subseteq DOMAIN p /\ B \subseteq DOMAIN p
  BY DEF Through, EndingAt
<1>2. IsFiniteSet(A) /\ IsFiniteSet(B) /\ j \notin A /\ j \notin B
  BY <1>1, FS_Subset DEF Plus
<1>3. Through(q, way) = IF IsPrefix(way, path) THEN A \cup {j} ELSE A
  BY DEF Plus, Through
<1>4. EndingAt(q, way) = IF way = path THEN B \cup {j} ELSE B
  BY DEF Plus, EndingAt
<1> HIDE DEF A, B
<1>5. Cardinality(A) \in Nat /\ Cardinality(B) \in Nat
  BY <1>2, FS_CardinalityType
<1>6. Cardinality(IF IsPrefix(way, path) THEN A \cup {j} ELSE A) = Cardinality(A) + One(IsPrefix(way, path))
  BY <1>2, OneMore
<1>7. Cardinality(IF way = path THEN B \cup {j} ELSE B) = Cardinality(B) + One(way = path)
  BY <1>2, OneMore
<1> QED
  BY <1>3, <1>4, <1>5, <1>6, <1>7 DEF A, B

(* Nodes that weigh what they should do so after one trace more.           *)
LEMMA NodesStayRight ==
  ASSUME NEW S, NEW g, Tree(g, S), NEW p, IsFiniteSet(DOMAIN p), NodesRight(g, p),
         NEW h, NEW path, Traced(g, h, path, S), NEW j, NEW q, Plus(p, j, path, q)
  PROVE  NodesRight(h, q)
<1>1. Tree(h, S) /\ Extends(g, h)
  BY DEF Traced
<1>2. Len(g) \in Nat /\ Len(h) \in Nat /\ Len(g) >= 1 /\ Len(g) <= Len(h)
  BY <1>1, TreeIs DEF Extends
<1>3. \A n \in 1 .. Len(g) : PathTo(h, n) = PathTo(g, n)
  BY <1>1, SamePath
<1>4. ASSUME NEW i \in DOMAIN q PROVE \E n \in 1 .. Len(h) : PathTo(h, n) = q[i]
  <2>1. CASE i = j
    BY <2>1 DEF Traced, Plus
  <2>2. CASE i # j
    <3>1. i \in DOMAIN p /\ q[i] = p[i]
      BY <2>2 DEF Plus
    <3>2. PICK n \in 1 .. Len(g) : PathTo(g, n) = p[i]
      BY <3>1 DEF NodesRight
    <3>3. n \in 1 .. Len(h) /\ PathTo(h, n) = q[i]
      BY <1>2, <1>3, <3>1, <3>2
    <3> QED
      BY <3>3
  <2> QED
    BY <2>1, <2>2
<1>5. ASSUME NEW n \in 1 .. Len(h)
      PROVE  /\ h[n].count = Cardinality(Through(q, PathTo(h, n)))
             /\ h[n].total = Cardinality(Through(q, PathTo(h, n)))
             /\ h[n].size = Cardinality(EndingAt(q, PathTo(h, n)))
             /\ n \in 2 .. Len(h) => \E i \in DOMAIN q : IsPrefix(PathTo(h, n), q[i])
  <2> DEFINE way == PathTo(h, n)
  <2>0. /\ Cardinality(Through(q, way)) = Cardinality(Through(p, way)) + One(IsPrefix(way, path))
        /\ Cardinality(EndingAt(q, way)) = Cardinality(EndingAt(p, way)) + One(way = path)
        /\ Cardinality(Through(p, way)) \in Nat /\ Cardinality(EndingAt(p, way)) \in Nat
    BY MoreThrough
  <2>1. CASE n \in 1 .. Len(g)
    <3>1. way = PathTo(g, n)
      BY <1>3, <2>1
    <3>2. /\ h[n].count = g[n].count + One(IsPrefix(way, path))
          /\ h[n].total = g[n].total + One(IsPrefix(way, path))
          /\ h[n].size = g[n].size + One(way = path)
      BY <2>1 DEF Traced
    <3>3. /\ g[n].count = Cardinality(Through(p, way)) /\ g[n].total = Cardinality(Through(p, way))
          /\ g[n].size = Cardinality(EndingAt(p, way))
      BY <2>1, <3>1 DEF NodesRight
    <3>4. ASSUME n \in 2 .. Len(h) PROVE \E i \in DOMAIN q : IsPrefix(way, q[i])
      <4>1. n \in 2 .. Len(g)
        BY <1>2, <2>1, <3>4
      <4>2. PICK i \in DOMAIN p : IsPrefix(way, p[i])
        BY <3>1, <4>1 DEF NodesRight
      <4>3. i \in DOMAIN q /\ q[i] = p[i]
        BY DEF Plus
      <4> QED
        BY <4>2, <4>3
    <3> QED
      BY <2>0, <3>2, <3>3, <3>4
  <2>2. CASE n \notin 1 .. Len(g)
    <3>1. n \in Len(g) + 1 .. Len(h) /\ n \in Nat
      BY <1>2, <2>2
    <3>2. /\ IsPrefix(way, path)
          /\ h[n].count = 1 /\ h[n].total = 1 /\ h[n].size = One(way = path)
      BY <3>1 DEF Traced
    <3>3. \A i \in DOMAIN p : ~IsPrefix(way, p[i])
      <4> SUFFICES ASSUME NEW i \in DOMAIN p, IsPrefix(way, p[i]) PROVE FALSE
        OBVIOUS
      <4>1. PICK m \in 1 .. Len(g) : PathTo(g, m) = p[i]
        BY DEF NodesRight
      <4>2. m \in 1 .. Len(h) /\ PathTo(h, m) = p[i]
        BY <1>2, <1>3, <4>1
      <4>3. n \in Range(Way(h, m))
        BY <1>1, <4>2, OnTheWay
      <4>4. Way(h, m) \in Seq(1 .. m)
        BY <1>1, <4>2, PathAt
      <4> DEFINE w == Way(h, m)
      <4>5. \A x \in Range(w) : x \in 1 .. m
        <5>1. DOMAIN w = 1 .. Len(w) /\ \A k \in 1 .. Len(w) : w[k] \in 1 .. m
          <6> HIDE DEF w
          <6> QED
            BY <4>4, SeqIs DEF w
        <5> HIDE DEF w
        <5> QED
          BY <5>1 DEF Range
      <4> QED
        BY <1>2, <3>1, <4>3, <4>5
    <3>4. Through(p, way) = {}
      BY <3>3 DEF Through
    <3>5. EndingAt(p, way) = {}
      <4> SUFFICES ASSUME NEW i \in DOMAIN p, p[i] = way PROVE FALSE
        BY DEF EndingAt
      <4>1. way \in Seq(S)
        BY <1>1, PathAt
      <4>2. IsPrefix(way, way)
        <5> HIDE DEF way
        <5> QED
          BY <4>1, PrefixIs
      <4> QED
        BY <3>3, <4>2
    <3>6. Cardinality(Through(q, way)) = One(IsPrefix(way, path))
          /\ Cardinality(EndingAt(q, way)) = One(way = path)
      <4>1. Cardinality({}) = 0
        BY FS_EmptySet
      <4>2. One(IsPrefix(way, path)) \in Nat /\ One(way = path) \in Nat
        BY DEF One
      <4> QED
        BY <2>0, <3>4, <3>5, <4>1, <4>2
    <3>7. One(IsPrefix(way, path)) = 1
      BY <3>2 DEF One
    <3>8. j \in DOMAIN q /\ q[j] = path
      BY DEF Plus
    <3> QED
      BY <3>2, <3>6, <3>7, <3>8
  <2> QED
    BY <2>1, <2>2
<1> QED
  BY <1>4, <1>5 DEF NodesRight

Holding(p, s) == {i \in DOMAIN p : s \in Range(p[i])}
EndingWith(p, s) == {i \in DOMAIN p : Last(p[i]) = s}
OnPaths(p) == {everything} \cup UNION {Range(p[i]) : i \in DOMAIN p}
Calls(path, c, s) == \E k \in 1 .. Len(path) - 1 : path[k] = c /\ path[k + 1] = s
Callers(p, s) == {c \in OnPaths(p) : /\ c.kind \notin {"PROCESS", "ROOT"}
                                      /\ \E i \in DOMAIN p : Calls(p[i], c, s)}

Summed(p, s) == [traceables |-> Holding(p, s), callers |-> Callers(p, s),
                 size |-> Cardinality(EndingWith(p, s)), total |-> Cardinality(Holding(p, s))]

SummariesRight(sums, p) == sums = [s \in OnPaths(p) |-> Summed(p, s)]

Paths(p, S) == \A i \in DOMAIN p : p[i] \in Seq(S) /\ Len(p[i]) >= 1

(* The elements of a sequence.                                             *)
LEMMA RangeIs ==
  ASSUME NEW S, NEW s \in Seq(S)
  PROVE  Range(s) = {s[k] : k \in 1 .. Len(s)}
  BY DEF Range

(* Of a symbol that is on no path nothing is known.                         *)
LEMMA NotOnPaths ==
  ASSUME NEW S, NEW p, Paths(p, S), NEW s, s \notin OnPaths(p)
  PROVE  Summed(p, s) = NewSummary
<1>1. Holding(p, s) = {}
  BY DEF Holding, OnPaths
<1>2. EndingWith(p, s) = {}
  <2> SUFFICES ASSUME NEW i \in DOMAIN p, Last(p[i]) = s PROVE FALSE
    BY DEF EndingWith
  <2>1. p[i] \in Seq(S) /\ Len(p[i]) >= 1
    BY DEF Paths
  <2>2. Range(p[i]) = {p[i][k] : k \in 1 .. Len(p[i])}
    BY <2>1, RangeIs
  <2>3. Len(p[i]) \in 1 .. Len(p[i])
    BY <2>1
  <2>4. s \in Range(p[i])
    BY <2>2, <2>3 DEF Last
  <2> QED
    BY <2>4 DEF OnPaths
<1>3. Callers(p, s) = {}
  <2> SUFFICES ASSUME NEW i \in DOMAIN p, NEW c, Calls(p[i], c, s) PROVE FALSE
    BY DEF Callers
  <2>1. p[i] \in Seq(S) /\ Len(p[i]) >= 1
    BY DEF Paths
  <2>2. Range(p[i]) = {p[i][k] : k \in 1 .. Len(p[i])}
    BY <2>1, RangeIs
  <2>3. PICK k \in 1 .. Len(p[i]) - 1 : p[i][k + 1] = s
    BY DEF Calls
  <2>4. k + 1 \in 1 .. Len(p[i])
    BY <2>1
  <2>5. s \in Range(p[i])
    BY <2>2, <2>3, <2>4
  <2> QED
    BY <2>5 DEF OnPaths
<1>4. Cardinality({}) = 0
  BY FS_EmptySet
<1> QED
  BY <1>1, <1>2, <1>3, <1>4 DEF Summed, NewSummary

Places(path, s) == {k \in 1 .. Len(path) : path[k] = s}
Unseen(path, A) == {k \in A : ~\E j \in k + 1 .. Len(path) : path[j] = path[k]}

(* Of the places of a symbol on a path the last has none nearer to the end. *)
LEMMA OneUnseen ==
  ASSUME NEW S, NEW path \in Seq(S), NEW s, NEW A, A = Places(path, s), A # {}
  PROVE  Cardinality(Unseen(path, A)) = 1
<1> USE DEF Places, Unseen
<1> DEFINE U == Unseen(path, A)
           T == {Len(path) - k : k \in A}
<1>1. Len(path) \in Nat
  OBVIOUS
<1>2. T \in SUBSET Nat /\ T # {}
  BY <1>1
<1>3. PICK x \in T : \A y \in T : x <= y
  <2> HIDE DEF T
  <2> QED
    BY <1>2, LeastElement
<1>4. PICK m \in A : x = Len(path) - m
  BY <1>3
<1>5. ASSUME NEW k \in A PROVE k <= m
  <2>1. Len(path) - k \in T
    OBVIOUS
  <2>2. Len(path) - m <= Len(path) - k
    BY <1>3, <1>4, <2>1
  <2>3. k \in Nat /\ m \in Nat
    OBVIOUS
  <2> QED
    BY <1>1, <2>2, <2>3
<1>6. m \in 1 .. Len(path) /\ path[m] = s /\ m \in Nat
  BY <1>1
<1>7. U = {m}
  <2>1. m \in U
    <3> SUFFICES ASSUME NEW j \in m + 1 .. Len(path), path[j] = path[m] PROVE FALSE
      OBVIOUS
    <3>1. j \in A /\ j \in Nat /\ m < j
      BY <1>1, <1>6
    <3> QED
      BY <1>5, <1>6, <3>1
  <2>2. ASSUME NEW k \in U PROVE k = m
    <3>1. k \in A /\ k \in Nat /\ path[k] = s /\ k <= m
      BY <1>1, <1>5
    <3>2. ~\E j \in k + 1 .. Len(path) : path[j] = path[k]
      OBVIOUS
    <3>3. m \notin k + 1 .. Len(path)
      BY <1>6, <3>1, <3>2
    <3> QED
      BY <1>1, <1>6, <3>1, <3>3
  <2> QED
    BY <2>1, <2>2
<1>8. Cardinality({m}) = 1
  BY FS_Singleton
<1> QED
  BY <1>7, <1>8

Above(path, A) == {path[k - 1] : k \in A \ {1}}

MoreSummed(p, q, path, j, s, A) ==
  IF A = {} THEN Summed(q, s) = Summed(p, s)
  ELSE /\ Holding(q, s) = Holding(p, s) \cup {j}
       /\ Cardinality(Holding(q, s)) = Cardinality(Holding(p, s)) + 1
       /\ Cardinality(EndingWith(q, s)) = Cardinality(EndingWith(p, s)) + One(Len(path) \in A)
       /\ Callers(q, s) = Callers(p, s)
                            \cup {c \in Above(path, A) : c.kind \notin {"PROCESS", "ROOT"}}

(* What is known of a symbol after one path more.                           *)
LEMMA SummedMore ==
  ASSUME NEW S, NEW p, IsFiniteSet(DOMAIN p), Paths(p, S), NEW path \in Seq(S), Len(path) >= 1,
         NEW j, NEW q, Plus(p, j, path, q), NEW s, NEW A, A = Places(path, s)
  PROVE  MoreSummed(p, q, path, j, s, A)
<1> USE DEF Places
<1>1. Len(path) \in Nat /\ Range(path) = {path[k] : k \in 1 .. Len(path)}
  BY RangeIs
<1>2. s \in Range(path) <=> A # {}
  BY <1>1
<1>3. Holding(q, s) = IF A # {} THEN Holding(p, s) \cup {j} ELSE Holding(p, s)
  BY <1>2 DEF Holding, Plus
<1>4. EndingWith(q, s) = IF Len(path) \in A THEN EndingWith(p, s) \cup {j} ELSE EndingWith(p, s)
  <2>1. Len(path) \in 1 .. Len(path)
    BY <1>1
  <2>2. Last(path) = s <=> Len(path) \in A
    BY <2>1 DEF Last
  <2> QED
    BY <2>2 DEF EndingWith, Plus
<1>5. /\ IsFiniteSet(Holding(p, s)) /\ IsFiniteSet(EndingWith(p, s))
      /\ j \notin Holding(p, s) /\ j \notin EndingWith(p, s)
  <2>1. Holding(p, s) \subseteq DOMAIN p /\ EndingWith(p, s) \subseteq DOMAIN p
    BY DEF Holding, EndingWith
  <2> QED
    BY <2>1, FS_Subset DEF Plus
<1>6. Cardinality(Holding(q, s)) = Cardinality(Holding(p, s)) + One(A # {})
  BY <1>3, <1>5, OneMore
<1>7. Cardinality(EndingWith(q, s)) = Cardinality(EndingWith(p, s)) + One(Len(path) \in A)
  BY <1>4, <1>5, OneMore
<1> DEFINE B == Above(path, A)
<1> USE DEF Above
<1>8. \A c : Calls(path, c, s) <=> c \in B
  <2>1. ASSUME NEW c, NEW k \in 1 .. Len(path) - 1, path[k] = c, path[k + 1] = s PROVE c \in B
    <3>1. k + 1 \in A \ {1} /\ (k + 1) - 1 = k
      BY <1>1, <2>1
    <3> QED
      BY <2>1, <3>1
  <2>2. ASSUME NEW k \in A \ {1} PROVE Calls(path, path[k - 1], s)
    <3>1. k - 1 \in 1 .. Len(path) - 1 /\ (k - 1) + 1 = k /\ path[k] = s
      BY <1>1
    <3> QED
      BY <3>1 DEF Calls
  <2> QED
    BY <2>1, <2>2 DEF Calls
<1>9. B \subseteq Range(path)
  <2>1. ASSUME NEW k \in A \ {1} PROVE path[k - 1] \in Range(path)
    <3>1. k - 1 \in 1 .. Len(path)
      BY <1>1
    <3> QED
      BY <1>1, <3>1
  <2> QED
    BY <2>1
<1> HIDE DEF B
<1>10. OnPaths(q) = OnPaths(p) \cup Range(path)
  BY DEF OnPaths, Plus
<1>11. ASSUME NEW c, NEW i \in DOMAIN p, Calls(p[i], c, s) PROVE c \in OnPaths(p)
  <2>1. p[i] \in Seq(S)
    BY DEF Paths
  <2>2. Range(p[i]) = {p[i][k] : k \in 1 .. Len(p[i])} /\ Len(p[i]) \in Nat
    BY <2>1, RangeIs
  <2>3. PICK k \in 1 .. Len(p[i]) - 1 : p[i][k] = c
    BY <1>11 DEF Calls
  <2>4. k \in 1 .. Len(p[i])
    BY <2>2
  <2> QED
    BY <2>2, <2>3, <2>4 DEF OnPaths
<1>12. Callers(q, s) = Callers(p, s) \cup {c \in B : c.kind \notin {"PROCESS", "ROOT"}}
  <2>1. ASSUME NEW c
        PROVE  c \in OnPaths(q) /\ (\E i \in DOMAIN q : Calls(q[i], c, s))
               <=> c \in B \/ (c \in OnPaths(p) /\ \E i \in DOMAIN p : Calls(p[i], c, s))
    <3>1. (\E i \in DOMAIN q : Calls(q[i], c, s))
            <=> Calls(path, c, s) \/ \E i \in DOMAIN p : Calls(p[i], c, s)
      BY DEF Plus
    <3> QED
      BY <1>8, <1>9, <1>10, <1>11, <3>1
  <2> QED
    BY <2>1 DEF Callers
<1>13. CASE A = {}
  <2>1. B = {} /\ Len(path) \notin A
    BY <1>13 DEF B
  <2>2. Holding(q, s) = Holding(p, s) /\ EndingWith(q, s) = EndingWith(p, s)
    BY <1>3, <1>4, <1>13
  <2>3. Callers(q, s) = Callers(p, s)
    BY <1>12, <2>1
  <2> QED
    BY <1>13, <2>2, <2>3 DEF Summed, MoreSummed
<1>14. CASE A # {}
  <2>1. One(A # {}) = 1
    BY <1>14 DEF One
  <2> QED
    BY <1>3, <1>6, <1>7, <1>12, <1>14, <2>1 DEF B, MoreSummed
<1> QED
  BY <1>13, <1>14

(* Summaries that know what they should do so after one trace more.        *)
LEMMA SummarizeRight ==
  ASSUME NEW S, NEW p, IsFiniteSet(DOMAIN p), Paths(p, S), SummariesRight(summaries, p),
         NEW graph, Tree(graph, S), NEW node \in 1 .. Len(graph), NEW way, way = Way(graph, node),
         NEW path, path = PathTo(graph, node),
         NEW j, NEW q, Plus(p, j, path, q)
  PROVE  SummariesRight(Summarize(graph, way, j), q)
<1>1. /\ path \in Seq(S) /\ Len(path) = Len(way) /\ Len(path) >= 1
      /\ way \in Seq(1 .. node) /\ Len(way) \in Nat
      /\ \A k \in 1 .. Len(way) : path[k] = graph[way[k]].symbol
  BY PathAt
<1>2. DOMAIN way = 1 .. Len(way)
  BY <1>1
<1> DEFINE old(s) == IF s \in DOMAIN summaries THEN summaries[s] ELSE NewSummary
           at(s) == {k \in DOMAIN way : graph[way[k]].symbol = s}
           A(s) == Places(path, s)
           above(s) == {graph[way[k - 1]].symbol : k \in at(s) \ {1}}
           B(s) == Above(path, A(s))
           unseen(s) == {k \in at(s) : ~Seen(graph, way, k)}
           new(s) == IF at(s) = {} THEN old(s)
                     ELSE [traceables |-> old(s).traceables \cup {j},
                           callers |-> old(s).callers
                                         \cup {c \in above(s) : c.kind \notin {"PROCESS", "ROOT"}},
                           size |-> old(s).size + (IF Len(way) \in at(s) THEN 1 ELSE 0),
                           total |-> old(s).total + Cardinality(unseen(s))]
           D == DOMAIN summaries \cup {graph[n].symbol : n \in Range(way)}
<1>3. Summarize(graph, way, j) = [s \in D |-> new(s)]
  BY DEF Summarize
<1>4. D = OnPaths(q)
  <2>1. DOMAIN summaries = OnPaths(p)
    BY DEF SummariesRight
  <2>2. Range(way) = {way[k] : k \in 1 .. Len(way)}
    BY <1>2 DEF Range
  <2>3. {graph[n].symbol : n \in Range(way)} = Range(path)
    <3>1. Range(path) = {path[k] : k \in 1 .. Len(path)}
      BY <1>1, RangeIs
    <3> QED
      BY ONLY <1>1, <2>2, <3>1, SMTT(30)
  <2>4. OnPaths(q) = OnPaths(p) \cup Range(path)
    BY DEF OnPaths, Plus
  <2> QED
    BY <2>1, <2>3, <2>4
<1>5. ASSUME NEW s PROVE new(s) = Summed(q, s)
  <2>1. old(s) = Summed(p, s)
    <3>1. CASE s \in OnPaths(p)
      BY <3>1 DEF SummariesRight
    <3>2. CASE s \notin OnPaths(p)
      <4>1. s \notin DOMAIN summaries
        BY <3>2 DEF SummariesRight
      <4>2. Summed(p, s) = NewSummary
        BY <3>2, NotOnPaths
      <4> QED
        BY <4>1, <4>2
    <3> QED
      BY <3>1, <3>2
  <2>2. at(s) = A(s)
    BY <1>1, <1>2 DEF Places
  <2>3. above(s) = B(s)
    <3>1. ASSUME NEW k \in A(s) \ {1} PROVE graph[way[k - 1]].symbol = path[k - 1]
      <4>1. k - 1 \in 1 .. Len(way)
        BY <1>1 DEF Places
      <4> QED
        BY <1>1, <4>1
    <3> HIDE DEF A, at
    <3> QED
      BY <2>2, <3>1 DEF Above
  <2>4. A(s) # {} => Cardinality(unseen(s)) = 1
    <3>1. ASSUME NEW k \in A(s)
          PROVE  Seen(graph, way, k) <=> \E i \in k + 1 .. Len(path) : path[i] = path[k]
      <4>1. \A i \in k + 1 .. Len(way) : i \in 1 .. Len(way)
        BY <1>1 DEF Places
      <4>2. k \in 1 .. Len(way)
        BY <1>1 DEF Places
      <4> QED
        BY <1>1, <4>1, <4>2 DEF Seen
    <3>2. unseen(s) = Unseen(path, A(s))
      <4> HIDE DEF A, at
      <4> QED
        BY <2>2, <3>1 DEF Unseen
    <3>3. path \in Seq(S) /\ A(s) = Places(path, s)
      BY <1>1
    <3> HIDE DEF A, at, unseen
    <3>4. A(s) # {} => Cardinality(Unseen(path, A(s))) = 1
      BY ONLY <3>3, OneUnseen
    <3> QED
      BY <3>2, <3>4
  <2>5. MoreSummed(p, q, path, j, s, A(s))
    <3>1. path \in Seq(S) /\ Len(path) >= 1 /\ A(s) = Places(path, s)
      BY <1>1
    <3> HIDE DEF A
    <3> QED
      BY <3>1, SummedMore
  <2> HIDE DEF old, at, A, above, B, unseen
  <2>6. CASE A(s) = {}
    BY <2>1, <2>2, <2>5, <2>6 DEF MoreSummed
  <2>7. CASE A(s) # {}
    <3>1. /\ old(s).traceables = Holding(p, s) /\ old(s).callers = Callers(p, s)
          /\ old(s).size = Cardinality(EndingWith(p, s)) /\ old(s).total = Cardinality(Holding(p, s))
      BY <2>1 DEF Summed
    <3>2. One(Len(path) \in A(s)) = IF Len(way) \in at(s) THEN 1 ELSE 0
      BY <1>1, <2>2 DEF One
    <3> QED
      BY <2>2, <2>3, <2>4, <2>5, <2>7, <3>1, <3>2 DEF Summed, MoreSummed, B
  <2> QED
    BY <2>6, <2>7
<1> HIDE DEF new, D
<1> QED
  BY <1>3, <1>4, <1>5 DEF SummariesRight

-----------------------------------------------------------------------------
(* What is found of a stack, and what is shown of it.                       *)

Found ==
  {ContextSwitch(c) : c \in Contexts \cup {"USER"}}
    \cup ({KernelSymbols[a] : a \in DOMAIN KernelSymbols} \ {NULL})
    \cup ((UNION {{Processes[p].symbols[a] : a \in DOMAIN KernelSymbols} : p \in DOMAIN Processes})
            \ {NULL})

AllSymbols ==
  Found
    \cup {everything, untraceable, ContextSwitch("KERNEL"), Symbol("PROCESS", "missing")}
    \cup {Symbol("PROCESS", Processes[p].shared) : p \in DOMAIN Processes}
    \cup {Symbol("PROCESS", Processes[p].name) : p \in DOMAIN Processes}
    \cup {ThreadSymbol(t) : t \in Traceables}

NextMark(symbols, i, j) ==
  j \in i .. Len(symbols) /\ IsSwitch(symbols[j]) /\ \A h \in i .. j - 1 : ~IsSwitch(symbols[h])
NoMarks(symbols, i) == \A h \in i .. Len(symbols) : ~IsSwitch(symbols[h])

(* A stack on the way out: the next mark names what a function was in.      *)
ToldSoFar(symbols, context) ==
  \A m \in 1 .. Len(symbols) :
    symbols[m].kind \in {"KERNEL", "USER"} =>
      /\ NoMarks(symbols, m + 1) => (symbols[m].kind = "KERNEL" <=> context = "KERNEL")
      /\ \A j : NextMark(symbols, m + 1, j) =>
           (symbols[m].kind = "KERNEL" <=> symbols[j] = ContextSwitch("KERNEL"))

OutTold(symbols) ==
  \A m \in 1 .. Len(symbols) :
    /\ symbols[m].kind = "KERNEL" =>
         \E j : NextMark(symbols, m + 1, j) /\ symbols[j] = ContextSwitch("KERNEL")
    /\ symbols[m].kind = "USER" =>
         \A j : NextMark(symbols, m + 1, j) => symbols[j] # ContextSwitch("KERNEL")

(* What a symbol that is appended leaves of the marks.                      *)
LEMMA MarksOfAppend ==
  ASSUME NEW S, NEW symbols \in Seq(S), NEW s, NEW more, more = Append(symbols, s),
         NEW i \in 1 .. Len(symbols) + 1
  PROVE  /\ NoMarks(more, i) <=> NoMarks(symbols, i) /\ ~IsSwitch(s)
         /\ \A j : NextMark(more, i, j) <=>
              NextMark(symbols, i, j) \/ (j = Len(symbols) + 1 /\ IsSwitch(s) /\ NoMarks(symbols, i))
<1> DEFINE n == Len(symbols)
<1>1. n \in Nat /\ Len(more) = n + 1 /\ more[n + 1] = s /\ \A h \in 1 .. n : more[h] = symbols[h]
  BY AppendIs
<1>2. \A h \in i .. n + 1 : h \in i .. n \/ h = n + 1
  BY <1>1
<1>3. \A h \in i .. n : h \in 1 .. n /\ h \in i .. n + 1
  BY <1>1
<1>4. n + 1 \in i .. n + 1
  BY <1>1
<1> HIDE DEF n
<1>5. NoMarks(more, i) <=> NoMarks(symbols, i) /\ ~IsSwitch(s)
  BY <1>1, <1>2, <1>3, <1>4 DEF NoMarks, n
<1>6. ASSUME NEW j PROVE NextMark(more, i, j) <=>
              NextMark(symbols, i, j) \/ (j = n + 1 /\ IsSwitch(s) /\ NoMarks(symbols, i))
  <2>1. CASE j = n + 1
    <3>1. \A h : h \in i .. j - 1 <=> h \in i .. n
      BY <1>1, <2>1
    <3>2. ~NextMark(symbols, i, j)
      BY <1>1, <2>1 DEF NextMark, n
    <3>3. \A h \in i .. n : more[h] = symbols[h]
      BY <1>1, <1>3
    <3>4. NextMark(more, i, j) <=> IsSwitch(s) /\ \A h \in i .. n : ~IsSwitch(more[h])
      BY <1>1, <1>4, <2>1, <3>1 DEF NextMark
    <3> QED
      BY <2>1, <3>2, <3>3, <3>4 DEF NoMarks, n
  <2>2. CASE j \in i .. n
    <3>1. \A h \in i .. j - 1 : more[h] = symbols[h]
      <4>1. \A h \in i .. j - 1 : h \in i .. n
        BY <1>1, <2>2
      <4> QED
        BY <1>1, <1>3, <4>1
    <3>2. more[j] = symbols[j] /\ j # n + 1 /\ j \in i .. n + 1
      BY <1>1, <1>3, <2>2
    <3> QED
      BY <1>1, <2>2, <3>1, <3>2 DEF NextMark, n
  <2>3. CASE j # n + 1 /\ j \notin i .. n
    BY <1>1, <1>2, <2>3 DEF NextMark, n
  <2> QED
    BY <2>1, <2>2, <2>3
<1> QED
  BY <1>5, <1>6 DEF n

(* A mark names its context.                                               *)
LEMMA MarkIs ==
  ASSUME NEW c
  PROVE  /\ IsSwitch(ContextSwitch(c)) /\ ContextSwitch(c).kind = "CONTEXT_SWITCH"
         /\ ContextSwitch(c) = ContextSwitch("KERNEL") <=> c = "KERNEL"
  BY DEF IsSwitch, ContextSwitch, Symbol

(* A mark names what was entered before it; a function is in what is        *)
(* entered last.                                                            *)
LEMMA ToldAppend ==
  ASSUME NEW S, NEW symbols \in Seq(S), NEW context, ToldSoFar(symbols, context), NEW next, NEW s,
         \/ IsSwitch(s) /\ (s = ContextSwitch("KERNEL") <=> context = "KERNEL")
         \/ /\ ~IsSwitch(s) /\ next = context
            /\ s.kind \in {"KERNEL", "USER"} => (s.kind = "KERNEL" <=> context = "KERNEL")
  PROVE  ToldSoFar(Append(symbols, s), next)
<1> DEFINE more == Append(symbols, s)
           n == Len(symbols)
<1>1. n \in Nat /\ Len(more) = n + 1 /\ more[n + 1] = s /\ \A h \in 1 .. n : more[h] = symbols[h]
  BY AppendIs
<1>2. ASSUME NEW i \in 1 .. n + 1
      PROVE  /\ NoMarks(more, i) <=> NoMarks(symbols, i) /\ ~IsSwitch(s)
             /\ \A j : NextMark(more, i, j) <=>
                  NextMark(symbols, i, j) \/ (j = n + 1 /\ IsSwitch(s) /\ NoMarks(symbols, i))
  <2> HIDE DEF more
  <2> QED
    BY MarksOfAppend DEF more
<1> HIDE DEF more
<1>3. SUFFICES ASSUME NEW m \in 1 .. n + 1, more[m].kind \in {"KERNEL", "USER"}
      PROVE  /\ NoMarks(more, m + 1) => (more[m].kind = "KERNEL" <=> next = "KERNEL")
             /\ \A j : NextMark(more, m + 1, j) =>
                  (more[m].kind = "KERNEL" <=> more[j] = ContextSwitch("KERNEL"))
  BY <1>1 DEF ToldSoFar, more
<1>4. CASE m = n + 1
  <2>1. more[m] = s /\ ~IsSwitch(s)
    BY <1>1, <1>3, <1>4 DEF IsSwitch
  <2>2. \A j : ~NextMark(more, m + 1, j)
    BY <1>1, <1>4 DEF NextMark
  <2> QED
    BY <1>3, <2>1, <2>2
<1>5. CASE m # n + 1
  <2>1. m \in 1 .. n /\ m + 1 \in 1 .. n + 1
    BY <1>1, <1>5
  <2>2. more[m] = symbols[m] /\ symbols[m].kind \in {"KERNEL", "USER"}
    BY <1>1, <1>3, <2>1
  <2>3. /\ NoMarks(symbols, m + 1) => (symbols[m].kind = "KERNEL" <=> context = "KERNEL")
        /\ \A j : NextMark(symbols, m + 1, j) =>
             (symbols[m].kind = "KERNEL" <=> symbols[j] = ContextSwitch("KERNEL"))
    BY <2>1, <2>2 DEF ToldSoFar
  <2>4. /\ NoMarks(more, m + 1) <=> NoMarks(symbols, m + 1) /\ ~IsSwitch(s)
        /\ \A j : NextMark(more, m + 1, j) <=>
             NextMark(symbols, m + 1, j) \/ (j = n + 1 /\ IsSwitch(s) /\ NoMarks(symbols, m + 1))
    BY <1>2, <2>1
  <2>5. \A j : NextMark(symbols, m + 1, j) => more[j] = symbols[j]
    <3>1. \A j : NextMark(symbols, m + 1, j) => j \in 1 .. n
      BY <1>1, <2>1 DEF NextMark
    <3> QED
      BY <1>1, <3>1
  <2> HIDE DEF n
  <2>6. NoMarks(more, m + 1) => (more[m].kind = "KERNEL" <=> next = "KERNEL")
    BY <2>2, <2>3, <2>4
  <2>7. ASSUME NEW j, NextMark(more, m + 1, j)
        PROVE  more[m].kind = "KERNEL" <=> more[j] = ContextSwitch("KERNEL")
    <3>1. CASE NextMark(symbols, m + 1, j)
      BY <2>2, <2>3, <2>5, <3>1
    <3>2. CASE j = n + 1 /\ IsSwitch(s) /\ NoMarks(symbols, m + 1)
      BY <1>1, <2>2, <2>3, <3>2
    <3> QED
      BY <2>4, <2>7, <3>1, <3>2
  <2> QED
    BY <2>6, <2>7
<1> QED
  BY <1>4, <1>5

(* A turn of the loop over the addresses keeps what was told ...           *)
LEMMA TurnTold ==
  ASSUME NEW t, NEW symbols \in Seq(Found), NEW context \in Contexts \cup {"NONE"},
         ToldSoFar(symbols, context), NEW address \in Contexts \cup DOMAIN KernelSymbols,
         NEW done, done.symbols = symbols, done.context = context,
         NEW next, next = SymbolizeTurn(t, done, address)
  PROVE  /\ next.symbols \in Seq(Found) /\ next.context \in Contexts \cup {"NONE"}
         /\ ToldSoFar(next.symbols, next.context)
<1> DEFINE s == LookupSymbol(t.pid, context, address)
           now == IF context = "NONE" THEN "USER" ELSE context
           to == IF address \in Contexts THEN address ELSE context
<1>1. next.symbols = With(symbols, s) /\ next.context = to
  BY DEF SymbolizeTurn
<1>2. to \in Contexts \cup {"NONE"} /\ now \in Contexts \cup {"USER"}
  OBVIOUS
<1>3. now = "KERNEL" <=> context = "KERNEL"
  OBVIOUS
<1>4. CASE address \in Contexts
  <2>1. s = ContextSwitch(now) /\ s \in Found /\ s # NULL /\ IsSwitch(s)
    BY <1>2, <1>4, MarkIs, GraphAssumption DEF LookupSymbol, Found
  <2>2. s = ContextSwitch("KERNEL") <=> context = "KERNEL"
    BY <1>3, <2>1, MarkIs
  <2> HIDE DEF s, now, to
  <2>3. CASE symbols # <<>> /\ Last(symbols) = s
    <3>1. next.symbols = symbols
      BY <1>1, <2>3 DEF With
    <3>2. Len(symbols) \in Nat /\ Len(symbols) >= 1 /\ symbols[Len(symbols)] = s
      BY <2>3 DEF Last
    <3>3. ASSUME NEW m \in 1 .. Len(symbols), symbols[m].kind \in {"KERNEL", "USER"}
          PROVE  ~NoMarks(symbols, m + 1)
      <4>1. m # Len(symbols)
        BY <2>1, <3>2, <3>3 DEF IsSwitch
      <4>2. Len(symbols) \in m + 1 .. Len(symbols)
        BY <3>2, <4>1
      <4> QED
        BY <2>1, <3>2, <4>2 DEF NoMarks
    <3>4. ToldSoFar(symbols, to)
      BY <3>3 DEF ToldSoFar
    <3> QED
      BY <1>1, <1>2, <3>1, <3>4
  <2>4. CASE ~(symbols # <<>> /\ Last(symbols) = s)
    <3>1. next.symbols = Append(symbols, s)
      BY <1>1, <2>1, <2>4 DEF With
    <3>2. ToldSoFar(Append(symbols, s), to)
      BY <2>1, <2>2, ToldAppend
    <3>3. Append(symbols, s) \in Seq(Found)
      BY <2>1
    <3> QED
      BY <1>1, <1>2, <3>1, <3>2, <3>3
  <2> QED
    BY <2>3, <2>4
<1>5. CASE address \notin Contexts
  <2>1. to = context
    BY <1>5
  <2>2. s # NULL => /\ s \in Found /\ ~IsSwitch(s)
                    /\ s.kind \in {"KERNEL", "USER"} => (s.kind = "KERNEL" <=> context = "KERNEL")
    <3>1. address \in DOMAIN KernelSymbols
      BY <1>5
    <3>2. CASE context = "KERNEL"
      <4>1. s = KernelSymbols[address]
        BY <1>5, <3>2 DEF LookupSymbol
      <4>2. s # NULL => s.kind \notin {"USER", "CONTEXT_SWITCH"} /\ s \in Found
        BY <3>1, <4>1, GraphAssumption DEF Found
      <4> HIDE DEF s
      <4> QED
        BY <3>2, <4>2 DEF IsSwitch
    <3>3. CASE context # "KERNEL"
      <4>1. s = IF t.pid \in DOMAIN Processes THEN Processes[t.pid].symbols[address] ELSE NULL
        BY <1>5, <3>3 DEF LookupSymbol
      <4>2. s # NULL => s.kind \notin {"KERNEL", "CONTEXT_SWITCH"} /\ s \in Found
        BY <3>1, <4>1, GraphAssumption DEF Found
      <4> HIDE DEF s
      <4> QED
        BY <3>3, <4>2 DEF IsSwitch
    <3> QED
      BY <3>2, <3>3
  <2> HIDE DEF s, now
  <2>3. CASE With(symbols, s) = symbols
    BY <1>1, <1>2, <2>1, <2>3
  <2>4. CASE With(symbols, s) # symbols
    <3>1. s # NULL /\ next.symbols = Append(symbols, s)
      BY <1>1, <2>4 DEF With
    <3>2. ToldSoFar(Append(symbols, s), to)
      BY <2>1, <2>2, <3>1, ToldAppend
    <3> QED
      BY <1>1, <1>2, <2>1, <2>2, <3>1, <3>2
  <2> QED
    BY <2>3, <2>4
<1> QED
  BY <1>4, <1>5

SymbolizedRight(stack) ==
  /\ stack.symbols \in Seq(Found)
  /\ ToldSoFar(stack.symbols, stack.context)

(* ... and so does the loop.                                               *)
LEMMA SymbolizeRight ==
  ASSUME NEW t, t.stack \in Seq(Contexts \cup DOMAIN KernelSymbols)
  PROVE  SymbolizedRight(Symbolize(t))
<1> DEFINE n == Len(t.stack)
           Right(done) == /\ done.symbols \in Seq(Found) /\ done.context \in Contexts \cup {"NONE"}
                          /\ ToldSoFar(done.symbols, done.context)
<1>1. t.stack \in Seq(Contexts \cup DOMAIN KernelSymbols) /\ n \in Nat
  OBVIOUS
<1>2. PICK done : SymbolizeTurns(t, done)
  BY <1>1, SymbolizeHasTurns
<1>3. Right(done[0])
  <2>1. done[0] = [symbols |-> <<>>, context |-> "NONE"]
    BY <1>2 DEF SymbolizeTurns
  <2>2. ToldSoFar(<<>>, "NONE")
    BY DEF ToldSoFar
  <2> QED
    BY <2>1, <2>2
<1>4. ASSUME NEW k \in 0 .. n - 1, Right(done[k]) PROVE Right(done[k + 1])
  <2>1. done[k + 1] = SymbolizeTurn(t, done[k], t.stack[k + 1])
    BY <1>2 DEF SymbolizeTurns
  <2>2. t.stack[k + 1] \in Contexts \cup DOMAIN KernelSymbols
    <3>1. k + 1 \in 1 .. n
      BY <1>1
    <3> QED
      BY <1>1, <3>1
  <2> QED
    BY <1>4, <2>1, <2>2, TurnTold
<1> HIDE DEF Right
<1> DEFINE S == {k \in Nat : k <= n => Right(done[k])}
<1>5. \A k \in 0 .. n - 1 : k \in S => k + 1 \in S
  <2> SUFFICES ASSUME NEW k \in 0 .. n - 1, Right(done[k]) PROVE Right(done[k + 1]) /\ k + 1 \in Nat
    BY <1>1
  <2> QED
    BY <1>1, <1>4
<1>6. 0 \in S
  BY <1>3
<1>7. n \in S
  <2>1. n \in 0 .. n
    BY <1>1
  <2> HIDE DEF S, n
  <2> QED
    BY <1>1, <1>5, <1>6, <2>1, Upwards
<1>8. Right(done[n])
  BY <1>1, <1>7
<1> QED
  BY <1>2, <1>8 DEF SymbolizeTurns, SymbolizedRight, Right

(* Among the marks that follow one is next.                                *)
LEMMA FirstMark ==
  ASSUME NEW S, NEW symbols \in Seq(S), NEW i \in Nat, ~NoMarks(symbols, i)
  PROVE  \E j : NextMark(symbols, i, j)
<1> DEFINE T == {h \in i .. Len(symbols) : IsSwitch(symbols[h])}
<1>1. Len(symbols) \in Nat
  OBVIOUS
<1>2. T \in SUBSET Nat /\ T # {}
  BY <1>1 DEF NoMarks
<1>3. PICK j \in T : \A h \in T : j <= h
  <2> HIDE DEF T
  <2> QED
    BY <1>2, LeastElement
<1>4. ASSUME NEW h \in i .. j - 1, IsSwitch(symbols[h]) PROVE FALSE
  <2>1. h \in T /\ h < j /\ h \in Nat /\ j \in Nat
    BY <1>1, <1>4
  <2> QED
    BY <1>3, <2>1
<1> QED
  BY <1>4 DEF NextMark

(* A thread or a process at the end of a stack tells nothing new ...       *)
LEMMA OutToldAppend ==
  ASSUME NEW S, NEW symbols \in Seq(S), OutTold(symbols), NEW s, ~IsSwitch(s),
         s.kind \notin {"KERNEL", "USER"}
  PROVE  OutTold(Append(symbols, s))
<1> DEFINE more == Append(symbols, s)
           n == Len(symbols)
<1>1. n \in Nat /\ Len(more) = n + 1 /\ more[n + 1] = s /\ \A h \in 1 .. n : more[h] = symbols[h]
  BY AppendIs
<1>2. ASSUME NEW m \in 1 .. n PROVE \A j : NextMark(more, m + 1, j) <=> NextMark(symbols, m + 1, j)
  <2>1. m + 1 \in 1 .. n + 1
    BY <1>1
  <2> HIDE DEF more
  <2> QED
    BY <2>1, MarksOfAppend DEF more
<1>3. \A m, j : NextMark(symbols, m + 1, j) /\ m \in 1 .. n => j \in 1 .. n
  BY <1>1 DEF NextMark
<1> HIDE DEF more, n
<1>4. ASSUME NEW m \in 1 .. n + 1
      PROVE  /\ more[m].kind = "KERNEL" =>
                  \E j : NextMark(more, m + 1, j) /\ more[j] = ContextSwitch("KERNEL")
             /\ more[m].kind = "USER" =>
                  \A j : NextMark(more, m + 1, j) => more[j] # ContextSwitch("KERNEL")
  <2>1. CASE m = n + 1
    BY <1>1, <2>1
  <2>2. CASE m \in 1 .. n
    <3>1. \A j : NextMark(more, m + 1, j) <=> NextMark(symbols, m + 1, j)
      BY <1>2, <2>2 DEF n
    <3>2. more[m] = symbols[m] /\ \A j : NextMark(symbols, m + 1, j) => more[j] = symbols[j]
      BY <1>1, <1>3, <2>2
    <3> QED
      BY <2>2, <3>1, <3>2 DEF OutTold, n
  <2> QED
    BY <1>1, <2>1, <2>2
<1> QED
  BY <1>1, <1>4 DEF OutTold, more, n

(* ... and nothing is lost with the mark that a stack begins with.         *)
LEMMA OutToldTail ==
  ASSUME NEW S, NEW symbols \in Seq(S), Len(symbols) >= 1, OutTold(symbols)
  PROVE  OutTold(Tail(symbols)) /\ Tail(symbols) \in Seq(S)
<1> DEFINE less == Tail(symbols)
           n == Len(symbols)
<1>1. /\ n \in Nat /\ less \in Seq(S) /\ Len(less) = n - 1
      /\ \A h \in 1 .. n - 1 : less[h] = symbols[h + 1]
  OBVIOUS
<1> HIDE DEF less, n
<1>2. ASSUME NEW m \in 1 .. n - 1, NEW j
      PROVE  NextMark(less, m + 1, j) <=> NextMark(symbols, m + 2, j + 1) /\ j \in Nat
  <2>1. CASE j \in m + 1 .. n - 1
    <3>1. j + 1 \in m + 2 .. n /\ less[j] = symbols[j + 1] /\ j \in Nat /\ m \in Nat
      BY <1>1, <2>1
    <3>2. ASSUME NEW h \in m + 1 .. j - 1 PROVE h + 1 \in m + 2 .. (j + 1) - 1 /\ less[h] = symbols[h + 1]
      BY <1>1, <3>1, <2>1
    <3>3. ASSUME NEW h \in m + 2 .. (j + 1) - 1
          PROVE  h - 1 \in m + 1 .. j - 1 /\ (h - 1) + 1 = h
      BY <1>1, <3>1
    <3>4. (\A h \in m + 1 .. j - 1 : ~IsSwitch(less[h]))
            <=> \A h \in m + 2 .. (j + 1) - 1 : ~IsSwitch(symbols[h])
      <4>1. ASSUME NEW h \in m + 1 .. j - 1, \A i \in m + 2 .. (j + 1) - 1 : ~IsSwitch(symbols[i])
            PROVE  ~IsSwitch(less[h])
        BY <3>2, <4>1
      <4>2. ASSUME NEW h \in m + 2 .. (j + 1) - 1, \A i \in m + 1 .. j - 1 : ~IsSwitch(less[i])
            PROVE  ~IsSwitch(symbols[h])
        <5>1. h - 1 \in m + 1 .. j - 1 /\ (h - 1) + 1 = h
          BY <3>3
        <5>2. less[h - 1] = symbols[h]
          BY <3>2, <5>1
        <5> QED
          BY <4>2, <5>1, <5>2
      <4> QED
        BY <4>1, <4>2
    <3> QED
      BY <1>1, <2>1, <3>1, <3>4 DEF NextMark, n
  <2>2. CASE j \notin m + 1 .. n - 1
    <3>1. ~(j \in Nat /\ j + 1 \in m + 2 .. n)
      BY <1>1, <2>2
    <3> QED
      BY <1>1, <2>2, <3>1 DEF NextMark, n
  <2> QED
    BY <2>1, <2>2
<1>3. ASSUME NEW m \in 1 .. n - 1
      PROVE  /\ less[m].kind = "KERNEL" =>
                  \E j : NextMark(less, m + 1, j) /\ less[j] = ContextSwitch("KERNEL")
             /\ less[m].kind = "USER" =>
                  \A j : NextMark(less, m + 1, j) => less[j] # ContextSwitch("KERNEL")
  <2>1. m + 1 \in 1 .. n /\ less[m] = symbols[m + 1] /\ (m + 1) + 1 = m + 2 /\ m \in Nat
    BY <1>1
  <2>2. ASSUME NEW j, NextMark(less, m + 1, j) PROVE less[j] = symbols[j + 1]
    <3>1. j \in 1 .. n - 1
      BY <1>1, <2>2 DEF NextMark
    <3> QED
      BY <1>1, <3>1
  <2>3. ASSUME less[m].kind = "KERNEL"
        PROVE  \E j : NextMark(less, m + 1, j) /\ less[j] = ContextSwitch("KERNEL")
    <3>1. PICK i : NextMark(symbols, m + 2, i) /\ symbols[i] = ContextSwitch("KERNEL")
      BY <2>1, <2>3 DEF OutTold, n
    <3>2. i \in m + 2 .. n
      BY <3>1 DEF NextMark, n
    <3>3. i - 1 \in Nat /\ (i - 1) + 1 = i
      BY <1>1, <2>1, <3>2
    <3>4. NextMark(less, m + 1, i - 1)
      BY <1>2, <3>1, <3>3
    <3> QED
      BY <2>2, <3>1, <3>3, <3>4
  <2>4. ASSUME less[m].kind = "USER", NEW j, NextMark(less, m + 1, j)
        PROVE  less[j] # ContextSwitch("KERNEL")
    <3>1. NextMark(symbols, m + 2, j + 1) /\ less[j] = symbols[j + 1]
      BY <1>2, <2>2, <2>4
    <3> QED
      BY <2>1, <2>4, <3>1 DEF OutTold, n
  <2> QED
    BY <2>3, <2>4
<1> QED
  BY <1>1, <1>3 DEF OutTold, less

(* The symbols that are added for a stack end with the root, and tell.     *)
LEMMA AccountRight ==
  ASSUME NEW t \in Traceables, ~Ignored(t), NEW symbols, symbols = Account(t)
  PROVE  /\ symbols \in Seq(AllSymbols) /\ Len(symbols) >= 1
         /\ symbols[Len(symbols)] = everything
         /\ "BOTTOM_UP" \notin flags => OutTold(symbols)
<1> DEFINE stack == Symbolize(t)
           found == stack.symbols
           told == Told(stack)
           calls == IF IsSwitch(told[1]) THEN Tail(told) ELSE told
           turned == IF "BOTTOM_UP" \in flags THEN Reverse(calls) ELSE calls
           thread == ThreadSymbol(t)
           process == ProcessSymbol(t)
           threaded == IF "INCLUDE_THREADS" \in flags THEN Append(turned, thread) ELSE turned
<1>1. found \in Seq(Found) /\ ToldSoFar(found, stack.context) /\ found # <<>>
  BY SymbolizeRight, GraphAssumption DEF SymbolizedRight, Ignored
<1>2. symbols = turned \o (IF "INCLUDE_THREADS" \in flags THEN <<thread>> ELSE <<>>)
                       \o <<process, everything>>
  BY DEF Account
<1>3. Found \subseteq AllSymbols /\ untraceable \in AllSymbols /\ everything \in AllSymbols
      /\ ContextSwitch("KERNEL") \in AllSymbols /\ thread \in AllSymbols
  BY DEF AllSymbols
<1>4. process \in AllSymbols
  <2>1. process \in {Symbol("PROCESS", "missing")}
          \cup {Symbol("PROCESS", Processes[p].shared) : p \in DOMAIN Processes}
          \cup {Symbol("PROCESS", Processes[p].name) : p \in DOMAIN Processes}
    BY DEF ProcessSymbol
  <2> HIDE DEF process
  <2> QED
    BY <2>1 DEF AllSymbols
<1>5. /\ ~IsSwitch(thread) /\ ~IsSwitch(process) /\ ~IsSwitch(everything) /\ ~IsSwitch(untraceable)
      /\ thread.kind \notin {"KERNEL", "USER"} /\ process.kind \notin {"KERNEL", "USER"}
      /\ everything.kind \notin {"KERNEL", "USER"} /\ untraceable.kind \notin {"KERNEL", "USER"}
  BY DEF IsSwitch, ThreadSymbol, ProcessSymbol, everything, untraceable, Symbol
<1> HIDE DEF thread, process
<1>6. told \in Seq(AllSymbols) /\ Len(told) >= 1 /\ OutTold(told)
  <2>1. found \in Seq(AllSymbols) /\ Len(found) \in Nat /\ Len(found) >= 1
    BY <1>1, <1>3
  <2> HIDE DEF found, told
  <2>2. CASE told = <<untraceable>>
    <3>1. OutTold(<<untraceable>>)
      BY <1>5 DEF OutTold
    <3>2. <<untraceable>> \in Seq(AllSymbols) /\ Len(<<untraceable>>) = 1
      BY <1>3
    <3> QED
      BY <2>2, <3>1, <3>2
  <2>3. CASE told = Append(found, ContextSwitch("KERNEL")) /\ stack.context = "KERNEL"
    <3> DEFINE mark == ContextSwitch("KERNEL")
               more == Append(found, mark)
               n == Len(found)
    <3>1. n \in Nat /\ Len(more) = n + 1 /\ more[n + 1] = mark /\ \A h \in 1 .. n : more[h] = found[h]
      BY <2>1, AppendIs
    <3>2. IsSwitch(mark) /\ mark.kind = "CONTEXT_SWITCH"
      BY MarkIs
    <3> HIDE DEF mark
    <3>3. ASSUME NEW m \in 1 .. n
          PROVE  /\ more[m].kind = "KERNEL" => \E j : NextMark(more, m + 1, j) /\ more[j] = mark
                 /\ more[m].kind = "USER" => \A j : NextMark(more, m + 1, j) => more[j] # mark
      <4>1. m + 1 \in 1 .. n + 1 /\ m + 1 \in Nat
        BY <3>1
      <4>2. \A j : NextMark(more, m + 1, j) <=>
                  NextMark(found, m + 1, j) \/ (j = n + 1 /\ NoMarks(found, m + 1))
        <5> HIDE DEF more
        <5> QED
          BY <2>1, <3>2, <4>1, MarksOfAppend DEF more
      <4>3. \A j : NextMark(found, m + 1, j) => more[j] = found[j]
        BY <3>1, <4>1 DEF NextMark
      <4>4. more[m] = found[m]
        BY <3>1
      <4> HIDE DEF more
      <4>5. found[m].kind \in {"KERNEL", "USER"} =>
               /\ NoMarks(found, m + 1) => (found[m].kind = "KERNEL")
               /\ \A j : NextMark(found, m + 1, j) => (found[m].kind = "KERNEL" <=> found[j] = mark)
        BY <1>1, <2>3 DEF ToldSoFar, mark
      <4>6. ~NoMarks(found, m + 1) => \E j : NextMark(found, m + 1, j)
        BY <2>1, <4>1, FirstMark
      <4> HIDE DEF n
      <4>7. CASE more[m].kind = "KERNEL"
        BY <3>1, <4>2, <4>3, <4>4, <4>5, <4>6, <4>7
      <4>8. CASE more[m].kind = "USER"
        BY <3>1, <4>2, <4>3, <4>4, <4>5, <4>8
      <4> QED
        BY <4>7, <4>8
    <3>4. \A m \in 1 .. n + 1 : m = n + 1 \/ m \in 1 .. n
      BY <3>1
    <3>5. OutTold(more)
      <4> HIDE DEF more, n
      <4> QED
        BY <3>1, <3>2, <3>3, <3>4 DEF OutTold, n, mark
    <3>6. more \in Seq(AllSymbols)
      BY <1>3, <2>1 DEF mark
    <3> QED
      BY <2>3, <3>1, <3>5, <3>6 DEF mark
  <2>4. CASE told = found /\ stack.context # "KERNEL"
    <3>1. ASSUME NEW m \in 1 .. Len(found), found[m].kind = "KERNEL"
          PROVE  \E j : NextMark(found, m + 1, j) /\ found[j] = ContextSwitch("KERNEL")
      <4>1. ~NoMarks(found, m + 1) /\ m + 1 \in Nat
        BY <1>1, <2>1, <2>4, <3>1 DEF ToldSoFar
      <4>2. PICK j : NextMark(found, m + 1, j)
        BY <2>1, <4>1, FirstMark
      <4> QED
        BY <1>1, <3>1, <4>2 DEF ToldSoFar
    <3>2. ASSUME NEW m \in 1 .. Len(found), found[m].kind = "USER", NEW j, NextMark(found, m + 1, j)
          PROVE  found[j] # ContextSwitch("KERNEL")
      BY <1>1, <3>2 DEF ToldSoFar
    <3>3. OutTold(found)
      BY <3>1, <3>2 DEF OutTold
    <3> QED
      BY <2>1, <2>4, <3>3
  <2>5. \/ told = <<untraceable>>
        \/ told = Append(found, ContextSwitch("KERNEL")) /\ stack.context = "KERNEL"
        \/ told = found /\ stack.context # "KERNEL"
    BY DEF Told, told, found
  <2> HIDE DEF stack
  <2> QED
    BY <2>2, <2>3, <2>4, <2>5
<1>7. calls \in Seq(AllSymbols) /\ OutTold(calls)
  <2> HIDE DEF told
  <2>1. Tail(told) \in Seq(AllSymbols) /\ OutTold(Tail(told))
    BY <1>6, OutToldTail
  <2> QED
    BY <1>6, <2>1
<1> HIDE DEF told, calls
<1>8. turned \in Seq(AllSymbols) /\ ("BOTTOM_UP" \notin flags => OutTold(turned))
  <2>1. Reverse(calls) \in Seq(AllSymbols)
    BY <1>7 DEF Reverse
  <2> QED
    BY <1>7, <2>1
<1> HIDE DEF turned
<1>9. threaded \in Seq(AllSymbols) /\ ("BOTTOM_UP" \notin flags => OutTold(threaded))
  BY <1>3, <1>5, <1>8, OutToldAppend
<1>10. symbols = Append(Append(threaded, process), everything)
  <2>1. CASE "INCLUDE_THREADS" \in flags
    BY <1>2, <1>3, <1>4, <1>8, <2>1
  <2>2. CASE "INCLUDE_THREADS" \notin flags
    BY <1>2, <1>3, <1>4, <1>8, <2>2
  <2> QED
    BY <2>1, <2>2
<1> HIDE DEF threaded
<1>11. Append(threaded, process) \in Seq(AllSymbols)
       /\ ("BOTTOM_UP" \notin flags => OutTold(Append(threaded, process)))
  BY <1>4, <1>5, <1>9, OutToldAppend
<1> DEFINE most == Append(threaded, process)
<1> HIDE DEF most
<1>12. /\ symbols \in Seq(AllSymbols) /\ Len(symbols) = Len(most) + 1 /\ Len(most) \in Nat
       /\ symbols[Len(most) + 1] = everything
  BY <1>3, <1>10, <1>11 DEF most
<1>13. "BOTTOM_UP" \notin flags => OutTold(symbols)
  BY <1>5, <1>10, <1>11, OutToldAppend DEF most
<1> QED
  BY <1>12, <1>13

-----------------------------------------------------------------------------
(* What is shown of a stack, from the root.                                 *)

MarkedLast(path, m, x) ==
  \E j \in 1 .. m : path[j] = x /\ IsSwitch(x) /\ \A i \in j + 1 .. m : ~IsSwitch(path[i])
Unmarked(path, m) == \A i \in 1 .. m : ~IsSwitch(path[i])

(* Outwards from a function of the kernel ...                               *)
ToldAt(path, m) ==
  /\ path[m].kind = "KERNEL" => MarkedLast(path, m, ContextSwitch("KERNEL"))
  /\ path[m].kind = "USER" =>
       Unmarked(path, m) \/ \E x : x # ContextSwitch("KERNEL") /\ MarkedLast(path, m, x)
InTold(path) == \A m \in 1 .. Len(path) : ToldAt(path, m)

(* ... as on the stack: its innermost mark so far is the one shown last.    *)
SameMark(symbols, i, path) ==
  /\ NoMarks(symbols, i) => Unmarked(path, Len(path))
  /\ \A j : NextMark(symbols, i, j) => MarkedLast(path, Len(path), symbols[j])

(* What is told at a place depends on what is before it.                   *)
LEMMA OnlyTheFirst ==
  ASSUME NEW path, NEW more, NEW m \in Nat, \A h \in 1 .. m : more[h] = path[h]
  PROVE  /\ \A x : MarkedLast(more, m, x) <=> MarkedLast(path, m, x)
         /\ Unmarked(more, m) <=> Unmarked(path, m)
         /\ m >= 1 => (ToldAt(more, m) <=> ToldAt(path, m))
<1>1. \A j \in 1 .. m : \A i \in j + 1 .. m : i \in 1 .. m
  OBVIOUS
<1>2. ASSUME NEW x PROVE MarkedLast(more, m, x) <=> MarkedLast(path, m, x)
  BY <1>1 DEF MarkedLast
<1>3. Unmarked(more, m) <=> Unmarked(path, m)
  BY DEF Unmarked
<1>4. m >= 1 => more[m] = path[m]
  OBVIOUS
<1> QED
  BY <1>2, <1>3, <1>4 DEF ToldAt

(* The mark that is shown last, after one symbol more.                     *)
LEMMA MarkedAppend ==
  ASSUME NEW S, NEW path \in Seq(S), NEW s \in S, NEW more, more = Append(path, s)
  PROVE  /\ ~IsSwitch(s) =>
              /\ Unmarked(path, Len(path)) => Unmarked(more, Len(more))
              /\ \A x : MarkedLast(path, Len(path), x) => MarkedLast(more, Len(more), x)
         /\ IsSwitch(s) => MarkedLast(more, Len(more), s)
<1> DEFINE n == Len(path)
<1>1. n \in Nat /\ Len(more) = n + 1 /\ more[n + 1] = s /\ \A h \in 1 .. n : more[h] = path[h]
  BY AppendIs
<1>2. \A h \in 1 .. n + 1 : h = n + 1 \/ h \in 1 .. n
  BY <1>1
<1>3. \A j \in 1 .. n : j \in 1 .. n + 1 /\ \A i \in j + 1 .. n + 1 : i = n + 1 \/ i \in j + 1 .. n
  BY <1>1
<1>4. \A j \in 1 .. n : \A i \in j + 1 .. n : i \in 1 .. n
  BY <1>1
<1>5. n + 1 \in 1 .. n + 1 /\ \A i : i \notin (n + 1) + 1 .. n + 1
  BY <1>1
<1> HIDE DEF n
<1>6. IsSwitch(s) => MarkedLast(more, n + 1, s)
  BY <1>1, <1>5 DEF MarkedLast
<1>7. ~IsSwitch(s) /\ Unmarked(path, n) => Unmarked(more, n + 1)
  BY <1>1, <1>2 DEF Unmarked
<1>8. ASSUME ~IsSwitch(s), NEW x, MarkedLast(path, n, x) PROVE MarkedLast(more, n + 1, x)
  <2>1. PICK j \in 1 .. n : path[j] = x /\ IsSwitch(x) /\ \A i \in j + 1 .. n : ~IsSwitch(path[i])
    BY <1>8 DEF MarkedLast
  <2>2. j \in 1 .. n + 1 /\ more[j] = x
    BY <1>1, <1>3, <2>1
  <2>3. ASSUME NEW i \in j + 1 .. n + 1 PROVE ~IsSwitch(more[i])
    <3>1. CASE i = n + 1
      BY <1>1, <1>8, <3>1
    <3>2. CASE i \in j + 1 .. n
      BY <1>1, <1>4, <2>1, <3>2
    <3> QED
      BY <1>3, <2>1, <3>1, <3>2
  <2> QED
    BY <2>1, <2>2, <2>3 DEF MarkedLast
<1> QED
  BY <1>1, <1>6, <1>7, <1>8 DEF n

(* A turn of the loop that leaves out what is hidden ...                   *)
LEMMA ShowsTold ==
  ASSUME NEW S, NEW symbols \in Seq(S), OutTold(symbols), NEW i \in 1 .. Len(symbols),
         NEW path \in Seq(S), SameMark(symbols, i + 1, path), InTold(path),
         NEW next, next = Shows(path, symbols[i])
  PROVE  SameMark(symbols, i, next) /\ InTold(next)
<1> DEFINE s == symbols[i]
           n == Len(symbols)
<1>1. n \in Nat /\ i \in Nat /\ s \in S /\ i + 1 \in 1 .. n + 1
  OBVIOUS
<1>2. ASSUME IsSwitch(s), NEW j PROVE ~NoMarks(symbols, i) /\ (NextMark(symbols, i, j) => j = i)
  <2>1. i \in i .. n
    BY <1>1
  <2>2. \A h \in i .. n : h # i => i \in i .. h - 1
    BY <1>1
  <2> QED
    BY <1>2, <2>1, <2>2 DEF NoMarks, NextMark
<1>3. ASSUME ~IsSwitch(s), NEW j
      PROVE  /\ NoMarks(symbols, i) => NoMarks(symbols, i + 1)
             /\ NextMark(symbols, i, j) => NextMark(symbols, i + 1, j)
  <2>1. \A h \in i .. n : h = i \/ h \in i + 1 .. n
    BY <1>1
  <2>2. \A h \in i + 1 .. n : h \in i .. n
    BY <1>1
  <2>3. \A k \in i .. n : \A h \in i + 1 .. k - 1 : h \in i .. k - 1
    BY <1>1
  <2> QED
    BY <1>3, <2>1, <2>2, <2>3 DEF NoMarks, NextMark
<1>4. IsSwitch(s) => ~Hidden(s)
  BY DEF IsSwitch, Hidden, IsSystemLibrary
<1>5. CASE Hidden(s)
  BY <1>3, <1>4, <1>5 DEF SameMark, Shows
<1>6. CASE ~Hidden(s)
  <2> DEFINE l == Len(path)
  <2>1. next = Append(path, s)
    BY <1>6 DEF Shows
  <2>2. /\ l \in Nat /\ Len(next) = l + 1 /\ next[l + 1] = s /\ \A h \in 1 .. l : next[h] = path[h]
    BY <1>1, <2>1, AppendIs
  <2>3. /\ ~IsSwitch(s) =>
              /\ Unmarked(path, l) => Unmarked(next, Len(next))
              /\ \A x : MarkedLast(path, l, x) => MarkedLast(next, Len(next), x)
        /\ IsSwitch(s) => MarkedLast(next, Len(next), s)
    BY <1>1, <2>1, MarkedAppend
  <2> HIDE DEF l, s, n
  <2>4. SameMark(symbols, i, next)
    <3>1. CASE IsSwitch(s)
      BY <1>2, <2>3, <3>1 DEF SameMark, s
    <3>2. CASE ~IsSwitch(s)
      BY <1>3, <2>3, <3>2 DEF SameMark, l
    <3> QED
      BY <3>1, <3>2
  <2>5. ASSUME NEW m \in 1 .. l PROVE ToldAt(next, m)
    <3>1. m \in Nat /\ m >= 1 /\ \A h \in 1 .. m : next[h] = path[h]
      BY <2>2
    <3>2. ToldAt(path, m)
      BY DEF InTold, l
    <3> QED
      BY <3>1, <3>2, OnlyTheFirst
  <2>6. ToldAt(next, l + 1)
    <3>1. CASE s.kind = "KERNEL"
      <4>1. PICK j : NextMark(symbols, i + 1, j) /\ symbols[j] = ContextSwitch("KERNEL")
        BY <3>1 DEF OutTold, s
      <4>2. MarkedLast(path, l, ContextSwitch("KERNEL"))
        BY <4>1 DEF SameMark, l
      <4>3. MarkedLast(next, l + 1, ContextSwitch("KERNEL"))
        BY <2>2, <2>3, <3>1, <4>2 DEF IsSwitch
      <4> QED
        BY <2>2, <3>1, <4>3 DEF ToldAt
    <3>2. CASE s.kind = "USER"
      <4>1. ~IsSwitch(s)
        BY <3>2 DEF IsSwitch
      <4>2. CASE NoMarks(symbols, i + 1)
        <5>1. Unmarked(next, l + 1)
          BY <2>2, <2>3, <4>1, <4>2 DEF SameMark, l
        <5> QED
          BY <2>2, <3>2, <5>1 DEF ToldAt
      <4>3. CASE ~NoMarks(symbols, i + 1)
        <5>1. i + 1 \in Nat
          BY <1>1
        <5>2. PICK j : NextMark(symbols, i + 1, j)
          BY <4>3, <5>1, FirstMark
        <5>3. symbols[j] # ContextSwitch("KERNEL")
          BY <3>2, <5>2 DEF OutTold, s
        <5>4. MarkedLast(next, l + 1, symbols[j])
          BY <2>2, <2>3, <4>1, <5>2 DEF SameMark, l
        <5> QED
          BY <2>2, <3>2, <5>3, <5>4 DEF ToldAt
      <4> QED
        BY <4>2, <4>3
    <3>3. CASE s.kind \notin {"KERNEL", "USER"}
      BY <2>2, <3>3 DEF ToldAt
    <3> QED
      BY <3>1, <3>2, <3>3
  <2>7. InTold(next)
    <3>1. \A m \in 1 .. l + 1 : m = l + 1 \/ m \in 1 .. l
      BY <2>2
    <3> QED
      BY <2>2, <2>5, <2>6, <3>1 DEF InTold
  <2> QED
    BY <2>4, <2>7
<1> QED
  BY <1>5, <1>6

(* ... and the loop, which hides no mark.                                  *)
LEMMA PathTold ==
  ASSUME NEW S, NEW symbols \in Seq(S), OutTold(symbols)
  PROVE  InTold(Path(symbols))
<1> DEFINE n == Len(symbols)
<1>1. n \in Nat
  OBVIOUS
<1>2. PICK path : PathTurns(symbols, path)
  BY <1>1, PathHasTurns
<1> DEFINE Right(k) == /\ path[k] \in Seq(S) /\ SameMark(symbols, n + 1 - k, path[k]) /\ InTold(path[k])
<1>3. Right(0)
  <2>1. path[0] = <<>>
    BY <1>2 DEF PathTurns
  <2>2. Unmarked(<<>>, Len(<<>>)) /\ InTold(<<>>)
    BY DEF Unmarked, InTold
  <2>3. \A j : ~NextMark(symbols, n + 1, j)
    BY <1>1 DEF NextMark
  <2>4. n + 1 - 0 = n + 1
    BY <1>1
  <2> HIDE DEF n
  <2> QED
    BY <2>1, <2>2, <2>3, <2>4 DEF SameMark
<1>4. ASSUME NEW k \in 0 .. n - 1, Right(k) PROVE Right(k + 1)
  <2> DEFINE i == n - k
  <2>1. i \in 1 .. n /\ n + 1 - k = i + 1 /\ n + 1 - (k + 1) = i
    BY <1>1
  <2>2. path[k + 1] = Shows(path[k], symbols[i])
    BY <1>2 DEF PathTurns
  <2> HIDE DEF i
  <2>3. path[k + 1] \in Seq(S)
    BY <1>4, <2>1, <2>2 DEF Shows
  <2>4. SameMark(symbols, i, path[k + 1]) /\ InTold(path[k + 1])
    BY <1>4, <2>1, <2>2, ShowsTold
  <2> QED
    BY <2>1, <2>3, <2>4
<1> DEFINE T == {k \in 0 .. n : Right(k)}
<1>5. \A k \in 0 .. n - 1 : k \in T => k + 1 \in T
  <2> SUFFICES ASSUME NEW k \in 0 .. n - 1, Right(k) PROVE Right(k + 1) /\ k + 1 \in 0 .. n
    BY <1>1
  <2> HIDE DEF Right
  <2> QED
    BY <1>1, <1>4
<1>6. 0 \in T
  BY <1>1, <1>3
<1>7. n \in T
  <2>1. n \in 0 .. n
    BY <1>1
  <2> HIDE DEF T, n
  <2> QED
    BY <1>1, <1>5, <1>6, <2>1, Upwards
<1> QED
  BY <1>2, <1>7 DEF PathTurns

-----------------------------------------------------------------------------
(* What is known of the nodes and the summaries at any time: they are those *)
(* of the paths of the traces that are shown.                               *)

ShownPaths == [i \in Shown |-> PathOf(i)]

GraphIInv ==
  /\ traces \in Seq(Traceables)
  /\ Tree(nodes, AllSymbols) /\ nodes[1].symbol = everything
  /\ Paths(ShownPaths, AllSymbols)
  /\ NodesRight(nodes, ShownPaths)
  /\ SummariesRight(summaries, ShownPaths)

(* At first there is the root, of no trace.                                *)
LEMMA GraphStartsRight == ASSUME GraphInit PROVE GraphIInv
<1> DEFINE root == NewNode(0, everything)
<1>1. root = [parent |-> 0, symbol |-> everything, count |-> 0, size |-> 0, total |-> 0]
  BY DEF NewNode
<1>2. nodes = <<root>> /\ traces = <<>> /\ summaries = [s \in {everything} |-> NewSummary]
  BY DEF GraphInit
<1> HIDE DEF root
<1>3. DOMAIN ShownPaths = {}
  BY <1>2 DEF ShownPaths, Shown
<1>4. Tree(nodes, AllSymbols)
  <2>1. everything \in AllSymbols
    BY DEF AllSymbols
  <2>2. root \in Nodes(AllSymbols)
    BY <1>1, <2>1 DEF Nodes
  <2>3. nodes \in Seq(Nodes(AllSymbols)) /\ Len(nodes) = 1 /\ nodes[1] = root
    BY <1>2, <2>2
  <2> QED
    BY <1>1, <2>3 DEF Tree, Linked, Apart
<1>5. Len(nodes) = 1 /\ nodes[1] = root
  BY <1>2
<1>6. NodesRight(nodes, ShownPaths)
  <2>1. \A way : Through(ShownPaths, way) = {} /\ EndingAt(ShownPaths, way) = {}
    BY <1>3 DEF Through, EndingAt
  <2>2. Cardinality({}) = 0
    BY FS_EmptySet
  <2>3. root.count = 0 /\ root.total = 0 /\ root.size = 0
    BY <1>1
  <2>4. \A n \in 1 .. Len(nodes) : nodes[n] = root
    BY <1>5
  <2>5. \A n \in 2 .. Len(nodes) : FALSE
    BY <1>5
  <2> QED
    BY <1>3, <2>1, <2>2, <2>3, <2>4, <2>5 DEF NodesRight
<1>7. SummariesRight(summaries, ShownPaths)
  <2>1. OnPaths(ShownPaths) = {everything}
    BY <1>3 DEF OnPaths
  <2>2. Cardinality({}) = 0
    BY FS_EmptySet
  <2>3. \A s : Summed(ShownPaths, s) = NewSummary
    BY <1>3, <2>2 DEF Summed, NewSummary, Holding, EndingWith, Callers
  <2> QED
    BY <1>2, <2>1, <2>3 DEF SummariesRight
<1>8. Paths(ShownPaths, AllSymbols)
  BY <1>3 DEF Paths
<1> QED
  BY <1>1, <1>2, <1>4, <1>5, <1>6, <1>7, <1>8 DEF GraphIInv

(* What is shown of a stack changes only with the flags.                   *)
LEMMA SameFlags ==
  ASSUME flags' = flags, NEW t
  PROVE  /\ Ignored(t)' <=> Ignored(t)
         /\ Account(t)' = Account(t)
         /\ \A s : Path(s)' = Path(s)
<1>1. Ignored(t)' <=> Ignored(t)
  BY DEF Ignored
<1>2. Account(t)' = Account(t)
  BY DEF Account, ProcessSymbol
<1>3. ASSUME NEW s PROVE Path(s)' = Path(s)
  BY DEF Path, Hidden
<1> QED
  BY <1>1, <1>2, <1>3

(* The paths after one traceable more.                                      *)
LEMMA PathsAfter ==
  ASSUME traces \in Seq(Traceables), flags' = flags, NEW t \in Traceables, traces' = Append(traces, t)
  PROVE  /\ Ignored(t) => ShownPaths' = ShownPaths
         /\ ~Ignored(t) => Plus(ShownPaths, Len(traces) + 1, Path(Account(t)), ShownPaths')
<1> DEFINE n == Len(traces)
           a(x) == Path(Account(x))
           p == [i \in {j \in 1 .. n : ~Ignored(traces[j])} |-> a(traces[i])]
           after == Append(traces, t)
           q == [i \in {j \in 1 .. n + 1 : ~Ignored(after[j])} |-> a(after[i])]
<1>1. n \in Nat /\ DOMAIN traces = 1 .. n
  OBVIOUS
<1>2. /\ DOMAIN after = 1 .. n + 1 /\ after[n + 1] = t /\ \A i \in 1 .. n : after[i] = traces[i]
  BY AppendIs
<1>3. ShownPaths = p
  BY <1>1 DEF ShownPaths, Shown, PathOf
<1>4. ShownPaths' = q
  <2>1. \A x : (Ignored(x)' <=> Ignored(x)) /\ Path(Account(x))' = Path(Account(x))
    <3> SUFFICES ASSUME NEW x
                 PROVE  (Ignored(x)' <=> Ignored(x)) /\ Path(Account(x))' = Path(Account(x))
      OBVIOUS
    <3> QED
      BY SameFlags
  <2>2. Shown' = {i \in 1 .. n + 1 : ~Ignored(after[i])}
    BY <1>2, <2>1 DEF Shown
  <2>3. ShownPaths' = [i \in Shown' |-> PathOf(i)']
    BY DEF ShownPaths
  <2>4. \A i \in Shown' : PathOf(i)' = a(after[i])
    BY <2>1 DEF PathOf
  <2> QED
    BY <2>2, <2>3, <2>4
<1>5. \A i \in 1 .. n + 1 : i \in 1 .. n \/ i = n + 1
  BY <1>1
<1>6. n + 1 \in 1 .. n + 1 /\ n + 1 \notin 1 .. n /\ \A i \in 1 .. n : i \in 1 .. n + 1
  BY <1>1
<1> HIDE DEF n, after, a
<1>7. CASE Ignored(t)
  <2>1. {j \in 1 .. n + 1 : ~Ignored(after[j])} = {j \in 1 .. n : ~Ignored(traces[j])}
    BY <1>2, <1>5, <1>6, <1>7
  <2>2. q = p
    BY <1>2, <2>1
  <2> QED
    BY <1>3, <1>4, <1>7, <2>2
<1>8. CASE ~Ignored(t)
  <2>1. DOMAIN q = DOMAIN p \cup {n + 1} /\ n + 1 \notin DOMAIN p
    BY <1>2, <1>5, <1>6, <1>8
  <2>2. q[n + 1] = a(t)
    BY <1>2, <1>6, <1>8
  <2>3. \A i \in DOMAIN p : q[i] = p[i]
    BY <1>2, <1>6, <1>8
  <2> HIDE DEF p, q
  <2> QED
    BY <1>3, <1>4, <1>8, <2>1, <2>2, <2>3 DEF Plus, a, n
<1> QED
  BY <1>7, <1>8

(* A traceable more.                                                       *)
LEMMA GraphStaysRight ==
  ASSUME GraphIInv, NEW t \in Traceables, AddTraceable(t)
  PROVE  GraphIInv'
<1> DEFINE S == AllSymbols
           n == Len(traces)
           p == ShownPaths
           q == ShownPaths'
<1>1. /\ traces \in Seq(Traceables) /\ traces' = Append(traces, t) /\ flags' = flags
      /\ Tree(nodes, S) /\ nodes[1].symbol = everything
      /\ Paths(p, S) /\ NodesRight(nodes, p) /\ SummariesRight(summaries, p)
  BY DEF GraphIInv, AddTraceable
<1>2. traces' \in Seq(Traceables)
  BY <1>1
<1>3. IsFiniteSet(DOMAIN p)
  <2>1. DOMAIN p \subseteq 1 .. n /\ n \in Nat
    BY <1>1 DEF ShownPaths, Shown
  <2>2. IsFiniteSet(1 .. n)
    BY <2>1, FS_Interval
  <2> QED
    BY <2>1, <2>2, FS_Subset
<1> HIDE DEF p, q, n, S
<1>4. CASE Ignored(t)
  <2>1. nodes' = nodes /\ summaries' = summaries
    BY <1>4 DEF AddTraceable
  <2>2. q = p
    BY <1>1, <1>4, PathsAfter DEF p, q
  <2>3. AllSymbols' = S
    BY DEF AllSymbols, S
  <2> QED
    BY <1>1, <1>2, <2>1, <2>2, <2>3 DEF GraphIInv, p, q
<1>5. CASE ~Ignored(t)
  <2> DEFINE symbols == Account(t)
             path == Path(symbols)
             added == AddTrace(symbols)
             g == added.graph
             e == added.node
             way == Way(g, e)
             h == Weigh(g, way)
             sums == Summarize(g, way, n + 1)
  <2>1. nodes' = h /\ summaries' = sums
    BY <1>5 DEF AddTraceable, n
  <2>2. Plus(p, n + 1, path, q)
    BY <1>1, <1>5, PathsAfter DEF p, q, n
  <2>3. symbols \in Seq(S) /\ Len(symbols) >= 1 /\ symbols[Len(symbols)] = everything
    BY <1>5, AccountRight DEF S
  <2> HIDE DEF symbols
  <2>4. /\ Traced(nodes, h, path, S) /\ Tree(g, S) /\ e \in 1 .. Len(g)
        /\ PathTo(g, e) = path
    BY <1>1, <2>3, TraceRight
  <2> HIDE DEF added, path, g, e
  <2>5. path \in Seq(S) /\ Len(path) >= 1
    BY <2>4, PathAt
  <2> HIDE DEF way
  <2>6. SummariesRight(sums, q)
    BY <1>1, <1>3, <2>2, <2>4, SummarizeRight DEF way
  <2> HIDE DEF h, sums
  <2>7. NodesRight(h, q)
    BY <1>1, <1>3, <2>2, <2>4, NodesStayRight
  <2>8. Tree(h, S) /\ h[1].symbol = everything
    <3>1. Extends(nodes, h) /\ Tree(h, S)
      BY <2>4 DEF Traced
    <3>2. 1 \in 1 .. Len(nodes)
      BY <1>1, TreeIs
    <3> QED
      BY <1>1, <3>1, <3>2 DEF Extends
  <2>9. Paths(q, S)
    BY <1>1, <2>2, <2>5 DEF Paths, Plus
  <2>10. AllSymbols' = S
    BY DEF AllSymbols, S
  <2> QED
    BY <1>2, <2>1, <2>6, <2>7, <2>8, <2>9, <2>10 DEF GraphIInv, q
<1> QED
  BY <1>4, <1>5

(* The inductive invariant.                                                *)
LEMMA GraphInvariant == GraphSpec => []GraphIInv
<1>1. GraphInit => GraphIInv
  BY GraphStartsRight
<1>2. GraphIInv /\ [GraphNext]_graphVars => GraphIInv'
  <2> SUFFICES ASSUME GraphIInv, [GraphNext]_graphVars PROVE GraphIInv'
    OBVIOUS
  <2>1. CASE GraphNext
    BY <2>1, GraphStaysRight DEF GraphNext
  <2>2. CASE UNCHANGED graphVars
    <3>1. flags' = flags /\ traces' = traces /\ nodes' = nodes /\ summaries' = summaries
      BY <2>2 DEF graphVars
    <3>2. \A x : (Ignored(x)' <=> Ignored(x)) /\ Path(Account(x))' = Path(Account(x))
      <4> SUFFICES ASSUME NEW x
                   PROVE  (Ignored(x)' <=> Ignored(x)) /\ Path(Account(x))' = Path(Account(x))
        OBVIOUS
      <4> QED
        BY <3>1, SameFlags
    <3>3. ShownPaths' = ShownPaths
      BY <3>1, <3>2 DEF ShownPaths, Shown, PathOf
    <3>4. AllSymbols' = AllSymbols
      BY DEF AllSymbols
    <3> QED
      BY <3>1, <3>3, <3>4 DEF GraphIInv
  <2> QED
    BY <2>1, <2>2
<1> QED
  BY <1>1, <1>2, PTL DEF GraphSpec

(* What the invariant says of the tree is what is claimed ...              *)
LEMMA TreeIsRight == ASSUME GraphIInv PROVE TreeRight
<1> DEFINE ways == [n \in DOMAIN nodes |-> PathTo(nodes, n)]
           paths == [i \in Shown |-> PathOf(i)]
           through(way) == {i \in Shown : IsPrefix(way, paths[i])}
           holding(s) == {i \in Shown : s \in Range(paths[i])}
           calls(c, s) == \E i \in Shown : \E k \in 1 .. Len(paths[i]) - 1 :
                            paths[i][k] = c /\ paths[i][k + 1] = s
<1>1. /\ Tree(nodes, AllSymbols) /\ NodesRight(nodes, ShownPaths)
      /\ SummariesRight(summaries, ShownPaths)
  BY DEF GraphIInv
<1>2. DOMAIN nodes = 1 .. Len(nodes)
  BY <1>1, TreeIs
<1>3. paths = ShownPaths /\ DOMAIN paths = Shown
  BY DEF ShownPaths
<1> HIDE DEF paths
<1>4. \A n \in DOMAIN nodes : ways[n] = PathTo(nodes, n)
  OBVIOUS
<1>5. \A m, n \in DOMAIN nodes : m # n => ways[m] # ways[n]
  BY <1>1, <1>2, <1>4, WaysApart
<1> HIDE DEF ways
<1>6. \A i \in Shown : \E n \in DOMAIN nodes : ways[n] = paths[i]
  BY <1>1, <1>2, <1>3, <1>4 DEF NodesRight
<1>7. ASSUME NEW n \in DOMAIN nodes
      PROVE  /\ nodes[n].count = Cardinality(through(ways[n]))
             /\ nodes[n].total = nodes[n].count
             /\ nodes[n].size = Cardinality({i \in Shown : paths[i] = ways[n]})
  <2>1. /\ through(ways[n]) = Through(ShownPaths, PathTo(nodes, n))
        /\ {i \in Shown : paths[i] = ways[n]} = EndingAt(ShownPaths, PathTo(nodes, n))
    BY <1>3, <1>4 DEF Through, EndingAt
  <2> HIDE DEF through
  <2> QED
    BY <1>1, <1>2, <2>1 DEF NodesRight
<1>8. ASSUME NEW s \in DOMAIN summaries
      PROVE  /\ summaries[s].traceables = holding(s)
             /\ summaries[s].total = Cardinality(holding(s))
             /\ summaries[s].size = Cardinality({i \in Shown : Last(paths[i]) = s})
             /\ summaries[s].callers = {c \in DOMAIN summaries :
                                          c.kind \notin {"PROCESS", "ROOT"} /\ calls(c, s)}
  <2>1. holding(s) = Holding(ShownPaths, s)
    BY <1>3 DEF Holding
  <2>2. {i \in Shown : Last(paths[i]) = s} = EndingWith(ShownPaths, s)
    BY <1>3 DEF EndingWith
  <2>3. summaries[s] = Summed(ShownPaths, s) /\ DOMAIN summaries = OnPaths(ShownPaths)
    BY <1>1 DEF SummariesRight
  <2>4. \A c : calls(c, s) <=> \E i \in DOMAIN ShownPaths : Calls(ShownPaths[i], c, s)
    BY <1>3 DEF Calls
  <2> HIDE DEF calls, holding
  <2>5. {c \in DOMAIN summaries : c.kind \notin {"PROCESS", "ROOT"} /\ calls(c, s)}
          = Callers(ShownPaths, s)
    BY <2>3, <2>4 DEF Callers
  <2> QED
    BY <2>1, <2>2, <2>3, <2>5 DEF Summed
<1> HIDE DEF through, holding, calls
<1> QED
  BY <1>5, <1>6, <1>7, <1>8 DEF TreeRight, through, holding, calls, ways, paths

(* The nodes of a callgraph are the ways of the traces that are shown, each *)
(* once, and weigh what goes there and what ends there; a summary weighs a  *)
(* symbol once for each trace it is in, however often it calls itself.      *)
THEOREM CallgraphRight == GraphSpec => []TreeRight
<1>1. GraphIInv => TreeRight
  BY TreeIsRight
<1> QED
  BY <1>1, GraphInvariant, PTL

(* ... and so is what it says of the contexts, as the path of a node is part*)
(* of that of a trace.                                                     *)
LEMMA ToldEverywhere == ASSUME GraphIInv PROVE ContextsTold
<1> SUFFICES ASSUME "BOTTOM_UP" \notin flags, NEW n \in DOMAIN nodes,
                    NEW path, path = PathTo(nodes, n),
                    NEW marks, marks = {k \in DOMAIN path : IsSwitch(path[k])}
             PROVE  /\ nodes[n].symbol.kind = "KERNEL" =>
                         marks # {} /\ path[Max(marks)] = ContextSwitch("KERNEL")
                    /\ nodes[n].symbol.kind = "USER" =>
                         marks = {} \/ path[Max(marks)] # ContextSwitch("KERNEL")
  BY DEF ContextsTold
<1> DEFINE S == AllSymbols
           l == Len(path)
<1>1. Tree(nodes, S) /\ NodesRight(nodes, ShownPaths) /\ Paths(ShownPaths, S)
      /\ traces \in Seq(Traceables)
  BY DEF GraphIInv
<1> HIDE DEF S
<1>2. n \in 1 .. Len(nodes) /\ Len(nodes) \in Nat
  BY <1>1, TreeIs
<1>3. /\ path \in Seq(S) /\ l >= 1 /\ l \in Nat /\ path[l] = nodes[n].symbol /\ DOMAIN path = 1 .. l
  <2>1. PathRight(nodes, S, n)
    BY <1>1, <1>2, PathIs
  <2> QED
    BY <2>1 DEF PathRight
<1>4. n = 1 => nodes[n].symbol.kind = "ROOT"
  <2>1. everything.kind = "ROOT"
    BY Zenon DEF everything, Symbol
  <2>2. nodes[1].symbol = everything
    BY DEF GraphIInv
  <2> QED
    BY <2>1, <2>2
<1> SUFFICES ASSUME n # 1 PROVE
       /\ nodes[n].symbol.kind = "KERNEL" =>
                         marks # {} /\ path[Max(marks)] = ContextSwitch("KERNEL")
       /\ nodes[n].symbol.kind = "USER" =>
                         marks = {} \/ path[Max(marks)] # ContextSwitch("KERNEL")
  BY <1>4
<1>5. PICK i \in DOMAIN ShownPaths : IsPrefix(path, ShownPaths[i])
  <2>1. n \in 2 .. Len(nodes)
    BY <1>2
  <2> QED
    BY <1>1, <2>1 DEF NodesRight
<1> DEFINE whole == ShownPaths[i]
<1>6. InTold(whole)
  <2> DEFINE t == traces[i]
  <2>1. t \in Traceables /\ ~Ignored(t) /\ whole = Path(Account(t))
    BY <1>1 DEF ShownPaths, Shown, PathOf
  <2> HIDE DEF t, whole
  <2>2. Account(t) \in Seq(AllSymbols) /\ OutTold(Account(t))
    BY <2>1, AccountRight
  <2> QED
    BY <2>1, <2>2, PathTold
<1>7. whole \in Seq(S)
  BY <1>1 DEF Paths
<1> HIDE DEF whole
<1>8. l <= Len(whole) /\ Len(whole) \in Nat /\ \A k \in 1 .. l : path[k] = whole[k]
  <2>1. IsPrefix(path, whole)
    BY <1>5 DEF whole
  <2> QED
    BY <1>3, <1>7, <2>1, PrefixIs
<1>9. ToldAt(path, l)
  <2>1. ToldAt(whole, l)
    BY <1>3, <1>6, <1>8 DEF InTold
  <2> HIDE DEF l
  <2> QED
    BY <1>3, <1>8, <2>1, OnlyTheFirst
<1>10. ASSUME NEW x, MarkedLast(path, l, x) PROVE marks # {} /\ path[Max(marks)] = x
  <2>1. PICK j \in 1 .. l : path[j] = x /\ IsSwitch(x) /\ \A h \in j + 1 .. l : ~IsSwitch(path[h])
    BY <1>10 DEF MarkedLast
  <2>2. j \in marks /\ marks \subseteq 1 .. l
    BY <1>3, <2>1
  <2>3. ASSUME NEW k \in marks PROVE j >= k
    <3>1. k \in 1 .. l /\ IsSwitch(path[k])
      BY <1>3
    <3>2. k \notin j + 1 .. l
      BY <2>1, <3>1
    <3> QED
      BY <1>3, <3>1, <3>2
  <2>4. \A k \in marks : (\A h \in marks : k >= h) => k = j
    <3> SUFFICES ASSUME NEW k \in marks, \A h \in marks : k >= h PROVE k = j
      OBVIOUS
    <3>1. k >= j /\ j >= k /\ k \in 1 .. l
      BY <2>2, <2>3
    <3> QED
      BY <1>3, <3>1
  <2>5. Max(marks) = j
    BY <2>2, <2>3, <2>4 DEF Max
  <2> QED
    BY <2>1, <2>2, <2>5
<1>11. Unmarked(path, l) => marks = {}
  BY <1>3 DEF Unmarked
<1> HIDE DEF l
<1> QED
  BY <1>3, <1>9, <1>10, <1>11 DEF ToldAt

(* In a callgraph that goes down, the first mark outwards from a function   *)
(* of the kernel is that of the kernel, and from one of the process that of *)
(* another context, if there is any.                                        *)
THEOREM CallgraphTold == GraphSpec => []ContextsTold
<1>1. GraphIInv => ContextsTold
  BY ToldEverywhere
<1> QED
  BY <1>1, GraphInvariant, PTL

-----------------------------------------------------------------------------
(* The lists of a callgraph: their loops.                                   *)

OnlyTurns(symbols, kept, only) ==
  /\ Only(symbols, kept) = only[Len(symbols)]
  /\ only[0] = <<>>
  /\ \A k \in 0 .. Len(symbols) - 1 : only[k + 1] = Keeps(kept, only[k], symbols[k + 1])

(* The loop that keeps some symbols ...                                    *)
LEMMA OnlyHasTurns ==
  ASSUME NEW symbols, Len(symbols) \in Nat, NEW kept
  PROVE  \E only : OnlyTurns(symbols, kept, only)
<1> DEFINE last == Len(symbols)
           P(only) == only = [k \in 0 .. last |->
                        IF k = 0 THEN <<>>
                        ELSE IF symbols[k] \in kept THEN Append(only[k - 1], symbols[k])
                        ELSE only[k - 1]]
           only == CHOOSE only : P(only)
<1>1. Only(symbols, kept) = only[last]
  BY DEF Only
<1>2. last \in Nat /\ last \in 0 .. last
  OBVIOUS
<1>3. PICK f : Turning("only", kept, <<>>, symbols, last, f)
  <2> HIDE DEF last
  <2> QED
    BY <1>2, LoopExists
<1>4. P(f)
  <2>1. f = [n \in 0 .. last |-> IF n = 0 THEN <<>> ELSE Turned("only", kept, f[n - 1], symbols[n])]
    BY <1>3 DEF Turning
  <2>2. ASSUME NEW n \in 0 .. last
        PROVE  Turned("only", kept, f[n - 1], symbols[n]) = Keeps(kept, f[n - 1], symbols[n])
    <3> HIDE DEF last
    <3> QED
      BY TurnedIs
  <2> HIDE DEF last
  <2> QED
    BY <2>1, <2>2 DEF Keeps
<1>5. P(only)
  <2> HIDE DEF P
  <2> QED
    BY <1>4
<1> HIDE DEF only
<1>6. \A k \in 0 .. last : only[k] = IF k = 0 THEN <<>> ELSE Keeps(kept, only[k - 1], symbols[k])
  <2> HIDE DEF last
  <2> QED
    BY <1>5 DEF Keeps
<1>7. only[0] = <<>>
  <2>1. 0 \in 0 .. last
    BY <1>2
  <2> HIDE DEF last
  <2> QED
    BY <1>6, <2>1
<1>8. ASSUME NEW k \in 0 .. Len(symbols) - 1
      PROVE  only[k + 1] = Keeps(kept, only[k], symbols[k + 1])
  <2>1. k + 1 \in 0 .. last /\ k + 1 # 0 /\ (k + 1) - 1 = k
    BY <1>2
  <2> HIDE DEF last
  <2> QED
    BY <1>6, <2>1
<1>9. OnlyTurns(symbols, kept, only)
  BY <1>1, <1>7, <1>8 DEF OnlyTurns
<1> QED
  BY <1>9

PrefixTurns(symbols, prefix, from) ==
  /\ HasPrefix(symbols, prefix) <=>
       Len(symbols) >= Len(prefix) /\ from[Len(prefix)] <= Len(symbols) + 1
  /\ from[0] = 1
  /\ \A k \in 0 .. Len(prefix) - 1 : from[k + 1] = PrefixTurn(symbols, from[k], prefix[k + 1])

(* ... the one that seeks a prefix ...                                     *)
LEMMA HasPrefixHasTurns ==
  ASSUME NEW symbols, NEW prefix, Len(prefix) \in Nat
  PROVE  \E from : PrefixTurns(symbols, prefix, from)
<1> DEFINE last == Len(prefix)
           P(from) == from = [k \in 0 .. last |->
                        IF k = 0 THEN 1 ELSE PrefixTurn(symbols, from[k - 1], prefix[k])]
           from == CHOOSE from : P(from)
<1>1. HasPrefix(symbols, prefix) <=> Len(symbols) >= last /\ from[last] <= Len(symbols) + 1
  BY DEF HasPrefix
<1>2. last \in Nat /\ last \in 0 .. last
  OBVIOUS
<1>3. PICK f : Turning("seek", symbols, 1, prefix, last, f)
  <2> HIDE DEF last
  <2> QED
    BY <1>2, LoopExists
<1>4. P(f)
  <2>1. f = [n \in 0 .. last |-> IF n = 0 THEN 1 ELSE Turned("seek", symbols, f[n - 1], prefix[n])]
    BY <1>3 DEF Turning
  <2>2. ASSUME NEW n \in 0 .. last
        PROVE  Turned("seek", symbols, f[n - 1], prefix[n]) = PrefixTurn(symbols, f[n - 1], prefix[n])
    <3> HIDE DEF last
    <3> QED
      BY TurnedIs
  <2> HIDE DEF last
  <2> QED
    BY <2>1, <2>2
<1>5. P(from)
  <2> HIDE DEF P
  <2> QED
    BY <1>4
<1> HIDE DEF from
<1>6. \A k \in 0 .. last : from[k] = IF k = 0 THEN 1 ELSE PrefixTurn(symbols, from[k - 1], prefix[k])
  <2> HIDE DEF last
  <2> QED
    BY <1>5
<1>7. from[0] = 1
  <2>1. 0 \in 0 .. last
    BY <1>2
  <2> HIDE DEF last
  <2> QED
    BY <1>6, <2>1
<1>8. ASSUME NEW k \in 0 .. Len(prefix) - 1
      PROVE  from[k + 1] = PrefixTurn(symbols, from[k], prefix[k + 1])
  <2>1. k + 1 \in 0 .. last /\ k + 1 # 0 /\ (k + 1) - 1 = k
    BY <1>2
  <2> HIDE DEF last
  <2> QED
    BY <1>6, <2>1
<1>9. PrefixTurns(symbols, prefix, from)
  BY <1>1, <1>7, <1>8 DEF PrefixTurns
<1> QED
  BY <1>9

DescendTurns(graph, symbols, at) ==
  /\ Descend(graph, symbols) = at[Len(symbols)]
  /\ at[0] = [graph |-> graph, node |-> 1]
  /\ \A k \in 0 .. Len(symbols) - 1 : at[k + 1] = DescendTurn(at[k], symbols[Len(symbols) - k])

(* ... the one that goes down from the root ...                            *)
LEMMA DescendHasTurns ==
  ASSUME NEW graph, NEW symbols, Len(symbols) \in Nat
  PROVE  \E at : DescendTurns(graph, symbols, at)
<1> DEFINE last == Len(symbols)
           start == [graph |-> graph, node |-> 1]
           args == [k \in 1 .. last |-> symbols[last + 1 - k]]
           P(at) == at = [k \in 0 .. last |->
                        IF k = 0 THEN start ELSE DescendTurn(at[k - 1], symbols[last + 1 - k])]
           at == CHOOSE at : P(at)
<1>1. Descend(graph, symbols) = at[last]
  BY DEF Descend
<1>2. last \in Nat /\ last \in 0 .. last
  OBVIOUS
<1>3. PICK f : Turning("descend", 0, start, args, last, f)
  <2> HIDE DEF last, args, start
  <2> QED
    BY <1>2, LoopExists
<1>4. P(f)
  <2>1. f = [n \in 0 .. last |-> IF n = 0 THEN start ELSE Turned("descend", 0, f[n - 1], args[n])]
    BY <1>3 DEF Turning
  <2>2. ASSUME NEW n \in 0 .. last, n # 0
        PROVE  Turned("descend", 0, f[n - 1], args[n]) = DescendTurn(f[n - 1], symbols[last + 1 - n])
    <3>1. args[n] = symbols[last + 1 - n]
      <4>1. n \in 1 .. last
        BY <1>2, <2>2
      <4> HIDE DEF last
      <4> QED
        BY <4>1
    <3> HIDE DEF args, last, start
    <3> QED
      BY <3>1, TurnedIs
  <2> HIDE DEF args, last, start
  <2> QED
    BY <2>1, <2>2
<1>5. P(at)
  <2> HIDE DEF P
  <2> QED
    BY <1>4
<1> HIDE DEF at
<1>6. \A k \in 0 .. last : at[k] = IF k = 0 THEN start
                                   ELSE DescendTurn(at[k - 1], symbols[last + 1 - k])
  <2> HIDE DEF last, start
  <2> QED
    BY <1>5
<1>7. at[0] = start
  <2>1. 0 \in 0 .. last
    BY <1>2
  <2> HIDE DEF last, start
  <2> QED
    BY <1>6, <2>1
<1>8. ASSUME NEW k \in 0 .. Len(symbols) - 1
      PROVE  at[k + 1] = DescendTurn(at[k], symbols[Len(symbols) - k])
  <2>1. k + 1 \in 0 .. last /\ k + 1 # 0 /\ (k + 1) - 1 = k /\ last + 1 - (k + 1) = Len(symbols) - k
    BY <1>2
  <2> HIDE DEF last, start
  <2> QED
    BY <1>6, <2>1
<1>9. DescendTurns(graph, symbols, at)
  BY <1>1, <1>7, <1>8 DEF DescendTurns
<1> QED
  BY <1>9

TreeTurns(s, tree) ==
  /\ Descendants(s) = tree[Len(traces)]
  /\ tree[0] = <<NewNode(0, s)>>
  /\ \A k \in 0 .. Len(traces) - 1 : tree[k + 1] = TreeTurn(s, tree[k], k + 1)

(* ... and the one over the traceables.                                    *)
LEMMA DescendantsHasTurns ==
  ASSUME NEW s, Len(traces) \in Nat
  PROVE  \E tree : TreeTurns(s, tree)
<1> DEFINE last == Len(traces)
           start == <<NewNode(0, s)>>
           args == [k \in 1 .. last |-> k]
           P(tree) == tree = [i \in 0 .. last |->
                        IF i = 0 THEN start
                        ELSE IF i \in summaries[s].traceables
                             THEN AddBelow(tree[i - 1], Below(traces[i], s))
                        ELSE tree[i - 1]]
           tree == CHOOSE tree : P(tree)
<1>1. Descendants(s) = tree[last]
  BY DEF Descendants
<1>2. last \in Nat /\ last \in 0 .. last
  OBVIOUS
<1>3. PICK f : Turning("tree", s, start, args, last, f)
  <2> HIDE DEF last, args, start
  <2> QED
    BY <1>2, LoopExists
<1>4. P(f)
  <2>1. f = [n \in 0 .. last |-> IF n = 0 THEN start ELSE Turned("tree", s, f[n - 1], args[n])]
    BY <1>3 DEF Turning
  <2>2. ASSUME NEW n \in 0 .. last, n # 0
        PROVE  Turned("tree", s, f[n - 1], args[n]) = TreeTurn(s, f[n - 1], n)
    <3>1. args[n] = n
      <4>1. n \in 1 .. last
        BY <1>2, <2>2
      <4> HIDE DEF last
      <4> QED
        BY <4>1
    <3> HIDE DEF args, last, start
    <3> QED
      BY <3>1, TurnedIs
  <2> HIDE DEF args, last, start
  <2> QED
    BY <2>1, <2>2 DEF TreeTurn
<1>5. P(tree)
  <2> HIDE DEF P
  <2> QED
    BY <1>4
<1> HIDE DEF tree
<1>6. \A k \in 0 .. last : tree[k] = IF k = 0 THEN start ELSE TreeTurn(s, tree[k - 1], k)
  <2> HIDE DEF last, start
  <2> QED
    BY <1>5 DEF TreeTurn
<1>7. tree[0] = start
  <2>1. 0 \in 0 .. last
    BY <1>2
  <2> HIDE DEF last, start
  <2> QED
    BY <1>6, <2>1
<1>8. ASSUME NEW k \in 0 .. Len(traces) - 1
      PROVE  tree[k + 1] = TreeTurn(s, tree[k], k + 1)
  <2>1. k + 1 \in 0 .. last /\ k + 1 # 0 /\ (k + 1) - 1 = k
    BY <1>2
  <2> HIDE DEF last, start
  <2> QED
    BY <1>6, <2>1
<1>9. TreeTurns(s, tree)
  BY <1>1, <1>7, <1>8 DEF TreeTurns
<1> QED
  BY <1>9

-----------------------------------------------------------------------------
(* Symbols that are found in a sequence, in order.                          *)

Embeds(places, short, long) ==
  /\ \A k \in 1 .. Len(short) : places[k] \in 1 .. Len(long) /\ long[places[k]] = short[k]
  /\ \A j, k \in 1 .. Len(short) : j < k => places[j] < places[k]

OnlySoFar(only, symbols, kept, n, S) ==
  /\ only \in Seq(S)
  /\ \A k \in 1 .. Len(only) : only[k] \in kept
  /\ \A k \in 1 .. n : symbols[k] \in kept => Len(only) >= 1
  /\ \E places : Embeds(places, only, symbols) /\ \A k \in 1 .. Len(only) : places[k] <= n

(* One symbol more is kept or is not.                                      *)
LEMMA KeepsIs ==
  ASSUME NEW S, NEW symbols \in Seq(S), NEW kept, NEW n \in 0 .. Len(symbols) - 1, NEW only,
         OnlySoFar(only, symbols, kept, n, S), NEW next, next = Keeps(kept, only, symbols[n + 1])
  PROVE  OnlySoFar(next, symbols, kept, n + 1, S)
<1> DEFINE m == n + 1
           s == symbols[m]
           l == Len(only)
<1>1. m \in 1 .. Len(symbols) /\ n \in Nat /\ m \in Nat /\ n < m /\ s \in S /\ Len(symbols) \in Nat
  OBVIOUS
<1>2. PICK places : Embeds(places, only, symbols) /\ \A k \in 1 .. l : places[k] <= n
  BY DEF OnlySoFar
<1>3. only \in Seq(S) /\ l \in Nat /\ \A k \in 1 .. l : only[k] \in kept
  BY DEF OnlySoFar
<1>4. \A k \in 1 .. m : k \in 1 .. n \/ k = m
  BY <1>1
<1>5. CASE s \notin kept
  <2>1. next = only
    BY <1>5 DEF Keeps
  <2>2. \A k \in 1 .. l : places[k] \in 1 .. Len(symbols) /\ places[k] <= n
    BY <1>2 DEF Embeds
  <2>3. \A k \in 1 .. l : places[k] <= m
    <3> HIDE DEF l
    <3> QED
      BY <1>1, <2>2
  <2>4. \A k \in 1 .. m : symbols[k] \in kept => l >= 1
    <3> HIDE DEF m, l
    <3> QED
      BY <1>4, <1>5 DEF OnlySoFar, s, l
  <2> QED
    BY <1>2, <1>3, <2>1, <2>3, <2>4 DEF OnlySoFar
<1>6. CASE s \in kept
  <2>1. next = Append(only, s)
    BY <1>6 DEF Keeps
  <2> DEFINE more == [k \in 1 .. l + 1 |-> IF k = l + 1 THEN m ELSE places[k]]
  <2>2. /\ next \in Seq(S) /\ Len(next) = l + 1 /\ next[l + 1] = s
        /\ \A k \in 1 .. l : next[k] = only[k]
    BY <1>1, <1>3, <2>1
  <2>3. \A k \in 1 .. l + 1 : (k \in 1 .. l /\ k # l + 1) \/ k = l + 1
    BY <1>3
  <2>4. more[l + 1] = m /\ \A k \in 1 .. l : more[k] = places[k]
    <3>1. l + 1 \in 1 .. l + 1 /\ \A k \in 1 .. l : k \in 1 .. l + 1 /\ k # l + 1
      BY <1>3
    <3> HIDE DEF l, m
    <3> QED
      BY <3>1
  <2>5. \A k \in 1 .. l : /\ places[k] \in 1 .. Len(symbols) /\ symbols[places[k]] = only[k]
                          /\ places[k] <= n
    BY <1>2 DEF Embeds
  <2>6. \A j, k \in 1 .. l : j < k => places[j] < places[k]
    BY <1>2 DEF Embeds
  <2> HIDE DEF more, l
  <2>7. ASSUME NEW k \in 1 .. l + 1
        PROVE  /\ more[k] \in 1 .. Len(symbols) /\ symbols[more[k]] = next[k] /\ more[k] <= m
               /\ next[k] \in kept
    <3>1. CASE k = l + 1
      BY <1>1, <1>6, <2>2, <2>4, <3>1
    <3>2. CASE k \in 1 .. l
      <4>1. more[k] = places[k] /\ next[k] = only[k] /\ next[k] \in kept
        BY <1>3, <2>2, <2>4, <3>2
      <4>2. /\ places[k] \in 1 .. Len(symbols) /\ symbols[places[k]] = only[k]
            /\ places[k] <= n
        BY <2>5, <3>2
      <4>3. places[k] <= m
        BY <1>1, <4>2
      <4> QED
        BY <4>1, <4>2, <4>3
    <3> QED
      BY <2>3, <3>1, <3>2
  <2>8. ASSUME NEW j \in 1 .. l + 1, NEW k \in 1 .. l + 1, j < k PROVE more[j] < more[k]
    <3>1. j \in 1 .. l
      BY <1>3, <2>8
    <3>2. CASE k = l + 1
      BY <1>1, <2>4, <2>5, <3>1, <3>2
    <3>3. CASE k \in 1 .. l
      BY <2>4, <2>6, <2>8, <3>1, <3>3
    <3> QED
      BY <2>3, <3>2, <3>3
  <2>9. Embeds(more, next, symbols)
    BY <2>2, <2>7, <2>8 DEF Embeds
  <2>10. Len(next) >= 1
    BY <1>3, <2>2
  <2> QED
    BY <2>2, <2>7, <2>9, <2>10 DEF OnlySoFar
<1> QED
  BY <1>5, <1>6

(* Those that are kept are found where they were.                          *)
LEMMA OnlyRight ==
  ASSUME NEW S, NEW symbols \in Seq(S), NEW kept
  PROVE  OnlySoFar(Only(symbols, kept), symbols, kept, Len(symbols), S)
<1> DEFINE n == Len(symbols)
<1>1. n \in Nat /\ n \in 0 .. n
  OBVIOUS
<1>2. PICK only : OnlyTurns(symbols, kept, only)
  BY <1>1, OnlyHasTurns
<1> DEFINE T == {k \in Nat : OnlySoFar(only[k], symbols, kept, k, S)}
<1>3. 0 \in T
  <2>1. only[0] = <<>>
    BY <1>2 DEF OnlyTurns
  <2>2. OnlySoFar(<<>>, symbols, kept, 0, S)
    <3>1. Embeds(<<>>, <<>>, symbols)
      BY DEF Embeds
    <3>2. \A k \in 1 .. Len(<<>>) : FALSE
      OBVIOUS
    <3>3. \A k \in 1 .. 0 : FALSE
      OBVIOUS
    <3>4. <<>> \in Seq(S)
      OBVIOUS
    <3>5. \E places : Embeds(places, <<>>, symbols) /\ \A k \in 1 .. Len(<<>>) : places[k] <= 0
      BY <3>1, <3>2
    <3> QED
      BY <3>2, <3>3, <3>4, <3>5 DEF OnlySoFar
  <2> QED
    BY <2>1, <2>2
<1>4. \A k \in 0 .. n - 1 : k \in T => k + 1 \in T
  <2> SUFFICES ASSUME NEW k \in 0 .. n - 1, OnlySoFar(only[k], symbols, kept, k, S)
               PROVE  OnlySoFar(only[k + 1], symbols, kept, k + 1, S)
    BY <1>1
  <2>1. only[k + 1] = Keeps(kept, only[k], symbols[k + 1])
    BY <1>2 DEF OnlyTurns
  <2> QED
    BY <2>1, KeepsIs
<1>5. n \in T
  <2> HIDE DEF T, n
  <2> QED
    BY <1>1, <1>3, <1>4, Upwards
<1> QED
  BY <1>2, <1>5 DEF OnlyTurns

(* The other way round.                                                    *)
LEMMA ReverseIs ==
  ASSUME NEW S, NEW s \in Seq(S), NEW r, r = Reverse(s)
  PROVE  /\ r \in Seq(S) /\ Len(r) = Len(s) /\ Len(s) \in Nat
         /\ \A k \in 1 .. Len(s) : r[k] = s[Len(s) + 1 - k]
<1>1. Len(s) \in Nat /\ \A k \in 1 .. Len(s) : Len(s) - k + 1 \in 1 .. Len(s)
  OBVIOUS
<1>2. r = [k \in 1 .. Len(s) |-> s[(Len(s) - k) + 1]]
  BY DEF Reverse
<1>3. \A k \in 1 .. Len(s) : s[(Len(s) - k) + 1] \in S
  BY <1>1
<1>4. r \in Seq(S) /\ Len(r) = Len(s)
  BY <1>1, <1>2, <1>3
<1>5. \A k \in 1 .. Len(s) : (Len(s) - k) + 1 = Len(s) + 1 - k
  BY <1>1
<1> QED
  BY <1>1, <1>2, <1>4, <1>5

(* What is shown of the symbols is what is not hidden, from the root.      *)
LEMMA PathKeeps ==
  ASSUME NEW S, NEW symbols \in Seq(S), NEW kept, kept = {s \in S : ~Hidden(s)}
  PROVE  Path(symbols) = Only(Reverse(symbols), kept)
<1> DEFINE n == Len(symbols)
           r == Reverse(symbols)
<1>1. n \in Nat /\ n \in 0 .. n
  OBVIOUS
<1>2. r \in Seq(S) /\ Len(r) = n /\ \A k \in 1 .. n : r[k] = symbols[n + 1 - k]
  BY ReverseIs
<1> HIDE DEF r
<1>3. PICK path : PathTurns(symbols, path)
  BY <1>1, PathHasTurns
<1>4. PICK only : OnlyTurns(r, kept, only)
  BY <1>1, <1>2, OnlyHasTurns
<1> DEFINE T == {k \in Nat : path[k] = only[k]}
<1>5. 0 \in T
  BY <1>3, <1>4 DEF PathTurns, OnlyTurns
<1>6. \A k \in 0 .. n - 1 : k \in T => k + 1 \in T
  <2> SUFFICES ASSUME NEW k \in 0 .. n - 1, path[k] = only[k] PROVE path[k + 1] = only[k + 1]
    BY <1>1
  <2>1. path[k + 1] = Shows(path[k], symbols[n - k])
    BY <1>3 DEF PathTurns
  <2>2. only[k + 1] = Keeps(kept, only[k], r[k + 1])
    BY <1>2, <1>4 DEF OnlyTurns
  <2>3. k + 1 \in 1 .. n /\ n + 1 - (k + 1) = n - k /\ n - k \in 1 .. n
    BY <1>1
  <2>4. r[k + 1] = symbols[n - k] /\ symbols[n - k] \in S
    <3>1. r[k + 1] = symbols[n + 1 - (k + 1)]
      BY ONLY <1>2, <2>3
    <3>2. symbols[n - k] \in S
      BY ONLY symbols \in Seq(S), <2>3
    <3> QED
      BY ONLY <2>3, <3>1, <3>2
  <2> HIDE DEF n
  <2> QED
    BY <2>1, <2>2, <2>4 DEF Shows, Keeps
<1>7. n \in T
  <2> HIDE DEF T, n
  <2> QED
    BY <1>1, <1>5, <1>6, Upwards
<1> QED
  BY <1>2, <1>3, <1>4, <1>7 DEF PathTurns, OnlyTurns, r

(* Seeking them one behind the other finds them.                           *)
LEMMA PrefixTurnIs ==
  ASSUME NEW S, NEW symbols \in Seq(S), NEW from \in Nat, from >= 1, NEW p,
         NEW place \in 1 .. Len(symbols), place >= from, symbols[place] = p,
         NEW next, next = PrefixTurn(symbols, from, p)
  PROVE  next \in Nat /\ next >= 1 /\ next <= place + 1
<1> DEFINE at == {k \in from .. Len(symbols) : symbols[k] = p}
<1>1. Len(symbols) \in Nat /\ place \in from .. Len(symbols)
  OBVIOUS
<1>2. place \in at /\ at \in SUBSET Nat
  BY <1>1
<1>3. next = Min(at) + 1
  BY <1>2 DEF PrefixTurn
<1> HIDE DEF at
<1>4. PICK x \in at : \A y \in at : x <= y
  BY <1>2, LeastElement
<1>5. Min(at) \in at /\ \A y \in at : Min(at) <= y
  BY <1>4 DEF Min
<1>6. Min(at) \in Nat /\ Min(at) <= place
  BY <1>2, <1>5
<1> QED
  BY <1>3, <1>6

(* ... all, if they are there in order.                                     *)
LEMMA PrefixIsFound ==
  ASSUME NEW S, NEW symbols \in Seq(S), NEW prefix \in Seq(S), NEW places,
         Embeds(places, prefix, symbols)
  PROVE  HasPrefix(symbols, prefix)
<1> DEFINE n == Len(prefix)
           l == Len(symbols)
<1>1. n \in Nat /\ l \in Nat /\ n \in 0 .. n
  OBVIOUS
<1>2. PICK from : PrefixTurns(symbols, prefix, from)
  BY <1>1, HasPrefixHasTurns
<1> DEFINE R(k) == /\ from[k] \in Nat /\ from[k] >= 1
                   /\ k = 0 => from[k] = 1
                   /\ k # 0 => from[k] <= places[k] + 1 /\ k <= places[k]
           T == {k \in Nat : R(k)}
<1>3. 0 \in T
  BY <1>2 DEF PrefixTurns
<1>4. \A k \in 0 .. n - 1 : k \in T => k + 1 \in T
  <2> SUFFICES ASSUME NEW k \in 0 .. n - 1, R(k) PROVE R(k + 1)
    BY <1>1
  <2> DEFINE m == k + 1
  <2>1. m \in 1 .. n /\ m # 0 /\ k \in Nat /\ m \in Nat /\ k < m
    BY <1>1
  <2>2. places[m] \in 1 .. l /\ symbols[places[m]] = prefix[m]
    BY <2>1 DEF Embeds
  <2>3. k # 0 => k \in 1 .. n
    BY <1>1
  <2>4. k # 0 => places[k] \in 1 .. l /\ places[k] < places[m]
    BY <2>1, <2>3 DEF Embeds
  <2>5. places[m] >= from[k] /\ m <= places[m]
    BY <1>1, <2>1, <2>2, <2>4
  <2>6. from[m] = PrefixTurn(symbols, from[k], prefix[m])
    BY <1>2 DEF PrefixTurns
  <2> HIDE DEF m
  <2>7. from[m] \in Nat /\ from[m] >= 1 /\ from[m] <= places[m] + 1
    BY <2>2, <2>5, <2>6, PrefixTurnIs
  <2> QED
    BY <2>1, <2>5, <2>7 DEF m
<1>5. n \in T
  <2> HIDE DEF T, n
  <2> QED
    BY <1>1, <1>3, <1>4, Upwards
<1>6. l >= n /\ from[n] <= l + 1
  <2>1. CASE n = 0
    BY <1>1, <1>5, <2>1
  <2>2. CASE n # 0
    <3>1. n \in 1 .. n
      BY <1>1, <2>2
    <3>2. places[n] \in 1 .. l
      BY <3>1 DEF Embeds
    <3>3. from[n] <= places[n] + 1 /\ n <= places[n] /\ from[n] \in Nat
      BY <1>5, <2>2
    <3> HIDE DEF n, l
    <3> QED
      BY <1>1, <3>2, <3>3
  <2> QED
    BY <2>1, <2>2
<1> QED
  BY <1>2, <1>6 DEF PrefixTurns

-----------------------------------------------------------------------------
(* The functions that are added for a stack are those found on it.          *)

Calling(symbols, found, ordered, places) ==
  /\ \A k \in 1 .. Len(symbols) :
       IsFunction(symbols[k]) => places[k] \in 1 .. Len(found) /\ found[places[k]] = symbols[k]
  /\ ordered => \A j, k \in 1 .. Len(symbols) :
                  j < k /\ IsFunction(symbols[j]) /\ IsFunction(symbols[k]) => places[j] < places[k]

(* What is no function does not matter.                                    *)
LEMMA CallingAppend ==
  ASSUME NEW S, NEW symbols \in Seq(S), NEW found, NEW ordered, NEW places,
         Calling(symbols, found, ordered, places), NEW s, ~IsFunction(s),
         NEW more, more = Append(symbols, s)
  PROVE  Calling(more, found, ordered, places)
<1> DEFINE n == Len(symbols)
<1>1. n \in Nat /\ Len(more) = n + 1 /\ more[n + 1] = s /\ \A k \in 1 .. n : more[k] = symbols[k]
  OBVIOUS
<1>2. \A k \in 1 .. n + 1 : k \in 1 .. n \/ k = n + 1
  BY <1>1
<1>3. \A k \in 1 .. Len(more) : IsFunction(more[k]) => k \in 1 .. n /\ more[k] = symbols[k]
  BY <1>1, <1>2
<1> HIDE DEF n
<1> QED
  BY <1>3 DEF Calling, n

(* Those that are added are found, in order in a callgraph that goes down. *)
LEMMA AccountCalls ==
  ASSUME NEW t \in Traceables, ~Ignored(t), NEW symbols, symbols = Account(t),
         NEW found, found = Symbolize(t).symbols
  PROVE  \E places : Calling(symbols, found, "BOTTOM_UP" \notin flags, places)
<1> DEFINE stack == Symbolize(t)
           told == Told(stack)
           calls == IF IsSwitch(told[1]) THEN Tail(told) ELSE told
           turned == IF "BOTTOM_UP" \in flags THEN Reverse(calls) ELSE calls
           thread == ThreadSymbol(t)
           process == ProcessSymbol(t)
           threaded == IF "INCLUDE_THREADS" \in flags THEN Append(turned, thread) ELSE turned
           most == Append(threaded, process)
           S == AllSymbols
           mark == ContextSwitch("KERNEL")
<1>1. found \in Seq(Found) /\ found # <<>>
  BY SymbolizeRight, GraphAssumption DEF SymbolizedRight, Ignored
<1>2. symbols = turned \o (IF "INCLUDE_THREADS" \in flags THEN <<thread>> ELSE <<>>)
                       \o <<process, everything>>
  BY DEF Account
<1>3. Found \subseteq S /\ untraceable \in S /\ everything \in S /\ mark \in S /\ thread \in S
  BY DEF AllSymbols
<1>4. process \in S
  <2>1. process \in {Symbol("PROCESS", "missing")}
          \cup {Symbol("PROCESS", Processes[p].shared) : p \in DOMAIN Processes}
          \cup {Symbol("PROCESS", Processes[p].name) : p \in DOMAIN Processes}
    BY DEF ProcessSymbol
  <2> HIDE DEF process
  <2> QED
    BY <2>1 DEF AllSymbols
<1>5. /\ ~IsFunction(thread) /\ ~IsFunction(process) /\ ~IsFunction(everything)
      /\ ~IsFunction(untraceable) /\ ~IsFunction(mark)
  BY DEF IsFunction, ThreadSymbol, ProcessSymbol, everything, untraceable, ContextSwitch, Symbol
<1>6. found \in Seq(S) /\ Len(found) \in Nat /\ Len(found) >= 1
  BY <1>1, <1>3
<1>7. \/ told = <<untraceable>>
      \/ told = Append(found, mark)
      \/ told = found
  BY DEF Told
<1> HIDE DEF thread, process, told, mark, S
<1> DEFINE here == [k \in 1 .. Len(told) |-> k]
<1>8. told \in Seq(S) /\ Len(told) \in Nat /\ Len(told) >= 1 /\ Calling(told, found, TRUE, here)
  <2>1. CASE told = <<untraceable>>
    BY <1>3, <1>5, <2>1 DEF Calling
  <2>2. CASE told = Append(found, mark)
    <3>1. told \in Seq(S) /\ Len(told) \in Nat /\ Len(told) >= 1
      BY <1>3, <1>6, <2>2
    <3>2. Calling(found, found, TRUE, here)
      BY <1>6, <2>2 DEF Calling
    <3> HIDE DEF here
    <3> QED
      BY <1>5, <1>6, <2>2, <3>1, <3>2, CallingAppend
  <2>3. CASE told = found
    BY <1>6, <2>3 DEF Calling
  <2> QED
    BY <1>7, <2>1, <2>2, <2>3
<1> HIDE DEF here
<1>9. PICK c : calls \in Seq(S) /\ Len(calls) \in Nat /\ Calling(calls, found, TRUE, c)
  <2>1. CASE IsSwitch(told[1])
    <3> DEFINE tail == Tail(told)
               n == Len(tail)
               c == [k \in 1 .. n |-> here[k + 1]]
    <3>1. /\ tail \in Seq(S) /\ n \in Nat /\ Len(told) = n + 1
          /\ \A k \in 1 .. n : tail[k] = told[k + 1]
      BY <1>8
    <3>2. \A k \in 1 .. n : k + 1 \in 1 .. n + 1 /\ k \in Nat
      BY <3>1
    <3>3. Calling(tail, found, TRUE, c)
      <4>1. ASSUME NEW k \in 1 .. n, IsFunction(tail[k])
            PROVE  c[k] \in 1 .. Len(found) /\ found[c[k]] = tail[k]
        <5>1. k + 1 \in 1 .. Len(told) /\ IsFunction(told[k + 1]) /\ tail[k] = told[k + 1]
          BY <3>1, <3>2, <4>1
        <5>2. c[k] = here[k + 1]
          OBVIOUS
        <5> HIDE DEF tail, c, n
        <5> QED
          BY <1>8, <5>1, <5>2 DEF Calling
      <4>2. ASSUME NEW j \in 1 .. n, NEW k \in 1 .. n, j < k,
                   IsFunction(tail[j]), IsFunction(tail[k])
            PROVE  c[j] < c[k]
        <5>1. /\ k + 1 \in 1 .. Len(told) /\ IsFunction(told[k + 1])
              /\ j + 1 \in 1 .. Len(told) /\ IsFunction(told[j + 1])
          BY <3>1, <3>2, <4>2
        <5>2. j + 1 < k + 1
          BY <3>2, <4>2
        <5>3. c[j] = here[j + 1] /\ c[k] = here[k + 1]
          OBVIOUS
        <5> HIDE DEF tail, c, n
        <5> QED
          BY <1>8, <5>1, <5>2, <5>3 DEF Calling
      <4> HIDE DEF c, tail
      <4> QED
        BY <4>1, <4>2 DEF Calling
    <3> QED
      BY <2>1, <3>1, <3>3
  <2>2. CASE ~IsSwitch(told[1])
    BY <1>8, <2>2
  <2> QED
    BY <2>1, <2>2
<1> HIDE DEF calls
<1> DEFINE ordered == "BOTTOM_UP" \notin flags
<1>10. PICK places : turned \in Seq(S) /\ Calling(turned, found, ordered, places)
  <2>1. CASE "BOTTOM_UP" \in flags
    <3> DEFINE r == Reverse(calls)
               n == Len(calls)
               d == [k \in 1 .. n |-> c[n + 1 - k]]
    <3>1. r \in Seq(S) /\ Len(r) = n /\ n \in Nat /\ \A k \in 1 .. n : r[k] = calls[n + 1 - k]
      BY <1>9, ReverseIs
    <3>2. \A k \in 1 .. n : n + 1 - k \in 1 .. n
      BY <3>1
    <3> HIDE DEF r
    <3>3. Calling(r, found, ordered, d)
      BY <1>9, <2>1, <3>1, <3>2 DEF Calling
    <3> QED
      BY <2>1, <3>1, <3>3 DEF r
  <2>2. CASE "BOTTOM_UP" \notin flags
    BY <1>9, <2>2 DEF Calling
  <2> QED
    BY <2>1, <2>2
<1> HIDE DEF turned, ordered
<1>11. threaded \in Seq(S) /\ Calling(threaded, found, ordered, places)
  <2> DEFINE more == Append(turned, thread)
  <2>1. more \in Seq(S)
    BY <1>3, <1>10
  <2> HIDE DEF more
  <2>2. Calling(more, found, ordered, places)
    BY <1>5, <1>10, CallingAppend DEF more
  <2> QED
    BY <1>10, <2>1, <2>2 DEF more
<1>12. symbols = Append(most, everything)
  <2>1. CASE "INCLUDE_THREADS" \in flags
    BY <1>2, <1>3, <1>4, <1>10, <2>1
  <2>2. CASE "INCLUDE_THREADS" \notin flags
    BY <1>2, <1>3, <1>4, <1>10, <2>2
  <2> QED
    BY <2>1, <2>2
<1> HIDE DEF threaded
<1>13. most \in Seq(S)
  BY <1>4, <1>11
<1> HIDE DEF most
<1>14. Calling(most, found, ordered, places)
  BY <1>5, <1>11, CallingAppend DEF most
<1>15. Calling(symbols, found, ordered, places)
  BY <1>5, <1>12, <1>13, <1>14, CallingAppend
<1> QED
  BY <1>15 DEF ordered

(* ... and so are those that are shown, the other way round.               *)
Leading(path, found, ordered, places) ==
  /\ \A k \in 1 .. Len(path) :
       IsFunction(path[k]) => places[k] \in 1 .. Len(found) /\ found[places[k]] = path[k]
  /\ ordered => \A j, k \in 1 .. Len(path) :
                  j < k /\ IsFunction(path[j]) /\ IsFunction(path[k]) => places[k] < places[j]

(* ... as what is shown of the symbols is in their order.                  *)
LEMMA PathLeads ==
  ASSUME NEW t \in Traceables, ~Ignored(t), NEW path, path = Path(Account(t)),
         NEW found, found = Symbolize(t).symbols
  PROVE  \E places : Leading(path, found, "BOTTOM_UP" \notin flags, places)
<1> DEFINE S == AllSymbols
           symbols == Account(t)
           n == Len(symbols)
           r == Reverse(symbols)
           kept == {s \in S : ~Hidden(s)}
           ordered == "BOTTOM_UP" \notin flags
<1>1. symbols \in Seq(S)
  BY AccountRight
<1>2. PICK c : Calling(symbols, found, ordered, c)
  BY AccountCalls
<1> HIDE DEF symbols, S
<1>3. r \in Seq(S) /\ Len(r) = n /\ n \in Nat /\ \A k \in 1 .. n : r[k] = symbols[n + 1 - k]
  BY <1>1, ReverseIs
<1>4. path = Only(r, kept)
  BY <1>1, PathKeeps DEF symbols
<1> HIDE DEF r, kept
<1>5. OnlySoFar(path, r, kept, n, S)
  BY <1>3, <1>4, OnlyRight
<1>6. PICK p : Embeds(p, path, r)
  BY <1>5 DEF OnlySoFar
<1> DEFINE m == Len(path)
<1>7. \A k \in 1 .. m : /\ p[k] \in 1 .. n /\ n + 1 - p[k] \in 1 .. n
                        /\ path[k] = symbols[n + 1 - p[k]]
  <2> SUFFICES ASSUME NEW k \in 1 .. m
               PROVE  p[k] \in 1 .. n /\ n + 1 - p[k] \in 1 .. n /\ path[k] = symbols[n + 1 - p[k]]
    OBVIOUS
  <2>1. p[k] \in 1 .. n /\ r[p[k]] = path[k]
    BY <1>3, <1>6 DEF Embeds
  <2> HIDE DEF n
  <2>2. r[p[k]] = symbols[n + 1 - p[k]] /\ n + 1 - p[k] \in 1 .. n
    BY <1>3, <2>1
  <2> QED
    BY <2>1, <2>2
<1>8. m \in Nat
  BY <1>5 DEF OnlySoFar
<1>9. \A j, k \in 1 .. m : j < k => p[j] < p[k]
  BY <1>6 DEF Embeds
<1> DEFINE places == [k \in 1 .. m |-> c[n + 1 - p[k]]]
<1>10. ASSUME NEW k \in 1 .. m, IsFunction(path[k])
       PROVE  places[k] \in 1 .. Len(found) /\ found[places[k]] = path[k]
  <2> DEFINE a == n + 1 - p[k]
  <2>1. a \in 1 .. n /\ path[k] = symbols[a] /\ places[k] = c[a]
    BY <1>7
  <2> HIDE DEF a, places
  <2> QED
    BY <1>2, <1>10, <2>1 DEF Calling
<1>11. ASSUME ordered, NEW j \in 1 .. m, NEW k \in 1 .. m, j < k,
              IsFunction(path[j]), IsFunction(path[k])
       PROVE  places[k] < places[j]
  <2> DEFINE a == n + 1 - p[k]
             b == n + 1 - p[j]
  <2>1. a \in 1 .. n /\ path[k] = symbols[a] /\ places[k] = c[a]
    BY <1>7
  <2>2. b \in 1 .. n /\ path[j] = symbols[b] /\ places[j] = c[b]
    BY <1>7
  <2>3. a < b
    <3>1. p[j] \in 1 .. n /\ p[k] \in 1 .. n /\ p[j] < p[k]
      BY <1>7, <1>9, <1>11
    <3> QED
      BY <1>3, <3>1, SMTT(30)
  <2> HIDE DEF a, b, places, ordered
  <2> QED
    BY <1>2, <1>11, <2>1, <2>2, <2>3 DEF Calling
<1>12. Leading(path, found, ordered, places)
  <2> HIDE DEF places, m
  <2> QED
    BY <1>10, <1>11 DEF Leading, m
<1> QED
  BY <1>12

(* The functions on the way to a node that a trace goes through are those  *)
(* of its stack, in order, so it is listed for the node.                   *)
LEMMA NodeListed ==
  ASSUME GraphIInv, "BOTTOM_UP" \notin flags, NEW n \in DOMAIN nodes,
         IsFunction(nodes[n].symbol), NEW i \in Shown, IsPrefix(PathTo(nodes, n), PathOf(i))
  PROVE  i \in Matches(n)
<1> DEFINE S == AllSymbols
           path == PathOf(i)
           way == PathTo(nodes, n)
           l == Len(way)
           chain == Reverse(way)
           kept == {s \in Range(chain) : IsFunction(s)}
           prefix == Only(chain, kept)
           found == Symbolize(traces[i]).symbols
<1>1. /\ Tree(nodes, S) /\ Paths(ShownPaths, S) /\ traces \in Seq(Traceables)
      /\ SummariesRight(summaries, ShownPaths)
  BY DEF GraphIInv
<1>2. n \in 1 .. Len(nodes) /\ i \in DOMAIN traces /\ traces[i] \in Traceables /\ ~Ignored(traces[i])
  BY <1>1, TreeIs DEF Shown
<1>3. path \in Seq(S) /\ path = ShownPaths[i] /\ i \in DOMAIN ShownPaths
  BY <1>1 DEF Paths, ShownPaths
<1>4. way \in Seq(S) /\ l >= 1 /\ l \in Nat /\ way[l] = nodes[n].symbol
  <2>1. PathRight(nodes, S, n)
    BY <1>1, <1>2, PathIs
  <2> QED
    BY <2>1 DEF PathRight
<1>5. found \in Seq(S)
  <2>1. found \in Seq(Found)
    BY <1>2, SymbolizeRight, GraphAssumption DEF SymbolizedRight
  <2>2. Found \subseteq S
    BY DEF AllSymbols
  <2> QED
    BY <2>1, <2>2
<1>6. PICK c : Leading(path, found, TRUE, c)
  <2>1. PICK c : Leading(path, found, "BOTTOM_UP" \notin flags, c)
    BY <1>2, PathLeads DEF PathOf
  <2> QED
    BY <2>1 DEF Leading
<1> HIDE DEF S, path, way, found
<1>7. l <= Len(path) /\ \A k \in 1 .. l : way[k] = path[k]
  <2>1. IsPrefix(way, path)
    BY DEF way, path
  <2> QED
    BY <1>3, <1>4, <2>1, PrefixIs
<1>8. chain \in Seq(S) /\ Len(chain) = l /\ \A k \in 1 .. l : chain[k] = way[l + 1 - k]
  BY <1>4, ReverseIs
<1> HIDE DEF chain, l
<1>9. OnlySoFar(prefix, chain, kept, l, S)
  <2> HIDE DEF kept
  <2> QED
    BY <1>8, OnlyRight
<1> HIDE DEF prefix
<1>10. PICK p : Embeds(p, prefix, chain)
  BY <1>9 DEF OnlySoFar
<1>11. prefix \in Seq(S) /\ \A k \in 1 .. Len(prefix) : IsFunction(prefix[k])
  BY <1>9 DEF OnlySoFar
<1>12. prefix # <<>>
  <2>1. 1 \in 1 .. l /\ l + 1 - 1 = l
    BY <1>4
  <2>2. chain[1] = nodes[n].symbol
    BY <1>4, <1>8, <2>1
  <2>3. chain[1] \in Range(chain)
    BY <1>8, <2>1 DEF Range
  <2>4. chain[1] \in kept
    BY <2>2, <2>3
  <2>5. Len(prefix) >= 1
    BY <1>9, <2>1, <2>4 DEF OnlySoFar
  <2> QED
    BY <2>5
<1> DEFINE q(k) == l + 1 - p[k]
           e == [k \in 1 .. Len(prefix) |-> c[q(k)]]
<1>13. ASSUME NEW k \in 1 .. Len(prefix)
       PROVE  q(k) \in 1 .. Len(path) /\ path[q(k)] = prefix[k]
  <2>1. p[k] \in 1 .. l /\ chain[p[k]] = prefix[k]
    BY <1>8, <1>10 DEF Embeds
  <2>2. q(k) \in 1 .. l /\ chain[p[k]] = way[q(k)]
    BY <1>4, <1>8, <2>1
  <2>3. Len(path) \in Nat
    BY <1>3
  <2> QED
    BY <1>4, <1>7, <2>1, <2>2, <2>3
<1>14. ASSUME NEW j \in 1 .. Len(prefix), NEW k \in 1 .. Len(prefix), j < k
       PROVE  q(k) < q(j)
  <2>1. p[k] \in 1 .. l /\ p[j] \in 1 .. l /\ p[j] < p[k]
    BY <1>8, <1>10, <1>14 DEF Embeds
  <2> QED
    BY <1>4, <2>1
<1> HIDE DEF q
<1>15. Embeds(e, prefix, found)
  <2>1. ASSUME NEW k \in 1 .. Len(prefix)
        PROVE  e[k] \in 1 .. Len(found) /\ found[e[k]] = prefix[k]
    <3>1. e[k] = c[q(k)] /\ IsFunction(path[q(k)]) /\ q(k) \in 1 .. Len(path)
          /\ path[q(k)] = prefix[k]
      BY <1>11, <1>13
    <3> HIDE DEF e
    <3> QED
      BY <1>6, <3>1 DEF Leading
  <2>2. ASSUME NEW j \in 1 .. Len(prefix), NEW k \in 1 .. Len(prefix), j < k
        PROVE  e[j] < e[k]
    <3>1. /\ e[k] = c[q(k)] /\ IsFunction(path[q(k)]) /\ q(k) \in 1 .. Len(path)
          /\ e[j] = c[q(j)] /\ IsFunction(path[q(j)]) /\ q(j) \in 1 .. Len(path)
      BY <1>11, <1>13
    <3>2. q(k) < q(j)
      BY <1>14, <2>2
    <3> HIDE DEF e
    <3> QED
      BY <1>6, <3>1, <3>2 DEF Leading
  <2> HIDE DEF e
  <2> QED
    BY <2>1, <2>2 DEF Embeds
<1>16. HasPrefix(found, prefix)
  BY <1>5, <1>11, <1>15, PrefixIsFound
<1>17. ASSUME NEW s \in Range(prefix) PROVE i \in summaries[s].traceables
  <2>1. PICK k \in 1 .. Len(prefix) : s = prefix[k]
    <3>1. Range(prefix) = {prefix[k] : k \in 1 .. Len(prefix)}
      BY <1>11, RangeIs
    <3> QED
      BY <3>1
  <2>2. s \in Range(path)
    <3>1. Range(path) = {path[h] : h \in 1 .. Len(path)}
      BY <1>3, RangeIs
    <3> QED
      BY <1>13, <2>1, <3>1
  <2>3. s \in OnPaths(ShownPaths) /\ i \in Holding(ShownPaths, s)
    BY <1>3, <2>2 DEF OnPaths, Holding
  <2>4. summaries[s] = Summed(ShownPaths, s)
    BY <1>1, <2>3 DEF SummariesRight
  <2> QED
    BY <2>3, <2>4 DEF Summed
<1> HIDE DEF kept
<1>18. Matches(n) = {j \in DOMAIN traces :
                       /\ \A s \in Range(prefix) : j \in summaries[s].traceables
                       /\ Len(traces[j].stack) <= MaxDepth
                       /\ HasPrefix(Symbolize(traces[j]).symbols, prefix)}
  BY <1>12 DEF Matches, prefix, kept, chain, way
<1>19. Len(traces[i].stack) <= MaxDepth
  <2>1. ~(Len(traces[i].stack) > MaxDepth) /\ Len(traces[i].stack) \in Nat /\ MaxDepth \in Nat
    BY <1>2, GraphAssumption DEF Ignored
  <2> QED
    BY <2>1
<1> QED
  BY <1>2, <1>16, <1>17, <1>18, <1>19 DEF found

(* The members of a set of numbers that are below k, the first m of a set,  *)
(* and what is the same of both.                                            *)
BelowIn(F, k) == {j \in F : j < k}
FirstOf(F, m) == {i \in F : Cardinality(BelowIn(F, i)) < m}
FirstCounted(F, L, m, k) ==
  /\ Cardinality(BelowIn(F, k)) \in Nat /\ Cardinality(BelowIn(L, k)) \in Nat
  /\ Cardinality(BelowIn(L, k)) <= m
  /\ Cardinality(BelowIn(F, k)) <= m => Cardinality(BelowIn(L, k)) = Cardinality(BelowIn(F, k))
  /\ Cardinality(BelowIn(F, k)) >= m => Cardinality(BelowIn(L, k)) = m

(* One more number is one more below.                                       *)
LEMMA OneMoreCounted ==
  ASSUME NEW l \in Nat, NEW F, F \subseteq 1 .. l, NEW k \in Nat
  PROVE  /\ IsFiniteSet(BelowIn(F, k)) /\ Cardinality(BelowIn(F, k)) \in Nat
         /\ Cardinality(BelowIn(F, k + 1)) = Cardinality(BelowIn(F, k)) + IF k \in F THEN 1 ELSE 0
<1> DEFINE B == BelowIn(F, k)
           C == BelowIn(F, k + 1)
<1>0. \A j \in F : j \in Int /\ j \in 1 .. l
  OBVIOUS
<1>a. \A j : j \in B <=> j \in F /\ j < k
  BY DEF BelowIn
<1>b. \A j : j \in C <=> j \in F /\ j < k + 1
  BY DEF BelowIn
<1>c. \A j \in F : j < k + 1 <=> j < k \/ j = k
  BY <1>0
<1> HIDE DEF B, C
<1>1. B \subseteq 1 .. l /\ k \notin B
  <2>1. ~(k < k)
    OBVIOUS
  <2>2. k \notin B
    BY <1>a, <2>1, Zenon
  <2>3. B \subseteq 1 .. l
    BY <1>0, <1>a, Zenon
  <2> QED
    BY <2>2, <2>3
<1>2. C = IF k \in F THEN B \cup {k} ELSE B
  BY <1>a, <1>b, <1>c
<1>3. IsFiniteSet(1 .. l)
  BY FS_Interval
<1>4. IsFiniteSet(B)
  BY <1>1, <1>3, FS_Subset
<1>5. Cardinality(B \cup {k}) = Cardinality(B) + 1 /\ Cardinality(B) \in Nat
  BY <1>1, <1>4, FS_AddElement, FS_CardinalityType
<1> QED
  BY <1>2, <1>4, <1>5 DEF B, C

(* The first m of a set are no more than m, and m of them are below one     *)
(* that is not among them.                                                  *)
FirstHold(F, L, m) ==
  /\ Cardinality(L) <= m
  /\ \A i \in F \ L : Cardinality(BelowIn(L, i)) = m
LEMMA FirstAre ==
  ASSUME NEW l \in Nat, NEW F, F \subseteq 1 .. l, NEW m \in Nat \ {0}
  PROVE  FirstHold(F, FirstOf(F, m), m)
<1> DEFINE L == FirstOf(F, m)
<1> DEFINE T == {k \in Nat : FirstCounted(F, L, m, k)}
<1>1. L \subseteq 1 .. l
  BY DEF FirstOf
<1>2. 0 \in T
  <2>1. BelowIn(F, 0) = {} /\ BelowIn(L, 0) = {}
    <3>1. \A j \in F : j \in Int /\ ~(j < 0)
      OBVIOUS
    <3>2. \A j \in L : j \in Int /\ ~(j < 0)
      BY <1>1
    <3> QED
      BY <3>1, <3>2 DEF BelowIn
  <2> QED
    BY <2>1, FS_EmptySet DEF FirstCounted
<1>3. ASSUME NEW k \in Nat, FirstCounted(F, L, m, k) PROVE FirstCounted(F, L, m, k + 1)
  <2> DEFINE f == Cardinality(BelowIn(F, k))
             g == Cardinality(BelowIn(L, k))
  <2>1. f \in Nat /\ Cardinality(BelowIn(F, k + 1)) = f + IF k \in F THEN 1 ELSE 0
    BY OneMoreCounted
  <2>2. g \in Nat /\ Cardinality(BelowIn(L, k + 1)) = g + IF k \in L THEN 1 ELSE 0
    BY <1>1, OneMoreCounted
  <2>3. k \in L <=> k \in F /\ f < m
    BY DEF FirstOf
  <2>4. g <= m /\ (f <= m => g = f) /\ (f >= m => g = m)
    BY <1>3 DEF FirstCounted
  <2> HIDE DEF f, g
  <2>5. CASE k \in F /\ f < m
    BY <2>1, <2>2, <2>3, <2>4, <2>5 DEF FirstCounted
  <2>6. CASE k \in F /\ ~(f < m)
    BY <2>1, <2>2, <2>3, <2>4, <2>6 DEF FirstCounted
  <2>7. CASE k \notin F
    BY <2>1, <2>2, <2>3, <2>4, <2>7 DEF FirstCounted
  <2> QED
    BY <2>5, <2>6, <2>7
<1>4. \A k \in 0 .. l + 1 : k \in T
  <2>1. \A k \in 0 .. (l + 1) - 1 : k \in T => k + 1 \in T
    BY <1>3
  <2>2. l + 1 \in Nat
    OBVIOUS
  <2> HIDE DEF T
  <2> QED
    BY <1>2, <2>1, <2>2, Upwards
<1>5. Cardinality(L) <= m
  <2>1. BelowIn(L, l + 1) = L
    BY <1>1 DEF BelowIn
  <2>2. FirstCounted(F, L, m, l + 1)
    BY <1>4
  <2> QED
    BY <2>1, <2>2 DEF FirstCounted
<1>6. ASSUME NEW i \in F \ L PROVE Cardinality(BelowIn(L, i)) = m
  <2>1. i \in 0 .. l + 1 /\ i \in Nat
    OBVIOUS
  <2>2. FirstCounted(F, L, m, i)
    BY <1>4, <2>1
  <2>3. ~(Cardinality(BelowIn(F, i)) < m)
    BY <1>6 DEF FirstOf
  <2> QED
    BY <2>2, <2>3 DEF FirstCounted
<1> QED
  BY <1>5, <1>6 DEF FirstHold

(* What is listed for a node are the first of what matches.                *)
LEMMA ListedAreFirst ==
  ASSUME traces \in Seq(Traceables), NEW n
  PROVE  LET listed == ListTraceables(n)
         IN  /\ Cardinality(listed) <= MaxResults
             /\ \A i \in Matches(n) \ listed :
                  Cardinality({j \in listed : j < i}) = MaxResults
<1> DEFINE F == Matches(n)
           L == ListTraceables(n)
           l == Len(traces)
<1>1. l \in Nat /\ DOMAIN traces = 1 .. l
  OBVIOUS
<1>2. F \subseteq 1 .. l
  BY <1>1 DEF Matches
<1>3. L = FirstOf(F, MaxResults)
  BY DEF ListTraceables, FirstOf, BelowIn
<1>4. MaxResults \in Nat \ {0}
  BY GraphAssumption
<1> HIDE DEF F, L, l
<1>5. FirstHold(F, FirstOf(F, MaxResults), MaxResults)
  BY <1>1, <1>2, <1>4, FirstAre
<1>6. Cardinality(L) <= MaxResults /\ \A i \in F \ L : Cardinality(BelowIn(L, i)) = MaxResults
  BY <1>3, <1>5 DEF FirstHold
<1> QED
  BY <1>6 DEF BelowIn, F, L

-----------------------------------------------------------------------------
(* The tree of what is below a symbol.                                      *)

DownAlong(g0, graph, node, path, S) ==
  /\ Tree(graph, S) /\ Extends(g0, graph)
  /\ node \in 1 .. Len(graph) /\ PathTo(graph, node) = path
  /\ \A n \in 1 .. Len(g0) : graph[n].total = g0[n].total
  /\ \A n \in Len(g0) + 1 .. Len(graph) :
       graph[n].total = 0 /\ n \in Range(Way(graph, node))

(* A turn goes one symbol further, if there is a summary of it ...          *)
LEMMA DescendTurnRight ==
  ASSUME NEW S, DOMAIN summaries \subseteq S, NEW g0, Len(g0) \in Nat,
         NEW at, NEW path, DownAlong(g0, at.graph, at.node, path, S),
         NEW s, NEW next, next = DescendTurn(at, s)
  PROVE  DownAlong(g0, next.graph, next.node, Keeps(DOMAIN summaries, path, s), S)
<1>1. CASE s \notin DOMAIN summaries
  BY <1>1 DEF DescendTurn, Keeps
<1>2. CASE s \in DOMAIN summaries
  <2> DEFINE graph == at.graph
             node == at.node
             g == next.graph
             n == next.node
  <2>1. Entered(graph, node, s, S, g, n)
    <3>1. Tree(graph, S) /\ node \in 1 .. Len(graph) /\ s \in S
      BY <1>2 DEF DownAlong
    <3>2. next = Enter(graph, node, s)
      BY <1>2 DEF DescendTurn
    <3> HIDE DEF graph, node
    <3> QED
      BY <3>1, <3>2, EnterRight
  <2>2. /\ Tree(graph, S) /\ Extends(g0, graph) /\ node \in 1 .. Len(graph)
        /\ PathTo(graph, node) = path
        /\ \A m \in 1 .. Len(g0) : graph[m].total = g0[m].total
        /\ \A m \in Len(g0) + 1 .. Len(graph) :
             graph[m].total = 0 /\ m \in Range(Way(graph, node))
    BY DEF DownAlong
  <2> HIDE DEF graph, node, g, n
  <2>3. /\ Tree(g, S) /\ Extends(graph, g)
        /\ n \in 2 .. Len(g) /\ g[n].parent = node /\ g[n].symbol = s
        /\ \A m \in 1 .. Len(graph) : g[m] = graph[m]
        /\ Len(g) # Len(graph) => Len(g) = Len(graph) + 1 /\ n = Len(g) /\ g[n].total = 0
    BY <2>1 DEF Entered
  <2>4. Len(graph) \in Nat /\ Len(g) \in Nat
    BY <2>2, <2>3, TreeIs
  <2>5. n \in 1 .. Len(g) /\ n # 1
    BY <2>3, <2>4
  <2>6. PathTo(g, n) = Append(path, s)
    <3>1. PathRight(g, S, n)
      BY <2>3, <2>5, PathIs
    <3>2. PathTo(g, n) = Append(PathTo(g, node), s)
      BY <2>3, <3>1 DEF PathRight
    <3>3. PathTo(g, node) = path
      BY <2>2, <2>3, SamePath
    <3> QED
      BY <3>2, <3>3
  <2>7. Range(Way(g, n)) = Range(Way(graph, node)) \cup {n}
    <3>1. WayRight(g, n)
      BY <2>3, <2>5, WayIs
    <3>2. Way(g, n) = Append(Way(g, node), n)
      BY <2>3, <3>1 DEF WayRight
    <3>3. node \in 0 .. Len(graph)
      BY <2>2, <2>4
    <3>4. Way(g, node) = Way(graph, node)
      BY <2>2, <2>3, <3>3, SameWay
    <3>5. Way(graph, node) \in Seq(Nat)
      <4>1. WayRight(graph, node) /\ node \in Nat
        BY <2>2, <2>4, WayIs
      <4> HIDE DEF node
      <4> QED
        BY <4>1 DEF WayRight
    <3>6. n \in Nat
      BY <2>4, <2>5
    <3> QED
      BY <3>2, <3>4, <3>5, <3>6, RangeOfAppend
  <2>8. \A m \in Len(g0) + 1 .. Len(g) : g[m].total = 0 /\ m \in Range(Way(g, n))
    <3> SUFFICES ASSUME NEW m \in Len(g0) + 1 .. Len(g)
                 PROVE  g[m].total = 0 /\ m \in Range(Way(g, n))
      OBVIOUS
    <3>1. CASE m <= Len(graph)
      <4>1. m \in Len(g0) + 1 .. Len(graph) /\ m \in 1 .. Len(graph)
        BY <2>4, <3>1
      <4> QED
        BY <2>2, <2>3, <2>7, <4>1
    <3>2. CASE ~(m <= Len(graph))
      <4>1. m \in Nat /\ Len(g) # Len(graph)
        BY <2>4, <3>2
      <4>2. m = Len(g)
        BY <2>3, <2>4, <3>2, <4>1
      <4> QED
        BY <2>3, <2>7, <4>1, <4>2
    <3> QED
      BY <3>1, <3>2
  <2>9. Extends(g0, g)
    BY <2>2, <2>3, <2>4, ExtendsOn
  <2>10. \A m \in 1 .. Len(g0) : g[m].total = g0[m].total
    <3>1. \A m \in 1 .. Len(g0) : m \in 1 .. Len(graph)
      BY <2>2, <2>4 DEF Extends
    <3> QED
      BY <2>2, <2>3, <3>1
  <2>11. DownAlong(g0, g, n, Append(path, s), S)
    BY <2>3, <2>5, <2>6, <2>8, <2>9, <2>10 DEF DownAlong
  <2> QED
    BY <1>2, <2>11 DEF Keeps, g, n
<1> QED
  BY <1>1, <1>2

(* To put some before and one behind.                                      *)
Behind(b, q, s, S) == Append(b \o q, s) = b \o Append(q, s) /\ Append(q, s) \in Seq(S)

(* ... may be done in any order.                                           *)
LEMMA OneBehind ==
  ASSUME NEW S, NEW b \in Seq(S), NEW q \in Seq(S), NEW s \in S
  PROVE  Behind(b, q, s, S)
<1> DEFINE c == <<s>>
           u == b \o q
           v == Append(q, s)
<1>1. c \in Seq(S) /\ v \in Seq(S)
  OBVIOUS
<1>2. u \in Seq(S)
  OBVIOUS
<1>3. v = q \o c
  BY AppendIsConcat
<1> HIDE DEF u
<1>4. Append(u, s) = u \o c
  BY <1>2, AppendIsConcat
<1> HIDE DEF c
<1>5. (b \o q) \o c = b \o (q \o c)
  BY <1>1, ConcatAssociative
<1> QED
  BY <1>1, <1>3, <1>4, <1>5 DEF Behind, u

(* ... so that a descent ends at the node of its path.                      *)
LEMMA DescendRight ==
  ASSUME NEW S, DOMAIN summaries \subseteq S, NEW g0, Tree(g0, S),
         NEW symbols \in Seq(S), NEW added, added = Descend(g0, symbols)
  PROVE  DownAlong(g0, added.graph, added.node,
                   <<g0[1].symbol>> \o Only(Reverse(symbols), DOMAIN summaries), S)
<1> DEFINE n == Len(symbols)
           r == Reverse(symbols)
           kept == DOMAIN summaries
           s0 == g0[1].symbol
<1>1. n \in Nat /\ n \in 0 .. n /\ Len(g0) \in Nat /\ Len(g0) >= 1 /\ s0 \in S
  <2>1. Len(g0) \in Nat /\ Len(g0) >= 1 /\ \A m \in 1 .. Len(g0) : g0[m].symbol \in S
    BY TreeIs
  <2> QED
    BY <2>1
<1>2. r \in Seq(S) /\ Len(r) = n /\ \A k \in 1 .. n : r[k] = symbols[n + 1 - k]
  BY ReverseIs
<1>3. PICK at : DescendTurns(g0, symbols, at)
  BY <1>1, DescendHasTurns
<1> HIDE DEF r
<1>4. PICK only : OnlyTurns(r, kept, only)
  BY <1>1, <1>2, OnlyHasTurns
<1> HIDE DEF s0
<1> DEFINE R(k) == only[k] \in Seq(S) /\ DownAlong(g0, at[k].graph, at[k].node, <<s0>> \o only[k], S)
           T == {k \in Nat : R(k)}
<1>5. 0 \in T
  <2>1. at[0] = [graph |-> g0, node |-> 1] /\ only[0] = <<>>
    BY <1>3, <1>4 DEF DescendTurns, OnlyTurns
  <2>2. <<s0>> \o <<>> = <<s0>> /\ <<>> \in Seq(S)
    BY <1>1
  <2>3. PathTo(g0, 1) = <<s0>>
    <3> DEFINE p == PathTo(g0, 1)
    <3>1. 1 \in 1 .. Len(g0)
      BY <1>1
    <3>2. PathRight(g0, S, 1)
      BY <3>1, PathIs
    <3>3. p \in Seq(S) /\ Len(p) = 1 /\ p[Len(p)] = s0
      BY <3>2 DEF PathRight, s0
    <3> HIDE DEF p
    <3>4. p = <<s0>>
      BY <3>3
    <3> QED
      BY <3>4 DEF p
  <2>4. Extends(g0, g0)
    BY <1>1 DEF Extends
  <2>5. \A m \in Len(g0) + 1 .. Len(g0) : FALSE
    BY <1>1
  <2>6. DownAlong(g0, g0, 1, <<s0>>, S)
    BY <1>1, <2>3, <2>4, <2>5 DEF DownAlong
  <2>7. at[0].graph = g0 /\ at[0].node = 1
    BY <2>1
  <2> QED
    BY <2>1, <2>2, <2>6, <2>7
<1>6. \A k \in 0 .. n - 1 : k \in T => k + 1 \in T
  <2> SUFFICES ASSUME NEW k \in 0 .. n - 1, R(k) PROVE R(k + 1)
    BY <1>1
  <2> DEFINE s == symbols[n - k]
             q == only[k]
  <2>1. at[k + 1] = DescendTurn(at[k], s)
    BY <1>3 DEF DescendTurns
  <2>2. k + 1 \in 1 .. n /\ n + 1 - (k + 1) = n - k /\ n - k \in 1 .. n
    BY <1>1
  <2>3. only[k + 1] = Keeps(kept, q, r[k + 1])
    BY <1>2, <1>4 DEF OnlyTurns
  <2>4. r[k + 1] = s /\ s \in S
    <3> HIDE DEF n
    <3> QED
      BY <1>2, <2>2 DEF n
  <2>5. DownAlong(g0, at[k + 1].graph, at[k + 1].node, Keeps(kept, <<s0>> \o q, s), S)
    <3> HIDE DEF s, q
    <3> QED
      BY <1>1, <2>1, DescendTurnRight DEF q
  <2> HIDE DEF s
  <2>6. q \in Seq(S)
    OBVIOUS
  <2> HIDE DEF q
  <2>7. Keeps(kept, <<s0>> \o q, s) = <<s0>> \o Keeps(kept, q, s) /\ Keeps(kept, q, s) \in Seq(S)
    <3>1. s0 \in S /\ s \in S /\ q \in Seq(S)
      BY <1>1, <2>4, <2>6
    <3> DEFINE b == <<s0>>
    <3>2. b \in Seq(S)
      BY <3>1
    <3> HIDE DEF b
    <3>3. Behind(b, q, s, S)
      BY ONLY <3>1, <3>2, OneBehind
    <3>4. Append(<<s0>> \o q, s) = <<s0>> \o Append(q, s) /\ Append(q, s) \in Seq(S)
      BY <3>3 DEF Behind, b
    <3> QED
      BY <2>6, <3>4 DEF Keeps
  <2> QED
    BY <2>3, <2>4, <2>5, <2>7
<1>7. n \in T
  <2> HIDE DEF T, n
  <2> QED
    BY <1>1, <1>5, <1>6, Upwards
<1> QED
  BY <1>2, <1>3, <1>4, <1>7 DEF DescendTurns, OnlyTurns, s0, r

(* What is below is weighed in the nodes whose paths begin its own, the root *)
(* aside.                                                                   *)
Grown(g, h, path, S) ==
  /\ Tree(h, S) /\ Extends(g, h)
  /\ \E m \in 1 .. Len(h) : PathTo(h, m) = path
  /\ \A m \in 2 .. Len(g) : h[m].total = g[m].total + One(IsPrefix(PathTo(h, m), path))
  /\ \A m \in Len(g) + 1 .. Len(h) : IsPrefix(PathTo(h, m), path) /\ h[m].total = 1

(* Where nothing is below there is nothing to weigh ...                     *)
LEMMA NothingBelow ==
  ASSUME NEW S, NEW g, Tree(g, S), \A m \in 1 .. Len(g) : g[m].total \in Nat,
         NEW path \in Seq(S), Len(path) = 1, path[1] = g[1].symbol
  PROVE  Grown(g, g, path, S)
<1>1. Len(g) \in Nat /\ 1 \in 1 .. Len(g)
  BY TreeIs
<1>5. PathTo(g, 1) = path
  <2> DEFINE p == PathTo(g, 1)
  <2>1. PathRight(g, S, 1)
    BY <1>1, PathIs
  <2>2. p \in Seq(S) /\ Len(p) = 1 /\ p[1] = g[1].symbol
    BY <2>1 DEF PathRight
  <2> HIDE DEF p
  <2>3. p = path
    BY <2>2
  <2> QED
    BY <2>3 DEF p
<1>2. ASSUME NEW m \in 2 .. Len(g)
      PROVE  g[m].total = g[m].total + One(IsPrefix(PathTo(g, m), path))
  <2> DEFINE p == PathTo(g, m)
  <2>1. m \in 1 .. Len(g) /\ m # 1
    BY <1>1
  <2>2. PathRight(g, S, m)
    BY <2>1, PathIs
  <2>3. p \in Seq(S) /\ Len(p) >= 1 /\ Len(p) # 1 /\ Len(p) \in Nat
    BY <2>1, <2>2 DEF PathRight
  <2> HIDE DEF p
  <2>4. ~IsPrefix(p, path)
    BY <2>3, PrefixIs
  <2>5. g[m].total \in Nat /\ One(IsPrefix(p, path)) = 0
    BY <2>1, <2>4 DEF One
  <2> QED
    BY <2>5 DEF p
<1>3. \A m \in Len(g) + 1 .. Len(g) : FALSE
  BY <1>1
<1>4. Extends(g, g)
  BY <1>1 DEF Extends
<1> QED
  BY <1>1, <1>2, <1>3, <1>4, <1>5 DEF Grown

(* ... and elsewhere the way to where the descent ended is.                 *)
LEMMA AddBelowRight ==
  ASSUME NEW S, DOMAIN summaries \subseteq S, NEW g, Tree(g, S),
         NEW symbols \in Seq(S), NEW h, h = AddBelow(g, symbols),
         NEW path, path = <<g[1].symbol>> \o Only(Reverse(symbols), DOMAIN summaries)
  PROVE  Grown(g, h, path, S) /\ path \in Seq(S)
<1> DEFINE r == Reverse(symbols)
           kept == DOMAIN summaries
           only == Only(r, kept)
           s0 == g[1].symbol
<1>1. Len(g) \in Nat /\ s0 \in S /\ \A m \in 1 .. Len(g) : g[m].total \in Nat
  <2>1. Len(g) \in Nat /\ Len(g) >= 1 /\ \A m \in 1 .. Len(g) : g[m].symbol \in S
    BY TreeIs
  <2>2. \A m \in 1 .. Len(g) : g[m] \in Nodes(S)
    BY TreeIs
  <2>3. \A m \in 1 .. Len(g) : g[m].total \in Nat
    BY <2>2 DEF Nodes
  <2> QED
    BY <2>1, <2>3
<1>2. r \in Seq(S) /\ Len(r) = Len(symbols) /\ Len(symbols) \in Nat
  BY ReverseIs
<1> HIDE DEF r, s0
<1>3. only \in Seq(S)
  <2>1. OnlySoFar(only, r, kept, Len(r), S)
    <3> HIDE DEF kept
    <3> QED
      BY <1>2, OnlyRight
  <2> QED
    BY <2>1 DEF OnlySoFar
<1>4. path = <<s0>> \o only
  BY DEF s0, r
<1>5. CASE symbols = <<>>
  <2>1. h = g
    BY <1>5 DEF AddBelow
  <2>2. only = <<>>
    <3>1. PICK f : OnlyTurns(r, kept, f)
      BY <1>2, OnlyHasTurns
    <3>2. Len(r) = 0
      BY <1>2, <1>5
    <3> QED
      BY <3>1, <3>2 DEF OnlyTurns
  <2>3. path \in Seq(S) /\ Len(path) = 1 /\ path[1] = s0
    <3>1. <<s0>> \o <<>> = <<s0>>
      BY <1>1
    <3>2. path = <<s0>>
      BY <1>4, <2>2, <3>1
    <3>3. s0 \in S
      BY <1>1
    <3> QED
      BY ONLY <3>2, <3>3
  <2> QED
    BY <1>1, <2>1, <2>3, NothingBelow DEF s0
<1>6. CASE symbols # <<>>
  <2> DEFINE added == Descend(g, symbols)
             d == added.graph
             e == added.node
             way == Way(d, e)
  <2>1. DownAlong(g, d, e, path, S)
    BY <1>4, DescendRight DEF s0, r
  <2>2. h = Weigh(d, way)
    BY <1>6 DEF AddBelow
  <2> HIDE DEF added, d, e, only
  <2>3. /\ Tree(d, S) /\ Extends(g, d) /\ e \in 1 .. Len(d) /\ PathTo(d, e) = path
        /\ \A m \in 1 .. Len(g) : d[m].total = g[m].total
        /\ \A m \in Len(g) + 1 .. Len(d) : d[m].total = 0 /\ m \in Range(way)
    BY <2>1 DEF DownAlong
  <2> HIDE DEF way
  <2>4. Weighed(d, way, h, S)
    <3>1. d \in Seq(Nodes(S))
      BY <2>3 DEF Tree
    <3> QED
      BY <2>2, <3>1, WeighIs
  <2>5. /\ h \in Seq(Nodes(S)) /\ Len(h) = Len(d) /\ Extends(d, h)
        /\ \A m \in 1 .. Len(d) : h[m].total = d[m].total + One(m \in Range(way))
    BY <2>4 DEF Weighed
  <2>6. Tree(h, S) /\ Len(d) \in Nat /\ Len(h) \in Nat
    BY <2>3, <2>5, SameTree, TreeIs
  <2>7. Extends(g, h) /\ Len(g) <= Len(d)
    <3>1. Len(g) <= Len(d)
      BY <2>3 DEF Extends
    <3> QED
      BY <1>1, <2>3, <2>5, <2>6, <3>1, ExtendsOn
  <2>8. \A m \in 1 .. Len(d) : PathTo(h, m) = PathTo(d, m)
    BY <2>3, <2>5, <2>6, SamePath
  <2>9. ASSUME NEW m \in 1 .. Len(d) PROVE m \in Range(way) <=> IsPrefix(PathTo(h, m), path)
    <3>1. IsPrefix(PathTo(d, m), PathTo(d, e)) <=> m \in Range(Way(d, e))
      BY <2>3, OnTheWay
    <3> QED
      BY <2>3, <2>8, <3>1 DEF way
  <2>10. ASSUME NEW m \in 2 .. Len(g)
         PROVE  h[m].total = g[m].total + One(IsPrefix(PathTo(h, m), path))
    <3>1. m \in 1 .. Len(g) /\ m \in 1 .. Len(d)
      BY <1>1, <2>6, <2>7
    <3>2. One(m \in Range(way)) = One(IsPrefix(PathTo(h, m), path))
      BY <2>9, <3>1 DEF One
    <3> QED
      BY <2>3, <2>5, <3>1, <3>2
  <2>11. ASSUME NEW m \in Len(g) + 1 .. Len(h)
         PROVE  IsPrefix(PathTo(h, m), path) /\ h[m].total = 1
    <3>1. m \in 1 .. Len(d) /\ m \in Len(g) + 1 .. Len(d)
      BY <1>1, <2>5, <2>6
    <3>2. d[m].total = 0 /\ m \in Range(way)
      BY <2>3, <3>1
    <3>3. IsPrefix(PathTo(h, m), path) /\ One(m \in Range(way)) = 1
      BY <2>9, <3>1, <3>2 DEF One
    <3>4. h[m].total = 0 + 1
      BY <2>5, <3>1, <3>2, <3>3
    <3> QED
      BY <3>3, <3>4
  <2>12. path \in Seq(S)
    <3>1. PathRight(d, S, e)
      BY <2>3, PathIs
    <3> QED
      BY <2>3, <3>1 DEF PathRight
  <2>13. \E m \in 1 .. Len(h) : PathTo(h, m) = path
    BY <2>3, <2>5, <2>8
  <2> QED
    BY <2>6, <2>7, <2>10, <2>11, <2>12, <2>13 DEF Grown
<1> QED
  BY <1>5, <1>6

(* The nodes weigh the paths p that go through them, and some do.           *)
TreeOf(g, p, S) ==
  /\ Tree(g, S)
  /\ \A i \in DOMAIN p : \E n \in 1 .. Len(g) : PathTo(g, n) = p[i]
  /\ \A n \in 2 .. Len(g) : /\ g[n].total = Cardinality(Through(p, PathTo(g, n)))
                            /\ \E i \in DOMAIN p : IsPrefix(PathTo(g, n), p[i])

(* ... after one path more, too.                                           *)
LEMMA TreeOfMore ==
  ASSUME NEW S, NEW g, NEW p, TreeOf(g, p, S), IsFiniteSet(DOMAIN p),
         NEW h, NEW path, Grown(g, h, path, S), NEW j, NEW q, Plus(p, j, path, q)
  PROVE  TreeOf(h, q, S)
<1>1. Tree(g, S) /\ Tree(h, S) /\ Extends(g, h)
  BY DEF TreeOf, Grown
<1>2. Len(g) \in Nat /\ Len(h) \in Nat /\ Len(g) >= 1 /\ Len(g) <= Len(h)
  BY <1>1, TreeIs DEF Extends
<1>3. \A n \in 1 .. Len(g) : PathTo(h, n) = PathTo(g, n)
  BY <1>1, SamePath
<1> SUFFICES ASSUME NEW n \in 2 .. Len(h)
             PROVE  /\ h[n].total = Cardinality(Through(q, PathTo(h, n)))
                    /\ \E i \in DOMAIN q : IsPrefix(PathTo(h, n), q[i])
  <2>1. ASSUME NEW i \in DOMAIN q PROVE \E n \in 1 .. Len(h) : PathTo(h, n) = q[i]
    <3>1. CASE i = j
      BY <3>1 DEF Grown, Plus
    <3>2. CASE i # j
      <4>1. i \in DOMAIN p /\ q[i] = p[i]
        BY <3>2 DEF Plus
      <4>2. PICK n \in 1 .. Len(g) : PathTo(g, n) = p[i]
        BY <4>1 DEF TreeOf
      <4>3. n \in 1 .. Len(h)
        BY <1>2
      <4> QED
        BY <1>3, <4>1, <4>2, <4>3
    <3> QED
      BY <3>1, <3>2
  <2> QED
    BY <1>1, <2>1 DEF TreeOf
<1> DEFINE way == PathTo(h, n)
<1>4. Cardinality(Through(q, way)) = Cardinality(Through(p, way)) + One(IsPrefix(way, path))
  BY MoreThrough
<1>5. CASE n <= Len(g)
  <2>1. n \in 2 .. Len(g) /\ way = PathTo(g, n)
    BY <1>2, <1>3, <1>5
  <2>2. h[n].total = g[n].total + One(IsPrefix(way, path))
    BY <2>1 DEF Grown
  <2>3. g[n].total = Cardinality(Through(p, way))
    BY <2>1 DEF TreeOf
  <2>4. PICK i \in DOMAIN p : IsPrefix(way, p[i])
    BY <2>1 DEF TreeOf
  <2>5. i \in DOMAIN q /\ q[i] = p[i]
    BY DEF Plus
  <2> QED
    BY <1>4, <2>2, <2>3, <2>4, <2>5
<1>6. CASE ~(n <= Len(g))
  <2>1. n \in Len(g) + 1 .. Len(h) /\ n \in 1 .. Len(h)
    BY <1>2, <1>6
  <2>2. IsPrefix(way, path) /\ h[n].total = 1
    BY <2>1 DEF Grown
  <2>3. Through(p, way) = {}
    <3> SUFFICES ASSUME NEW i \in DOMAIN p, IsPrefix(way, p[i]) PROVE FALSE
      BY DEF Through
    <3>1. PICK m \in 1 .. Len(g) : PathTo(g, m) = p[i]
      BY DEF TreeOf
    <3>2. m \in 1 .. Len(h) /\ PathTo(h, m) = p[i]
      BY <1>2, <1>3, <3>1
    <3> DEFINE w == Way(h, m)
    <3>3. n \in Range(w)
      BY <1>1, <2>1, <3>2, OnTheWay
    <3>4. w \in Seq(1 .. m)
      BY <1>1, <3>2, PathAt
    <3> HIDE DEF w
    <3>5. DOMAIN w = 1 .. Len(w) /\ \A k \in 1 .. Len(w) : w[k] \in 1 .. m
      BY ONLY <3>4, SeqIs
    <3>6. n \in 1 .. m
      BY <3>3, <3>5 DEF Range
    <3> QED
      BY <1>2, <1>6, <3>6
  <2>4. Cardinality({}) = 0
    BY FS_EmptySet
  <2>5. One(IsPrefix(way, path)) = 1
    BY <2>2 DEF One
  <2>6. j \in DOMAIN q /\ q[j] = path
    BY DEF Plus
  <2> QED
    <3>1. Cardinality(Through(q, way)) = 0 + 1
      BY <1>4, <2>3, <2>4, <2>5
    <3> HIDE DEF way
    <3> QED
      BY <2>2, <2>6, <3>1 DEF way
<1> QED
  BY <1>5, <1>6

(* The last of some places.                                                *)
LEMMA LastPlace ==
  ASSUME NEW l \in Nat, NEW at \in SUBSET (1 .. l), at # {}
  PROVE  Max(at) \in at /\ \A k \in at : Max(at) >= k
<1> DEFINE T == {l - k : k \in at}
<1>1. T \in SUBSET Nat /\ T # {}
  <2>1. \A k \in at : l - k \in Nat
    OBVIOUS
  <2> QED
    BY <2>1
<1>2. PICK x \in T : \A y \in T : x <= y
  <2> HIDE DEF T
  <2> QED
    BY <1>1, LeastElement
<1>3. PICK m \in at : x = l - m
  BY <1>2
<1>4. \A k \in at : m >= k
  <2> SUFFICES ASSUME NEW k \in at PROVE m >= k
    OBVIOUS
  <2>1. l - k \in T
    OBVIOUS
  <2>2. l - m <= l - k
    BY <1>2, <1>3, <2>1
  <2>3. k \in 1 .. l /\ m \in 1 .. l
    OBVIOUS
  <2> QED
    BY <2>2, <2>3
<1> HIDE DEF T
<1> QED
  BY <1>3, <1>4 DEF Max

(* What is below a symbol is below its outermost call.                     *)
Outermost(symbols, s) ==
  CHOOSE k \in DOMAIN symbols :
    symbols[k] = s /\ \A j \in k + 1 .. Len(symbols) : symbols[j] # s

(* ... of it, if it is called at all.                                      *)
LEMMA BelowIs ==
  ASSUME NEW t \in Traceables, NEW s, NEW symbols, symbols = Symbolize(Innermost(t)).symbols
  PROVE  /\ Below(t, s) \in Seq(AllSymbols)
         /\ s \in Range(symbols) =>
              Below(t, s) = SubSeq(symbols, 1, Outermost(symbols, s) - 1)
         /\ s \notin Range(symbols) => Below(t, s) = <<>>
<1> DEFINE S == AllSymbols
           l == Len(symbols)
           at == {k \in DOMAIN symbols : symbols[k] = s}
           Is(k) == symbols[k] = s /\ \A j \in k + 1 .. l : symbols[j] # s
           m == Max(at)
<1>1. symbols \in Seq(S)
  <2> DEFINE inner == Innermost(t)
  <2>1. inner.stack \in Seq(Contexts \cup DOMAIN KernelSymbols)
    <3> DEFINE A == Contexts \cup DOMAIN KernelSymbols
               d == DescentDepth
               stack == t.stack
    <3>1. stack \in Seq(A) /\ d \in Nat
      BY GraphAssumption
    <3>2. inner.stack = IF Len(stack) > d THEN SubSeq(stack, 1, d) ELSE stack
      BY DEF Innermost
    <3> HIDE DEF A, d, stack, inner
    <3>3. ASSUME Len(stack) > d PROVE SubSeq(stack, 1, d) \in Seq(A)
      BY <3>1, <3>3
    <3> QED
      BY <3>1, <3>2, <3>3 DEF A
  <2> HIDE DEF inner
  <2>3. symbols \in Seq(Found)
    BY <2>1, SymbolizeRight DEF SymbolizedRight, inner
  <2>2. Found \subseteq S
    BY DEF AllSymbols
  <2> QED
    BY <2>2, <2>3
<1> HIDE DEF S
<1>2. DOMAIN symbols = 1 .. l /\ l \in Nat
  BY <1>1
<1>3. Below(t, s) = IF at = {} THEN <<>> ELSE SubSeq(symbols, 1, m - 1)
  BY DEF Below
<1>4. CASE at = {}
  <2>1. s \notin Range(symbols)
    BY <1>4 DEF Range
  <2>2. <<>> \in Seq(S)
    OBVIOUS
  <2> QED
    BY <1>3, <1>4, <2>1, <2>2 DEF S
<1>5. CASE at # {}
  <2>1. at \in SUBSET (1 .. l)
    BY <1>2
  <2> HIDE DEF at
  <2>2. m \in at /\ \A k \in at : m >= k
    BY <1>2, <1>5, <2>1, LastPlace
  <2> HIDE DEF m
  <2>3. m \in 1 .. l /\ symbols[m] = s
    BY <1>2, <2>2 DEF at
  <2>4. \A j \in m + 1 .. l : symbols[j] # s
    <3> SUFFICES ASSUME NEW j \in m + 1 .. l, symbols[j] = s PROVE FALSE
      OBVIOUS
    <3>1. j \in 1 .. l /\ j > m
      BY <1>2, <2>3
    <3>2. j \in at
      BY <1>2, <3>1 DEF at
    <3>3. m >= j
      BY <2>2, <3>2
    <3>4. m \in Nat /\ j \in Nat
      BY <1>2, <2>3, <3>1
    <3> QED
      BY <3>1, <3>3, <3>4
  <2>5. ASSUME NEW k \in DOMAIN symbols, Is(k) PROVE k = m
    <3>1. k \in at /\ k \in 1 .. l
      BY <1>2, <2>5 DEF at
    <3>2. k <= m
      BY <1>2, <2>2, <2>3, <3>1
    <3>3. m \notin k + 1 .. l
      BY <2>3, <2>5
    <3> QED
      BY <1>2, <2>3, <3>1, <3>2, <3>3
  <2>6. m \in DOMAIN symbols /\ Is(m)
    BY <1>2, <2>3, <2>4
  <2> HIDE DEF Is
  <2>7. (CHOOSE k \in DOMAIN symbols : Is(k)) = m
    BY <2>5, <2>6
  <2>8. Outermost(symbols, s) = m
    BY <2>7 DEF Outermost, Is
  <2>9. SubSeq(symbols, 1, m - 1) \in Seq(S)
    <3>1. m - 1 <= l /\ m - 1 \in Nat
      BY <1>2, <2>3
    <3>2. \A k \in 1 .. m - 1 : symbols[k] \in S
      BY <1>1, <1>2, <3>1
    <3> HIDE DEF l
    <3> QED
      BY <1>1, <2>3, <3>1, <3>2
  <2>10. s \in Range(symbols)
    BY <1>2, <2>3 DEF Range
  <2> QED
    BY <1>3, <1>5, <2>8, <2>9, <2>10 DEF S
<1> QED
  BY <1>4, <1>5

(* What is below s in a traceable, from s.                                  *)
Part(i, s) == <<s>> \o Only(Reverse(Below(traces[i], s)), DOMAIN summaries)
Parts(n, s) == [i \in {j \in summaries[s].traceables : j <= n} |-> Part(i, s)]

(* The tree of the descendants weighs those parts.                         *)
LEMMA DescendantsRight ==
  ASSUME GraphIInv, NEW s \in DOMAIN summaries
  PROVE  TreeOf(Descendants(s), Parts(Len(traces), s), AllSymbols) /\ Descendants(s)[1].symbol = s
<1> DEFINE S == AllSymbols
           n == Len(traces)
           X == summaries[s].traceables
<1>1. /\ traces \in Seq(Traceables) /\ n \in Nat /\ n \in 0 .. n
      /\ Paths(ShownPaths, S) /\ SummariesRight(summaries, ShownPaths)
  BY DEF GraphIInv
<1>2. DOMAIN summaries \subseteq S
  <2>1. DOMAIN summaries = OnPaths(ShownPaths)
    BY <1>1 DEF SummariesRight
  <2>2. everything \in S
    BY DEF AllSymbols
  <2>3. ASSUME NEW i \in DOMAIN ShownPaths PROVE Range(ShownPaths[i]) \subseteq S
    <3> DEFINE path == ShownPaths[i]
    <3>1. path \in Seq(S)
      BY <1>1 DEF Paths
    <3> HIDE DEF path
    <3>2. DOMAIN path = 1 .. Len(path) /\ \A k \in 1 .. Len(path) : path[k] \in S
      BY ONLY <3>1, SeqIs
    <3> QED
      BY <3>2 DEF Range, path
  <2> QED
    BY <2>1, <2>2, <2>3 DEF OnPaths
<1>3. X \subseteq 1 .. n
  <2>1. summaries[s] = Summed(ShownPaths, s)
    BY <1>1 DEF SummariesRight
  <2>2. X \subseteq DOMAIN traces
    BY <2>1 DEF Summed, Holding, ShownPaths, Shown
  <2> QED
    BY <1>1, <2>2
<1>4. s \in S
  BY <1>2
<1>5. PICK tree : TreeTurns(s, tree)
  BY <1>1, DescendantsHasTurns
<1> HIDE DEF S, X
<1> DEFINE R(k) == TreeOf(tree[k], Parts(k, s), S) /\ tree[k][1].symbol = s
           T == {k \in Nat : R(k)}
<1>6. 0 \in T
  <2> DEFINE root == NewNode(0, s)
             g == <<root>>
  <2>1. tree[0] = g
    BY <1>5 DEF TreeTurns
  <2>2. root = [parent |-> 0, symbol |-> s, count |-> 0, size |-> 0, total |-> 0]
    BY DEF NewNode
  <2>3. root \in Nodes(S)
    BY <1>4, <2>2 DEF Nodes
  <2>4. root.parent = 0 /\ root.symbol = s
    BY <2>2
  <2> HIDE DEF root
  <2>5. g \in Seq(Nodes(S)) /\ Len(g) = 1 /\ g[1] = root
    BY <2>3
  <2> HIDE DEF g
  <2>6. \A m \in 2 .. Len(g) : FALSE
    BY <2>5
  <2>7. Tree(g, S)
    BY <2>4, <2>5, <2>6 DEF Tree, Linked, Apart
  <2>8. DOMAIN Parts(0, s) = {}
    <3>1. \A j \in X : ~(j <= 0)
      BY <1>3
    <3> QED
      BY <3>1 DEF Parts, X
  <2>9. TreeOf(g, Parts(0, s), S)
    BY <2>6, <2>7, <2>8 DEF TreeOf
  <2> QED
    BY <2>1, <2>4, <2>5, <2>9
<1>7. \A k \in 0 .. n - 1 : k \in T => k + 1 \in T
  <2> SUFFICES ASSUME NEW k \in 0 .. n - 1, R(k) PROVE R(k + 1)
    BY <1>1
  <2> DEFINE i == k + 1
             g == tree[k]
             h == tree[i]
             p == Parts(k, s)
             q == Parts(i, s)
  <2>1. i \in 1 .. n /\ k \in Nat /\ i \in Nat
    BY <1>1
  <2>2. h = TreeTurn(s, g, i)
    BY <1>5 DEF TreeTurns
  <2>3. \A j \in X : j \in Nat /\ (j <= i <=> j <= k \/ j = i) /\ ~(i <= k)
    BY <1>3, <2>1
  <2>4. DOMAIN p = {j \in X : j <= k} /\ DOMAIN q = {j \in X : j <= i}
    BY DEF Parts, X
  <2>5. \A j \in DOMAIN p : p[j] = Part(j, s)
    BY DEF Parts
  <2>6. \A j \in DOMAIN q : q[j] = Part(j, s)
    BY DEF Parts
  <2>7. TreeOf(g, p, S) /\ g[1].symbol = s
    OBVIOUS
  <2>8. CASE i \notin X
    <3>1. h = g
      BY <2>2, <2>8 DEF TreeTurn, X
    <3>2. {j \in X : j <= k} = {j \in X : j <= i}
      BY <2>3, <2>8
    <3>3. p = q
      BY <3>2 DEF Parts, X
    <3> QED
      BY <2>7, <3>1, <3>3
  <2>9. CASE i \in X
    <3> DEFINE below == Below(traces[i], s)
               path == Part(i, s)
    <3>1. h = AddBelow(g, below)
      BY <2>2, <2>9 DEF TreeTurn, X
    <3>2. below \in Seq(S)
      <4>1. traces[i] \in Traceables
        BY <1>1, <2>1
      <4> QED
        BY <4>1, BelowIs DEF S
    <3> HIDE DEF g, h, p, q, i
    <3>3. Tree(g, S)
      BY <2>7 DEF TreeOf
    <3>4. path = <<g[1].symbol>> \o Only(Reverse(below), DOMAIN summaries)
      BY <2>7 DEF Part
    <3> HIDE DEF below, path
    <3>5. Grown(g, h, path, S)
      BY <1>2, <3>1, <3>2, <3>3, <3>4, AddBelowRight
    <3>6. Plus(p, i, path, q)
      BY <2>3, <2>4, <2>5, <2>6, <2>9 DEF Plus, path
    <3>7. IsFiniteSet(DOMAIN p)
      <4>1. DOMAIN p \subseteq 1 .. n
        <5> HIDE DEF n
        <5> QED
          BY <1>3, <2>4
      <4>2. IsFiniteSet(1 .. n)
        BY <1>1, FS_Interval
      <4> QED
        BY <4>1, <4>2, FS_Subset
    <3>8. TreeOf(h, q, S)
      BY <2>7, <3>5, <3>6, <3>7, TreeOfMore
    <3>9. h[1].symbol = s
      <4>1. 1 \in 1 .. Len(g)
        BY <3>3, TreeIs
      <4> QED
        BY <2>7, <3>5, <4>1 DEF Grown, Extends
    <3> QED
      BY <3>8, <3>9 DEF h, q, i
  <2> QED
    BY <2>8, <2>9
<1>8. n \in T
  <2> HIDE DEF T, n
  <2> QED
    BY <1>1, <1>6, <1>7, Upwards
<1> QED
  BY <1>5, <1>8 DEF TreeTurns, S

(* A function whose summary knows a traceable is on its stack.              *)
LEMMA OnTheStack ==
  ASSUME GraphIInv, NEW s \in DOMAIN summaries, IsFunction(s), NEW i \in summaries[s].traceables
  PROVE  i \in DOMAIN traces /\ traces[i] \in Traceables /\ s \in Range(Symbolize(traces[i]).symbols)
<1> DEFINE path == PathOf(i)
           found == Symbolize(traces[i]).symbols
<1>1. traces \in Seq(Traceables) /\ Paths(ShownPaths, AllSymbols) /\ SummariesRight(summaries, ShownPaths)
  BY DEF GraphIInv
<1>2. i \in Holding(ShownPaths, s)
  BY <1>1 DEF SummariesRight, Summed
<1>3. i \in Shown /\ s \in Range(path) /\ path \in Seq(AllSymbols)
  BY <1>1, <1>2 DEF Holding, ShownPaths, Paths
<1>4. i \in DOMAIN traces /\ traces[i] \in Traceables /\ ~Ignored(traces[i])
  BY <1>1, <1>3 DEF Shown
<1>5. PICK places : Leading(path, found, "BOTTOM_UP" \notin flags, places)
  BY <1>4, PathLeads DEF PathOf
<1>6. found \in Seq(Found)
  BY <1>4, SymbolizeRight, GraphAssumption DEF SymbolizedRight
<1> HIDE DEF path, found
<1>7. PICK k \in 1 .. Len(path) : path[k] = s
  <2>1. Range(path) = {path[k] : k \in 1 .. Len(path)}
    BY <1>3, RangeIs
  <2> QED
    BY <1>3, <2>1
<1>8. places[k] \in 1 .. Len(found) /\ found[places[k]] = s
  BY <1>5, <1>7 DEF Leading
<1>9. DOMAIN found = 1 .. Len(found)
  BY ONLY <1>6, SeqIs
<1> QED
  BY <1>4, <1>8, <1>9 DEF Range, found

(* What begins at the root begins the same below it.                       *)
LEMMA BelowTheRoot ==
  ASSUME NEW S, NEW s \in S, NEW q \in Seq(S), NEW whole, whole = <<s>> \o q,
         NEW p \in Seq(S), Len(p) >= 1, p[1] = s, NEW tail, tail = Tail(p)
  PROVE  IsPrefix(p, whole) <=> IsPrefix(tail, q)
<1> DEFINE l == Len(tail)
<1>1. whole \in Seq(S) /\ Len(whole) = Len(q) + 1 /\ whole[1] = s /\ Len(q) \in Nat
      /\ \A k \in 1 .. Len(q) : whole[k + 1] = q[k]
  OBVIOUS
<1>2. tail \in Seq(S) /\ l \in Nat /\ Len(p) = l + 1 /\ \A k \in 1 .. l : tail[k] = p[k + 1]
  OBVIOUS
<1>3. IsPrefix(p, whole) <=> Len(p) <= Len(whole) /\ \A k \in 1 .. Len(p) : p[k] = whole[k]
  BY ONLY <1>1, p \in Seq(S), PrefixIs
<1>4. IsPrefix(tail, q) <=> l <= Len(q) /\ \A k \in 1 .. l : tail[k] = q[k]
  BY ONLY <1>2, q \in Seq(S), PrefixIs
<1> HIDE DEF l
<1>5. Len(p) <= Len(whole) <=> l <= Len(q)
  BY <1>1, <1>2
<1>6. ASSUME l <= Len(q)
      PROVE  (\A k \in 1 .. Len(p) : p[k] = whole[k]) <=> \A k \in 1 .. l : tail[k] = q[k]
  <2>1. ASSUME \A k \in 1 .. Len(p) : p[k] = whole[k], NEW k \in 1 .. l PROVE tail[k] = q[k]
    <3>1. k + 1 \in 1 .. Len(p) /\ k \in 1 .. Len(q)
      BY <1>1, <1>2, <1>6
    <3> QED
      BY <1>1, <1>2, <2>1, <3>1
  <2>2. ASSUME \A k \in 1 .. l : tail[k] = q[k], NEW k \in 1 .. Len(p) PROVE p[k] = whole[k]
    <3>1. CASE k = 1
      BY <1>1, <3>1
    <3>2. CASE k # 1
      <4> DEFINE j == k - 1
      <4>1. j \in 1 .. l /\ j \in 1 .. Len(q) /\ j + 1 = k
        BY <1>1, <1>2, <1>6, <3>2
      <4> HIDE DEF j
      <4>2. tail[j] = p[k] /\ whole[k] = q[j]
        BY <1>1, <1>2, <4>1
      <4> QED
        BY <2>2, <4>1, <4>2
    <3> QED
      BY <3>1, <3>2
  <2> QED
    BY <2>1, <2>2
<1> QED
  BY <1>3, <1>4, <1>5, <1>6

(* What is looked at for a symbol: the tree of its descendants, the stacks, *)
(* those that the symbol is found in, and what its outermost call came to.  *)
Looked(s, graph, stacks, reached, parts) ==
  /\ graph = Descendants(s)
  /\ stacks = [i \in DOMAIN traces |-> Symbolize(Innermost(traces[i])).symbols]
  /\ reached = {i \in summaries[s].traceables : s \in Range(stacks[i])}
  /\ parts = [i \in reached |->
                LET outermost == CHOOSE k \in DOMAIN stacks[i] :
                      stacks[i][k] = s /\ \A j \in k + 1 .. Len(stacks[i]) : stacks[i][j] # s
                IN  Only(Reverse(SubSeq(stacks[i], 1, outermost - 1)), DOMAIN summaries)]

(* What the invariant and the loops say is what is claimed of the lists.   *)
LEMMA ListsAreRight == ASSUME GraphIInv PROVE ListsRight
<1>1. ASSUME "BOTTOM_UP" \notin flags, NEW n \in DOMAIN nodes, IsFunction(nodes[n].symbol),
             NEW listed, listed = ListTraceables(n)
      PROVE  /\ Cardinality(listed) <= MaxResults
             /\ \A i \in Shown \ listed :
                  IsPrefix(PathTo(nodes, n), PathOf(i)) =>
                    Cardinality({j \in listed : j < i}) = MaxResults
  <2>1. traces \in Seq(Traceables)
    BY DEF GraphIInv
  <2>2. /\ Cardinality(listed) <= MaxResults
        /\ \A i \in Matches(n) \ listed : Cardinality({j \in listed : j < i}) = MaxResults
    BY <1>1, <2>1, ListedAreFirst
  <2>3. ASSUME NEW i \in Shown, IsPrefix(PathTo(nodes, n), PathOf(i)) PROVE i \in Matches(n)
    BY <1>1, <2>3, NodeListed
  <2> QED
    BY <2>2, <2>3
<1>2. ASSUME NEW s \in DOMAIN summaries, IsFunction(s),
             NEW graph, NEW n \in DOMAIN graph \ {1},
             NEW stacks, NEW reached, NEW parts,
             Looked(s, graph, stacks, reached, parts)
      PROVE  /\ graph[n].total = Cardinality({i \in reached :
                                                IsPrefix(Tail(PathTo(graph, n)), parts[i])})
             /\ graph[n].total > 0
  <2> DEFINE S == AllSymbols
             X == summaries[s].traceables
             l == Len(traces)
             p == Parts(l, s)
             way == PathTo(graph, n)
             inner == [i \in X |-> Only(Reverse(Below(traces[i], s)), DOMAIN summaries)]
  <2>0. /\ graph = Descendants(s)
        /\ stacks = [i \in DOMAIN traces |-> Symbolize(Innermost(traces[i])).symbols]
        /\ reached = {i \in summaries[s].traceables : s \in Range(stacks[i])}
        /\ parts = [i \in reached |->
                      LET outermost == CHOOSE k \in DOMAIN stacks[i] :
                            stacks[i][k] = s /\ \A j \in k + 1 .. Len(stacks[i]) : stacks[i][j] # s
                      IN  Only(Reverse(SubSeq(stacks[i], 1, outermost - 1)), DOMAIN summaries)]
    BY <1>2 DEF Looked
  <2>1. TreeOf(graph, p, S) /\ graph[1].symbol = s
    BY <1>2, <2>0, DescendantsRight
  <2>2. /\ traces \in Seq(Traceables) /\ l \in Nat /\ DOMAIN traces = 1 .. l
    BY DEF GraphIInv
  <2>3. \A i \in X : i \in 1 .. l /\ traces[i] \in Traceables
    BY <1>2, <2>0, <2>2, OnTheStack
  <2>4. Tree(graph, S)
    BY <2>1 DEF TreeOf
  <2> HIDE DEF S, l
  <2>5. n \in 2 .. Len(graph) /\ n \in 1 .. Len(graph) /\ 1 \in 1 .. Len(graph) /\ s \in S
    <3>1. /\ Len(graph) \in Nat /\ Len(graph) >= 1 /\ DOMAIN graph = 1 .. Len(graph)
          /\ \A m \in 1 .. Len(graph) : graph[m].symbol \in S
      BY <2>4, TreeIs
    <3> QED
      BY <2>1, <3>1
  <2>6. ASSUME NEW i \in reached PROVE i \in X /\ parts[i] = inner[i]
    <3> DEFINE symbols == Symbolize(Innermost(traces[i])).symbols
    <3>1. i \in X /\ traces[i] \in Traceables /\ i \in DOMAIN traces
      BY <1>2, <2>0, <2>2, <2>3
    <3>2. stacks[i] = symbols /\ s \in Range(symbols)
      BY <1>2, <2>0, <2>6, <3>1
    <3> HIDE DEF symbols
    <3>3. Below(traces[i], s) = SubSeq(symbols, 1, Outermost(symbols, s) - 1)
      BY <3>1, <3>2, BelowIs DEF symbols
    <3>4. parts[i] = Only(Reverse(SubSeq(stacks[i], 1, Outermost(stacks[i], s) - 1)), DOMAIN summaries)
      BY <1>2, <2>0 DEF Outermost
    <3> QED
      BY <3>1, <3>2, <3>3, <3>4
  <2>14. ASSUME NEW i \in X \ reached PROVE inner[i] = <<>>
    <3>1. traces[i] \in Traceables /\ i \in DOMAIN traces
      BY <2>2, <2>3
    <3>2. s \notin Range(Symbolize(Innermost(traces[i])).symbols)
      BY <1>2, <2>0, <3>1
    <3>3. Below(traces[i], s) = <<>>
      BY <3>1, <3>2, BelowIs
    <3>4. Reverse(<<>>) = <<>>
      BY DEF Reverse
    <3>5. Only(<<>>, DOMAIN summaries) = <<>>
      <4> DEFINE none == <<>>
                 kept == DOMAIN summaries
      <4>1. none \in Seq({}) /\ Len(none) = 0
        OBVIOUS
      <4> HIDE DEF none, kept
      <4>2. OnlySoFar(Only(none, kept), none, kept, Len(none), {})
        BY <4>1, OnlyRight
      <4> DEFINE only == Only(none, kept)
      <4>3. only \in Seq({})
        BY <4>2 DEF OnlySoFar
      <4> HIDE DEF only
      <4>4. only = <<>>
        BY <4>3
      <4> QED
        BY <4>4 DEF only, none, kept
    <3> QED
      BY <3>3, <3>4, <3>5
  <2>7. DOMAIN p = X /\ \A i \in X : p[i] = <<s>> \o inner[i]
    <3>1. {j \in X : j <= l} = X
      BY <2>2, <2>3
    <3>2. p = [i \in X |-> Part(i, s)]
      BY <3>1 DEF Parts
    <3>3. \A i \in X : Part(i, s) = <<s>> \o inner[i]
      BY DEF Part
    <3> QED
      BY <3>2, <3>3
  <2>15. reached \subseteq X
    BY <2>6
  <2>8. \A i \in X : inner[i] \in Seq(S)
    <3> SUFFICES ASSUME NEW i \in X PROVE inner[i] \in Seq(S)
      OBVIOUS
    <3> DEFINE below == Below(traces[i], s)
               r == Reverse(below)
               kept == DOMAIN summaries
    <3>1. below \in Seq(S)
      BY <2>3, BelowIs DEF S
    <3> HIDE DEF below
    <3>2. r \in Seq(S)
      BY <3>1, ReverseIs
    <3> HIDE DEF r, kept
    <3>3. OnlySoFar(Only(r, kept), r, kept, Len(r), S)
      BY <3>2, OnlyRight
    <3> QED
      BY <3>3 DEF OnlySoFar, below, r, kept
  <2> HIDE DEF X, p, inner
  <2>9. way \in Seq(S) /\ Len(way) >= 2 /\ way[1] = s
    <3>1. PathRight(graph, S, n) /\ WayRight(graph, n)
      BY <2>4, <2>5, PathIs, WayIs
    <3> DEFINE w == Way(graph, n)
    <3>2. way \in Seq(S) /\ Len(way) >= 1 /\ Len(way) = Len(w)
          /\ \A k \in 1 .. Len(w) : way[k] = graph[w[k]].symbol
      BY <3>1 DEF PathRight
    <3>3. w[1] = 1 /\ Len(w) >= 1 /\ w \in Seq(1 .. n) /\ w[Len(w)] = n
      BY <3>1 DEF WayRight
    <3> HIDE DEF w
    <3>4. 1 \in 1 .. Len(w) /\ Len(w) # 1
      BY <2>5, <3>3
    <3> HIDE DEF way
    <3> QED
      BY <2>1, <3>2, <3>3, <3>4
  <2> HIDE DEF way
  <2>10. \A i \in X : IsPrefix(way, p[i]) <=> IsPrefix(Tail(way), inner[i])
    <3> SUFFICES ASSUME NEW i \in X PROVE IsPrefix(way, p[i]) <=> IsPrefix(Tail(way), inner[i])
      OBVIOUS
    <3> DEFINE part == inner[i]
               whole == p[i]
    <3>1. part \in Seq(S) /\ whole = <<s>> \o part
      BY <2>7, <2>8
    <3> DEFINE tail == Tail(way)
    <3>2. s \in S /\ way \in Seq(S) /\ Len(way) >= 1 /\ way[1] = s /\ tail = Tail(way)
      BY <2>5, <2>9
    <3> HIDE DEF part, whole, tail, S
    <3>3. IsPrefix(way, whole) <=> IsPrefix(tail, part)
      BY ONLY <3>1, <3>2, BelowTheRoot
    <3> QED
      BY <3>3 DEF part, whole, tail
  <2>16. ~IsPrefix(Tail(way), <<>>)
    <3> DEFINE tail == Tail(way)
               none == <<>>
    <3>1. tail \in Seq(S) /\ Len(tail) >= 1 /\ none \in Seq(S) /\ Len(none) = 0
      BY <2>9
    <3> HIDE DEF tail, none
    <3>2. ~IsPrefix(tail, none)
      BY <3>1 DEF IsPrefix
    <3> QED
      BY <3>2 DEF tail, none
  <2>11. Through(p, way) = {i \in reached : IsPrefix(Tail(way), parts[i])}
    <3>1. Through(p, way) = {i \in X : IsPrefix(Tail(way), inner[i])}
      BY <2>7, <2>10 DEF Through
    <3>2. \A i \in X : i \in reached \/ inner[i] = <<>>
      BY <2>14
    <3>3. \A i \in reached : i \in X /\ parts[i] = inner[i]
      BY <2>6
    <3> QED
      BY <2>16, <3>1, <3>2, <3>3
  <2>12. graph[n].total = Cardinality(Through(p, way)) /\ \E i \in DOMAIN p : IsPrefix(way, p[i])
    BY <2>1, <2>5 DEF TreeOf, way
  <2>13. Cardinality(Through(p, way)) > 0
    <3> DEFINE A == Through(p, way)
    <3>1. A # {} /\ A \subseteq 1 .. l
      BY <2>3, <2>7, <2>12 DEF Through
    <3>2. IsFiniteSet(1 .. l)
      BY <2>2, FS_Interval
    <3>3. IsFiniteSet(A)
      BY <3>1, <3>2, FS_Subset
    <3> HIDE DEF A
    <3>4. Cardinality(A) \in Nat /\ Cardinality(A) # 0
      BY <3>1, <3>3, FS_CardinalityType, FS_EmptySet
    <3> QED
      BY <3>4 DEF A
  <2> QED
    BY <2>11, <2>12, <2>13 DEF way
<1>4. ASSUME NEW s \in DOMAIN summaries, IsFunction(s),
             NEW graph, NEW stacks, NEW reached, NEW parts,
             Looked(s, graph, stacks, reached, parts),
             NEW i \in reached
      PROVE  \E n \in DOMAIN graph : PathTo(graph, n) = <<s>> \o parts[i]
  <2> DEFINE S == AllSymbols
             l == Len(traces)
             p == Parts(l, s)
             inner == Only(Reverse(Below(traces[i], s)), DOMAIN summaries)
             symbols == Symbolize(Innermost(traces[i])).symbols
  <2>0. /\ graph = Descendants(s)
        /\ stacks = [x \in DOMAIN traces |-> Symbolize(Innermost(traces[x])).symbols]
        /\ reached = {x \in summaries[s].traceables : s \in Range(stacks[x])}
        /\ parts = [x \in reached |->
                      LET outermost == CHOOSE k \in DOMAIN stacks[x] :
                            stacks[x][k] = s /\ \A j \in k + 1 .. Len(stacks[x]) : stacks[x][j] # s
                      IN  Only(Reverse(SubSeq(stacks[x], 1, outermost - 1)), DOMAIN summaries)]
    BY <1>4 DEF Looked
  <2>1. TreeOf(graph, p, S)
    BY <1>4, <2>0, DescendantsRight
  <2>2. traces \in Seq(Traceables) /\ l \in Nat /\ DOMAIN traces = 1 .. l
    BY DEF GraphIInv
  <2>3. i \in summaries[s].traceables /\ i \in 1 .. l /\ traces[i] \in Traceables
    BY <1>4, <2>0, <2>2, OnTheStack
  <2> HIDE DEF S, l
  <2>4. stacks[i] = symbols /\ s \in Range(symbols)
    BY <1>4, <2>0, <2>2, <2>3
  <2> HIDE DEF symbols
  <2>5. Below(traces[i], s) = SubSeq(symbols, 1, Outermost(symbols, s) - 1)
    BY <2>3, <2>4, BelowIs DEF symbols
  <2>6. parts[i] = Only(Reverse(SubSeq(stacks[i], 1, Outermost(stacks[i], s) - 1)), DOMAIN summaries)
    BY <1>4, <2>0 DEF Outermost
  <2>7. parts[i] = inner
    BY <2>4, <2>5, <2>6
  <2>8. i \in {j \in summaries[s].traceables : j <= l}
    BY <2>2, <2>3
  <2>9. i \in DOMAIN p /\ p[i] = Part(i, s)
    BY <2>8 DEF Parts
  <2>10. Part(i, s) = <<s>> \o inner
    BY DEF Part
  <2> HIDE DEF p, inner
  <2>11. PICK n \in 1 .. Len(graph) : PathTo(graph, n) = p[i]
    BY <2>1, <2>9 DEF TreeOf
  <2>12. n \in DOMAIN graph
    BY <2>1, TreeIs DEF TreeOf
  <2> QED
    BY <2>7, <2>9, <2>10, <2>11, <2>12
<1>3. "BOTTOM_UP" \in flags \/
        \A n \in DOMAIN nodes :
          IsFunction(nodes[n].symbol) =>
            LET listed == ListTraceables(n)
            IN  /\ Cardinality(listed) <= MaxResults
                /\ \A i \in Shown \ listed :
                     IsPrefix(PathTo(nodes, n), PathOf(i)) =>
                       Cardinality({j \in listed : j < i}) = MaxResults
  BY <1>1
<1> QED
  <2> SUFFICES ASSUME NEW s \in DOMAIN summaries, IsFunction(s)
               PROVE  LET graph == Descendants(s)
                          stacks == [i \in DOMAIN traces |-> Symbolize(Innermost(traces[i])).symbols]
                          reached == {i \in summaries[s].traceables : s \in Range(stacks[i])}
                          parts == [i \in reached |->
                                      LET outermost == CHOOSE k \in DOMAIN stacks[i] :
                                            stacks[i][k] = s /\ \A j \in k + 1 .. Len(stacks[i]) : stacks[i][j] # s
                                      IN  Only(Reverse(SubSeq(stacks[i], 1, outermost - 1)), DOMAIN summaries)]
                      IN  /\ \A i \in reached : \E n \in DOMAIN graph : PathTo(graph, n) = <<s>> \o parts[i]
                          /\ \A n \in DOMAIN graph \ {1} :
                               /\ graph[n].total = Cardinality({i \in reached :
                                                                 IsPrefix(Tail(PathTo(graph, n)), parts[i])})
                               /\ graph[n].total > 0
    BY <1>3 DEF ListsRight
  <2> DEFINE graph == Descendants(s)
             stacks == [i \in DOMAIN traces |-> Symbolize(Innermost(traces[i])).symbols]
             reached == {i \in summaries[s].traceables : s \in Range(stacks[i])}
             parts == [i \in reached |->
                         LET outermost == CHOOSE k \in DOMAIN stacks[i] :
                               stacks[i][k] = s /\ \A j \in k + 1 .. Len(stacks[i]) : stacks[i][j] # s
                         IN  Only(Reverse(SubSeq(stacks[i], 1, outermost - 1)), DOMAIN summaries)]
  <2>3. Looked(s, graph, stacks, reached, parts)
    BY DEF Looked
  <2> HIDE DEF graph, stacks, reached, parts
  <2>1. ASSUME NEW i \in reached
        PROVE  \E n \in DOMAIN graph : PathTo(graph, n) = <<s>> \o parts[i]
    BY <1>4, <2>1, <2>3
  <2>2. \A n \in DOMAIN graph \ {1} :
          /\ graph[n].total = Cardinality({i \in reached :
                                            IsPrefix(Tail(PathTo(graph, n)), parts[i])})
          /\ graph[n].total > 0
    BY <1>2, <2>3
  <2> QED
    BY <2>1, <2>2 DEF graph, stacks, reached, parts

(* In a callgraph that goes down no more than the limit are listed for the  *)
(* node of a function, a trace that goes through it is missing only when as *)
(* many before it are listed, and the tree of the descendants of a function *)
(* holds and weighs what its outermost calls came to in the part of the     *)
(* stacks that is looked at, each once.                                     *)
THEOREM CallgraphLists == GraphSpec => []ListsRight
<1>1. GraphIInv => ListsRight
  BY ListsAreRight
<1> QED
  BY <1>1, GraphInvariant, PTL
=============================================================================
