------------------------ MODULE CaptureReader_proofs ------------------------
(***************************************************************************)
(* Theorems about the reader of captures: whatever is called, and however  *)
(* the file grows and its frames straddle the window, the frames come one  *)
(* after the other; and what it is asked of embedded files, and a cursor   *)
(* of frames, is answered as such a walk would answer it; and captures are *)
(* joined so that their frames mean what they meant.                       *)
(***************************************************************************)
EXTENDS CaptureCat, CaptureFile_proofs

AnyCell == [frame : Frames, off : Nat, swapped : BOOLEAN]
FileCell == [frame : Frames, off : Nat, swapped : {FALSE}]
Readers == [buf : Seq(AnyCell), pos : Int, off : Nat, end_time : Nat]

(* A reader whose position is in its window, which is of the file.          *)
Sane(r) ==
  /\ r \in Readers /\ r.pos \in 0 .. Len(r.buf)
  /\ Len(r.buf) <= BufSz /\ r.off <= Len(file)

(* Where a read of a file of the other byte order failed, which nobody      *)
(* reads on, a jitmap is gone back over by a length that nobody checks.     *)
TypeOK ==
  /\ file \in Seq(FileCell) /\ rest \in Seq(FileCell) /\ foreign \in BOOLEAN
  /\ rd = NoReader \/ (rd \in Readers /\ (Sane(rd) \/ (foreign /\ ended)))
  /\ got \in Seq(Frames) /\ peeked \in {f.kind : f \in Frames} \cup {"none"}
  /\ ended \in BOOLEAN /\ calls \in Nat

(* The position is n cells into the file, and the window ahead of it is     *)
(* what the file has there; s says whether the header there is swapped.     *)
Stands(r, s, n) ==
  /\ Sane(r) /\ n \in Nat /\ r.off = n + Avail(r)
  /\ \A i \in 1 .. Avail(r) :
       r.buf[r.pos + i] = IF i = 1 THEN [file[n + 1] EXCEPT !.swapped = s] ELSE file[n + i]

(* What was read and what is to come are the capture, and the reader stands *)
(* between the two.  Where a read of a file of the other byte order failed, *)
(* nobody reads on.                                                         *)
Ahead(todo) ==
  /\ CellsOf(got \o todo) = file \o rest /\ Len(CellsOf(got)) <= Len(file)
  /\ peeked = "none" \/ (todo # <<>> /\ peeked = Head(todo).kind)
  /\ rd # NoReader /\ ~(foreign /\ ended) => Stands(rd, FALSE, Len(CellsOf(got)))

IInv ==
  /\ TypeOK
  /\ foreign => rest = <<>>
  /\ rd = NoReader => got = <<>> /\ peeked = "none" /\ ~ended
  /\ \/ Astray
     \/ /\ \E todo \in Seq(Frames) : Ahead(todo)
        /\ ended => AtEnd(got) \/ CutIndex

WellMade(f) ==
  /\ f.kind \notin {"none", "index"} /\ f.len \in MinLen(f.kind) .. BufSz
  /\ f.kind \in Basic => f.len = 1 \/ IsIndexFrame(f)
  /\ f.time \in Nat /\ (f.kind = "mark" => f.dur \in Nat)

LEMMA FramesMade ==
  ASSUME NEW f \in Frames
  PROVE  WellMade(f) /\ f.len \in Nat \ {0}
<1>1. WellMade(f)
  BY ReaderAssumption DEF WellMade
<1>2. MinLen(f.kind) \in {1, 2} /\ BufSz \in Nat
  BY ReaderAssumption DEF MinLen
<1> QED
  BY <1>1, <1>2 DEF WellMade

-----------------------------------------------------------------------------
(* The cells of a sequence of frames.                                       *)

LEMMA FlattenNothing == FlattenSeq(<<>>) = <<>>
BY DEF FlattenSeq

LEMMA FlattenAppend ==
  ASSUME NEW T, NEW seqs \in Seq(Seq(T)), NEW x \in Seq(T)
  PROVE  FlattenSeq(Append(seqs, x)) = FlattenSeq(seqs) \o x
<1> DEFINE more == Append(seqs, x)
           k == Len(seqs)
<1>1. /\ more \in Seq(Seq(T)) /\ Len(more) = k + 1 /\ k \in Nat /\ more[k + 1] = x
      /\ \A i \in 1 .. k : more[i] = seqs[i]
  OBVIOUS
<1>2. PICK g : Flattens(g, more)
  <2> HIDE DEF more, k
  <2>1. Len(more) > 0
    BY <1>1
  <2> QED
    BY <1>1, <2>1, FlattenDef
<1>3. CASE seqs = <<>>
  <2>1. k = 0 /\ FlattenSeq(seqs) = <<>>
    BY <1>3, FlattenNothing
  <2>2. FlattenSeq(more) = x
    BY <1>1, <1>2, <2>1 DEF Flattens
  <2>3. <<>> \o x = x
    BY ConcatEmpty
  <2> QED
    BY <2>1, <2>2, <2>3
<1>4. CASE seqs # <<>>
  <2>1. k > 0
    BY <1>4
  <2>2. PICK h : Flattens(h, seqs)
    BY <2>1, FlattenDef
  <2> DEFINE S == {i \in Nat : i = 0 \/ g[i] = h[i]}
  <2> HIDE DEF more, k
  <2>3. 0 \in S
    OBVIOUS
  <2>4. ASSUME NEW n \in 0 .. k - 1, n \in S PROVE n + 1 \in S
    <3>1. n \in Nat /\ n + 1 \in 1 .. k /\ more[n + 1] = seqs[n + 1] /\ (n + 1) - 1 = n
      BY <1>1
    <3>2. CASE n = 0
      BY <1>2, <2>2, <3>1, <3>2 DEF Flattens
    <3>3. CASE n # 0
      <4>1. n + 1 \in 2 .. k + 1 /\ n + 1 \in 2 .. k
        BY <1>1, <3>1, <3>3
      <4>2. g[n + 1] = g[n] \o more[n + 1] /\ h[n + 1] = h[n] \o seqs[n + 1]
        <5>1. g[n + 1] = g[(n + 1) - 1] \o more[n + 1]
          BY <1>1, <1>2, <4>1 DEF Flattens
        <5>2. h[n + 1] = h[(n + 1) - 1] \o seqs[n + 1]
          BY <2>2, <4>1 DEF Flattens, k
        <5> QED
          BY <3>1, <5>1, <5>2
      <4>3. g[n] = h[n]
        BY <2>4, <3>3
      <4>4. g[n + 1] = h[n + 1]
        BY <3>1, <4>2, <4>3
      <4> QED
        BY <3>1, <4>4
    <3> QED
      BY <3>2, <3>3
  <2> HIDE DEF S
  <2>5. k \in S
    <3>1. \A n \in 0 .. k : n \in S
      BY <1>1, <2>3, <2>4, Upwards
    <3> QED
      BY <1>1, <3>1
  <2>6. g[k] = h[k]
    BY <2>1, <2>5 DEF S
  <2>7. FlattenSeq(more) = g[k + 1] /\ FlattenSeq(seqs) = h[k]
    BY <1>1, <1>2, <2>2 DEF Flattens, k
  <2>8. g[k + 1] = g[(k + 1) - 1] \o more[k + 1]
    <3>1. k + 1 \in 2 .. Len(more)
      BY <1>1, <2>1
    <3> QED
      BY <1>2, <3>1 DEF Flattens
  <2>9. (k + 1) - 1 = k
    BY <1>1
  <2> QED
    BY <1>1, <2>6, <2>7, <2>8, <2>9 DEF more
<1> QED
  BY <1>3, <1>4

(* A frame adds its cells, the first of which is its header.                *)
Piece(f) == Raw(Cells(f))
PlainCell == [frame : Frames, off : Nat]

LEMMA PieceIs ==
  ASSUME NEW f \in Frames
  PROVE  /\ Piece(f) \in Seq(FileCell) /\ Len(Piece(f)) = f.len
         /\ Piece(f)[1] = [frame |-> f, off |-> 0, swapped |-> FALSE]
         /\ Cells(f) \in Seq(PlainCell)
<1>1. f.len \in Nat \ {0}
  BY FramesMade
<1>2. Cells(f) \in [1 .. f.len -> PlainCell]
  BY <1>1 DEF Cells, PlainCell
<1>3. Cells(f) \in Seq(PlainCell) /\ Len(Cells(f)) = f.len
  BY <1>1, <1>2, OfLength
<1>4. Piece(f) = [c \in 1 .. f.len |-> [frame |-> f, off |-> c - 1, swapped |-> FALSE]]
  BY <1>1 DEF Piece, Raw, Cells
<1>5. Piece(f) \in [1 .. f.len -> FileCell]
  BY <1>1, <1>4 DEF FileCell
<1>6. Piece(f) \in Seq(FileCell) /\ Len(Piece(f)) = f.len
  BY <1>1, <1>5, OfLength
<1>7. Piece(f)[1] = [frame |-> f, off |-> 0, swapped |-> FALSE]
  BY <1>1, <1>4
<1> QED
  BY <1>3, <1>6, <1>7

LEMMA RawJoined ==
  ASSUME NEW T, NEW a \in Seq(T), NEW b \in Seq(T)
  PROVE  Raw(a \o b) = Raw(a) \o Raw(b)
<1>1. /\ DOMAIN a = 1 .. Len(a) /\ DOMAIN b = 1 .. Len(b) /\ Len(a) \in Nat /\ Len(b) \in Nat
      /\ DOMAIN (a \o b) = 1 .. Len(a) + Len(b)
      /\ \A i \in 1 .. Len(a) + Len(b) :
           (a \o b)[i] = IF i <= Len(a) THEN a[i] ELSE b[i - Len(a)]
  <2>1. a \o b \in Seq(T) /\ Len(a \o b) = Len(a) + Len(b)
    BY ConcatProperties
  <2>2. \A i \in 1 .. Len(a) + Len(b) : (a \o b)[i] = IF i <= Len(a) THEN a[i] ELSE b[i - Len(a)]
    BY ConcatProperties
  <2> QED
    BY <2>1, <2>2
<1> DEFINE ra == Raw(a)
           rb == Raw(b)
           One(c) == [frame |-> c.frame, off |-> c.off, swapped |-> FALSE]
           V == {One(c) : c \in T}
<1>2. /\ ra = [i \in 1 .. Len(a) |-> One(a[i])] /\ rb = [i \in 1 .. Len(b) |-> One(b[i])]
      /\ \A i \in 1 .. Len(a) : a[i] \in T
      /\ \A i \in 1 .. Len(b) : b[i] \in T
  BY <1>1 DEF Raw
<1>3. /\ \A i \in 1 .. Len(a) : ra[i] = One(a[i])
      /\ \A i \in 1 .. Len(b) : rb[i] = One(b[i])
      /\ Raw(a \o b) = [i \in 1 .. Len(a) + Len(b) |-> One((a \o b)[i])]
  BY <1>1 DEF Raw
<1> HIDE DEF ra, rb, One
<1>4. ra \in Seq(V) /\ rb \in Seq(V) /\ Len(ra) = Len(a) /\ Len(rb) = Len(b)
  <2>1. ra \in [1 .. Len(a) -> V] /\ rb \in [1 .. Len(b) -> V]
    BY <1>2
  <2> HIDE DEF V
  <2> QED
    BY <1>1, <2>1, OfLength
<1> HIDE DEF V
<1>5. /\ ra \o rb \in Seq(V) /\ Len(ra \o rb) = Len(a) + Len(b)
      /\ \A i \in 1 .. Len(a) + Len(b) :
           (ra \o rb)[i] = IF i <= Len(a) THEN ra[i] ELSE rb[i - Len(a)]
  <2>1. Len(ra \o rb) = Len(ra) + Len(rb)
    BY <1>4, ConcatProperties
  <2>2. \A i \in 1 .. Len(ra) + Len(rb) :
          (ra \o rb)[i] = IF i <= Len(ra) THEN ra[i] ELSE rb[i - Len(ra)]
    BY <1>4, ConcatProperties
  <2> QED
    BY <1>4, <2>1, <2>2, ConcatType
<1>6. ra \o rb = [i \in 1 .. Len(a) + Len(b) |-> (ra \o rb)[i]]
  <2> DEFINE q == ra \o rb
  <2>1. q \in Seq(V) /\ Len(q) = Len(a) + Len(b)
    BY <1>5
  <2> HIDE DEF q
  <2>2. q = [i \in 1 .. Len(q) |-> q[i]]
    BY <2>1
  <2> QED
    BY <2>1, <2>2 DEF q
<1>7. ASSUME NEW i \in 1 .. Len(a) + Len(b)
      PROVE  (ra \o rb)[i] = One((a \o b)[i])
  <2>1. CASE i <= Len(a)
    <3>1. i \in 1 .. Len(a)
      BY <1>1, <2>1
    <3> QED
      BY <1>1, <1>3, <1>5, <2>1, <3>1
  <2>2. CASE ~(i <= Len(a))
    <3>1. i - Len(a) \in 1 .. Len(b)
      BY <1>1, <2>2
    <3> QED
      BY <1>1, <1>3, <1>5, <2>2, <3>1
  <2> QED
    BY <2>1, <2>2
<1>8. ra \o rb = [i \in 1 .. Len(a) + Len(b) |-> One((a \o b)[i])]
  BY <1>6, <1>7
<1> QED
  BY <1>3, <1>8 DEF ra, rb

Pieces(s) == [i \in DOMAIN s |-> Cells(s[i])]
LEMMA CellsMore ==
  ASSUME NEW s \in Seq(Frames), NEW f \in Frames, FlattenSeq(Pieces(s)) \in Seq(PlainCell)
  PROVE  /\ CellsOf(Append(s, f)) = CellsOf(s) \o Piece(f)
         /\ FlattenSeq(Pieces(Append(s, f))) \in Seq(PlainCell)
<1> DEFINE p == Pieces(s)
           k == Len(s)
<1>1. k \in Nat /\ DOMAIN s = 1 .. k /\ \A i \in 1 .. k : s[i] \in Frames
  OBVIOUS
<1>2. p \in Seq(Seq(PlainCell)) /\ Len(p) = k /\ \A i \in 1 .. k : p[i] = Cells(s[i])
  <2>1. p \in [1 .. k -> Seq(PlainCell)] /\ \A i \in 1 .. k : p[i] = Cells(s[i])
    BY <1>1, PieceIs DEF Pieces
  <2> HIDE DEF p, k
  <2> QED
    BY <1>1, <2>1, OfLength
<1>3. Pieces(Append(s, f)) = Append(p, Cells(f))
  <2>1. Pieces(Append(s, f)) = [i \in 1 .. k + 1 |-> IF i = k + 1 THEN Cells(f) ELSE Cells(s[i])]
    BY <1>1 DEF Pieces
  <2> DEFINE c == Cells(f)
  <2>c. c \in Seq(PlainCell)
    BY PieceIs
  <2> HIDE DEF p, k, c
  <2>2. Append(p, c) = [i \in 1 .. k + 1 |-> IF i = k + 1 THEN c ELSE p[i]]
    <3> DEFINE q == Append(p, c)
    <3>1. /\ q \in Seq(Seq(PlainCell)) /\ Len(q) = k + 1 /\ q[k + 1] = c
          /\ \A i \in 1 .. k : q[i] = p[i]
      BY <1>2, <2>c, AppendProperties
    <3> HIDE DEF q
    <3>2. q = [i \in 1 .. k + 1 |-> q[i]]
      BY <3>1
    <3>3. \A i \in 1 .. k + 1 : i # k + 1 => i \in 1 .. k
      BY <1>1
    <3> QED
      BY <3>1, <3>2, <3>3 DEF q
  <2>3. \A i \in 1 .. k + 1 : i # k + 1 => p[i] = Cells(s[i])
    BY <1>1, <1>2
  <2> QED
    BY <2>1, <2>2, <2>3 DEF c
<1>4. Cells(f) \in Seq(PlainCell)
  BY PieceIs
<1> HIDE DEF p, k
<1>5. FlattenSeq(Append(p, Cells(f))) = FlattenSeq(p) \o Cells(f)
  BY <1>2, <1>4, FlattenAppend
<1>6. FlattenSeq(p) \in Seq(PlainCell)
  BY DEF p
<1>7. FlattenSeq(p) \o Cells(f) \in Seq(PlainCell)
  BY <1>4, <1>6, ConcatType
<1>8. Raw(FlattenSeq(p) \o Cells(f)) = Raw(FlattenSeq(p)) \o Raw(Cells(f))
  BY <1>4, <1>6, RawJoined
<1>9. CellsOf(Append(s, f)) = Raw(FlattenSeq(Pieces(Append(s, f)))) /\ CellsOf(s) = Raw(FlattenSeq(p))
  BY DEF CellsOf, Pieces, p
<1> QED
  BY <1>3, <1>5, <1>7, <1>8, <1>9 DEF Piece

(* What holds of the empty sequence, and of a longer one if it holds of the *)
(* shorter, holds of all.                                                   *)
LEMMA AllSequences ==
  ASSUME NEW T, NEW S, <<>> \in S,
         \A s \in Seq(T), x \in T : s \in S => Append(s, x) \in S
  PROVE  Seq(T) \subseteq S
<1> SUFFICES ASSUME NEW s \in Seq(T) PROVE s \in S
  OBVIOUS
<1> DEFINE front(n) == SubSeq(s, 1, n)
           N == {n \in Nat : n <= Len(s) => front(n) \in S}
<1>0. Len(s) \in Nat
  OBVIOUS
<1>1. 0 \in N
  <2>1. front(0) = <<>>
    OBVIOUS
  <2> HIDE DEF front
  <2> QED
    BY <2>1
<1>2. ASSUME NEW n \in 0 .. Len(s) - 1, n \in N PROVE n + 1 \in N
  <2>1. n \in Nat /\ n + 1 \in 1 .. Len(s) /\ front(n) \in S /\ s[n + 1] \in T
    <3> HIDE DEF front
    <3>1. n \in Nat /\ n <= Len(s) /\ n + 1 \in 1 .. Len(s)
      BY <1>0, <1>2
    <3> QED
      BY <1>2, <3>1
  <2>2. front(n) \in Seq(T)
    OBVIOUS
  <2>3. front(n + 1) = Append(front(n), s[n + 1])
    BY <2>1
  <2> HIDE DEF front
  <2>4. front(n + 1) \in S
    BY <2>1, <2>2, <2>3
  <2> QED
    BY <2>1, <2>4
<1> HIDE DEF N
<1>3. Len(s) \in N
  <2>1. \A n \in 0 .. Len(s) : n \in N
    BY <1>0, <1>1, <1>2, Upwards
  <2> QED
    BY <1>0, <2>1
<1>4. front(Len(s)) = s
  OBVIOUS
<1> HIDE DEF front
<1> QED
  BY <1>0, <1>3, <1>4 DEF N

LEMMA CellsNone == CellsOf(<<>>) = <<>> /\ FlattenSeq(Pieces(<<>>)) = <<>>
<1>1. Pieces(<<>>) = <<>>
  BY DEF Pieces
<1>2. CellsOf(<<>>) = Raw(FlattenSeq(Pieces(<<>>)))
  BY DEF CellsOf, Pieces
<1>3. Raw(<<>>) = <<>>
  BY DEF Raw
<1> QED
  BY <1>1, <1>2, <1>3, FlattenNothing

LEMMA CellsAre ==
  ASSUME NEW s \in Seq(Frames)
  PROVE  /\ CellsOf(s) \in Seq(FileCell)
         /\ \A f \in Frames : CellsOf(Append(s, f)) = CellsOf(s) \o Piece(f)
<1> DEFINE S == {t \in Seq(Frames) : /\ FlattenSeq(Pieces(t)) \in Seq(PlainCell)
                                     /\ CellsOf(t) \in Seq(FileCell)}
<1>1. <<>> \in S
  <2>1. <<>> \in Seq(Frames) /\ <<>> \in Seq(PlainCell) /\ <<>> \in Seq(FileCell)
    OBVIOUS
  <2> QED
    BY <2>1, CellsNone
<1>2. ASSUME NEW t \in Seq(Frames), NEW f \in Frames, t \in S PROVE Append(t, f) \in S
  <2>1. /\ CellsOf(Append(t, f)) = CellsOf(t) \o Piece(f)
        /\ FlattenSeq(Pieces(Append(t, f))) \in Seq(PlainCell)
    BY <1>2, CellsMore
  <2>2. CellsOf(t) \o Piece(f) \in Seq(FileCell)
    BY <1>2, PieceIs, ConcatType
  <2>3. Append(t, f) \in Seq(Frames)
    OBVIOUS
  <2> QED
    BY <2>1, <2>2, <2>3
<1> HIDE DEF S
<1>3. s \in S
  BY <1>1, <1>2, AllSequences
<1> QED
  BY <1>3, CellsMore DEF S

LEMMA CellsOne ==
  ASSUME NEW f \in Frames
  PROVE  CellsOf(<<f>>) = Piece(f)
<1>1. <<f>> = Append(<<>>, f) /\ <<>> \in Seq(Frames)
  OBVIOUS
<1>2. <<>> \o Piece(f) = Piece(f)
  BY PieceIs, ConcatEmpty
<1> QED
  BY <1>1, <1>2, CellsAre, CellsNone

LEMMA CellsJoin ==
  ASSUME NEW a \in Seq(Frames), NEW b \in Seq(Frames)
  PROVE  CellsOf(a \o b) = CellsOf(a) \o CellsOf(b)
<1> DEFINE S == {t \in Seq(Frames) : CellsOf(a \o t) = CellsOf(a) \o CellsOf(t)}
<1>1. <<>> \in S
  <2>1. a \o <<>> = a /\ <<>> \in Seq(Frames)
    BY ConcatEmpty
  <2>2. CellsOf(a) \o <<>> = CellsOf(a)
    BY CellsAre, ConcatEmpty
  <2> QED
    BY <2>1, <2>2, CellsNone
<1>2. ASSUME NEW t \in Seq(Frames), NEW f \in Frames, t \in S PROVE Append(t, f) \in S
  <2>1. a \o t \in Seq(Frames) /\ Append(t, f) \in Seq(Frames)
    BY ConcatType
  <2>2. a \o Append(t, f) = Append(a \o t, f)
    OBVIOUS
  <2>3. CellsOf(Append(a \o t, f)) = CellsOf(a \o t) \o Piece(f)
    BY <2>1, CellsAre
  <2>4. CellsOf(Append(t, f)) = CellsOf(t) \o Piece(f)
    BY CellsAre
  <2>5. Assoc(CellsOf(a), CellsOf(t), Piece(f))
    BY CellsAre, PieceIs, ConcatAssoc
  <2> QED
    BY <1>2, <2>1, <2>2, <2>3, <2>4, <2>5 DEF Assoc
<1> HIDE DEF S
<1>3. b \in S
  BY <1>1, <1>2, AllSequences
<1> QED
  BY <1>3 DEF S

(* A walk over them finds the frames.                                       *)
Skipped == {"index"}
LEMMA ThroughPiece ==
  ASSUME NEW f \in Frames
  PROVE  Through(Piece(f), Skipped).frames = <<f>> /\ Valid(Piece(f))
<1> DEFINE cells == Piece(f)
           last == Bytes(cells)
           on == Walk(cells, last, Skipped)
<1>1. /\ cells \in Seq(FileCell) /\ Len(cells) = f.len /\ Header = 1 /\ last = f.len + 1
      /\ f.len \in Nat \ {0} /\ f.kind \notin Skipped
  BY Size, PieceIs, FramesMade DEF WellMade, Skipped
<1>2. At(cells, Header) = [frame |-> f, off |-> 0, swapped |-> FALSE]
  BY <1>1, PieceIs DEF At
<1> HIDE DEF cells
<1>3. /\ last \in Header .. Bytes(cells) /\ Header \in Header .. last /\ Header + f.len = last
      /\ FrameAt(cells, Header, last) /\ At(cells, Header).frame = f
  BY <1>1, <1>2 DEF FrameAt
<1>4. StepsOn(FileCell, cells, last, Skipped, Header)
  BY <1>1, <1>3, WalkStep
<1>5. /\ on[Header].frames = <<f>> \o on[last].frames
      /\ on[Header].valid = on[last].valid /\ <<f>> \in Seq(FramesOf(FileCell))
  BY <1>1, <1>3, <1>4 DEF StepsOn
<1>6. last \in Header .. last /\ ~FrameAt(cells, last, last)
  BY <1>1 DEF FrameAt
<1>7. on[last].frames = <<>> /\ on[last].valid
  BY <1>1, <1>3, <1>6, WalkEnd
<1>8. on[Header].frames = <<f>>
  BY <1>5, <1>7, ConcatEmpty
<1>9. Through(cells, Skipped).frames = <<f>> /\ Through(cells, Skipped).valid
  BY <1>5, <1>7, <1>8 DEF Through
<1> QED
  BY <1>1, <1>9, ValidThrough DEF cells

LEMMA ThroughFrames ==
  ASSUME NEW s \in Seq(Frames)
  PROVE  Through(CellsOf(s), Skipped).frames = s /\ Through(CellsOf(s), Skipped).valid
<1> DEFINE S == {t \in Seq(Frames) : /\ Through(CellsOf(t), Skipped).frames = t
                                     /\ Through(CellsOf(t), Skipped).valid}
<1>1. <<>> \in S
  <2>1. Through(<<>>, Skipped).frames = <<>> /\ Valid(<<>>)
    BY ThroughNothing
  <2>2. <<>> \in Seq(FileCell)
    OBVIOUS
  <2>3. Through(<<>>, Skipped).valid
    BY <2>1, <2>2, ValidThrough
  <2> QED
    BY <2>1, <2>3, CellsNone
<1>2. ASSUME NEW t \in Seq(Frames), NEW f \in Frames, t \in S PROVE Append(t, f) \in S
  <2> DEFINE a == CellsOf(t)
             b == Piece(f)
  <2>1. a \in Seq(FileCell) /\ b \in Seq(FileCell) /\ CellsOf(Append(t, f)) = a \o b
    BY CellsAre, PieceIs
  <2>2. Through(a, Skipped).frames = t /\ Through(a, Skipped).valid
    BY <1>2
  <2>3. Through(b, Skipped).frames = <<f>> /\ Valid(b)
    BY ThroughPiece
  <2> HIDE DEF a, b
  <2>4. Joined(a, b, Skipped)
    BY <2>1, <2>2, WalkJoined
  <2>5. Through(b, Skipped).valid
    BY <2>1, <2>3, ValidThrough
  <2>6. t \o <<f>> = Append(t, f) /\ Append(t, f) \in Seq(Frames)
    OBVIOUS
  <2>7. Through(a \o b, Skipped).frames = Append(t, f) /\ Through(a \o b, Skipped).valid
    BY <2>2, <2>3, <2>4, <2>5, <2>6 DEF Joined
  <2> QED
    BY <2>1, <2>6, <2>7
<1> HIDE DEF S
<1>3. s \in S
  BY <1>1, <1>2, AllSequences
<1> QED
  BY <1>3 DEF S

-----------------------------------------------------------------------------
(* What was read, and what is to come.                                      *)

LEMMA ConcatIs ==
  ASSUME NEW T, NEW a \in Seq(T), NEW b \in Seq(T)
  PROVE  /\ a \o b \in Seq(T) /\ Len(a) \in Nat /\ Len(b) \in Nat
         /\ Len(a \o b) = Len(a) + Len(b)
         /\ \A i \in 1 .. Len(a) : (a \o b)[i] = a[i]
         /\ \A i \in 1 .. Len(b) : (a \o b)[Len(a) + i] = b[i]
BY ConcatProperties

Chained(T, a, b) ==
  /\ a \o b \in Seq(T) /\ Len(a \o b) = Len(a) + Len(b)
  /\ \A i \in 1 .. Len(a) : (a \o b)[i] = a[i]
  /\ \A i \in 1 .. Len(b) : (a \o b)[Len(a) + i] = b[i]
LEMMA ConcatChained ==
  ASSUME NEW T, NEW a \in Seq(T), NEW b \in Seq(T)
  PROVE  Chained(T, a, b)
BY ConcatIs DEF Chained

Fronts(T, a, b, c, d) == \E r \in Seq(T) : c = a \o r /\ b = r \o d
LEMMA FrontOf ==
  ASSUME NEW T, NEW a \in Seq(T), NEW b \in Seq(T), NEW c \in Seq(T), NEW d \in Seq(T),
         a \o b = c \o d, Len(a) <= Len(c)
  PROVE  Fronts(T, a, b, c, d)
<1> DEFINE r == SubSeq(c, Len(a) + 1, Len(c))
           m == Len(a)
           k == Len(c) - Len(a)
<1>1. m \in Nat /\ k \in Nat /\ Len(c) = m + k /\ Len(b) \in Nat /\ Len(d) \in Nat
  OBVIOUS
<1>2. r \in Seq(T) /\ Len(r) = k /\ \A i \in 1 .. k : r[i] = c[m + i]
  OBVIOUS
<1>3. /\ Len(a \o b) = m + Len(b)
      /\ \A i \in 1 .. m : (a \o b)[i] = a[i]
      /\ \A i \in 1 .. Len(b) : (a \o b)[m + i] = b[i]
  <2>1. Chained(T, a, b)
    BY ConcatChained
  <2> QED
    BY <2>1 DEF Chained
<1>4. /\ Len(c \o d) = Len(c) + Len(d)
      /\ \A i \in 1 .. Len(c) : (c \o d)[i] = c[i]
      /\ \A i \in 1 .. Len(d) : (c \o d)[Len(c) + i] = d[i]
  <2>1. Chained(T, c, d)
    BY ConcatChained
  <2> QED
    BY <2>1 DEF Chained
<1> HIDE DEF r, m, k
<1>5. c = a \o r
  <2>1. /\ a \o r \in Seq(T) /\ Len(a \o r) = m + k
        /\ \A i \in 1 .. m : (a \o r)[i] = a[i]
        /\ \A i \in 1 .. k : (a \o r)[m + i] = r[i]
    <3>1. Chained(T, a, r)
      BY <1>2, ConcatChained
    <3> QED
      BY <1>2, <3>1 DEF Chained, m
  <2>2. ASSUME NEW i \in 1 .. Len(c) PROVE c[i] = (a \o r)[i]
    <3>1. CASE i \in 1 .. m
      BY <1>3, <1>4, <2>1, <3>1
    <3>2. CASE i \notin 1 .. m
      <4> DEFINE j == i - m
      <4>1. j \in 1 .. k /\ i = m + j
        BY <1>1, <3>2
      <4> HIDE DEF j
      <4> QED
        BY <1>2, <2>1, <4>1
    <3> QED
      BY <3>1, <3>2
  <2> QED
    BY <1>1, <2>1, <2>2, SeqEqual
<1>6. b = r \o d
  <2>1. /\ r \o d \in Seq(T) /\ Len(r \o d) = k + Len(d)
        /\ \A i \in 1 .. k : (r \o d)[i] = r[i]
        /\ \A i \in 1 .. Len(d) : (r \o d)[k + i] = d[i]
    <3>1. r \in Seq(T) /\ d \in Seq(T) /\ Len(r) = k
      BY <1>2
    <3>2. Chained(T, r, d)
      BY <3>1, ConcatChained
    <3> QED
      BY <3>1, <3>2 DEF Chained
  <2>2. Len(b) = k + Len(d)
    BY <1>1, <1>3, <1>4
  <2>3. ASSUME NEW i \in 1 .. Len(b) PROVE b[i] = (r \o d)[i]
    <3>1. b[i] = (c \o d)[m + i]
      BY <1>3
    <3>2. CASE i \in 1 .. k
      <4>1. m + i \in 1 .. Len(c)
        BY <1>1, <3>2
      <4> QED
        BY <1>2, <1>4, <2>1, <3>1, <3>2, <4>1
    <3>3. CASE i \notin 1 .. k
      <4> DEFINE j == i - k
      <4>1. j \in 1 .. Len(d) /\ i = k + j /\ m + i = Len(c) + j
        BY <1>1, <2>2, <3>3
      <4> HIDE DEF j
      <4> QED
        BY <1>4, <2>1, <3>1, <4>1
    <3> QED
      BY <3>2, <3>3
  <2> QED
    BY <2>1, <2>2, <2>3, SeqEqual
<1> QED
  BY <1>2, <1>5, <1>6 DEF Fronts

LEMMA FirstCell ==
  ASSUME NEW t \in Seq(Frames), t # <<>>
  PROVE  /\ Head(t) \in Frames /\ Tail(t) \in Seq(Frames) /\ t = <<Head(t)>> \o Tail(t)
         /\ CellsOf(t)[1] = [frame |-> Head(t), off |-> 0, swapped |-> FALSE]
<1> DEFINE f == Head(t)
           u == Tail(t)
<1>1. f \in Frames /\ u \in Seq(Frames) /\ t = <<f>> \o u /\ <<f>> \in Seq(Frames)
  OBVIOUS
<1> HIDE DEF f, u
<1>2. CellsOf(t) = Piece(f) \o CellsOf(u)
  BY <1>1, CellsJoin, CellsOne
<1>3. /\ Piece(f) \in Seq(FileCell) /\ CellsOf(u) \in Seq(FileCell) /\ Len(Piece(f)) \in Nat \ {0}
      /\ Piece(f)[1] = [frame |-> f, off |-> 0, swapped |-> FALSE]
  BY <1>1, PieceIs, CellsAre, FramesMade
<1>4. (Piece(f) \o CellsOf(u))[1] = Piece(f)[1]
  BY <1>3
<1> QED
  BY <1>1, <1>2, <1>3, <1>4 DEF f, u

(* cells are those of the frames s and t, but for more that is missing.     *)
Split(cells, more, s, t) ==
  /\ cells \in Seq(FileCell) /\ more \in Seq(FileCell)
  /\ s \in Seq(Frames) /\ t \in Seq(Frames)
  /\ CellsOf(s \o t) = cells \o more /\ Len(CellsOf(s)) <= Len(cells)

Parted(cells, more, s, t, r) ==
  /\ r \in Seq(FileCell) /\ cells = CellsOf(s) \o r /\ CellsOf(t) = r \o more
  /\ Serial(cells) = s \o Through(r, Skipped).frames
  /\ Through(r, Skipped).frames \in Seq(FramesOf(FileCell))
LEMMA SplitAt ==
  ASSUME NEW cells, NEW more, NEW s, NEW t, Split(cells, more, s, t)
  PROVE  \E r : Parted(cells, more, s, t, r)
<1> USE DEF Split
<1>1. /\ CellsOf(s) \in Seq(FileCell) /\ CellsOf(t) \in Seq(FileCell)
      /\ CellsOf(s \o t) = CellsOf(s) \o CellsOf(t)
  BY CellsAre, CellsJoin
<1>2. PICK r \in Seq(FileCell) : cells = CellsOf(s) \o r /\ CellsOf(t) = r \o more
  <2> DEFINE a == CellsOf(s)
             b == CellsOf(t)
  <2>1. a \o b = cells \o more /\ Len(a) <= Len(cells)
    BY <1>1
  <2>2. a \in Seq(FileCell) /\ b \in Seq(FileCell)
    BY <1>1
  <2> HIDE DEF a, b
  <2>3. Fronts(FileCell, a, b, cells, more)
    BY <2>1, <2>2, FrontOf
  <2> QED
    BY <2>3 DEF Fronts, a, b
<1>3. Through(CellsOf(s), Skipped).frames = s /\ Through(CellsOf(s), Skipped).valid
  BY ThroughFrames
<1>4. Joined(CellsOf(s), r, Skipped)
  BY <1>1, <1>3, WalkJoined
<1>5. Serial(cells) = Through(cells, Skipped).frames
  BY DEF Serial, Scan, Through, Skipped
<1>6. Through(r, Skipped).frames \in Seq(FramesOf(FileCell))
  BY ValidThrough
<1> QED
  BY <1>2, <1>3, <1>4, <1>5, <1>6 DEF Joined, Parted

(* The next frame, if it is there.                                          *)
Due(cells, n, f) ==
  n < Len(cells) => cells[n + 1] = [frame |-> f, off |-> 0, swapped |-> FALSE]

LEMMA NextDue ==
  ASSUME NEW cells, NEW more, NEW s, NEW t, Split(cells, more, s, t)
  PROVE  /\ t # <<>> => Due(cells, Len(CellsOf(s)), Head(t))
         /\ t = <<>> => Len(CellsOf(s)) = Len(cells)
<1> DEFINE n == Len(CellsOf(s))
<1>1. PICK r : Parted(cells, more, s, t, r)
  BY SplitAt
<1>2. CellsOf(s) \in Seq(FileCell) /\ r \in Seq(FileCell) /\ more \in Seq(FileCell)
  BY <1>1, CellsAre DEF Parted, Split
<1>3. n \in Nat /\ Len(r) \in Nat /\ Len(cells) = n + Len(r) /\ Len(more) \in Nat
  BY <1>1, <1>2 DEF Parted
<1>4. /\ Len(CellsOf(t)) = Len(r) + Len(more)
      /\ Len(r) > 0 => CellsOf(t)[1] = r[1] /\ cells[n + 1] = r[1]
  BY <1>1, <1>2, <1>3 DEF Parted
<1> HIDE DEF n
<1>5. ASSUME t # <<>> PROVE Due(cells, n, Head(t))
  <2>1. t \in Seq(Frames)
    BY DEF Split
  <2>2. CellsOf(t)[1] = [frame |-> Head(t), off |-> 0, swapped |-> FALSE]
    BY <1>5, <2>1, FirstCell
  <2> QED
    BY <1>3, <1>4, <2>2 DEF Due
<1>6. ASSUME t = <<>> PROVE n = Len(cells)
  <2>1. Len(CellsOf(t)) = 0
    BY <1>6, CellsNone
  <2> QED
    BY <1>3, <1>4, <2>1
<1> QED
  BY <1>5, <1>6 DEF n

LEMMA WholeBegins ==
  ASSUME NEW cells, NEW more, NEW s, NEW t, Split(cells, more, s, t)
  PROVE  \E x \in Seq(Frames) : Serial(cells) = s \o x
<1>1. PICK r : Parted(cells, more, s, t, r)
  BY SplitAt
<1> DEFINE x == Through(r, Skipped).frames
<1>2. x \in Seq(FramesOf(FileCell)) /\ Serial(cells) = s \o x
  BY <1>1 DEF Parted
<1>3. FramesOf(FileCell) \subseteq Frames
  BY DEF FramesOf, FileCell
<1> HIDE DEF x
<1>4. x \in Seq(Frames)
  BY <1>2, <1>3
<1> QED
  BY <1>2, <1>4

(* A frame that is whole is the next.                                       *)
Onwards(cells, more, s, t) ==
  LET h == Head(t)
      on == s \o <<h>>
  IN  /\ Split(cells, more, on, Tail(t)) /\ on \o Tail(t) = s \o t
      /\ Len(CellsOf(on)) = Len(CellsOf(s)) + h.len
      /\ Len(s) < Len(Serial(cells)) /\ Serial(cells)[Len(s) + 1] = h
LEMMA WholeGoesOn ==
  ASSUME NEW cells, NEW more, NEW s, NEW t, Split(cells, more, s, t), t # <<>>,
         Len(CellsOf(s)) + Head(t).len <= Len(cells)
  PROVE  Onwards(cells, more, s, t)
<1> DEFINE h == Head(t)
           u == Tail(t)
           on == s \o <<h>>
<1>1. s \in Seq(Frames) /\ t \in Seq(Frames)
  BY DEF Split
<1>2. h \in Frames /\ u \in Seq(Frames) /\ t = <<h>> \o u
  BY <1>1, FirstCell
<1>3. Len(CellsOf(s)) + h.len <= Len(cells)
  OBVIOUS
<1> HIDE DEF h, u
<1>4. <<h>> \in Seq(Frames) /\ on \in Seq(Frames) /\ on = Append(s, h)
  BY <1>1, <1>2
<1>5. on \o u = s \o t
  <2>1. Assoc(s, <<h>>, u)
    BY <1>1, <1>2, <1>4, ConcatAssoc
  <2> QED
    BY <1>2, <2>1 DEF Assoc
<1>6. CellsOf(on) = CellsOf(s) \o Piece(h)
  BY <1>1, <1>2, <1>4, CellsAre
<1>7. Len(CellsOf(on)) = Len(CellsOf(s)) + h.len
  <2>1. CellsOf(s) \in Seq(FileCell) /\ Piece(h) \in Seq(FileCell) /\ Len(Piece(h)) = h.len
    BY <1>1, <1>2, CellsAre, PieceIs
  <2> QED
    BY <1>6, <2>1, ConcatIs
<1>8. Split(cells, more, on, u)
  BY <1>2, <1>3, <1>4, <1>5, <1>7 DEF Split
<1>9. PICK x \in Seq(Frames) : Serial(cells) = on \o x
  BY <1>8, WholeBegins
<1>10. Len(s) < Len(Serial(cells)) /\ Serial(cells)[Len(s) + 1] = h
  <2>1. Len(on) = Len(s) + 1 /\ on[Len(s) + 1] = h /\ Len(s) \in Nat
    BY <1>1, <1>2, <1>4
  <2> HIDE DEF on
  <2>2. Len(on \o x) = Len(on) + Len(x) /\ Len(x) \in Nat /\ \A i \in 1 .. Len(on) : (on \o x)[i] = on[i]
    BY <1>4, ConcatIs
  <2> QED
    BY <1>9, <2>1, <2>2
<1> QED
  BY <1>5, <1>7, <1>8, <1>10 DEF Onwards, h, u

(* If it is not, there is no more.                                          *)
LEMMA WholeStops ==
  ASSUME NEW cells, NEW more, NEW s, NEW t, Split(cells, more, s, t),
         t # <<>> => Len(CellsOf(s)) + Head(t).len > Len(cells)
  PROVE  Serial(cells) = s
<1>1. PICK r : Parted(cells, more, s, t, r)
  BY SplitAt
<1> DEFINE n == Len(CellsOf(s))
<1>2. s \in Seq(Frames) /\ t \in Seq(Frames) /\ cells \in Seq(FileCell)
  BY DEF Split
<1>3. /\ r \in Seq(FileCell) /\ Len(r) \in Nat /\ n \in Nat /\ Len(cells) = n + Len(r)
      /\ \A i \in 1 .. Len(r) : cells[n + i] = r[i]
  <2>1. CellsOf(s) \in Seq(FileCell) /\ r \in Seq(FileCell) /\ cells = CellsOf(s) \o r
    BY <1>1, <1>2, CellsAre DEF Parted
  <2> QED
    BY <2>1, ConcatIs
<1>4. /\ t # <<>> => Due(cells, n, Head(t)) /\ n + Head(t).len > Len(cells)
      /\ t = <<>> => n = Len(cells)
  BY NextDue
<1>5. t # <<>> => Head(t).len \in Nat \ {0}
  BY <1>2, FirstCell, FramesMade
<1> HIDE DEF n
<1>6. Bytes(r) = Len(r) + 1 /\ Header = 1
  BY <1>3, Size
<1>7. ~FrameAt(r, Header, Bytes(r))
  <2>1. CASE Len(r) = 0
    BY <1>6, <2>1 DEF FrameAt
  <2>2. CASE Len(r) # 0
    <3>1. n < Len(cells) /\ t # <<>>
      BY <1>3, <1>4, <2>2
    <3>2. r[1] = [frame |-> Head(t), off |-> 0, swapped |-> FALSE]
      BY <1>3, <1>4, <2>2, <3>1 DEF Due
    <3>3. At(r, Header).frame = Head(t)
      BY <1>6, <3>2 DEF At
    <3>4. Head(t).len > Len(r)
      BY <1>3, <1>4, <1>5, <3>1
    <3> QED
      BY <1>3, <1>5, <1>6, <3>1, <3>3, <3>4 DEF FrameAt
  <2> QED
    BY <2>1, <2>2
<1>8. Through(r, Skipped).frames = <<>>
  <2>1. Header \in Header .. Bytes(r) /\ Bytes(r) \in Header .. Bytes(r)
    BY <1>3, <1>6
  <2> QED
    BY <1>3, <1>7, <2>1, WalkEnd DEF Through
<1>9. s \o <<>> = s
  BY <1>2, ConcatEmpty
<1> QED
  BY <1>1, <1>8, <1>9 DEF Parted

LEMMA PrefixWhole ==
  ASSUME NEW cells, NEW more, NEW s, NEW t, Split(cells, more, s, t)
  PROVE  IsPrefix(s, Serial(cells))
<1>1. PICK x \in Seq(Frames) : Serial(cells) = s \o x
  BY WholeBegins
<1>2. s \in Seq(Frames)
  BY DEF Split
<1>3. /\ s \o x \in Seq(Frames) /\ Len(s) \in Nat /\ Len(x) \in Nat /\ Len(s \o x) = Len(s) + Len(x)
      /\ \A i \in 1 .. Len(s) : (s \o x)[i] = s[i]
  BY <1>2, ConcatIs
<1> DEFINE y == s \o x
<1>4. /\ y \in Seq(Frames) /\ Len(s) \in 0 .. Len(y) /\ \A i \in 1 .. Len(s) : y[i] = s[i]
  BY <1>3
<1> HIDE DEF y
<1>5. SubSeq(s, 1, Len(s)) = SubSeq(y, 1, Len(s))
  BY <1>2, <1>4
<1> QED
  BY <1>1, <1>4, <1>5 DEF IsPrefix, y

-----------------------------------------------------------------------------
(* The window: what is in it keeps its type.                                *)

Env == file \in Seq(FileCell) /\ foreign \in BOOLEAN
Holds(r, n) == Sane(r) /\ Avail(r) >= n

LEMMA SaneIs ==
  ASSUME NEW r, Sane(r)
  PROVE  /\ r \in Readers /\ r.buf \in Seq(AnyCell) /\ r.pos \in Nat /\ r.off \in Nat
         /\ r.end_time \in Nat /\ Len(r.buf) \in Nat /\ r.pos <= Len(r.buf)
         /\ Len(r.buf) <= BufSz /\ r.off <= Len(file)
         /\ Avail(r) = Len(r.buf) - r.pos /\ Avail(r) \in Nat /\ BufSz \in Nat \ {0}
<1>1. /\ r \in Readers /\ r.buf \in Seq(AnyCell) /\ r.off \in Nat /\ r.end_time \in Nat
      /\ r.pos \in 0 .. Len(r.buf)
  BY DEF Sane, Readers
<1>2. Len(r.buf) \in Nat
  BY <1>1
<1> QED
  BY <1>1, <1>2, ReaderAssumption DEF Sane, Avail

LEMMA FileIs ==
  ASSUME Env
  PROVE  file \in Seq(FileCell) /\ file \in Seq(AnyCell) /\ Len(file) \in Nat
<1>1. FileCell \subseteq AnyCell
  BY DEF FileCell, AnyCell
<1>2. file \in Seq(FileCell)
  BY DEF Env
<1> QED
  BY <1>1, <1>2

(* What is read behind what is kept.                                        *)
Refill(r, kept, part, upto) ==
  /\ kept = SubSeq(r.buf, r.pos + 1, Len(r.buf)) /\ part = SubSeq(file, r.off + 1, upto)
  /\ kept \in Seq(AnyCell) /\ part \in Seq(AnyCell)
  /\ upto \in Nat /\ r.off <= upto /\ upto <= Len(file)
  /\ Len(kept) = Avail(r) /\ Len(part) = upto - r.off /\ Len(kept) + Len(part) <= BufSz
  /\ Len(kept) + Len(part) = BufSz \/ upto = Len(file)
LEMMA Refills ==
  ASSUME NEW r, NEW len \in Nat, Env, Sane(r), Avail(r) < len
  PROVE  \E kept, part, upto :
           /\ Refill(r, kept, part, upto)
           /\ EnsureSpaceFor(r, len) = [r EXCEPT !.buf = kept \o part, !.pos = 0, !.off = upto]
<1> DEFINE kept == SubSeq(r.buf, r.pos + 1, Len(r.buf))
           room == BufSz - Len(kept)
           upto == IF r.off + room < Len(file) THEN r.off + room ELSE Len(file)
           part == SubSeq(file, r.off + 1, upto)
<1>1. /\ r.buf \in Seq(AnyCell) /\ r.pos \in Nat /\ r.off \in Nat /\ Len(r.buf) \in Nat
      /\ r.pos <= Len(r.buf) /\ Len(r.buf) <= BufSz /\ r.off <= Len(file)
      /\ Avail(r) = Len(r.buf) - r.pos /\ BufSz \in Nat
  BY SaneIs
<1>2. file \in Seq(AnyCell) /\ Len(file) \in Nat
  BY FileIs
<1>3. kept \in Seq(AnyCell) /\ Len(kept) = Avail(r) /\ Len(kept) \in Nat /\ Len(kept) <= BufSz
  <2>1. kept \in Seq(AnyCell)
    BY <1>1
  <2>2. Len(kept) = Len(r.buf) - r.pos
    BY <1>1, SMTT(30)
  <2> HIDE DEF kept
  <2> QED
    BY <1>1, <2>1, <2>2
<1>4. EnsureSpaceFor(r, len) = [r EXCEPT !.buf = kept \o part, !.pos = 0, !.off = upto]
  <2>1. ~(Avail(r) >= len)
    BY <1>1
  <2> QED
    BY <2>1, Zenon DEF EnsureSpaceFor
<1> HIDE DEF kept
<1>5. /\ upto \in Nat /\ r.off <= upto /\ upto <= Len(file) /\ upto - r.off <= room
      /\ upto - r.off = room \/ upto = Len(file)
  <2>1. room \in Nat /\ room = BufSz - Len(kept)
    BY <1>1, <1>3
  <2> HIDE DEF room
  <2>2. CASE r.off + room < Len(file)
    BY <1>1, <1>2, <2>1, <2>2
  <2>3. CASE ~(r.off + room < Len(file))
    BY <1>1, <1>2, <2>1, <2>3
  <2> QED
    BY <2>2, <2>3
<1>6. room = BufSz - Len(kept)
  OBVIOUS
<1> HIDE DEF upto, room
<1>7. part \in Seq(AnyCell) /\ Len(part) = upto - r.off
  BY <1>1, <1>2, <1>5
<1> HIDE DEF part
<1>8. /\ Len(kept) + Len(part) <= BufSz
      /\ Len(kept) + Len(part) = BufSz \/ upto = Len(file)
  BY <1>1, <1>3, <1>5, <1>6, <1>7
<1>9. Refill(r, kept, part, upto)
  BY <1>3, <1>5, <1>7, <1>8 DEF Refill, kept, part
<1> QED
  BY <1>4, <1>9

LEMMA EnsureSane ==
  ASSUME NEW r, NEW len \in Nat, Env, Sane(r)
  PROVE  Sane(EnsureSpaceFor(r, len)) /\ Avail(EnsureSpaceFor(r, len)) \in Nat
<1>1. CASE Avail(r) >= len
  BY <1>1, SaneIs DEF EnsureSpaceFor
<1>2. CASE ~(Avail(r) >= len)
  <2>1. Avail(r) < len
    BY <1>2, SaneIs
  <2>2. PICK kept, part, upto :
          /\ Refill(r, kept, part, upto)
          /\ EnsureSpaceFor(r, len) = [r EXCEPT !.buf = kept \o part, !.pos = 0, !.off = upto]
    BY <2>1, Refills
  <2> DEFINE b == kept \o part
             a == [r EXCEPT !.buf = b, !.pos = 0, !.off = upto]
  <2>3. /\ kept \in Seq(AnyCell) /\ part \in Seq(AnyCell) /\ upto \in Nat /\ upto <= Len(file)
        /\ Len(kept) + Len(part) <= BufSz
    BY <2>2 DEF Refill
  <2>4. b \in Seq(AnyCell) /\ Len(b) = Len(kept) + Len(part) /\ Len(b) \in Nat
    BY <2>3, ConcatIs
  <2> HIDE DEF b
  <2>5. r \in Readers
    BY SaneIs
  <2>6. a \in Readers /\ a.buf = b /\ a.pos = 0 /\ a.off = upto
    <3>1. b \in Seq(AnyCell) /\ upto \in Nat /\ 0 \in Int
      BY <2>3, <2>4
    <3> QED
      BY <2>5, <3>1 DEF Readers
  <2>7. EnsureSpaceFor(r, len) = a
    BY <2>2 DEF b
  <2> HIDE DEF a
  <2>8. Sane(a)
    <3>1. a.pos \in 0 .. Len(a.buf) /\ Len(a.buf) <= BufSz
      BY <2>3, <2>4, <2>6
    <3> QED
      BY <2>3, <2>6, <3>1 DEF Sane
  <2>9. Avail(a) \in Nat
    BY <2>8, SaneIs
  <2> QED
    BY <2>7, <2>8, <2>9
<1> QED
  BY <1>1, <1>2

LEMMA ExchangeNat ==
  ASSUME NEW n \in Nat
  PROVE  Exchange(n) \in Nat
<1>1. Base \in Nat \ {0}
  BY ReaderAssumption
<1>2. n % Base \in Nat /\ n \div Base \in Nat
  BY <1>1
<1> QED
  BY <1>1, <1>2 DEF Exchange

LEMMA HereType ==
  ASSUME NEW r, Holds(r, 1)
  PROVE  /\ Here(r) \in AnyCell /\ Here(r).frame \in Frames /\ Here(r).off \in Nat
         /\ Here(r).swapped \in BOOLEAN /\ LenHere(r) \in Nat
         /\ KindHere(r) \in {f.kind : f \in Frames} \cup {"none"}
         /\ KindHere(r) # "none" => Here(r).off = 0 /\ KindHere(r) = Here(r).frame.kind
<1>1. r.buf \in Seq(AnyCell) /\ r.pos \in Nat /\ r.pos + 1 \in 1 .. Len(r.buf)
  BY SaneIs DEF Holds
<1>2. Here(r) \in AnyCell
  BY <1>1 DEF Here
<1>3. Here(r).frame \in Frames /\ Here(r).off \in Nat /\ Here(r).swapped \in BOOLEAN
  BY <1>2 DEF AnyCell
<1>4. Here(r).frame.len \in Nat
  BY <1>3, FramesMade
<1>5. Exchange(Here(r).frame.len) \in Nat
  BY <1>4, ExchangeNat
<1> QED
  BY <1>2, <1>3, <1>4, <1>5 DEF LenHere, KindHere

(* Swapping a header leaves the rest as it is.                              *)
Swapped(r, h) ==
  LET c == Here(r)
  IN  /\ h \in Readers /\ h.pos = r.pos /\ h.off = r.off /\ h.end_time = r.end_time
      /\ Len(h.buf) = Len(r.buf)
      /\ h.buf[r.pos + 1] = [c EXCEPT !.swapped = IF foreign THEN ~c.swapped ELSE c.swapped]
      /\ \A j \in 1 .. Len(r.buf) : j # r.pos + 1 => h.buf[j] = r.buf[j]
LEMMA BswapIs ==
  ASSUME NEW r, Env, Holds(r, 1)
  PROVE  Swapped(r, BswapFrame(r))
<1> DEFINE i == r.pos + 1
           c == r.buf[i]
           d == [c EXCEPT !.swapped = IF foreign THEN ~c.swapped ELSE c.swapped]
           b == [r.buf EXCEPT ![i] = d]
           h == [r EXCEPT !.buf = b]
<1>1. /\ r \in Readers /\ r.buf \in Seq(AnyCell) /\ r.pos \in Nat /\ i \in 1 .. Len(r.buf)
      /\ Len(r.buf) \in Nat
  BY SaneIs DEF Holds
<1>2. c \in AnyCell
  BY <1>1
<1>3. d \in AnyCell
  BY <1>2 DEF AnyCell, Env
<1>4. BswapFrame(r) = h
  BY DEF BswapFrame
<1>5. c = Here(r)
  BY DEF Here
<1> HIDE DEF d
<1>6. b \in Seq(AnyCell) /\ Len(b) = Len(r.buf) /\ b[i] = d /\ \A j \in 1 .. Len(r.buf) : j # i => b[j] = r.buf[j]
  BY <1>1, <1>3
<1> HIDE DEF b
<1>7. h \in Readers /\ h.buf = b /\ h.pos = r.pos /\ h.off = r.off /\ h.end_time = r.end_time
  BY <1>1, <1>6 DEF Readers
<1> HIDE DEF h, c
<1> QED
  BY <1>4, <1>5, <1>6, <1>7 DEF Swapped, d

LEMMA BswapSane ==
  ASSUME NEW r, Env, Holds(r, 1)
  PROVE  /\ Sane(BswapFrame(r)) /\ Avail(BswapFrame(r)) = Avail(r)
         /\ Holds(BswapFrame(r), 1) /\ BswapFrame(r).pos = r.pos
         /\ Here(BswapFrame(r)).frame = Here(r).frame /\ Here(BswapFrame(r)).off = Here(r).off
         /\ KindHere(BswapFrame(r)) = KindHere(r)
<1> DEFINE h == BswapFrame(r)
<1>1. Swapped(r, h)
  BY BswapIs
<1> HIDE DEF h
<1>2. Here(r) \in AnyCell /\ Sane(r) /\ Avail(r) >= 1
  BY HereType DEF Holds
<1>3. Here(h).frame = Here(r).frame /\ Here(h).off = Here(r).off
  BY <1>1, <1>2 DEF Swapped, Here, AnyCell
<1>4. Sane(h) /\ Avail(h) = Avail(r) /\ h.pos = r.pos
  BY <1>1, <1>2 DEF Swapped, Sane, Avail
<1> QED
  BY <1>2, <1>3, <1>4 DEF Holds, KindHere, h

LEMMA RaiseSane ==
  ASSUME NEW r, NEW time \in Nat, Sane(r)
  PROVE  /\ Sane(Raise(r, time)) /\ Avail(Raise(r, time)) = Avail(r)
         /\ Raise(r, time).buf = r.buf /\ Raise(r, time).pos = r.pos /\ Raise(r, time).off = r.off
<1>1. r \in Readers
  BY SaneIs
<1> DEFINE a == Raise(r, time)
<1>2. a \in Readers /\ a.buf = r.buf /\ a.pos = r.pos /\ a.off = r.off
  BY <1>1 DEF Raise, Readers
<1> HIDE DEF a
<1>3. Sane(a) /\ Avail(a) = Avail(r)
  BY <1>2 DEF Sane, Avail
<1> QED
  BY <1>2, <1>3 DEF a

(* Making room keeps what was not read, and reads on behind it.             *)
Filled(r, len, a) ==
  /\ Sane(a) /\ a.off - Avail(a) = r.off - Avail(r) /\ Avail(r) <= Avail(a)
  /\ \A i \in 1 .. Avail(r) : a.buf[a.pos + i] = r.buf[r.pos + i]
  /\ \A i \in 1 .. Avail(a) - Avail(r) : a.buf[a.pos + Avail(r) + i] = file[r.off + i]
  /\ Avail(a) < len => len > BufSz \/ a.off = Len(file)
LEMMA EnsureFills ==
  ASSUME NEW r, NEW len \in Nat, Env, Sane(r)
  PROVE  Filled(r, len, EnsureSpaceFor(r, len))
<1> DEFINE a == EnsureSpaceFor(r, len)
<1>s. Sane(a) /\ Avail(a) \in Nat /\ Avail(r) \in Nat /\ r.off \in Nat
  BY EnsureSane, SaneIs
<1>1. CASE Avail(r) >= len
  <2>1. a = r
    BY <1>1 DEF EnsureSpaceFor
  <2> HIDE DEF a
  <2> QED
    BY <1>s, <1>1, <2>1 DEF Filled, a
<1>2. CASE ~(Avail(r) >= len)
  <2>1. Avail(r) < len
    BY <1>2, SaneIs
  <2>2. PICK kept, part, upto :
          /\ Refill(r, kept, part, upto)
          /\ a = [r EXCEPT !.buf = kept \o part, !.pos = 0, !.off = upto]
    BY <2>1, Refills
  <2> HIDE DEF a
  <2> DEFINE b == kept \o part
             k == Avail(r)
  <2>3. r \in Readers
    BY SaneIs
  <2>4. a.buf = b /\ a.pos = 0 /\ a.off = upto
    BY <2>2, <2>3 DEF Readers
  <2>5. /\ kept \in Seq(AnyCell) /\ part \in Seq(AnyCell) /\ upto \in Nat /\ r.off <= upto
        /\ Len(kept) = k /\ Len(part) = upto - r.off
        /\ Len(kept) + Len(part) = BufSz \/ upto = Len(file)
    BY <2>2 DEF Refill
  <2>6. /\ Len(b) = Len(kept) + Len(part) /\ Len(kept) \in Nat /\ Len(part) \in Nat
        /\ \A i \in 1 .. Len(kept) : b[i] = kept[i]
        /\ \A i \in 1 .. Len(part) : b[Len(kept) + i] = part[i]
    <3>1. kept \in Seq(AnyCell) /\ part \in Seq(AnyCell)
      BY <2>5
    <3> QED
      BY <3>1, ConcatIs
  <2> HIDE DEF b
  <2>7. Avail(a) = k + (upto - r.off) /\ k \in Nat
    BY <1>s, <2>4, <2>5, <2>6 DEF Avail
  <2>8. \A i \in 1 .. k : kept[i] = r.buf[r.pos + i]
    <3>1. /\ r.buf \in Seq(AnyCell) /\ r.pos \in Nat /\ Len(r.buf) \in Nat /\ r.pos <= Len(r.buf)
          /\ k = Len(r.buf) - r.pos
      BY SaneIs
    <3>2. \A i \in 1 .. k : SubSeq(r.buf, r.pos + 1, Len(r.buf))[i] = r.buf[r.pos + i]
      BY <3>1
    <3>3. kept = SubSeq(r.buf, r.pos + 1, Len(r.buf))
      BY <2>2 DEF Refill
    <3> QED
      BY <3>2, <3>3, Zenon
  <2>9. \A i \in 1 .. upto - r.off : part[i] = file[r.off + i]
    <3>1. file \in Seq(AnyCell) /\ upto <= Len(file) /\ Len(file) \in Nat /\ upto \in Nat /\ r.off <= upto
      BY <2>2, FileIs DEF Refill
    <3>2. \A i \in 1 .. upto - r.off : SubSeq(file, r.off + 1, upto)[i] = file[r.off + i]
      BY <1>s, <3>1
    <3>3. part = SubSeq(file, r.off + 1, upto)
      BY <2>2 DEF Refill
    <3> QED
      BY <3>2, <3>3, Zenon
  <2> HIDE DEF k
  <2>10. \A i \in 1 .. k : a.buf[a.pos + i] = r.buf[r.pos + i]
    <3> TAKE i \in 1 .. k
    <3>1. a.pos + i = i
      BY <2>4
    <3> QED
      BY <2>4, <2>5, <2>6, <2>8, <3>1
  <2>11. \A i \in 1 .. upto - r.off : a.buf[a.pos + k + i] = file[r.off + i]
    <3> TAKE i \in 1 .. upto - r.off
    <3>1. a.pos + k + i = Len(kept) + i /\ i \in 1 .. Len(part)
      <4>1. i \in Nat /\ k \in Nat
        BY <2>7
      <4> QED
        BY <2>4, <2>5, <4>1
    <3>2. b[Len(kept) + i] = part[i]
      BY <2>6, <3>1
    <3> QED
      BY <2>4, <2>9, <3>1, <3>2, Zenon
  <2>12. Avail(a) < len => len > BufSz \/ a.off = Len(file)
    <3>1. BufSz \in Nat
      BY ReaderAssumption
    <3> QED
      BY <1>s, <2>4, <2>5, <2>7, <3>1
  <2>13. a.off - Avail(a) = r.off - k /\ k <= Avail(a) /\ Avail(a) - k = upto - r.off
    <3>1. upto \in Nat /\ r.off \in Nat /\ r.off <= upto /\ a.off = upto
      BY <1>s, <2>4, <2>5
    <3> QED
      BY <2>7, <3>1
  <2>14. \A i \in 1 .. Avail(a) - k : a.buf[a.pos + k + i] = file[r.off + i]
    BY <2>11, <2>13, Zenon
  <2> QED
    BY <1>s, <2>10, <2>12, <2>13, <2>14 DEF Filled, k, a
<1> QED
  BY <1>1, <1>2

LEMMA EnsureHolds ==
  ASSUME NEW r, NEW len \in Nat, Env, Holds(r, 1)
  PROVE  /\ Holds(EnsureSpaceFor(r, len), 1) /\ Here(EnsureSpaceFor(r, len)) = Here(r)
         /\ LenHere(EnsureSpaceFor(r, len)) = LenHere(r)
<1> DEFINE a == EnsureSpaceFor(r, len)
<1>1. Filled(r, len, a) /\ Sane(r) /\ Avail(r) >= 1
  BY EnsureFills DEF Holds
<1> HIDE DEF a
<1>2. Avail(r) \in Nat /\ Avail(a) \in Nat /\ Sane(a)
  BY <1>1, SaneIs DEF Filled
<1>3. Avail(r) <= Avail(a) /\ a.buf[a.pos + 1] = r.buf[r.pos + 1]
  BY <1>1, <1>2 DEF Filled
<1>4. Holds(a, 1) /\ Here(a) = Here(r)
  BY <1>1, <1>2, <1>3 DEF Holds, Here
<1>5. LenHere(a) = LenHere(r)
  BY <1>4 DEF LenHere, Legible
<1> QED
  BY <1>4, <1>5 DEF a

-----------------------------------------------------------------------------
(* The same of the functions that read.                                     *)

DoneSane(done) ==
  Sane(done.r) /\ (done.frame = <<>> \/ \E f \in Frames : done.frame = <<f>>)

LEMMA FailSane ==
  ASSUME NEW r, Sane(r)
  PROVE  DoneSane(Fail(r))
BY DEF DoneSane, Fail

LEMMA TakeSane ==
  ASSUME NEW r, NEW len \in Nat \ {0}, Sane(r), Holds(r, 1) => len = LenHere(r)
  PROVE  DoneSane(TakeWhole(r, len)) /\ TakeWhole(r, len).frame \in {<<>>, <<Here(r).frame>>}
<1>1. CASE Avail(r) < len
  BY <1>1, FailSane DEF TakeWhole, Fail
<1>2. CASE ~(Avail(r) < len)
  <2>1. /\ r \in Readers /\ r.pos \in Nat /\ Len(r.buf) \in Nat /\ Avail(r) = Len(r.buf) - r.pos
        /\ Len(r.buf) <= BufSz /\ r.off <= Len(file)
    BY SaneIs
  <2>2. Holds(r, 1)
    BY <1>2, <2>1 DEF Holds
  <2>3. Here(r).frame \in Frames /\ LenHere(r) = len
    BY <2>2, HereType
  <2> DEFINE a == [r EXCEPT !.pos = @ + LenHere(r)]
  <2>4. a = [r EXCEPT !.pos = r.pos + len]
    BY <2>3
  <2> HIDE DEF a
  <2>5. a \in Readers /\ a.buf = r.buf /\ a.pos = r.pos + len /\ a.off = r.off
    BY <2>1, <2>4 DEF Readers
  <2>6. Sane(a)
    BY <1>2, <2>1, <2>5 DEF Sane
  <2>7. TakeWhole(r, len) = [r |-> a, frame |-> <<Here(r).frame>>]
    BY <1>2 DEF TakeWhole, Advance, a
  <2> QED
    BY <2>3, <2>6, <2>7 DEF DoneSane
<1> QED
  BY <1>1, <1>2

LEMMA RoomSane ==
  ASSUME NEW r, Env, Holds(r, 1), LenHere(r) >= 1
  PROVE  DoneSane(MakeRoom(r)) /\ MakeRoom(r).frame \in {<<>>, <<Here(r).frame>>}
<1> DEFINE len == LenHere(r)
           a == EnsureSpaceFor(r, len)
<1>1. len \in Nat \ {0}
  BY HereType
<1>2. Holds(a, 1) /\ LenHere(a) = len /\ Sane(a) /\ Here(a) = Here(r)
  <2>1. LenHere(r) \in Nat
    BY <1>1
  <2> QED
    BY <2>1, EnsureHolds DEF Holds
<1>3. MakeRoom(r) = TakeWhole(a, len)
  BY DEF MakeRoom
<1> HIDE DEF a, len
<1> QED
  BY <1>1, <1>2, <1>3, TakeSane

LEMMA MinLenIs ==
  ASSUME NEW kind
  PROVE  MinLen(kind) \in {1, 2} /\ MinLen(kind) \in Nat \ {0}
BY DEF MinLen

(* The window that a read function begins with.                             *)
LEMMA LookSane ==
  ASSUME NEW r, NEW len \in Nat \ {0}, Env, Sane(r)
  PROVE  /\ Sane(EnsureSpaceFor(r, len)) /\ DoneSane(Fail(EnsureSpaceFor(r, len)))
         /\ ~(Avail(EnsureSpaceFor(r, len)) < len) =>
              /\ Holds(EnsureSpaceFor(r, len), 1)
              /\ Holds(BswapFrame(EnsureSpaceFor(r, len)), 1)
<1> DEFINE a == EnsureSpaceFor(r, len)
<1>1. Sane(a) /\ Avail(a) \in Nat
  BY EnsureSane
<1> HIDE DEF a
<1>2. DoneSane(Fail(a))
  BY <1>1, FailSane
<1>3. ASSUME ~(Avail(a) < len) PROVE Holds(a, 1) /\ Holds(BswapFrame(a), 1)
  <2>1. Holds(a, 1)
    BY <1>1, <1>3 DEF Holds
  <2> QED
    BY <2>1, BswapSane
<1> QED
  BY <1>1, <1>2, <1>3 DEF a

LEMMA SkipSane ==
  ASSUME NEW r, Env, Sane(r)
  PROVE  DoneSane(Skip(r))
<1> DEFINE a == EnsureSpaceFor(r, 1)
           h == BswapFrame(a)
<1>1. 1 \in Nat \ {0}
  OBVIOUS
<1>2. DoneSane(Fail(a)) /\ (~(Avail(a) < 1) => Holds(h, 1))
  BY <1>1, LookSane
<1>3. Skip(r) = IF Avail(a) < 1 THEN Fail(a) ELSE IF LenHere(h) < 1 THEN Fail(h) ELSE MakeRoom(h)
  BY DEF Skip
<1> HIDE DEF a, h
<1>4. CASE Avail(a) < 1
  BY <1>2, <1>3, <1>4
<1>5. CASE ~(Avail(a) < 1) /\ LenHere(h) < 1
  BY <1>2, <1>3, <1>5, FailSane DEF Holds
<1>6. CASE ~(Avail(a) < 1) /\ ~(LenHere(h) < 1)
  <2>1. Holds(h, 1) /\ LenHere(h) >= 1
    BY <1>2, <1>6, HereType
  <2> QED
    BY <1>3, <1>6, <2>1, RoomSane
<1> QED
  BY <1>4, <1>5, <1>6

OfKind(done, kind) == done.frame # <<>> => done.frame[1].kind = kind
LEMMA TypedSane ==
  ASSUME NEW r, NEW kind, Env, Holds(r, 1)
  PROVE  DoneSane(Typed(r, kind)) /\ (kind # "none" => OfKind(Typed(r, kind), kind))
<1>1. CASE KindHere(r) # kind \/ LenHere(r) < MinLen(kind)
  BY <1>1, FailSane DEF Typed, Holds, OfKind, Fail
<1>2. CASE ~(KindHere(r) # kind \/ LenHere(r) < MinLen(kind))
  <2>1. LenHere(r) >= 1
    BY <1>2, HereType, MinLenIs
  <2>2. Typed(r, kind) = MakeRoom(r)
    BY <1>2 DEF Typed
  <2>3. DoneSane(MakeRoom(r)) /\ MakeRoom(r).frame \in {<<>>, <<Here(r).frame>>}
    BY <2>1, RoomSane
  <2>4. kind # "none" => Here(r).frame.kind = kind
    BY <1>2, HereType
  <2> QED
    BY <2>2, <2>3, <2>4 DEF OfKind
<1> QED
  BY <1>1, <1>2

LEMMA StructSane ==
  ASSUME NEW r, NEW kind, Env, Sane(r)
  PROVE  /\ DoneSane(ReadStruct(r, kind)) /\ DoneSane(ReadCounters(r, kind))
         /\ kind # "none" => OfKind(ReadStruct(r, kind), kind)
<1> DEFINE a == EnsureSpaceFor(r, MinLen(kind))
<1>1. MinLen(kind) \in Nat \ {0}
  BY MinLenIs
<1>2. /\ DoneSane(Fail(a)) /\ OfKind(Fail(a), kind)
      /\ ~(Avail(a) < MinLen(kind)) => Holds(a, 1) /\ Holds(BswapFrame(a), 1)
  BY <1>1, LookSane DEF OfKind, Fail
<1>3. /\ ReadStruct(r, kind) =
           IF Avail(a) < MinLen(kind) THEN Fail(a) ELSE Typed(BswapFrame(a), kind)
      /\ ReadCounters(r, kind) = IF Avail(a) < MinLen(kind) THEN Fail(a) ELSE Typed(a, kind)
  BY DEF ReadStruct, ReadCounters
<1> HIDE DEF a
<1>4. CASE Avail(a) < MinLen(kind)
  BY <1>2, <1>3, <1>4
<1>5. CASE ~(Avail(a) < MinLen(kind))
  BY <1>2, <1>3, <1>5, TypedSane
<1> QED
  BY <1>4, <1>5

LEMMA BasicSane ==
  ASSUME NEW r, NEW kind, Env, Sane(r)
  PROVE  DoneSane(ReadBasic(r, kind))
<1> DEFINE a == EnsureSpaceFor(r, MinLen(kind))
           h == BswapFrame(a)
<1>1. MinLen(kind) \in Nat \ {0}
  BY MinLenIs
<1>2. DoneSane(Fail(a)) /\ (~(Avail(a) < MinLen(kind)) => Holds(h, 1))
  BY <1>1, LookSane
<1>3. ReadBasic(r, kind) =
        IF Avail(a) < MinLen(kind) THEN Fail(a)
        ELSE IF LenHere(h) < MinLen(kind) \/ KindHere(h) # kind THEN Fail(h)
        ELSE TakeWhole(h, LenHere(h))
  BY DEF ReadBasic
<1> HIDE DEF a, h
<1>4. CASE Avail(a) < MinLen(kind)
  BY <1>2, <1>3, <1>4
<1>5. CASE /\ ~(Avail(a) < MinLen(kind))
           /\ LenHere(h) < MinLen(kind) \/ KindHere(h) # kind
  BY <1>2, <1>3, <1>5, FailSane DEF Holds
<1>6. CASE /\ ~(Avail(a) < MinLen(kind))
           /\ ~(LenHere(h) < MinLen(kind) \/ KindHere(h) # kind)
  <2>1. Holds(h, 1) /\ Sane(h)
    BY <1>2, <1>6 DEF Holds
  <2>2. LenHere(h) \in Nat \ {0}
    BY <1>1, <1>6, <2>1, HereType
  <2>3. DoneSane(TakeWhole(h, LenHere(h)))
    BY <2>1, <2>2, TakeSane
  <2> QED
    BY <1>3, <1>6, <2>3
<1> QED
  BY <1>4, <1>5, <1>6

(* A peek looks at what is there without moving.                            *)
Peeks(r, peek) ==
  LET a == EnsureSpaceFor(r, 1)
  IN  /\ Sane(peek.r) /\ Avail(peek.r) = Avail(a)
      /\ peek.r.buf = a.buf /\ peek.r.pos = a.pos /\ peek.r.off = a.off
      /\ Avail(a) < 1 => peek.kind = "none"
      /\ ~(Avail(a) < 1) => /\ Holds(a, 1) /\ Holds(peek.r, 1)
                            /\ peek.kind = KindHere(a) /\ peek.len = LenHere(BswapFrame(a))
LEMMA PeekIs ==
  ASSUME NEW r, Env, Sane(r)
  PROVE  Peeks(r, PeekFrame(r))
<1> DEFINE a == EnsureSpaceFor(r, 1)
           h == BswapFrame(a)
           time == IF Legible(h) THEN Here(h).frame.time ELSE Exchange(Here(h).frame.time)
           kind == KindHere(h)
           len == LenHere(h)
           x == IF Here(a).off = 0 THEN Raise(a, time) ELSE a
<1>1. 1 \in Nat \ {0}
  OBVIOUS
<1>2. Sane(a) /\ (~(Avail(a) < 1) => Holds(a, 1) /\ Holds(h, 1))
  BY <1>1, LookSane
<1>3. PeekFrame(r) = IF Avail(a) < 1 THEN [r |-> a, kind |-> "none", len |-> 0]
                     ELSE [r |-> x, kind |-> kind, len |-> len]
  BY DEF PeekFrame
<1>4. CASE Avail(a) < 1
  <2> DEFINE peek == [r |-> a, kind |-> "none", len |-> 0]
  <2>1. PeekFrame(r) = peek
    BY <1>3, <1>4
  <2>2. peek.r = a /\ peek.kind = "none"
    OBVIOUS
  <2> HIDE DEF a, h, peek
  <2> QED
    BY <1>2, <1>4, <2>1, <2>2 DEF Peeks, a
<1>5. CASE ~(Avail(a) < 1)
  <2> DEFINE peek == [r |-> x, kind |-> kind, len |-> len]
  <2>1. PeekFrame(r) = peek /\ peek.r = x /\ peek.kind = kind /\ peek.len = len
    BY <1>3, <1>5
  <2> HIDE DEF peek
  <2>2. Holds(a, 1) /\ Holds(h, 1) /\ Sane(a)
    BY <1>2, <1>5
  <2>3. kind = KindHere(a)
    BY <2>2, BswapSane
  <2>4. time \in Nat
    <3>1. Here(h).frame \in Frames
      BY <2>2, HereType
    <3>2. Here(h).frame.time \in Nat
      BY <3>1, ReaderAssumption
    <3>3. Exchange(Here(h).frame.time) \in Nat
      BY <3>2, ExchangeNat
    <3> QED
      BY <3>2, <3>3
  <2> HIDE DEF a, h, time
  <2>5. /\ Sane(x) /\ Avail(x) = Avail(a) /\ x.buf = a.buf /\ x.pos = a.pos /\ x.off = a.off
    BY <2>2, <2>4, RaiseSane
  <2>6. Holds(x, 1)
    BY <2>2, <2>5 DEF Holds
  <2>7. len = LenHere(h)
    OBVIOUS
  <2> HIDE DEF x, kind, len
  <2> QED
    BY <1>5, <2>1, <2>2, <2>3, <2>5, <2>6, <2>7 DEF Peeks, a, h
<1> QED
  BY <1>4, <1>5

LEMMA PeekKind ==
  ASSUME NEW r, Env, Sane(r)
  PROVE  /\ Sane(PeekFrame(r).r) /\ PeekFrame(r).kind \in {f.kind : f \in Frames} \cup {"none"}
<1>1. Peeks(r, PeekFrame(r))
  BY PeekIs
<1> DEFINE peek == PeekFrame(r)
           a == EnsureSpaceFor(r, 1)
<1> HIDE DEF peek
<1>2. CASE Avail(a) < 1
  BY <1>1, <1>2 DEF Peeks, peek
<1>3. CASE ~(Avail(a) < 1)
  <2>1. Holds(a, 1) /\ peek.kind = KindHere(a) /\ Sane(peek.r)
    BY <1>1, <1>3 DEF Peeks, peek
  <2> HIDE DEF a
  <2> QED
    BY <2>1, HereType DEF peek
<1> QED
  BY <1>2, <1>3

(* The length that a swapped header has is that of the header.              *)
LEMMA BswapLen ==
  ASSUME NEW a, NEW b, Env, Holds(a, 1), Holds(b, 1), Here(a) = Here(b)
  PROVE  LenHere(BswapFrame(a)) = LenHere(BswapFrame(b))
<1>1. Swapped(a, BswapFrame(a)) /\ Swapped(b, BswapFrame(b))
  BY BswapIs
<1> DEFINE x == BswapFrame(a)
           y == BswapFrame(b)
<1> HIDE DEF x, y
<1>2. Here(x) = Here(y)
  BY <1>1 DEF Swapped, Here, x, y
<1>3. LenHere(x) = LenHere(y)
  BY <1>2 DEF LenHere, Legible
<1> QED
  BY <1>3 DEF x, y

(* A memory sample that is not known to be one is not touched.              *)
LEMMA SampleIs ==
  ASSUME NEW r, Env, Sane(r)
  PROVE  \/ /\ PeekFrame(r).kind # "memory_sample" \/ PeekFrame(r).len < 2
            /\ ReadMemorySample(r) = Fail(PeekFrame(r).r)
         \/ \E b : /\ Holds(PeekFrame(r).r, 1) /\ PeekFrame(r).kind = "memory_sample"
                   /\ PeekFrame(r).len \in Nat /\ PeekFrame(r).len >= 2
                   /\ PeekFrame(r).len = LenHere(BswapFrame(PeekFrame(r).r))
                   /\ b = EnsureSpaceFor(PeekFrame(r).r, PeekFrame(r).len) /\ Holds(b, 1)
                   /\ LenHere(BswapFrame(b)) = PeekFrame(r).len
                   /\ Avail(b) < PeekFrame(r).len => ReadMemorySample(r) = Fail(b)
                   /\ ~(Avail(b) < PeekFrame(r).len) =>
                        ReadMemorySample(r) = TakeWhole(BswapFrame(b), PeekFrame(r).len)
<1> DEFINE peek == PeekFrame(r)
           a == EnsureSpaceFor(r, 1)
           b == EnsureSpaceFor(peek.r, peek.len)
<1>1. MinLen("memory_sample") = 2
  BY DEF MinLen, Basic
<1>2. ReadMemorySample(r) =
        IF peek.kind # "memory_sample" \/ peek.len < 2 THEN Fail(peek.r)
        ELSE IF Avail(b) < peek.len THEN Fail(b) ELSE Advance(BswapFrame(b))
  BY <1>1 DEF ReadMemorySample
<1>3. Peeks(r, peek)
  BY PeekIs
<1>4. CASE peek.kind # "memory_sample" \/ peek.len < 2
  BY <1>2, <1>4
<1>5. CASE ~(peek.kind # "memory_sample" \/ peek.len < 2)
  <2> HIDE DEF peek
  <2>1. /\ Holds(a, 1) /\ Holds(peek.r, 1) /\ peek.len = LenHere(BswapFrame(a))
        /\ peek.r.buf = a.buf /\ peek.r.pos = a.pos
    BY <1>3, <1>5 DEF Peeks
  <2>2. Holds(BswapFrame(a), 1) /\ Here(a) = Here(peek.r)
    BY <2>1, BswapSane DEF Here
  <2>3. peek.len \in Nat /\ peek.len >= 2
    BY <1>5, <2>1, <2>2, HereType
  <2>4. Holds(b, 1) /\ Here(b) = Here(peek.r)
    BY <2>1, <2>3, EnsureHolds
  <2> HIDE DEF a, b
  <2>5. LenHere(BswapFrame(b)) = peek.len /\ LenHere(BswapFrame(peek.r)) = peek.len
    BY <2>1, <2>2, <2>4, BswapLen
  <2>6. Avail(BswapFrame(b)) = Avail(b)
    BY <2>4, BswapSane
  <2>7. ~(Avail(b) < peek.len) => ReadMemorySample(r) = TakeWhole(BswapFrame(b), peek.len)
    BY <1>2, <1>5, <2>6 DEF TakeWhole
  <2>8. Avail(b) < peek.len => ReadMemorySample(r) = Fail(b)
    BY <1>2, <1>5
  <2>9. b = EnsureSpaceFor(peek.r, peek.len) /\ peek.kind = "memory_sample"
    BY <1>5 DEF b
  <2> QED
    BY <2>1, <2>3, <2>4, <2>5, <2>7, <2>8, <2>9 DEF peek
<1> QED
  BY <1>4, <1>5

LEMMA SampleSane ==
  ASSUME NEW r, Env, Sane(r)
  PROVE  DoneSane(ReadMemorySample(r))
<1> DEFINE peek == PeekFrame(r)
<1>1. Sane(peek.r)
  BY PeekKind
<1> HIDE DEF peek
<1>2. CASE ReadMemorySample(r) = Fail(peek.r)
  BY <1>1, <1>2, FailSane
<1>3. CASE \E b : /\ peek.len \in Nat /\ peek.len >= 2 /\ Holds(b, 1)
                  /\ LenHere(BswapFrame(b)) = peek.len
                  /\ \/ ReadMemorySample(r) = Fail(b)
                     \/ ReadMemorySample(r) = TakeWhole(BswapFrame(b), peek.len)
  <2>1. PICK b : /\ peek.len \in Nat /\ peek.len >= 2 /\ Holds(b, 1)
                 /\ LenHere(BswapFrame(b)) = peek.len
                 /\ \/ ReadMemorySample(r) = Fail(b)
                    \/ ReadMemorySample(r) = TakeWhole(BswapFrame(b), peek.len)
    BY <1>3
  <2>2. Sane(b) /\ Sane(BswapFrame(b)) /\ peek.len \in Nat \ {0}
    BY <2>1, BswapSane DEF Holds
  <2>3. DoneSane(Fail(b)) /\ DoneSane(TakeWhole(BswapFrame(b), peek.len))
    BY <2>1, <2>2, FailSane, TakeSane
  <2> QED
    BY <2>1, <2>3
<1> QED
  BY <1>2, <1>3, SampleIs DEF peek

LEMMA MarkIs ==
  ASSUME NEW r, Env, Sane(r)
  PROVE  /\ DoneSane(ReadMark(r)) /\ ReadMark(r).frame = ReadStruct(r, "mark").frame
         /\ ReadMark(r).r.buf = ReadStruct(r, "mark").r.buf
         /\ ReadMark(r).r.pos = ReadStruct(r, "mark").r.pos
         /\ ReadMark(r).r.off = ReadStruct(r, "mark").r.off
<1> DEFINE done == ReadStruct(r, "mark")
           end == done.frame[1].time + done.frame[1].dur
           x == Raise(done.r, end)
<1>1. DoneSane(done) /\ OfKind(done, "mark")
  BY StructSane
<1>2. ReadMark(r) = IF done.frame = <<>> THEN done ELSE [done EXCEPT !.r = x]
  BY DEF ReadMark
<1>d. done = [r |-> done.r, frame |-> done.frame]
  <2> DEFINE a == EnsureSpaceFor(r, MinLen("mark"))
             h == BswapFrame(a)
             c == EnsureSpaceFor(h, LenHere(h))
  <2>1. \/ done = Fail(a)
        \/ done = Fail(h)
        \/ done = Fail(c)
        \/ done = Advance(c)
    BY DEF ReadStruct, Typed, MakeRoom, TakeWhole
  <2> HIDE DEF a, h, c, done
  <2> QED
    BY <2>1 DEF Fail, Advance
<1> HIDE DEF done
<1>3. CASE done.frame = <<>>
  BY <1>1, <1>2, <1>3 DEF done
<1>4. CASE done.frame # <<>>
  <2>1. PICK f \in Frames : done.frame = <<f>>
    BY <1>1, <1>4 DEF DoneSane
  <2>2. f.kind = "mark"
    BY <1>1, <2>1 DEF OfKind
  <2>3. f.time \in Nat /\ f.dur \in Nat
    BY <2>2, ReaderAssumption
  <2>4. end \in Nat /\ Sane(done.r)
    BY <1>1, <2>1, <2>3 DEF DoneSane
  <2> HIDE DEF end
  <2>5. Sane(x) /\ x.buf = done.r.buf /\ x.pos = done.r.pos /\ x.off = done.r.off
    BY <2>4, RaiseSane
  <2> HIDE DEF x
  <2>6. [done EXCEPT !.r = x] = [r |-> x, frame |-> done.frame]
    BY <1>d
  <2>7. ReadMark(r).r = x /\ ReadMark(r).frame = done.frame
    BY <1>2, <1>4, <2>6
  <2> QED
    BY <1>1, <2>5, <2>7 DEF DoneSane, done
<1> QED
  BY <1>3, <1>4

(* Where a read fails for good, no more than the shape is left.             *)
DoneLoose(done) ==
  /\ done.r \in Readers /\ (done.frame = <<>> \/ \E f \in Frames : done.frame = <<f>>)
  /\ Sane(done.r) \/ (foreign /\ done.frame = <<>>)

LEMMA Loosely ==
  ASSUME NEW done, DoneSane(done)
  PROVE  DoneLoose(done)
BY SaneIs DEF DoneSane, DoneLoose

LEMMA JitmapLoose ==
  ASSUME NEW r, Env, Sane(r)
  PROVE  DoneLoose(ReadJitmap(r))
<1> DEFINE done == ReadStruct(r, "jitmap")
           back == [done.r EXCEPT !.pos = @ - done.frame[1].len]
<1>1. DoneSane(done)
  BY StructSane
<1>2. ReadJitmap(r) = IF done.frame # <<>> /\ foreign THEN Fail(back) ELSE done
  BY DEF ReadJitmap
<1> HIDE DEF done
<1>3. CASE ~(done.frame # <<>> /\ foreign)
  BY <1>1, <1>2, <1>3, Loosely
<1>4. CASE done.frame # <<>> /\ foreign
  <2>1. PICK f \in Frames : done.frame = <<f>>
    BY <1>1, <1>4 DEF DoneSane
  <2>2. done.r \in Readers /\ f.len \in Nat /\ done.frame[1].len = f.len
    BY <1>1, <2>1, SaneIs, FramesMade DEF DoneSane
  <2>3. back = [done.r EXCEPT !.pos = done.r.pos - f.len]
    BY <2>2
  <2> HIDE DEF back
  <2>4. back \in Readers
    BY <2>2, <2>3 DEF Readers
  <2> QED
    BY <1>2, <1>4, <2>4 DEF DoneLoose, Fail
<1> QED
  BY <1>3, <1>4

(* What each type is read by.                                               *)
LEMMA ReadsAs ==
  ASSUME NEW r, NEW kind
  PROVE  /\ kind \in Basic => ReadAs(r, kind) = ReadBasic(r, kind)
         /\ kind = "mark" => ReadAs(r, kind) = ReadMark(r)
         /\ kind = "jitmap" => ReadAs(r, kind) = ReadJitmap(r)
         /\ kind \in Counters => ReadAs(r, kind) = ReadCounters(r, kind)
         /\ kind = "memory_sample" => ReadAs(r, kind) = ReadMemorySample(r)
         /\ kind \notin Basic \cup Counters \cup {"mark", "jitmap", "memory_sample"} =>
              ReadAs(r, kind) = ReadStruct(r, kind)
BY DEF ReadAs, Basic, Counters

LEMMA ReadLoose ==
  ASSUME NEW r, NEW kind, Env, Sane(r)
  PROVE  DoneLoose(ReadAs(r, kind))
<1>1. /\ DoneLoose(ReadBasic(r, kind)) /\ DoneLoose(ReadMark(r)) /\ DoneLoose(ReadCounters(r, kind))
      /\ DoneLoose(ReadMemorySample(r)) /\ DoneLoose(ReadStruct(r, kind))
  BY BasicSane, MarkIs, StructSane, SampleSane, Loosely
<1>2. DoneLoose(ReadJitmap(r))
  BY JitmapLoose
<1> QED
  BY <1>1, <1>2, ReadsAs, Zenon

-----------------------------------------------------------------------------
(* The end time.                                                            *)

Turns == [r : {r \in Readers : Sane(r)}, more : BOOLEAN]

LEMMA TurnType ==
  ASSUME NEW turn \in Turns, Env
  PROVE  EndTimeTurn(turn) \in Turns
<1> DEFINE peek == PeekFrame(turn.r)
           from == IF peek.kind = "mark" THEN ReadMark(peek.r).r ELSE peek.r
           next == Skip(from)
<1>1. Sane(turn.r) /\ turn.r \in Readers
  BY DEF Turns
<1>2. Sane(peek.r)
  BY <1>1, PeekKind
<1>3. EndTimeTurn(turn) = IF ~turn.more THEN turn
                          ELSE IF peek.kind = "none" THEN [r |-> peek.r, more |-> FALSE]
                          ELSE [r |-> next.r, more |-> next.frame # <<>>]
  BY DEF EndTimeTurn
<1> HIDE DEF peek
<1>4. Sane(ReadMark(peek.r).r)
  BY <1>2, MarkIs DEF DoneSane
<1>5. Sane(from)
  BY <1>2, <1>4
<1> HIDE DEF from
<1>6. Sane(next.r)
  BY <1>5, SkipSane DEF DoneSane
<1> HIDE DEF next
<1>7. peek.r \in Readers /\ next.r \in Readers
  BY <1>2, <1>6, SaneIs
<1>8. [r |-> peek.r, more |-> FALSE] \in Turns /\ [r |-> next.r, more |-> next.frame # <<>>] \in Turns
  BY <1>2, <1>6, <1>7 DEF Turns
<1> QED
  BY <1>3, <1>8

LEMMA TurnsExist ==
  ASSUME NEW start \in Turns, NEW last \in Nat, Env
  PROVE  \E turn \in [0 .. last -> Turns] :
           turn = [n \in 0 .. last |-> IF n = 0 THEN start ELSE EndTimeTurn(turn[n - 1])]
<1> DEFINE D == 0 .. last
           Put(g, i) == IF i = 0 THEN start ELSE EndTimeTurn(g[i - 1])
           Right(g, n) == \A i \in D : i <= n => g[i] = Put(g, i)
           S == {n \in Nat : \E g \in [D -> Turns] : Right(g, n)}
<1>2. 0 \in S
  <2> DEFINE g == [i \in D |-> start]
  <2>1. g \in [D -> Turns]
    OBVIOUS
  <2>2. Right(g, 0)
    <3>1. \A i \in D : i <= 0 => i = 0
      OBVIOUS
    <3> QED
      BY <3>1
  <2> QED
    BY <2>1, <2>2
<1>3. ASSUME NEW n \in 0 .. last - 1, n \in S
      PROVE  n + 1 \in S
  <2>1. PICK g \in [D -> Turns] : Right(g, n)
    BY <1>3
  <2> DEFINE m == n + 1
             x == EndTimeTurn(g[n])
             h == [g EXCEPT ![m] = x]
  <2>2. m \in D /\ m \in Nat /\ n \in Nat /\ n \in D /\ m - 1 = n /\ m # 0
    OBVIOUS
  <2>3. x \in Turns
    BY <2>1, <2>2, TurnType
  <2> HIDE DEF x
  <2>4. h \in [D -> Turns] /\ h[m] = x /\ \A i \in D : i # m => h[i] = g[i]
    BY <2>1, <2>2, <2>3
  <2> HIDE DEF h
  <2>5. ASSUME NEW i \in D, i <= m
        PROVE  h[i] = Put(h, i)
    <3>1. CASE i = m
      <4>1. h[n] = g[n]
        BY <2>2, <2>4
      <4>2. Put(h, m) = EndTimeTurn(h[n])
        BY <2>2
      <4> QED
        BY <2>4, <3>1, <4>1, <4>2 DEF x
    <3>2. CASE i # m /\ i # 0
      <4>1. i <= n /\ i - 1 \in D /\ i - 1 # m
        BY <2>2, <2>5, <3>2
      <4>2. g[i] = EndTimeTurn(g[i - 1]) /\ h[i] = g[i] /\ h[i - 1] = g[i - 1]
        BY <2>1, <2>4, <3>2, <4>1
      <4> QED
        BY <3>2, <4>2
    <3>3. CASE i # m /\ i = 0
      BY <2>1, <2>2, <2>4, <3>3
    <3> QED
      BY <3>1, <3>2, <3>3
  <2>6. Right(h, n + 1)
    BY <2>5
  <2> QED
    BY <2>2, <2>4, <2>6
<1>4. last \in S
  <2> HIDE DEF S
  <2>1. \A n \in 0 .. last : n \in S
    BY <1>2, <1>3, Upwards
  <2> QED
    BY <2>1
<1>5. PICK g \in [D -> Turns] : Right(g, last)
  BY <1>4
<1>6. \A i \in D : g[i] = Put(g, i)
  BY <1>5
<1>7. g = [i \in D |-> Put(g, i)]
  <2>1. g = [i \in D |-> g[i]]
    OBVIOUS
  <2> HIDE DEF Put
  <2> QED
    BY <1>6, <2>1
<1> QED
  BY <1>7

LEMMA EndTimeFound ==
  ASSUME NEW r, Env, Sane(r)
  PROVE  \E x : DiscoverEndTime(r) = ResetOf(x) /\ Sane(x)
<1> DEFINE N == Len(file) + 1
           start == [r |-> r, more |-> TRUE]
           P(turn) == turn = [n \in 0 .. N |-> IF n = 0 THEN start ELSE EndTimeTurn(turn[n - 1])]
           turn == CHOOSE turn : P(turn)
<1>1. N \in Nat /\ N \in 0 .. N /\ N # 0
  BY FileIs
<1>2. start \in Turns
  BY SaneIs DEF Turns
<1>3. DiscoverEndTime(r) = ResetOf(turn[N].r)
  BY DEF DiscoverEndTime
<1>4. PICK g \in [0 .. N -> Turns] : P(g)
  <2> HIDE DEF N, start
  <2> QED
    BY <1>1, <1>2, TurnsExist
<1>5. P(turn)
  <2> HIDE DEF P
  <2> QED
    BY <1>4
<1> HIDE DEF turn
<1>6. \A n \in 0 .. N : turn[n] = IF n = 0 THEN start ELSE EndTimeTurn(turn[n - 1])
  BY <1>5
<1> DEFINE S == {n \in Nat : turn[n] \in Turns}
<1> HIDE DEF N, start, P
<1>7. 0 \in S
  <2>1. 0 \in 0 .. N
    BY <1>1
  <2>2. turn[0] = start
    BY <1>6, <2>1
  <2> QED
    BY <1>2, <2>2
<1>8. ASSUME NEW n \in 0 .. N - 1, n \in S PROVE n + 1 \in S
  <2>1. n + 1 \in 0 .. N /\ n + 1 # 0 /\ (n + 1) - 1 = n /\ n + 1 \in Nat
    BY <1>1
  <2>2. turn[n + 1] = EndTimeTurn(turn[n])
    BY <1>6, <2>1
  <2>3. turn[n] \in Turns
    BY <1>8
  <2> QED
    BY <2>1, <2>2, <2>3, TurnType
<1> HIDE DEF S
<1>9. \A n \in 0 .. N : n \in S
  BY <1>1, <1>7, <1>8, Upwards
<1>10. turn[N] \in Turns
  BY <1>1, <1>9 DEF S
<1> QED
  BY <1>3, <1>10 DEF Turns

-----------------------------------------------------------------------------
(* What a read that the frame f is due for returns.  In a file of the other *)
(* byte order, the length of a counter does not lead astray.                *)

Faces(n, f) ==
  /\ Env /\ n \in Nat /\ Due(file, n, f) /\ WellMade(f)
  /\ foreign /\ f.kind \in Counters =>
       Exchange(f.len) = f.len \/ Exchange(f.len) < 2 \/ Exchange(f.len) > Len(file)

LEMMA FacesIs ==
  ASSUME NEW n, NEW f, Faces(n, f)
  PROVE  /\ n \in Nat /\ f.len \in Nat \ {0} /\ f.len <= BufSz /\ f.len >= MinLen(f.kind)
         /\ f.kind # "none" /\ MinLen(f.kind) \in {1, 2} /\ BufSz \in Nat /\ Env
         /\ Exchange(f.len) \in Nat
<1>1. WellMade(f) /\ n \in Nat /\ Env
  BY DEF Faces
<1>2. MinLen(f.kind) \in {1, 2} /\ BufSz \in Nat
  BY ReaderAssumption DEF MinLen
<1>3. f.len \in Nat \ {0} /\ f.len <= BufSz /\ f.len >= MinLen(f.kind) /\ f.kind # "none"
  BY <1>1, <1>2 DEF WellMade
<1> QED
  BY <1>1, <1>2, <1>3, ExchangeNat

LEMMA StandsIs ==
  ASSUME NEW r, NEW s, NEW n, Stands(r, s, n)
  PROVE  /\ Sane(r) /\ n \in Nat /\ Avail(r) \in Nat /\ n + Avail(r) = r.off
         /\ r.off <= Len(file) /\ n + Avail(r) <= Len(file)
BY SaneIs DEF Stands

LEMMA StandsSame ==
  ASSUME NEW r, NEW s, NEW n, NEW x, Stands(r, s, n), Sane(x), x.buf = r.buf, x.pos = r.pos, x.off = r.off
  PROVE  Stands(x, s, n) /\ Avail(x) = Avail(r)
BY DEF Stands, Avail

LEMMA PlainIs ==
  ASSUME Env, NEW i \in 1 .. Len(file)
  PROVE  [file[i] EXCEPT !.swapped = FALSE] = file[i] /\ file[i] \in FileCell
<1>1. file[i] \in FileCell
  BY FileIs
<1> QED
  BY <1>1 DEF FileCell

EnsureLeft(r, s, n, len, a) ==
  Stands(a, s, n) /\ (Avail(a) < len => len > BufSz \/ n + len > Len(file))
LEMMA EnsureStands ==
  ASSUME NEW r, NEW s \in BOOLEAN, NEW n, NEW len \in Nat, Env, Stands(r, s, n),
         s => Avail(r) >= 1
  PROVE  EnsureLeft(r, s, n, len, EnsureSpaceFor(r, len))
<1> DEFINE a == EnsureSpaceFor(r, len)
           k == Avail(r)
<1>1. Filled(r, len, a)
  BY EnsureFills, StandsIs
<1> HIDE DEF a
<1>2. /\ Sane(r) /\ n \in Nat /\ k \in Nat /\ n + k = r.off /\ r.off <= Len(file) /\ Len(file) \in Nat
      /\ \A i \in 1 .. k : r.buf[r.pos + i] = IF i = 1 THEN [file[n + 1] EXCEPT !.swapped = s] ELSE file[n + i]
  <2>1. \A i \in 1 .. k : r.buf[r.pos + i] = IF i = 1 THEN [file[n + 1] EXCEPT !.swapped = s] ELSE file[n + i]
    BY DEF Stands
  <2>2. /\ Sane(r) /\ n \in Nat /\ k \in Nat /\ n + k = r.off /\ r.off <= Len(file) /\ Len(file) \in Nat
    BY StandsIs, FileIs
  <2> QED
    BY <2>1, <2>2
<1>3. /\ Sane(a) /\ Avail(a) \in Nat /\ a.pos \in Nat /\ a.off \in Nat /\ a.off <= Len(file)
  BY <1>1, SaneIs DEF Filled
<1>4. /\ a.off - Avail(a) = r.off - k /\ k <= Avail(a)
      /\ \A i \in 1 .. k : a.buf[a.pos + i] = r.buf[r.pos + i]
      /\ \A i \in 1 .. Avail(a) - k : a.buf[a.pos + k + i] = file[r.off + i]
      /\ Avail(a) < len => len > BufSz \/ a.off = Len(file)
  BY <1>1 DEF Filled
<1> HIDE DEF k
<1>5. a.off = n + Avail(a) /\ r.off \in Nat
  <2>1. r.off \in Nat
    BY <1>2
  <2>2. a.off - Avail(a) = n
    BY <1>2, <1>4, <2>1
  <2> QED
    BY <1>2, <1>3, <2>1, <2>2
<1>6. ASSUME NEW i \in 1 .. Avail(a)
      PROVE  a.buf[a.pos + i] = IF i = 1 THEN [file[n + 1] EXCEPT !.swapped = s] ELSE file[n + i]
  <2>1. CASE i <= k
    <3>1. i \in 1 .. k
      BY <1>2, <1>3, <2>1
    <3> QED
      BY <1>2, <1>4, <3>1
  <2>2. CASE ~(i <= k)
    <3> DEFINE j == i - k
    <3>1. j \in 1 .. Avail(a) - k /\ a.pos + k + j = a.pos + i /\ r.off + j = n + i /\ n + i \in 1 .. Len(file)
      <4>1. /\ k \in Nat /\ n \in Nat /\ i \in Nat /\ a.pos \in Nat /\ Avail(a) \in Nat /\ Len(file) \in Nat
            /\ r.off = n + k /\ n + Avail(a) <= Len(file) /\ i >= 1 /\ i <= Avail(a)
        <5>1. Avail(a) \in Nat /\ Len(file) \in Nat /\ n + k = r.off /\ a.off <= Len(file) /\ a.off = n + Avail(a)
          BY <1>2, <1>3, <1>5
        <5> QED
          BY <1>2, <1>3, <5>1
      <4>2. j \in Nat /\ j >= 1 /\ j = i - k
        BY <2>2, <4>1
      <4> HIDE DEF j
      <4>3. j <= Avail(a) - k /\ Avail(a) - k \in Int
        BY <4>1, <4>2
      <4>4. a.pos + k + j = a.pos + i /\ r.off + j = n + i
        BY <4>1, <4>2
      <4>5. n + i \in 1 .. Len(file)
        BY <4>1
      <4> QED
        BY <4>2, <4>3, <4>4, <4>5
    <3>2. a.buf[a.pos + k + j] = file[r.off + j]
      BY <1>4, <3>1
    <3> HIDE DEF j
    <3>3. a.buf[a.pos + i] = file[n + i]
      BY <3>1, <3>2, Zenon
    <3>4. i = 1 => s = FALSE
      BY <1>2, <2>2 DEF k
    <3>5. i = 1 => [file[n + 1] EXCEPT !.swapped = FALSE] = file[n + 1]
      BY <3>1, PlainIs
    <3> QED
      BY <3>3, <3>4, <3>5
  <2> QED
    BY <2>1, <2>2
<1>7. Stands(a, s, n)
  BY <1>2, <1>3, <1>5, <1>6 DEF Stands
<1>8. Avail(a) < len => len > BufSz \/ n + len > Len(file)
  <2>1. Len(file) \in Nat /\ BufSz \in Nat
    BY <1>2, ReaderAssumption
  <2> QED
    BY <1>2, <1>3, <1>4, <1>5, <2>1
<1> QED
  BY <1>7, <1>8 DEF EnsureLeft, a

LEMMA HereStands ==
  ASSUME NEW r, NEW s \in BOOLEAN, NEW n, NEW f, Faces(n, f), Stands(r, s, n), Avail(r) >= 1
  PROVE  /\ Holds(r, 1) /\ Here(r).frame = f /\ KindHere(r) = f.kind
         /\ LenHere(r) = IF s = foreign THEN f.len ELSE Exchange(f.len)
<1>1. /\ Sane(r) /\ n \in Nat /\ Avail(r) \in Nat /\ n + Avail(r) <= Len(file) /\ Len(file) \in Nat
  BY StandsIs, FileIs DEF Faces
<1>2. r.buf[r.pos + 1] = [file[n + 1] EXCEPT !.swapped = s]
  BY <1>1 DEF Stands
<1>3. file[n + 1] = [frame |-> f, off |-> 0, swapped |-> FALSE]
  BY <1>1 DEF Faces, Due
<1>4. Here(r) = [frame |-> f, off |-> 0, swapped |-> s]
  BY <1>2, <1>3 DEF Here
<1> QED
  BY <1>1, <1>4 DEF Holds, KindHere, LenHere, Legible

LEMMA BswapStands ==
  ASSUME NEW r, NEW n, Env, Stands(r, FALSE, n), Avail(r) >= 1
  PROVE  Stands(BswapFrame(r), foreign, n) /\ Avail(BswapFrame(r)) = Avail(r)
<1> DEFINE h == BswapFrame(r)
<1>1. /\ Sane(r) /\ n \in Nat /\ Avail(r) \in Nat /\ n + Avail(r) <= Len(file) /\ Len(file) \in Nat
      /\ n + Avail(r) = r.off /\ r.pos \in Nat /\ Len(r.buf) \in Nat /\ Avail(r) = Len(r.buf) - r.pos
  BY StandsIs, FileIs, SaneIs
<1>2. Holds(r, 1)
  BY <1>1 DEF Holds
<1>3. Swapped(r, h) /\ Sane(h) /\ Avail(h) = Avail(r)
  BY <1>2, BswapIs, BswapSane
<1> HIDE DEF h
<1>4. n + 1 \in 1 .. Len(file)
  BY <1>1
<1>5. file[n + 1] \in FileCell /\ [file[n + 1] EXCEPT !.swapped = FALSE] = file[n + 1]
  BY <1>4, PlainIs
<1>6. Here(r) = file[n + 1]
  <2>1. 1 \in 1 .. Avail(r)
    BY <1>1
  <2>2. r.buf[r.pos + 1] = [file[n + 1] EXCEPT !.swapped = FALSE]
    BY <2>1 DEF Stands
  <2> QED
    BY <1>5, <2>2 DEF Here
<1>7. h.buf[r.pos + 1] = [file[n + 1] EXCEPT !.swapped = foreign]
  <2>1. file[n + 1].swapped = FALSE /\ foreign \in BOOLEAN
    BY <1>5 DEF FileCell, Env
  <2>2. h.buf[r.pos + 1] = [file[n + 1] EXCEPT !.swapped = IF foreign THEN ~file[n + 1].swapped ELSE file[n + 1].swapped]
    BY <1>3, <1>6 DEF Swapped
  <2>3. (IF foreign THEN ~file[n + 1].swapped ELSE file[n + 1].swapped) = foreign
    BY <2>1
  <2> QED
    BY <2>2, <2>3, Zenon
<1>8. ASSUME NEW i \in 1 .. Avail(r)
      PROVE  h.buf[h.pos + i] = IF i = 1 THEN [file[n + 1] EXCEPT !.swapped = foreign] ELSE file[n + i]
  <2>1. h.pos = r.pos
    BY <1>3 DEF Swapped
  <2>2. CASE i = 1
    BY <1>7, <2>1, <2>2
  <2>3. CASE i # 1
    <3>1. r.pos + i \in 1 .. Len(r.buf) /\ r.pos + i # r.pos + 1
      BY <1>1, <2>3
    <3>2. h.buf[r.pos + i] = r.buf[r.pos + i]
      BY <1>3, <3>1 DEF Swapped
    <3>3. r.buf[r.pos + i] = file[n + i]
      BY <2>3 DEF Stands
    <3> QED
      BY <2>1, <2>3, <3>2, <3>3
  <2> QED
    BY <2>2, <2>3
<1>9. h.off = n + Avail(h)
  BY <1>1, <1>3 DEF Swapped
<1>10. Stands(h, foreign, n)
  BY <1>1, <1>3, <1>8, <1>9 DEF Stands
<1> QED
  BY <1>3, <1>10 DEF h

(* What the reader has is a prefix and it stands behind it: it took the     *)
(* frame, or it stays and there is a reason.                                *)
Took(done, n, f) == done.frame = <<f>> /\ Stands(done.r, FALSE, n + f.len)
Excuse(r, n, f) ==
  \/ n + f.len > Len(file)
  \/ Unreadable(f)
  \/ IsIndexFrame(f) /\ Avail(r) \in 1 .. IndexLen - 1
Left(done, n, f, kind) ==
  /\ done.frame = <<>> /\ (~foreign => Stands(done.r, FALSE, n))
  /\ f.kind = kind => Excuse(done.r, n, f)
Outcome(done, n, f, kind) == Took(done, n, f) \/ Left(done, n, f, kind)

LEMMA TakeStands ==
  ASSUME NEW r, NEW s \in BOOLEAN, NEW n, NEW f, Faces(n, f), Stands(r, s, n),
         Avail(r) >= f.len, LenHere(r) = f.len
  PROVE  Took(TakeWhole(r, f.len), n, f)
<1> DEFINE len == f.len
           a == [r EXCEPT !.pos = r.pos + len]
<1>1. /\ Sane(r) /\ n \in Nat /\ Avail(r) \in Nat /\ n + Avail(r) <= Len(file) /\ Len(file) \in Nat
      /\ n + Avail(r) = r.off /\ r.pos \in Nat /\ Len(r.buf) \in Nat /\ Avail(r) = Len(r.buf) - r.pos
      /\ Len(r.buf) <= BufSz /\ r.off <= Len(file) /\ r \in Readers /\ BufSz \in Nat
  BY StandsIs, FileIs, SaneIs DEF Faces
<1>2. len \in Nat \ {0} /\ Env
  BY FacesIs
<1>3. Here(r).frame = f
  BY <1>1, <1>2, HereStands
<1>4. TakeWhole(r, len) = [r |-> a, frame |-> <<f>>]
  <2>1. ~(Avail(r) < len)
    BY <1>1, <1>2
  <2> QED
    BY <1>3, <2>1 DEF TakeWhole, Advance
<1>t. TakeWhole(r, len).r = a /\ TakeWhole(r, len).frame = <<f>>
  BY <1>4
<1> HIDE DEF len
<1>5. a \in Readers /\ a.buf = r.buf /\ a.pos = r.pos + len /\ a.off = r.off
  <2>1. r \in Readers /\ r.pos + len \in Int
    BY <1>1, <1>2
  <2> QED
    BY <2>1 DEF Readers
<1> HIDE DEF a
<1>6. Avail(a) = Avail(r) - len
  BY <1>1, <1>2, <1>5 DEF Avail
<1>7. Sane(a)
  <2>1. Avail(r) >= len
    BY DEF len
  <2> QED
    BY <1>1, <1>2, <1>5, <2>1 DEF Sane
<1>8. ASSUME NEW i \in 1 .. Avail(a)
      PROVE  a.buf[a.pos + i] = IF i = 1 THEN [file[n + len + 1] EXCEPT !.swapped = FALSE]
                                ELSE file[n + len + i]
  <2> DEFINE j == len + i
  <2>1. /\ j \in 1 .. Avail(r) /\ j # 1 /\ a.pos + i = r.pos + j /\ n + len + i = n + j
        /\ n + len + i \in 1 .. Len(file)
    <3>1. i \in Nat /\ i >= 1 /\ i <= Avail(r) - len
      BY <1>1, <1>2, <1>6
    <3>2. j \in 1 .. Avail(r) /\ j # 1
      BY <1>1, <1>2, <3>1
    <3>3. a.pos + i = r.pos + j /\ n + len + i = n + j
      BY <1>1, <1>2, <1>5, <3>1
    <3>4. n + len + i \in 1 .. Len(file)
      BY <1>1, <1>2, <3>1
    <3> QED
      BY <3>2, <3>3, <3>4
  <2> HIDE DEF j
  <2>2. r.buf[r.pos + j] = file[n + j]
    BY <2>1 DEF Stands
  <2>3. a.buf[a.pos + i] = file[n + len + i]
    BY <1>5, <2>1, <2>2
  <2>4. i = 1 => [file[n + len + 1] EXCEPT !.swapped = FALSE] = file[n + len + 1]
    BY <1>2, <2>1, PlainIs
  <2> QED
    BY <2>3, <2>4
<1>9. n + len \in Nat /\ a.off = (n + len) + Avail(a)
  BY <1>1, <1>2, <1>5, <1>6
<1>10. Stands(a, FALSE, n + len)
  BY <1>7, <1>8, <1>9 DEF Stands
<1>11. Took(TakeWhole(r, len), n, f) = (TakeWhole(r, len).frame = <<f>> /\ Stands(TakeWhole(r, len).r, FALSE, n + len))
  BY DEF Took, len
<1> QED
  BY <1>t, <1>10, <1>11 DEF len

LEMMA LeftFail ==
  ASSUME NEW r, NEW n, NEW f, NEW kind, ~foreign => Stands(r, FALSE, n),
         f.kind = kind => Excuse(r, n, f)
  PROVE  Outcome(Fail(r), n, f, kind)
BY DEF Outcome, Left, Fail

(* A frame that the window has no room for, or that is not there, stays.    *)
LEMMA LookLeft ==
  ASSUME NEW r, NEW len \in Nat \ {0}, NEW n, NEW f, NEW kind, Faces(n, f), Stands(r, FALSE, n),
         f.kind = kind => len <= f.len
  PROVE  /\ Stands(EnsureSpaceFor(r, len), FALSE, n) /\ Avail(EnsureSpaceFor(r, len)) \in Nat
         /\ Avail(EnsureSpaceFor(r, len)) < len =>
              Outcome(Fail(EnsureSpaceFor(r, len)), n, f, kind)
<1> DEFINE a == EnsureSpaceFor(r, len)
<1>1. /\ n \in Nat /\ f.len \in Nat /\ f.len <= BufSz /\ BufSz \in Nat /\ Env
  BY FacesIs
<1>2. EnsureLeft(r, FALSE, n, len, a)
  BY <1>1, EnsureStands
<1> HIDE DEF a
<1>3. Stands(a, FALSE, n) /\ (Avail(a) < len => len > BufSz \/ n + len > Len(file))
  BY <1>2 DEF EnsureLeft
<1>4. Len(file) \in Nat /\ Avail(a) \in Nat
  BY <1>1, <1>3, FileIs, StandsIs
<1>5. ASSUME Avail(a) < len PROVE Outcome(Fail(a), n, f, kind)
  <2>1. f.kind = kind => n + f.len > Len(file)
    BY <1>1, <1>3, <1>4, <1>5
  <2>2. f.kind = kind => Excuse(a, n, f)
    BY <2>1 DEF Excuse
  <2> QED
    BY <1>3, <2>2, LeftFail
<1> QED
  BY <1>3, <1>4, <1>5 DEF a

Crooked(h, f) ==
  /\ foreign /\ f.kind \in Counters
  /\ LenHere(h) >= 2 /\ LenHere(h) = Exchange(f.len)
LEMMA RoomOutcome ==
  ASSUME NEW h, NEW s \in BOOLEAN, NEW n, NEW f, NEW kind, Faces(n, f), Stands(h, s, n),
         s => foreign, Avail(h) >= 1, LenHere(h) = f.len \/ Crooked(h, f)
  PROVE  Outcome(MakeRoom(h), n, f, kind)
<1> DEFINE len == LenHere(h)
           e == EnsureSpaceFor(h, len)
<1>1. /\ n \in Nat /\ f.len \in Nat \ {0} /\ f.len <= BufSz /\ BufSz \in Nat /\ Env
      /\ Exchange(f.len) \in Nat
  BY FacesIs
<1>2. len \in Nat \ {0}
  BY <1>1 DEF Crooked
<1>3. EnsureLeft(h, s, n, len, e)
  BY <1>1, <1>2, EnsureStands
<1>4. MakeRoom(h) = TakeWhole(e, len)
  BY DEF MakeRoom
<1>5. Holds(h, 1)
  BY StandsIs DEF Holds
<1>6. LenHere(e) = len /\ Holds(e, 1)
  BY <1>1, <1>2, <1>5, EnsureHolds
<1>7. Unreadable(f) \/ len = f.len
  BY DEF Unreadable, Crooked
<1> HIDE DEF e
<1>8. Stands(e, s, n) /\ (Avail(e) < len => len > BufSz \/ n + len > Len(file))
  BY <1>3 DEF EnsureLeft
<1>9. Len(file) \in Nat /\ Avail(e) \in Nat /\ n + Avail(e) <= Len(file)
  BY <1>1, <1>8, FileIs, StandsIs
<1>c. len # f.len => foreign /\ f.kind \in Counters /\ len >= 2 /\ len = Exchange(f.len)
  BY DEF Crooked
<1> HIDE DEF len
<1>10. CASE Avail(e) < len
  <2>1. TakeWhole(e, len) = Fail(e)
    BY <1>10 DEF TakeWhole
  <2>2. Excuse(e, n, f)
    <3>1. len = f.len => n + f.len > Len(file)
      BY <1>1, <1>2, <1>8, <1>9, <1>10
    <3> QED
      BY <1>7, <3>1 DEF Excuse
  <2>3. ~foreign => Stands(e, FALSE, n)
    <3>1. ~foreign => s = FALSE
      OBVIOUS
    <3> QED
      BY <1>8, <3>1
  <2> QED
    BY <1>4, <2>1, <2>2, <2>3, LeftFail
<1>11. CASE ~(Avail(e) < len)
  <2>1. len = f.len
    <3>1. len # f.len => Exchange(f.len) = f.len \/ Exchange(f.len) < 2 \/ Exchange(f.len) > Len(file)
      BY <1>c DEF Faces
    <3>2. len <= Len(file)
      BY <1>1, <1>2, <1>9, <1>11
    <3> QED
      BY <1>1, <1>2, <1>9, <1>c, <3>1, <3>2
  <2>2. Avail(e) >= f.len
    BY <1>1, <1>9, <1>11, <2>1
  <2>3. Took(TakeWhole(e, f.len), n, f)
    BY <1>6, <1>8, <2>1, <2>2, TakeStands
  <2> QED
    BY <1>4, <2>1, <2>3 DEF Outcome
<1> QED
  BY <1>10, <1>11

LEMMA SkipOutcome ==
  ASSUME NEW r, NEW n, NEW f, Faces(n, f), Stands(r, FALSE, n)
  PROVE  Outcome(Skip(r), n, f, f.kind)
<1> DEFINE a == EnsureSpaceFor(r, 1)
           h == BswapFrame(a)
<1>1. f.len \in Nat \ {0} /\ Env /\ foreign \in BOOLEAN
  BY FacesIs DEF Env
<1>2. 1 \in Nat \ {0} /\ 1 <= f.len
  BY <1>1
<1>3. /\ Stands(a, FALSE, n) /\ Avail(a) \in Nat
      /\ Avail(a) < 1 => Outcome(Fail(a), n, f, f.kind)
  BY <1>2, LookLeft
<1>4. Skip(r) = IF Avail(a) < 1 THEN Fail(a) ELSE IF LenHere(h) < 1 THEN Fail(h) ELSE MakeRoom(h)
  BY DEF Skip
<1> HIDE DEF a
<1>5. CASE Avail(a) < 1
  BY <1>3, <1>4, <1>5
<1>6. CASE ~(Avail(a) < 1)
  <2>1. Avail(a) >= 1
    BY <1>3, <1>6
  <2>2. Stands(h, foreign, n) /\ Avail(h) >= 1
    BY <1>1, <1>3, <2>1, BswapStands
  <2> HIDE DEF h
  <2>3. LenHere(h) = f.len
    BY <1>1, <2>2, HereStands
  <2>4. ~(LenHere(h) < 1)
    BY <1>1, <2>3
  <2>5. Outcome(MakeRoom(h), n, f, f.kind)
    BY <1>1, <2>2, <2>3, RoomOutcome
  <2> QED
    BY <1>4, <1>6, <2>4, <2>5
<1> QED
  BY <1>5, <1>6

LEMMA TypedOutcome ==
  ASSUME NEW h, NEW s \in BOOLEAN, NEW n, NEW f, NEW kind, Faces(n, f), Stands(h, s, n),
         s => foreign, Avail(h) >= 1, s = foreign \/ kind \in Counters
  PROVE  Outcome(Typed(h, kind), n, f, kind)
<1>1. /\ f.len \in Nat \ {0} /\ Env /\ foreign \in BOOLEAN /\ f.len >= MinLen(f.kind)
      /\ MinLen(f.kind) \in {1, 2}
  BY FacesIs DEF Env
<1>2. /\ KindHere(h) = f.kind /\ Holds(h, 1)
      /\ LenHere(h) = IF s = foreign THEN f.len ELSE Exchange(f.len)
  BY HereStands
<1>3. ~foreign => Stands(h, FALSE, n)
  <2>1. ~foreign => s = FALSE
    OBVIOUS
  <2> QED
    BY <2>1
<1>4. CASE f.kind # kind
  <2>1. Typed(h, kind) = Fail(h)
    BY <1>2, <1>4 DEF Typed
  <2> QED
    BY <1>3, <1>4, <2>1, LeftFail
<1>5. CASE f.kind = kind /\ LenHere(h) < MinLen(kind)
  <2>1. Typed(h, kind) = Fail(h)
    BY <1>5 DEF Typed
  <2>2. LenHere(h) # f.len
    BY <1>1, <1>5
  <2>3. foreign /\ kind \in Counters
    BY <1>1, <1>2, <2>2
  <2>4. Excuse(h, n, f)
    BY <1>5, <2>3 DEF Excuse, Unreadable
  <2> QED
    BY <1>3, <2>1, <2>4, LeftFail
<1>6. CASE f.kind = kind /\ ~(LenHere(h) < MinLen(kind))
  <2>1. Typed(h, kind) = MakeRoom(h)
    BY <1>2, <1>6 DEF Typed
  <2>2. LenHere(h) = f.len \/ Crooked(h, f)
    <3>1. CASE s = foreign
      BY <1>2, <3>1
    <3>2. CASE s # foreign
      <4>1. foreign /\ f.kind \in Counters /\ LenHere(h) = Exchange(f.len)
        BY <1>1, <1>2, <1>6, <3>2
      <4>2. MinLen(kind) = 2 /\ LenHere(h) \in Nat
        BY <1>2, <1>6, <4>1, HereType DEF MinLen, Counters, Basic
      <4>3. LenHere(h) >= 2
        BY <1>6, <4>2
      <4> QED
        BY <4>1, <4>3 DEF Crooked
    <3> QED
      BY <3>1, <3>2
  <2> QED
    BY <2>1, <2>2, RoomOutcome
<1> QED
  BY <1>4, <1>5, <1>6

LEMMA StructOutcome ==
  ASSUME NEW r, NEW n, NEW f, NEW kind, Faces(n, f), Stands(r, FALSE, n)
  PROVE  /\ Outcome(ReadStruct(r, kind), n, f, kind)
         /\ kind \in Counters => Outcome(ReadCounters(r, kind), n, f, kind)
<1> DEFINE a == EnsureSpaceFor(r, MinLen(kind))
           h == BswapFrame(a)
<1>1. MinLen(kind) \in Nat \ {0} /\ (f.kind = kind => MinLen(kind) <= f.len)
  <2>1. f.len >= MinLen(f.kind) /\ f.len \in Nat
    BY FacesIs
  <2> QED
    BY <2>1, MinLenIs
<1>2. Env /\ foreign \in BOOLEAN
  BY FacesIs DEF Env
<1>3. /\ Stands(a, FALSE, n) /\ Avail(a) \in Nat
      /\ Avail(a) < MinLen(kind) => Outcome(Fail(a), n, f, kind)
  BY <1>1, LookLeft
<1>4. /\ ReadStruct(r, kind) = IF Avail(a) < MinLen(kind) THEN Fail(a) ELSE Typed(h, kind)
      /\ ReadCounters(r, kind) = IF Avail(a) < MinLen(kind) THEN Fail(a) ELSE Typed(a, kind)
  BY DEF ReadStruct, ReadCounters
<1> HIDE DEF a
<1>5. CASE Avail(a) < MinLen(kind)
  BY <1>3, <1>4, <1>5
<1>6. CASE ~(Avail(a) < MinLen(kind))
  <2>1. Avail(a) >= 1
    BY <1>1, <1>3, <1>6
  <2>2. Stands(h, foreign, n) /\ Avail(h) >= 1
    BY <1>2, <1>3, <2>1, BswapStands
  <2> HIDE DEF h
  <2>3. Outcome(Typed(h, kind), n, f, kind)
    BY <1>2, <2>2, TypedOutcome
  <2>4. kind \in Counters => Outcome(Typed(a, kind), n, f, kind)
    <3>1. FALSE \in BOOLEAN /\ (FALSE => foreign)
      OBVIOUS
    <3> QED
      BY <1>2, <1>3, <2>1, <3>1, TypedOutcome
  <2> QED
    BY <1>4, <1>6, <2>3, <2>4
<1> QED
  BY <1>5, <1>6

LEMMA BasicOutcome ==
  ASSUME NEW r, NEW n, NEW f, NEW kind \in Basic, Faces(n, f), Stands(r, FALSE, n)
  PROVE  Outcome(ReadBasic(r, kind), n, f, kind)
<1> DEFINE a == EnsureSpaceFor(r, 1)
           h == BswapFrame(a)
<1>1. /\ f.len \in Nat \ {0} /\ Env /\ foreign \in BOOLEAN
      /\ f.kind = kind => f.len = 1 \/ IsIndexFrame(f)
  BY FacesIs DEF Env, Faces, WellMade
<1>2. 1 \in Nat \ {0} /\ 1 <= f.len
  BY <1>1
<1>3. /\ Stands(a, FALSE, n) /\ Avail(a) \in Nat
      /\ Avail(a) < 1 => Outcome(Fail(a), n, f, kind)
  BY <1>2, LookLeft
<1>4. ReadBasic(r, kind) = IF Avail(a) < 1 THEN Fail(a)
                           ELSE IF LenHere(h) < 1 \/ KindHere(h) # kind THEN Fail(h)
                           ELSE TakeWhole(h, LenHere(h))
  <2>1. MinLen(kind) = 1
    BY DEF MinLen
  <2> QED
    BY <2>1 DEF ReadBasic
<1> HIDE DEF a
<1>5. CASE Avail(a) < 1
  BY <1>3, <1>4, <1>5
<1>6. CASE ~(Avail(a) < 1)
  <2>1. Avail(a) >= 1
    BY <1>3, <1>6
  <2>2. Stands(h, foreign, n) /\ Avail(h) >= 1
    BY <1>1, <1>3, <2>1, BswapStands
  <2> HIDE DEF h
  <2>3. LenHere(h) = f.len /\ KindHere(h) = f.kind
    BY <1>1, <2>2, HereStands
  <2>4. ~foreign => Stands(h, FALSE, n)
    <3>1. ~foreign => foreign = FALSE
      OBVIOUS
    <3> QED
      BY <2>2, <3>1
  <2>5. CASE f.kind # kind
    <3>1. ReadBasic(r, kind) = Fail(h)
      BY <1>4, <1>6, <2>3, <2>5
    <3> QED
      BY <2>4, <2>5, <3>1, LeftFail
  <2>6. CASE f.kind = kind
    <3>1. ~(LenHere(h) < 1 \/ KindHere(h) # kind)
      BY <1>1, <2>3, <2>6
    <3>2. ReadBasic(r, kind) = TakeWhole(h, f.len)
      BY <1>4, <1>6, <2>3, <3>1
    <3>3. Avail(h) \in Nat
      BY <2>2, StandsIs
    <3>4. CASE Avail(h) < f.len
      <4>1. f.len # 1 /\ IsIndexFrame(f)
        BY <1>1, <2>2, <2>6, <3>3, <3>4
      <4>2. Avail(h) \in 1 .. IndexLen - 1
        BY <2>2, <3>3, <3>4, <4>1 DEF IsIndexFrame, IndexLen
      <4>3. Excuse(h, n, f)
        BY <4>1, <4>2 DEF Excuse
      <4>4. TakeWhole(h, f.len) = Fail(h)
        BY <3>4 DEF TakeWhole
      <4> QED
        BY <2>4, <3>2, <4>3, <4>4, LeftFail
    <3>5. CASE ~(Avail(h) < f.len)
      <4>1. Avail(h) >= f.len
        BY <1>1, <3>3, <3>5
      <4>2. Took(TakeWhole(h, f.len), n, f)
        BY <1>1, <2>2, <2>3, <4>1, TakeStands
      <4> QED
        BY <3>2, <4>2 DEF Outcome
    <3> QED
      BY <3>4, <3>5
  <2> QED
    BY <2>5, <2>6
<1> QED
  BY <1>5, <1>6

LEMMA MarkOutcome ==
  ASSUME NEW r, NEW n, NEW f, Faces(n, f), Stands(r, FALSE, n)
  PROVE  Outcome(ReadMark(r), n, f, "mark")
<1> DEFINE done == ReadStruct(r, "mark")
           more == ReadMark(r)
<1>1. Outcome(done, n, f, "mark")
  BY StructOutcome
<1>2. /\ Sane(more.r) /\ more.frame = done.frame
      /\ more.r.buf = done.r.buf /\ more.r.pos = done.r.pos /\ more.r.off = done.r.off
  BY FacesIs, StandsIs, MarkIs DEF DoneSane
<1> HIDE DEF done, more
<1>3. \A m : Stands(done.r, FALSE, m) => Stands(more.r, FALSE, m)
  BY <1>2, StandsSame
<1>4. Avail(more.r) = Avail(done.r)
  BY <1>2 DEF Avail
<1>5. CASE Took(done, n, f)
  <2>1. Took(more, n, f)
    BY <1>2, <1>3, <1>5 DEF Took
  <2> QED
    BY <2>1 DEF Outcome, more
<1>6. CASE Left(done, n, f, "mark")
  <2>1. Excuse(done.r, n, f) => Excuse(more.r, n, f)
    BY <1>4 DEF Excuse
  <2>2. Left(more, n, f, "mark")
    BY <1>2, <1>3, <1>6, <2>1 DEF Left
  <2> QED
    BY <2>2 DEF Outcome, more
<1> QED
  BY <1>1, <1>5, <1>6 DEF Outcome

LEMMA JitmapOutcome ==
  ASSUME NEW r, NEW n, NEW f, Faces(n, f), Stands(r, FALSE, n)
  PROVE  Outcome(ReadJitmap(r), n, f, "jitmap")
<1> DEFINE done == ReadStruct(r, "jitmap")
           back == [done.r EXCEPT !.pos = @ - done.frame[1].len]
<1>1. Outcome(done, n, f, "jitmap")
  BY StructOutcome
<1>2. ReadJitmap(r) = IF done.frame # <<>> /\ foreign THEN Fail(back) ELSE done
  BY DEF ReadJitmap
<1> HIDE DEF done, back
<1>3. CASE done.frame # <<>> /\ foreign
  <2>1. f.kind = "jitmap" => Excuse(back, n, f)
    BY <1>3 DEF Excuse, Unreadable
  <2>2. Outcome(Fail(back), n, f, "jitmap")
    BY <1>3, <2>1, LeftFail
  <2> QED
    BY <1>2, <1>3, <2>2
<1>4. CASE ~(done.frame # <<>> /\ foreign)
  BY <1>1, <1>2, <1>4
<1> QED
  BY <1>3, <1>4

(* What a peek tells is the type of the frame, if any of it is there.       *)
PeekRight(peek, n, f) ==
  /\ Stands(peek.r, FALSE, n)
  /\ \/ peek.kind = "none" /\ n + f.len > Len(file) /\ Avail(peek.r) < 1
     \/ /\ peek.kind = f.kind /\ Avail(peek.r) >= 1 /\ Holds(peek.r, 1)
        /\ peek.len = f.len /\ n < Len(file)
LEMMA PeekStands ==
  ASSUME NEW r, NEW n, NEW f, Faces(n, f), Stands(r, FALSE, n)
  PROVE  PeekRight(PeekFrame(r), n, f)
<1> DEFINE a == EnsureSpaceFor(r, 1)
           peek == PeekFrame(r)
<1>1. /\ f.len \in Nat \ {0} /\ Env /\ foreign \in BOOLEAN /\ n \in Nat /\ Sane(r)
      /\ Len(file) \in Nat /\ BufSz \in Nat \ {0}
  BY FacesIs, StandsIs, FileIs, ReaderAssumption DEF Env
<1>2. EnsureLeft(r, FALSE, n, 1, a)
  BY <1>1, EnsureStands
<1>3. Peeks(r, peek)
  BY <1>1, PeekIs
<1> HIDE DEF peek
<1>4. /\ Sane(peek.r) /\ Avail(peek.r) = Avail(a)
      /\ peek.r.buf = a.buf /\ peek.r.pos = a.pos /\ peek.r.off = a.off
      /\ Avail(a) < 1 => peek.kind = "none"
      /\ ~(Avail(a) < 1) => /\ Holds(a, 1) /\ Holds(peek.r, 1)
                            /\ peek.kind = KindHere(a) /\ peek.len = LenHere(BswapFrame(a))
  BY <1>3 DEF Peeks
<1> HIDE DEF a
<1>5. Stands(a, FALSE, n) /\ (Avail(a) < 1 => 1 > BufSz \/ n + 1 > Len(file))
  BY <1>2 DEF EnsureLeft
<1>6. Stands(peek.r, FALSE, n) /\ Avail(a) \in Nat /\ n + Avail(a) <= Len(file)
  BY <1>4, <1>5, StandsSame, StandsIs
<1>7. CASE Avail(a) < 1
  <2>1. n + f.len > Len(file)
    BY <1>1, <1>5, <1>7
  <2> QED
    BY <1>4, <1>6, <1>7, <2>1 DEF PeekRight, peek
<1>8. CASE ~(Avail(a) < 1)
  <2>1. Avail(a) >= 1 /\ n < Len(file)
    BY <1>1, <1>6, <1>8
  <2>2. KindHere(a) = f.kind
    BY <1>5, <2>1, HereStands
  <2>3. Stands(BswapFrame(a), foreign, n) /\ Avail(BswapFrame(a)) >= 1
    BY <1>1, <1>5, <2>1, BswapStands
  <2>4. LenHere(BswapFrame(a)) = f.len
    BY <1>1, <2>3, HereStands
  <2> QED
    BY <1>4, <1>6, <1>8, <2>1, <2>2, <2>4 DEF PeekRight, peek
<1> QED
  BY <1>7, <1>8

LEMMA SampleOutcome ==
  ASSUME NEW r, NEW n, NEW f, Faces(n, f), Stands(r, FALSE, n)
  PROVE  Outcome(ReadMemorySample(r), n, f, "memory_sample")
<1> DEFINE peek == PeekFrame(r)
           kind == "memory_sample"
<1>1. /\ f.len \in Nat \ {0} /\ Env /\ foreign \in BOOLEAN /\ n \in Nat /\ Sane(r)
      /\ Len(file) \in Nat /\ BufSz \in Nat /\ f.len <= BufSz
      /\ f.kind = kind => f.len >= 2
  <2>1. f.kind = kind => MinLen(f.kind) = 2
    BY DEF MinLen, Basic
  <2> QED
    BY <2>1, FacesIs, StandsIs, FileIs DEF Env
<1>2. PeekRight(peek, n, f)
  BY PeekStands
<1>3. Stands(peek.r, FALSE, n)
  BY <1>2 DEF PeekRight
<1>4. CASE (peek.kind # kind \/ peek.len < 2) /\ ReadMemorySample(r) = Fail(peek.r)
  <2> HIDE DEF peek
  <2>1. f.kind = kind => n + f.len > Len(file)
    BY <1>1, <1>2, <1>4 DEF PeekRight
  <2>2. f.kind = kind => Excuse(peek.r, n, f)
    BY <2>1 DEF Excuse
  <2> QED
    BY <1>3, <1>4, <2>2, LeftFail
<1>5. CASE \E b : /\ Holds(peek.r, 1) /\ peek.kind = kind
                  /\ peek.len \in Nat /\ peek.len >= 2
                  /\ b = EnsureSpaceFor(peek.r, peek.len) /\ Holds(b, 1)
                  /\ Avail(b) < peek.len => ReadMemorySample(r) = Fail(b)
                  /\ ~(Avail(b) < peek.len) =>
                       ReadMemorySample(r) = TakeWhole(BswapFrame(b), peek.len)
  <2>1. PICK b : /\ Holds(peek.r, 1) /\ peek.kind = kind
                 /\ peek.len \in Nat /\ peek.len >= 2
                 /\ b = EnsureSpaceFor(peek.r, peek.len) /\ Holds(b, 1)
                 /\ Avail(b) < peek.len => ReadMemorySample(r) = Fail(b)
                 /\ ~(Avail(b) < peek.len) =>
                      ReadMemorySample(r) = TakeWhole(BswapFrame(b), peek.len)
    BY <1>5
  <2> HIDE DEF peek
  <2>2. peek.kind = f.kind /\ peek.len = f.len
    BY <1>2, <2>1 DEF PeekRight
  <2>3. EnsureLeft(peek.r, FALSE, n, f.len, b)
    BY <1>1, <1>3, <2>1, <2>2, EnsureStands
  <2>4. Stands(b, FALSE, n) /\ (Avail(b) < f.len => f.len > BufSz \/ n + f.len > Len(file))
    BY <2>3 DEF EnsureLeft
  <2>5. Avail(b) >= 1 /\ Avail(b) \in Nat
    BY <2>1, <2>4, StandsIs DEF Holds
  <2>6. CASE Avail(b) < f.len
    <3>1. Excuse(b, n, f)
      BY <1>1, <2>4, <2>6 DEF Excuse
    <3> QED
      BY <2>1, <2>2, <2>4, <2>6, <3>1, LeftFail
  <2>7. CASE ~(Avail(b) < f.len)
    <3>1. Stands(BswapFrame(b), foreign, n) /\ Avail(BswapFrame(b)) = Avail(b)
      BY <1>1, <2>4, <2>5, BswapStands
    <3>2. Avail(BswapFrame(b)) >= f.len /\ Avail(BswapFrame(b)) >= 1
      BY <1>1, <2>5, <2>7, <3>1
    <3>3. LenHere(BswapFrame(b)) = f.len
      BY <1>1, <3>1, <3>2, HereStands
    <3>4. Took(TakeWhole(BswapFrame(b), f.len), n, f)
      BY <1>1, <3>1, <3>2, <3>3, TakeStands
    <3> QED
      BY <2>1, <2>2, <2>7, <3>4 DEF Outcome
  <2> QED
    BY <2>6, <2>7
<1> QED
  BY <1>1, <1>4, <1>5, SampleIs

LEMMA ReadOutcome ==
  ASSUME NEW r, NEW n, NEW f, NEW kind, Faces(n, f), Stands(r, FALSE, n)
  PROVE  Outcome(ReadAs(r, kind), n, f, kind)
<1>1. kind \in Basic => Outcome(ReadBasic(r, kind), n, f, kind)
  BY BasicOutcome
<1>2. kind = "mark" => Outcome(ReadMark(r), n, f, kind)
  BY MarkOutcome
<1>3. kind = "jitmap" => Outcome(ReadJitmap(r), n, f, kind)
  BY JitmapOutcome
<1>4. kind = "memory_sample" => Outcome(ReadMemorySample(r), n, f, kind)
  BY SampleOutcome
<1>5. /\ Outcome(ReadStruct(r, kind), n, f, kind)
      /\ kind \in Counters => Outcome(ReadCounters(r, kind), n, f, kind)
  BY StructOutcome
<1>6. \/ kind \in Basic \/ kind = "mark" \/ kind = "jitmap" \/ kind \in Counters
      \/ kind = "memory_sample"
      \/ kind \notin Basic \cup Counters \cup {"mark", "jitmap", "memory_sample"}
  OBVIOUS
<1> QED
  BY <1>1, <1>2, <1>3, <1>4, <1>5, <1>6, ReadsAs, Zenon

-----------------------------------------------------------------------------
(* The frame that is due, or where all were read, one that stands for none. *)

NoFrame == [kind |-> "exit", len |-> 1, time |-> 0]
DueOf(todo) == IF todo = <<>> THEN NoFrame ELSE Head(todo)

LEMMA NextFits ==
  ASSUME NEW cells, NEW s, NEW t, Split(cells, <<>>, s, t), t # <<>>
  PROVE  Len(CellsOf(s)) + Head(t).len <= Len(cells)
<1> DEFINE h == Head(t)
           u == Tail(t)
<1>1. s \in Seq(Frames) /\ t \in Seq(Frames) /\ cells \in Seq(FileCell)
  BY DEF Split
<1>2. h \in Frames /\ u \in Seq(Frames) /\ t = <<h>> \o u /\ <<h>> \in Seq(Frames)
  BY <1>1, FirstCell
<1> HIDE DEF h, u
<1>3. CellsOf(t) = Piece(h) \o CellsOf(u)
  BY <1>2, CellsJoin, CellsOne
<1>4. Piece(h) \in Seq(FileCell) /\ Len(Piece(h)) = h.len /\ CellsOf(u) \in Seq(FileCell)
  BY <1>2, PieceIs, CellsAre
<1>5. Len(CellsOf(t)) = h.len + Len(CellsOf(u)) /\ h.len \in Nat /\ Len(CellsOf(u)) \in Nat
  BY <1>3, <1>4, ConcatIs
<1>6. CellsOf(s) \in Seq(FileCell) /\ CellsOf(t) \in Seq(FileCell)
  BY <1>1, CellsAre
<1>7. Len(CellsOf(s) \o CellsOf(t)) = Len(CellsOf(s)) + Len(CellsOf(t)) /\ Len(CellsOf(s)) \in Nat
  BY <1>6, ConcatIs
<1>8. CellsOf(s) \o CellsOf(t) = cells
  <2>1. CellsOf(s \o t) = cells \o <<>>
    BY DEF Split
  <2>2. cells \o <<>> = cells
    BY <1>1, ConcatEmpty
  <2> QED
    BY <1>1, <2>1, <2>2, CellsJoin
<1> QED
  BY <1>5, <1>7, <1>8 DEF h

LEMMA FacesNext ==
  ASSUME NEW todo, Env, Split(file, rest, got, todo), foreign => rest = <<>>, ~Astray
  PROVE  Faces(Len(CellsOf(got)), DueOf(todo))
<1> DEFINE n == Len(CellsOf(got))
<1>1. /\ got \in Seq(Frames) /\ todo \in Seq(Frames) /\ CellsOf(got) \in Seq(FileCell)
      /\ n \in Nat
  BY CellsAre DEF Split
<1>2. /\ todo # <<>> => Due(file, n, Head(todo))
      /\ todo = <<>> => n = Len(file)
  BY NextDue
<1>3. CASE todo = <<>>
  <2>1. DueOf(todo) = NoFrame
    BY <1>3 DEF DueOf
  <2>2. WellMade(NoFrame) /\ NoFrame.kind \notin Counters
    <3>1. BufSz \in Nat \ {0}
      BY ReaderAssumption
    <3> QED
      BY <3>1 DEF WellMade, NoFrame, MinLen, Basic, Counters
  <2>3. Due(file, n, NoFrame)
    BY <1>1, <1>2, <1>3 DEF Due
  <2> HIDE DEF n
  <2> QED
    BY <1>1, <2>1, <2>2, <2>3 DEF Faces, n
<1>4. CASE todo # <<>>
  <2> DEFINE f == Head(todo)
  <2>1. DueOf(todo) = f
    BY <1>4 DEF DueOf
  <2>2. f \in Frames /\ WellMade(f)
    BY <1>1, <1>4, FirstCell, FramesMade
  <2>3. ASSUME foreign, f.kind \in Counters
        PROVE  Exchange(f.len) = f.len \/ Exchange(f.len) < 2 \/ Exchange(f.len) > Len(file)
    <3>1. Split(file, <<>>, got, todo)
      BY <2>3
    <3>2. n + f.len <= Len(file)
      BY <1>4, <3>1, NextFits
    <3>3. Onwards(file, rest, got, todo)
      BY <1>4, <3>2, WholeGoesOn
    <3>4. Len(got) < Len(Whole) /\ Whole[Len(got) + 1] = f
      BY <3>3 DEF Onwards, Whole
    <3>5. Whole \in Seq(Frames)
      <4>1. PICK x \in Seq(Frames) : Serial(file) = got \o x
        BY WholeBegins
      <4> QED
        BY <1>1, <4>1, ConcatIs DEF Whole
    <3> HIDE DEF f, n
    <3>6. Len(got) + 1 \in DOMAIN Whole
      BY <1>1, <3>4, <3>5
    <3>7. f \in ToSet(Whole)
      BY <3>4, <3>6 DEF ToSet
    <3>8. MinLen(f.kind) = 2
      BY <2>3 DEF MinLen, Counters, Basic
    <3>9. ~(Exchange(f.len) # f.len /\ Exchange(f.len) \in 2 .. Len(file))
      BY <2>3, <3>7, <3>8 DEF Astray
    <3>10. Exchange(f.len) \in Nat /\ Len(file) \in Nat
      BY <2>2, FramesMade, ExchangeNat, FileIs
    <3> QED
      BY <3>9, <3>10
  <2> HIDE DEF f, n
  <2>4. Due(file, n, f)
    BY <1>2, <1>4 DEF f
  <2>5. Faces(n, f)
    BY <1>1, <2>2, <2>3, <2>4 DEF Faces
  <2> QED
    BY <2>1, <2>5 DEF n
<1> QED
  BY <1>3, <1>4

(* A frame that was taken is behind the reader, with those before it.       *)
Passed(done, todo) ==
  /\ Split(file, rest, got \o done.frame, todo)
  /\ Stands(done.r, FALSE, Len(CellsOf(got \o done.frame)))
LEMMA TookPasses ==
  ASSUME NEW todo, NEW done, Env, Split(file, rest, got, todo),
         Took(done, Len(CellsOf(got)), DueOf(todo))
  PROVE  \E t \in Seq(Frames) : Passed(done, t)
<1> DEFINE n == Len(CellsOf(got))
           f == DueOf(todo)
<1>1. got \in Seq(Frames) /\ todo \in Seq(Frames) /\ CellsOf(got) \in Seq(FileCell) /\ n \in Nat
  BY CellsAre DEF Split
<1>2. Stands(done.r, FALSE, n + f.len) /\ done.frame = <<f>>
  BY DEF Took
<1>3. (n + f.len) + Avail(done.r) <= Len(file) /\ Avail(done.r) \in Nat /\ Len(file) \in Nat
  BY <1>2, StandsIs, FileIs
<1>4. todo # <<>>
  <2>1. todo = <<>> => n = Len(file) /\ f.len = 1
    BY NextDue DEF DueOf, NoFrame
  <2> HIDE DEF n, f
  <2> QED
    BY <1>1, <1>3, <2>1
<1>5. f = Head(todo)
  BY <1>4 DEF DueOf
<1>6. Head(todo).len \in Nat
  BY <1>1, <1>4, FirstCell, FramesMade
<1>7. n + Head(todo).len <= Len(file)
  <2> HIDE DEF n, f
  <2> QED
    BY <1>1, <1>3, <1>5, <1>6
<1>8. Onwards(file, rest, got, todo)
  BY <1>4, <1>7, WholeGoesOn
<1>9. Tail(todo) \in Seq(Frames)
  BY <1>1, <1>4
<1> HIDE DEF f
<1>10. /\ Split(file, rest, got \o <<f>>, Tail(todo))
       /\ Len(CellsOf(got \o <<f>>)) = n + f.len
  BY <1>5, <1>8 DEF Onwards
<1>11. Passed(done, Tail(todo))
  BY <1>2, <1>10 DEF Passed
<1> QED
  BY <1>9, <1>11

(* A frame that could not be read is the end of the walk.                   *)
Cut(r) ==
  /\ Len(got) < Len(Whole) /\ IsIndexFrame(Whole[Len(got) + 1])
  /\ Avail(r) \in 1 .. IndexLen - 1
LEMMA StaysAtEnd ==
  ASSUME NEW todo, NEW r, Env, Split(file, rest, got, todo),
         todo = <<>> \/ Excuse(r, Len(CellsOf(got)), Head(todo))
  PROVE  AtEnd(got) \/ Cut(r)
<1> DEFINE n == Len(CellsOf(got))
           f == Head(todo)
<1>1. got \in Seq(Frames) /\ todo \in Seq(Frames) /\ CellsOf(got) \in Seq(FileCell) /\ n \in Nat
  BY CellsAre DEF Split
<1>2. Len(file) \in Nat /\ (todo # <<>> => f.len \in Nat)
  BY <1>1, FileIs, FirstCell, FramesMade
<1>3. CASE todo = <<>> \/ n + f.len > Len(file)
  <2>1. Serial(file) = got
    BY <1>3, WholeStops
  <2> QED
    BY <2>1 DEF AtEnd, Whole
<1>4. CASE todo # <<>> /\ ~(n + f.len > Len(file))
  <2>1. n + f.len <= Len(file)
    <3> HIDE DEF n, f
    <3> QED
      BY <1>1, <1>2, <1>4
  <2>2. Onwards(file, rest, got, todo)
    BY <1>4, <2>1, WholeGoesOn
  <2>3. Len(got) < Len(Whole) /\ Whole[Len(got) + 1] = f
    BY <2>2 DEF Onwards, Whole
  <2>4. Unreadable(f) \/ (IsIndexFrame(f) /\ Avail(r) \in 1 .. IndexLen - 1)
    BY <1>4 DEF Excuse
  <2> HIDE DEF f
  <2> QED
    BY <2>3, <2>4 DEF AtEnd, Cut
<1> QED
  BY <1>3, <1>4

-----------------------------------------------------------------------------
(* The steps.                                                               *)

KindsTold == {f.kind : f \in Frames} \cup {"none"}

LEMMA AheadSplit ==
  ASSUME NEW todo \in Seq(Frames), TypeOK, Ahead(todo)
  PROVE  Env /\ Split(file, rest, got, todo)
BY DEF TypeOK, Ahead, Env, Split

LEMMA SplitAhead ==
  ASSUME NEW todo, Split(file, rest, got, todo)
  PROVE  /\ CellsOf(got \o todo) = file \o rest /\ Len(CellsOf(got)) <= Len(file)
         /\ todo \in Seq(Frames)
BY DEF Split

LEMMA NotNone ==
  ASSUME NEW r \in Readers
  PROVE  r # NoReader
<1>1. DOMAIN r = {"buf", "pos", "off", "end_time"} /\ DOMAIN NoReader = {"none"}
  BY DEF Readers, NoReader
<1>2. "pos" \in DOMAIN r /\ "pos" \notin DOMAIN NoReader
  BY <1>1
<1> QED
  BY <1>2

Returned(r, frame, told, end) ==
  /\ r \in Readers /\ (Sane(r) \/ (foreign /\ end))
  /\ frame = <<>> \/ \E f \in Frames : frame = <<f>>
  /\ told \in KindsTold /\ end \in BOOLEAN

LEMMA CallTyped ==
  ASSUME NEW r, NEW frame, NEW told, NEW end, IInv, MayCall, Call(r, frame, told, end),
         Returned(r, frame, told, end)
  PROVE  /\ TypeOK' /\ (foreign => rest = <<>>)' /\ rd' # NoReader
         /\ file' = file /\ rest' = rest /\ foreign' = foreign /\ rd' = r
         /\ got' = got \o frame /\ peeked' = told /\ ended' = end /\ Astray' = Astray
<1>1. /\ TypeOK /\ (foreign => rest = <<>>)
  BY DEF IInv
<1>2. /\ file' = file /\ rest' = rest /\ foreign' = foreign /\ rd' = r
      /\ got' = got \o frame /\ peeked' = told /\ ended' = end /\ calls' = calls + 1
  BY DEF Call
<1>3. Astray' = Astray
  BY <1>2 DEF Astray, Whole
<1>4. r # NoReader
  BY NotNone DEF Returned
<1>5. got' \in Seq(Frames)
  <2>1. got \in Seq(Frames) /\ frame \in Seq(Frames)
    <3>1. frame = <<>> \/ \E f \in Frames : frame = <<f>>
      BY DEF Returned
    <3>2. CASE frame = <<>>
      BY <1>1, <3>2 DEF TypeOK
    <3>3. CASE \E f \in Frames : frame = <<f>>
      <4>1. PICK f \in Frames : frame = <<f>>
        BY <3>3
      <4>2. <<f>> \in Seq(Frames)
        OBVIOUS
      <4> QED
        BY <1>1, <4>1, <4>2 DEF TypeOK
    <3> QED
      BY <3>1, <3>2, <3>3
  <2>2. got \o frame \in Seq(Frames)
    BY <2>1, ConcatType
  <2> QED
    BY <1>2, <2>2
<1>6. rd' \in Readers /\ (Sane(rd)' \/ (foreign' /\ ended'))
  <2>1. Sane(r) => Sane(rd)'
    BY <1>2 DEF Sane
  <2> QED
    BY <1>2, <2>1 DEF Returned
<1>7. /\ file' \in Seq(FileCell) /\ rest' \in Seq(FileCell) /\ foreign' \in BOOLEAN
      /\ calls' \in Nat /\ ended' \in BOOLEAN /\ peeked' \in KindsTold
  BY <1>1, <1>2 DEF TypeOK, Returned
<1>8. TypeOK'
  BY <1>5, <1>6, <1>7 DEF TypeOK, KindsTold
<1> QED
  BY <1>1, <1>2, <1>3, <1>4, <1>8

LEMMA CallAstray ==
  ASSUME NEW r, NEW frame, NEW told, NEW end, IInv, MayCall, Call(r, frame, told, end),
         Returned(r, frame, told, end), Astray
  PROVE  IInv'
BY CallTyped DEF IInv

(* Where the frames lead the way, a call ends between two of them.          *)
LEMMA CallAhead ==
  ASSUME NEW r, NEW frame, NEW told, NEW end, NEW todo \in Seq(Frames),
         IInv, MayCall, Call(r, frame, told, end), Returned(r, frame, told, end),
         Split(file, rest, got \o frame, todo),
         told = "none" \/ (todo # <<>> /\ told = Head(todo).kind),
         ~(foreign /\ end) => Stands(r, FALSE, Len(CellsOf(got \o frame))),
         end => frame = <<>> /\ (AtEnd(got) \/ Cut(r))
  PROVE  IInv'
<1>1. /\ TypeOK' /\ (foreign => rest = <<>>)' /\ rd' # NoReader
      /\ file' = file /\ rest' = rest /\ foreign' = foreign /\ rd' = r
      /\ got' = got \o frame /\ peeked' = told /\ ended' = end
  BY CallTyped
<1>2. CellsOf(got' \o todo) = file' \o rest' /\ Len(CellsOf(got')) <= Len(file')
  <2>1. CellsOf((got \o frame) \o todo) = file \o rest /\ Len(CellsOf(got \o frame)) <= Len(file)
    BY DEF Split
  <2> QED
    BY <1>1, <2>1
<1>3. ~(foreign' /\ ended') => Stands(rd, FALSE, Len(CellsOf(got)))'
  <2>1. ASSUME ~(foreign' /\ ended') PROVE Stands(rd, FALSE, Len(CellsOf(got)))'
    <3>1. Stands(r, FALSE, Len(CellsOf(got \o frame)))
      BY <1>1, <2>1
    <3> DEFINE n == Len(CellsOf(got \o frame))
    <3>2. (Len(CellsOf(got)))' = n
      BY <1>1
    <3>3. Stands(r, FALSE, n)
      BY <3>1
    <3> QED
      BY <1>1, <3>2, <3>3 DEF Stands, Sane
  <2> QED
    BY <2>1
<1>4. Ahead(todo)'
  BY <1>1, <1>2, <1>3 DEF Ahead
<1>5. ended' => (AtEnd(got) \/ CutIndex)'
  <2>1. ASSUME end PROVE (AtEnd(got) \/ CutIndex)'
    <3>1. frame = <<>> /\ (AtEnd(got) \/ Cut(r))
      BY <2>1
    <3>2. got' = got
      <4>1. got \in Seq(Frames)
        BY DEF IInv, TypeOK
      <4> QED
        BY <1>1, <3>1, <4>1, ConcatEmpty
    <3>3. Whole' = Whole
      BY <1>1 DEF Whole
    <3>4. AtEnd(got) => AtEnd(got)'
      BY <1>1, <3>2, <3>3 DEF AtEnd, Unreadable
    <3>5. Cut(r) => CutIndex'
      BY <1>1, <3>2, <3>3 DEF Cut, CutIndex, Avail
    <3> QED
      BY <3>1, <3>4, <3>5
  <2> QED
    BY <1>1, <2>1
<1>6. \E t \in Seq(Frames) : Ahead(t)'
  BY <1>4
<1> QED
  BY <1>1, <1>5, <1>6 DEF IInv

LEMMA NoneTold == "none" \in KindsTold
BY DEF KindsTold

(* A call that takes a frame or ends.                                       *)
LEMMA CallOutcome ==
  ASSUME NEW done, NEW end \in BOOLEAN, NEW kind, NEW todo \in Seq(Frames), IInv, MayCall, ~Astray,
         Ahead(todo), Call(done.r, done.frame, "none", end), DoneLoose(done),
         Outcome(done, Len(CellsOf(got)), DueOf(todo), kind),
         foreign /\ done.frame = <<>> => end,
         end => done.frame = <<>> /\ (todo = <<>> \/ DueOf(todo).kind = kind)
  PROVE  IInv'
<1> DEFINE n == Len(CellsOf(got))
           f == DueOf(todo)
<1>1. Env /\ Split(file, rest, got, todo) /\ got \in Seq(Frames)
  BY AheadSplit DEF IInv, TypeOK
<1>2. Returned(done.r, done.frame, "none", end)
  BY NoneTold DEF Returned, DoneLoose
<1>3. CASE Took(done, n, f)
  <2>1. PICK t \in Seq(Frames) : Passed(done, t)
    BY <1>1, <1>3, TookPasses
  <2>2. done.frame # <<>>
    BY <1>3 DEF Took
  <2>3. ~end
    BY <2>2
  <2> QED
    BY <1>2, <2>1, <2>3, CallAhead DEF Passed
<1>4. CASE Left(done, n, f, kind)
  <2>1. done.frame = <<>> /\ (~foreign => Stands(done.r, FALSE, n))
    BY <1>4 DEF Left
  <2>2. got \o done.frame = got
    BY <1>1, <2>1, ConcatEmpty
  <2>3. Split(file, rest, got \o done.frame, todo)
    BY <1>1, <2>2
  <2>4. ~(foreign /\ end) => Stands(done.r, FALSE, Len(CellsOf(got \o done.frame)))
    BY <2>1, <2>2
  <2>5. end => AtEnd(got) \/ Cut(done.r)
    <3>1. ASSUME end, todo # <<>> PROVE Excuse(done.r, n, Head(todo))
      <4>1. f.kind = kind /\ f = Head(todo)
        BY <3>1 DEF DueOf
      <4>2. Excuse(done.r, n, f)
        BY <1>4, <4>1 DEF Left
      <4> QED
        BY <4>1, <4>2
    <3>2. ASSUME end PROVE AtEnd(got) \/ Cut(done.r)
      <4>1. todo = <<>> \/ Excuse(done.r, n, Head(todo))
        BY <3>1, <3>2
      <4> QED
        BY <1>1, <4>1, StaysAtEnd
    <3> QED
      BY <3>2
  <2> QED
    BY <1>2, <2>1, <2>3, <2>4, <2>5, CallAhead
<1> QED
  BY <1>3, <1>4 DEF Outcome

(* Reads and skips.                                                         *)
LEMMA MayCallIs ==
  ASSUME IInv, MayCall
  PROVE  TypeOK /\ Env /\ Sane(rd) /\ rd # NoReader /\ ~(foreign /\ ended)
BY DEF IInv, TypeOK, MayCall, Env

LEMMA SkipStep ==
  ASSUME IInv, SkipFrame
  PROVE  IInv'
<1> DEFINE done == Skip(rd)
           end == done.frame = <<>>
<1>1. MayCall /\ Call(done.r, done.frame, "none", end)
  BY DEF SkipFrame
<1>2. Env /\ Sane(rd) /\ rd # NoReader /\ ~(foreign /\ ended)
  BY <1>1, MayCallIs
<1>3. DoneLoose(done)
  BY <1>2, SkipSane, Loosely
<1>4. CASE Astray
  <2> HIDE DEF done
  <2>1. Returned(done.r, done.frame, "none", end)
    BY <1>3, NoneTold DEF DoneLoose, Returned
  <2> QED
    BY <1>1, <1>4, <2>1, CallAstray
<1>5. CASE ~Astray
  <2>1. PICK todo \in Seq(Frames) : Ahead(todo)
    BY <1>5 DEF IInv
  <2>2. Split(file, rest, got, todo) /\ (foreign => rest = <<>>)
    BY <2>1, AheadSplit DEF IInv
  <2> DEFINE n == Len(CellsOf(got))
             f == DueOf(todo)
  <2>3. Stands(rd, FALSE, n)
    BY <1>2, <2>1 DEF Ahead
  <2>4. Faces(n, f)
    BY <1>2, <1>5, <2>2, FacesNext
  <2>5. Outcome(done, n, f, f.kind)
    BY <2>3, <2>4, SkipOutcome
  <2>6. end \in BOOLEAN
    OBVIOUS
  <2>7. end => done.frame = <<>> /\ DueOf(todo).kind = f.kind
    OBVIOUS
  <2>8. foreign /\ done.frame = <<>> => end
    OBVIOUS
  <2> HIDE DEF done, end, f
  <2> QED
    BY <1>1, <1>3, <1>5, <2>1, <2>5, <2>6, <2>7, <2>8, CallOutcome DEF f
<1> QED
  BY <1>4, <1>5

LEMMA ReadStep ==
  ASSUME NEW kind \in Kinds, IInv, Read(kind)
  PROVE  IInv'
<1> DEFINE done == ReadAs(rd, kind)
           end == done.frame = <<>> /\ peeked = kind
<1>1. MayCall /\ Call(done.r, done.frame, "none", end) /\ (foreign => peeked = kind)
  BY DEF Read
<1>2. Env /\ Sane(rd) /\ rd # NoReader /\ ~(foreign /\ ended)
  BY <1>1, MayCallIs
<1>3. DoneLoose(done)
  BY <1>2, ReadLoose
<1>e. end \in BOOLEAN /\ (foreign /\ done.frame = <<>> => end) /\ (end => done.frame = <<>> /\ peeked = kind)
  BY <1>1
<1>4. CASE Astray
  <2> HIDE DEF done, end
  <2>1. Returned(done.r, done.frame, "none", end)
    BY <1>3, <1>e, NoneTold DEF DoneLoose, Returned
  <2> QED
    BY <1>1, <1>4, <2>1, CallAstray
<1>5. CASE ~Astray
  <2>1. PICK todo \in Seq(Frames) : Ahead(todo)
    BY <1>5 DEF IInv
  <2>2. Split(file, rest, got, todo) /\ (foreign => rest = <<>>)
    BY <2>1, AheadSplit DEF IInv
  <2> DEFINE n == Len(CellsOf(got))
             f == DueOf(todo)
  <2>3. Stands(rd, FALSE, n)
    BY <1>2, <2>1 DEF Ahead
  <2>4. Faces(n, f)
    BY <1>2, <1>5, <2>2, FacesNext
  <2>5. Outcome(done, n, f, kind)
    BY <2>3, <2>4, ReadOutcome
  <2>6. peeked = kind => f.kind = kind
    <3>1. kind # "none"
      BY ReaderAssumption
    <3>2. peeked = "none" \/ (todo # <<>> /\ peeked = Head(todo).kind)
      BY <2>1 DEF Ahead
    <3> QED
      BY <3>1, <3>2 DEF DueOf
  <2>7. end => done.frame = <<>> /\ DueOf(todo).kind = kind
    BY <1>e, <2>6
  <2> HIDE DEF done, end, f
  <2> QED
    BY <1>1, <1>3, <1>5, <1>e, <2>1, <2>5, <2>7, CallOutcome DEF f
<1> QED
  BY <1>4, <1>5

LEMMA PeekStep ==
  ASSUME IInv, PeekType
  PROVE  IInv'
<1> DEFINE peek == PeekFrame(rd)
           end == peek.kind = "none"
<1>1. MayCall /\ Call(peek.r, <<>>, peek.kind, end)
  BY DEF PeekType
<1>2. Env /\ Sane(rd) /\ rd # NoReader /\ ~(foreign /\ ended) /\ got \in Seq(Frames)
  BY <1>1, MayCallIs DEF TypeOK
<1>3. Sane(peek.r) /\ peek.kind \in KindsTold
  BY <1>2, PeekKind DEF KindsTold
<1>e. end \in BOOLEAN /\ (end <=> peek.kind = "none")
  OBVIOUS
<1>4. Returned(peek.r, <<>>, peek.kind, end)
  <2> HIDE DEF peek, end
  <2> QED
    BY <1>3, <1>e, SaneIs DEF Returned
<1>5. CASE Astray
  <2> HIDE DEF peek, end
  <2> QED
    BY <1>1, <1>4, <1>5, CallAstray
<1>6. CASE ~Astray
  <2>1. PICK todo \in Seq(Frames) : Ahead(todo)
    BY <1>6 DEF IInv
  <2>2. Split(file, rest, got, todo) /\ (foreign => rest = <<>>)
    BY <2>1, AheadSplit DEF IInv
  <2> DEFINE n == Len(CellsOf(got))
             f == DueOf(todo)
  <2>3. Stands(rd, FALSE, n)
    BY <1>2, <2>1 DEF Ahead
  <2>4. Faces(n, f)
    BY <1>2, <1>6, <2>2, FacesNext
  <2>5. PeekRight(peek, n, f)
    BY <2>3, <2>4, PeekStands
  <2>6. f.kind # "none"
    BY <2>4, FacesIs
  <2>7. got \o <<>> = got
    BY <1>2, ConcatEmpty
  <2>8. todo = <<>> => n = Len(file)
    BY <2>2, NextDue
  <2>9. todo # <<>> => f = Head(todo)
    BY DEF DueOf
  <2> HIDE DEF peek, end, f, n
  <2>10. Stands(peek.r, FALSE, n)
    BY <2>5 DEF PeekRight
  <2>11. CASE peek.kind = "none"
    <3>1. n + f.len > Len(file)
      BY <2>5, <2>6, <2>11 DEF PeekRight
    <3>2. todo = <<>> \/ Excuse(peek.r, n, Head(todo))
      BY <2>9, <3>1 DEF Excuse
    <3>3. AtEnd(got) \/ Cut(peek.r)
      BY <1>2, <2>2, <3>2, StaysAtEnd DEF n
    <3>4. Split(file, rest, got \o <<>>, todo) /\ Stands(peek.r, FALSE, Len(CellsOf(got \o <<>>)))
      BY <2>2, <2>7, <2>10 DEF n
    <3> QED
      BY <1>1, <1>4, <2>11, <3>3, <3>4, CallAhead
  <2>12. CASE peek.kind # "none"
    <3>1. peek.kind = f.kind /\ n < Len(file)
      BY <2>5, <2>12 DEF PeekRight
    <3>2. todo # <<>>
      <4>1. Len(file) \in Nat
        BY <1>2, FileIs
      <4> QED
        BY <2>8, <3>1, <4>1
    <3>3. todo # <<>> /\ peek.kind = Head(todo).kind
      BY <2>9, <3>1, <3>2
    <3>4. Split(file, rest, got \o <<>>, todo) /\ Stands(peek.r, FALSE, Len(CellsOf(got \o <<>>)))
      BY <2>2, <2>7, <2>10 DEF n
    <3>5. ~end
      BY <1>e, <2>12
    <3> QED
      BY <1>1, <1>4, <3>3, <3>4, <3>5, CallAhead
  <2> QED
    BY <2>11, <2>12
<1> QED
  BY <1>5, <1>6

(* A reader that has nothing yet, at the start of the file.                 *)
LEMMA Rewound ==
  ASSUME NEW x \in Readers, NEW b \in Seq(AnyCell)
  PROVE  LET a == [x EXCEPT !.buf = b, !.pos = 0, !.off = 0]
         IN  a \in Readers /\ a.buf = b /\ a.pos = 0 /\ a.off = 0
<1> DEFINE a == [x EXCEPT !.buf = b, !.pos = 0, !.off = 0]
<1>1. 0 \in Int /\ 0 \in Nat
  OBVIOUS
<1>2. a \in Readers
  BY <1>1 DEF Readers
<1>3. a.buf = b /\ a.pos = 0 /\ a.off = 0
  BY DEF Readers
<1> QED
  BY <1>2, <1>3

LEMMA AtStart ==
  ASSUME NEW x \in Readers, Env
  PROVE  ResetOf(x) \in Readers /\ Stands(ResetOf(x), FALSE, 0) /\ Sane(ResetOf(x))
<1> DEFINE a == ResetOf(x)
<1>1. BufSz \in Nat /\ Len(file) \in Nat /\ <<>> \in Seq(AnyCell) /\ Len(<<>>) = 0
  BY ReaderAssumption, FileIs
<1>2. PICK b \in Seq(AnyCell) : b = <<>> /\ Len(b) = 0
  BY <1>1
<1>3. a = [x EXCEPT !.buf = b, !.pos = 0, !.off = 0]
  BY <1>2 DEF ResetOf
<1> HIDE DEF a
<1>4. a \in Readers /\ a.buf = b /\ a.pos = 0 /\ a.off = 0
  BY <1>3, Rewound
<1>5. Sane(a) /\ Avail(a) = 0
  BY <1>1, <1>2, <1>4 DEF Sane, Avail
<1>6. Stands(a, FALSE, 0)
  BY <1>4, <1>5 DEF Stands
<1> QED
  BY <1>4, <1>5, <1>6 DEF a

LEMMA FreshSane ==
  ASSUME Env
  PROVE  Fresh \in Readers /\ Sane(Fresh) /\ Stands(Fresh, FALSE, 0)
<1>1. BufSz \in Nat /\ Len(file) \in Nat /\ <<>> \in Seq(AnyCell) /\ Len(<<>>) = 0
  BY ReaderAssumption, FileIs
<1>2. PICK b \in Seq(AnyCell) : b = <<>> /\ Len(b) = 0
  BY <1>1
<1>3. Fresh = [buf |-> b, pos |-> 0, off |-> 0, end_time |-> 0]
  BY <1>2 DEF Fresh
<1>4. Fresh \in Readers /\ Fresh.buf = b /\ Fresh.pos = 0 /\ Fresh.off = 0
  <2>1. 0 \in Int /\ 0 \in Nat
    OBVIOUS
  <2> QED
    BY <1>3, <2>1 DEF Readers
<1>5. Sane(Fresh) /\ Avail(Fresh) = 0
  BY <1>1, <1>2, <1>4 DEF Sane, Avail
<1>6. Stands(Fresh, FALSE, 0)
  BY <1>4, <1>5 DEF Stands
<1> QED
  BY <1>4, <1>5, <1>6

LEMMA InitHolds == Init => IInv
<1> SUFFICES ASSUME Init PROVE IInv
  OBVIOUS
<1>1. PICK frames \in Captures, all \in BOOLEAN :
        /\ foreign \in BOOLEAN /\ (foreign => all)
        /\ file = IF all THEN CellsOf(frames) ELSE <<>>
        /\ rest = IF all THEN <<>> ELSE CellsOf(frames)
  BY DEF Init
<1>2. rd = NoReader /\ got = <<>> /\ peeked = "none" /\ ended = FALSE /\ calls = 0
  BY DEF Init
<1>3. frames \in Seq(Frames)
  BY ReaderAssumption
<1>4. CellsOf(frames) \in Seq(FileCell) /\ <<>> \in Seq(FileCell)
  BY <1>3, CellsAre
<1>5. file \in Seq(FileCell) /\ rest \in Seq(FileCell) /\ (foreign => rest = <<>>)
  BY <1>1, <1>4
<1>6. <<>> \o frames = frames /\ file \o rest = CellsOf(frames)
  BY <1>1, <1>3, <1>4, ConcatEmpty
<1>7. TypeOK
  <2>1. <<>> \in Seq(Frames)
    OBVIOUS
  <2> QED
    BY <1>1, <1>2, <1>5, <2>1 DEF TypeOK
<1>8. CellsOf(got) = <<>> /\ Len(CellsOf(got)) <= Len(file)
  <2>1. Len(file) \in Nat /\ Len(<<>>) = 0
    BY <1>5
  <2> QED
    BY <1>2, <2>1, CellsNone
<1>9. Ahead(frames)
  BY <1>2, <1>6, <1>8 DEF Ahead
<1> QED
  BY <1>2, <1>3, <1>5, <1>7, <1>9 DEF IInv

LEMMA NewStep ==
  ASSUME NEW untimed \in BOOLEAN, IInv, New(untimed)
  PROVE  IInv'
<1>1. /\ TypeOK /\ (foreign => rest = <<>>) /\ got = <<>> /\ peeked = "none" /\ ~ended /\ Env
  BY DEF IInv, New, TypeOK, Env
<1>2. /\ file' = file /\ rest' = rest /\ foreign' = foreign /\ got' = got
      /\ peeked' = peeked /\ ended' = ended /\ calls' = calls
      /\ rd' = IF untimed THEN DiscoverEndTime(Fresh) ELSE Fresh
  BY DEF New
<1>3. rd' \in Readers /\ Stands(rd', FALSE, 0) /\ Sane(rd')
  <2>1. Sane(Fresh) /\ Fresh \in Readers /\ Stands(Fresh, FALSE, 0)
    BY <1>1, FreshSane
  <2>2. PICK x : DiscoverEndTime(Fresh) = ResetOf(x) /\ Sane(x)
    BY <1>1, <2>1, EndTimeFound
  <2>3. /\ DiscoverEndTime(Fresh) \in Readers /\ Stands(DiscoverEndTime(Fresh), FALSE, 0)
        /\ Sane(DiscoverEndTime(Fresh))
    BY <1>1, <2>2, SaneIs, AtStart
  <2> QED
    BY <1>2, <2>1, <2>3
<1> DEFINE r == rd'
<1>4. TypeOK'
  <2>1. Sane(rd)'
    BY <1>2, <1>3 DEF Sane
  <2> QED
    BY <1>1, <1>2, <1>3, <2>1 DEF TypeOK
<1>5. Astray' = Astray
  BY <1>2 DEF Astray, Whole
<1>6. ASSUME NEW todo \in Seq(Frames), Ahead(todo) PROVE Ahead(todo)'
  <2>1. CellsOf(got \o todo) = file \o rest /\ Len(CellsOf(got)) <= Len(file)
    BY <1>6 DEF Ahead
  <2>2. Len(CellsOf(got)) = 0
    <3>1. Len(<<>>) = 0
      OBVIOUS
    <3> QED
      BY <1>1, <3>1, CellsNone
  <2>3. Stands(rd, FALSE, 0)'
    BY <1>2, <1>3 DEF Stands, Sane
  <2>4. Stands(rd, FALSE, Len(CellsOf(got)))'
    <3>1. Len(CellsOf(got))' = 0
      BY <1>2, <2>2
    <3> QED
      BY <2>3, <3>1
  <2> QED
    BY <1>1, <1>2, <2>1, <2>4 DEF Ahead
<1>7. Astray' \/ \E todo \in Seq(Frames) : Ahead(todo)'
  BY <1>5, <1>6 DEF IInv
<1> QED
  BY <1>1, <1>2, <1>4, <1>7 DEF IInv

Begins(x) ==
  /\ file' = file /\ rest' = rest /\ foreign' = foreign /\ got' = <<>>
  /\ peeked' = "none" /\ ended' = FALSE /\ calls' = 0 /\ rd' = ResetOf(x)
LEMMA BeginStep ==
  ASSUME NEW x \in Readers, IInv, Begins(x)
  PROVE  IInv'
<1>1. TypeOK /\ (foreign => rest = <<>>) /\ Env
  BY DEF IInv, TypeOK, Env
<1>2. /\ file' = file /\ rest' = rest /\ foreign' = foreign /\ got' = <<>>
      /\ peeked' = "none" /\ ended' = FALSE /\ calls' = 0 /\ rd' = ResetOf(x)
  BY DEF Begins
<1>3. rd' \in Readers /\ Stands(rd', FALSE, 0) /\ Sane(rd') /\ rd' # NoReader
  BY <1>1, <1>2, AtStart, NotNone
<1>4. TypeOK'
  <2>1. Sane(rd)'
    BY <1>2, <1>3 DEF Sane
  <2>2. <<>> \in Seq(Frames)
    OBVIOUS
  <2> QED
    BY <1>1, <1>2, <1>3, <2>1, <2>2 DEF TypeOK
<1>5. Astray' = Astray
  BY <1>2 DEF Astray, Whole
<1>6. ASSUME NEW todo \in Seq(Frames), Ahead(todo)
      PROVE  \E t \in Seq(Frames) : Ahead(t)'
  <2>1. CellsOf(got \o todo) = file \o rest /\ got \in Seq(Frames)
    BY <1>1, <1>6 DEF Ahead, TypeOK
  <2> DEFINE t == got \o todo
  <2>2. t \in Seq(Frames) /\ <<>> \o t = t
    BY <2>1, ConcatType, ConcatEmpty
  <2>3. CellsOf(<<>> \o t) = file \o rest
    BY <2>1, <2>2
  <2>4. PICK u \in Seq(Frames) : CellsOf(<<>> \o u) = file \o rest
    BY <2>2, <2>3
  <2>5. CellsOf(got' \o u) = file' \o rest'
    BY <1>2, <2>4
  <2>6. Len(CellsOf(got')) = 0 /\ Len(CellsOf(got')) <= Len(file')
    <3>1. Len(<<>>) = 0 /\ Len(file) \in Nat
      BY <1>1 DEF TypeOK
    <3> QED
      BY <1>2, <3>1, CellsNone
  <2>7. Stands(rd, FALSE, 0)'
    BY <1>2, <1>3 DEF Stands, Sane
  <2>8. Stands(rd, FALSE, Len(CellsOf(got)))'
    BY <2>6, <2>7
  <2>9. Ahead(u)'
    BY <1>2, <2>5, <2>6, <2>8 DEF Ahead
  <2> QED
    BY <2>9
<1>7. Astray' \/ \E todo \in Seq(Frames) : Ahead(todo)'
  BY <1>5, <1>6 DEF IInv
<1> QED
  BY <1>1, <1>2, <1>3, <1>4, <1>7 DEF IInv

LEMMA ResetStep ==
  ASSUME IInv, Reset
  PROVE  IInv'
<1>1. rd \in Readers /\ Begins(rd)
  BY DEF IInv, TypeOK, Reset, Begins
<1> QED
  BY <1>1, BeginStep

LEMMA GrowStep ==
  ASSUME IInv, Grow
  PROVE  IInv'
<1>1. /\ TypeOK /\ (foreign => rest = <<>>) /\ rest # <<>> /\ ~foreign
      /\ file \in Seq(FileCell) /\ rest \in Seq(FileCell) /\ Len(file) \in Nat
  BY DEF IInv, Grow, TypeOK
<1>2. PICK k \in 1 .. Len(rest) :
        file' = file \o SubSeq(rest, 1, k) /\ rest' = SubSeq(rest, k + 1, Len(rest))
  BY DEF Grow
<1>3. /\ ended' = FALSE /\ foreign' = foreign /\ rd' = rd /\ got' = got
      /\ peeked' = peeked /\ calls' = calls
  BY DEF Grow
<1> DEFINE p == SubSeq(rest, 1, k)
           q == SubSeq(rest, k + 1, Len(rest))
<1>4. p \in Seq(FileCell) /\ q \in Seq(FileCell) /\ p \o q = rest
  BY <1>1
<1> HIDE DEF p, q
<1>5. /\ file \o p \in Seq(FileCell) /\ Len(file \o p) = Len(file) + Len(p) /\ Len(p) \in Nat
      /\ \A i \in 1 .. Len(file) : (file \o p)[i] = file[i]
  BY <1>1, <1>4, ConcatIs
<1>6. /\ file' \in Seq(FileCell) /\ rest' \in Seq(FileCell) /\ Len(file') >= Len(file)
      /\ Len(file') \in Nat /\ \A i \in 1 .. Len(file) : file'[i] = file[i]
  BY <1>1, <1>2, <1>4, <1>5 DEF p, q
<1>7. file' \o rest' = file \o rest
  <2>1. Assoc(file, p, q)
    BY <1>1, <1>4, ConcatAssoc
  <2> QED
    BY <1>2, <1>4, <2>1 DEF Assoc, p, q
<1>8. Sane(rd) => Sane(rd)'
  <2>1. ASSUME Sane(rd) PROVE Sane(rd)'
    <3>1. rd.off \in Nat /\ rd.off <= Len(file)
      BY <2>1, SaneIs
    <3>2. rd.off <= Len(file')
      BY <1>1, <1>6, <3>1
    <3> QED
      BY <1>3, <2>1, <3>2 DEF Sane
  <2> QED
    BY <2>1
<1>9. TypeOK'
  BY <1>1, <1>3, <1>6, <1>8 DEF TypeOK
<1>10. PICK todo \in Seq(Frames) : Ahead(todo)
  BY <1>1 DEF IInv, Astray
<1>11. Ahead(todo)'
  <2>1. /\ CellsOf(got \o todo) = file \o rest /\ Len(CellsOf(got)) <= Len(file)
        /\ peeked = "none" \/ (todo # <<>> /\ peeked = Head(todo).kind)
        /\ rd # NoReader => Stands(rd, FALSE, Len(CellsOf(got)))
    BY <1>1, <1>10 DEF Ahead
  <2>2. CellsOf(got) \in Seq(FileCell) /\ Len(CellsOf(got)) \in Nat
    <3>1. got \in Seq(Frames)
      BY <1>1 DEF TypeOK
    <3>2. CellsOf(got) \in Seq(FileCell)
      BY <3>1, CellsAre
    <3> QED
      BY <3>2
  <2>3. PICK n : n = Len(CellsOf(got))
    OBVIOUS
  <2>4. ASSUME Stands(rd, FALSE, n) PROVE Stands(rd, FALSE, n)'
    <3>1. /\ Sane(rd) /\ n \in Nat /\ Avail(rd) \in Nat /\ n + Avail(rd) <= Len(file)
          /\ rd.off = n + Avail(rd)
      BY <2>4, StandsIs
    <3>2. ASSUME NEW i \in 1 .. Avail(rd)
          PROVE  rd.buf[rd.pos + i] = IF i = 1 THEN [file'[n + 1] EXCEPT !.swapped = FALSE] ELSE file'[n + i]
      <4>1. n + i \in 1 .. Len(file)
        BY <1>1, <3>1
      <4>2. file'[n + i] = file[n + i]
        BY <1>6, <4>1
      <4> QED
        BY <2>4, <4>2 DEF Stands
    <3>3. Sane(rd)' /\ Avail(rd)' = Avail(rd)
      BY <1>3, <1>8, <3>1 DEF Avail
    <3> QED
      BY <1>3, <3>1, <3>2, <3>3 DEF Stands
  <2>5. rd' # NoReader => Stands(rd, FALSE, Len(CellsOf(got)))'
    <3>1. ASSUME rd' # NoReader PROVE Stands(rd, FALSE, Len(CellsOf(got)))'
      <4>1. Stands(rd, FALSE, n)'
        BY <1>3, <2>1, <2>3, <2>4, <3>1
      <4>2. (Len(CellsOf(got)))' = n
        BY <1>3, <2>3
      <4> QED
        BY <4>1, <4>2
    <3> QED
      BY <3>1
  <2>6. CellsOf(got' \o todo) = file' \o rest' /\ Len(CellsOf(got')) <= Len(file')
    BY <1>1, <1>3, <1>6, <1>7, <2>1, <2>2
  <2> QED
    BY <1>3, <2>1, <2>5, <2>6 DEF Ahead
<1>12. rd' = NoReader => got' = <<>> /\ peeked' = "none" /\ ~ended'
  BY <1>3 DEF IInv
<1>13. \E t \in Seq(Frames) : Ahead(t)'
  BY <1>11
<1> QED
  BY <1>1, <1>3, <1>9, <1>12, <1>13 DEF IInv

LEMMA StepHolds ==
  ASSUME IInv, [Next]_vars
  PROVE  IInv'
<1>1. CASE UNCHANGED vars
  BY <1>1 DEF vars, IInv, TypeOK, Sane, Ahead, Stands, Avail, Astray, Whole, AtEnd, CutIndex, Unreadable
<1>2. CASE Next
  BY <1>2, GrowStep, PeekStep, SkipStep, ResetStep, NewStep, ReadStep DEF Next
<1> QED
  BY <1>1, <1>2

LEMMA InOrder == IInv => WalkInOrder
<1> SUFFICES ASSUME IInv, ~Astray
             PROVE  IsPrefix(got, Whole) /\ (ended => AtEnd(got) \/ CutIndex)
  BY DEF WalkInOrder
<1>1. PICK todo \in Seq(Frames) : Ahead(todo)
  BY DEF IInv
<1>2. Split(file, rest, got, todo)
  BY <1>1, AheadSplit DEF IInv
<1>3. IsPrefix(got, Whole)
  BY <1>2, PrefixWhole DEF Whole
<1> QED
  BY <1>3 DEF IInv

-----------------------------------------------------------------------------
(* Those of a sequence of frames that are in a set.                         *)

Picked(s, these) == [n \in DOMAIN s |-> IF s[n] \in these THEN <<s[n]>> ELSE <<>>]

LEMMA OnlyNone ==
  ASSUME NEW these
  PROVE  Only(<<>>, these) = <<>>
<1>1. Picked(<<>>, these) = <<>>
  BY DEF Picked
<1> QED
  BY <1>1, FlattenNothing DEF Only, Picked

LEMMA PickedMore ==
  ASSUME NEW s \in Seq(Frames), NEW f \in Frames, NEW these
  PROVE  Only(Append(s, f), these) = Only(s, these) \o (IF f \in these THEN <<f>> ELSE <<>>)
<1> DEFINE p == Picked(s, these)
           k == Len(s)
           c == IF f \in these THEN <<f>> ELSE <<>>
<1>1. k \in Nat /\ DOMAIN s = 1 .. k /\ \A i \in 1 .. k : s[i] \in Frames
  OBVIOUS
<1>2. p \in Seq(Seq(Frames)) /\ Len(p) = k
      /\ \A i \in 1 .. k : p[i] = IF s[i] \in these THEN <<s[i]>> ELSE <<>>
  <2>1. p \in [1 .. k -> Seq(Frames)]
        /\ \A i \in 1 .. k : p[i] = IF s[i] \in these THEN <<s[i]>> ELSE <<>>
    BY <1>1 DEF Picked
  <2> HIDE DEF p, k
  <2> QED
    BY <1>1, <2>1, OfLength
<1>c. c \in Seq(Frames)
  OBVIOUS
<1>3. Picked(Append(s, f), these) = Append(p, c)
  <2>1. Picked(Append(s, f), these) =
          [i \in 1 .. k + 1 |-> IF i = k + 1 THEN c ELSE IF s[i] \in these THEN <<s[i]>> ELSE <<>>]
    BY <1>1 DEF Picked
  <2> HIDE DEF p, k, c
  <2>2. Append(p, c) = [i \in 1 .. k + 1 |-> IF i = k + 1 THEN c ELSE p[i]]
    <3> DEFINE q == Append(p, c)
    <3>1. /\ q \in Seq(Seq(Frames)) /\ Len(q) = k + 1 /\ q[k + 1] = c
          /\ \A i \in 1 .. k : q[i] = p[i]
      BY <1>2, <1>c, AppendProperties
    <3> HIDE DEF q
    <3>2. q = [i \in 1 .. k + 1 |-> q[i]]
      BY <3>1
    <3>3. \A i \in 1 .. k + 1 : i # k + 1 => i \in 1 .. k
      BY <1>1
    <3> QED
      BY <3>1, <3>2, <3>3 DEF q
  <2>3. \A i \in 1 .. k + 1 : i # k + 1 => p[i] = IF s[i] \in these THEN <<s[i]>> ELSE <<>>
    BY <1>1, <1>2
  <2> QED
    BY <2>1, <2>2, <2>3
<1> HIDE DEF p, k, c
<1>4. FlattenSeq(Append(p, c)) = FlattenSeq(p) \o c
  BY <1>2, <1>c, FlattenAppend
<1>5. Only(s, these) = FlattenSeq(p)
  BY DEF Only, Picked, p
<1>6. Only(Append(s, f), these) = FlattenSeq(Picked(Append(s, f), these))
  BY DEF Only, Picked
<1> QED
  BY <1>3, <1>4, <1>5, <1>6 DEF c

LEMMA OnlyType ==
  ASSUME NEW s \in Seq(Frames), NEW these
  PROVE  Only(s, these) \in Seq(Frames)
<1> DEFINE S == {t \in Seq(Frames) : Only(t, these) \in Seq(Frames)}
<1>1. <<>> \in S
  <2>1. <<>> \in Seq(Frames)
    OBVIOUS
  <2> QED
    BY <2>1, OnlyNone
<1>2. ASSUME NEW t \in Seq(Frames), NEW f \in Frames, t \in S PROVE Append(t, f) \in S
  <2> DEFINE c == IF f \in these THEN <<f>> ELSE <<>>
  <2>1. c \in Seq(Frames) /\ Append(t, f) \in Seq(Frames)
    OBVIOUS
  <2>2. Only(Append(t, f), these) = Only(t, these) \o c
    BY PickedMore
  <2> HIDE DEF c
  <2>3. Only(t, these) \o c \in Seq(Frames)
    BY <1>2, <2>1, ConcatType
  <2> QED
    BY <2>1, <2>2, <2>3
<1> HIDE DEF S
<1>3. s \in S
  BY <1>1, <1>2, AllSequences
<1> QED
  BY <1>3 DEF S

LEMMA OnlyMore ==
  ASSUME NEW s \in Seq(Frames), NEW f \in Frames, NEW these
  PROVE  Only(Append(s, f), these) = IF f \in these THEN Append(Only(s, these), f) ELSE Only(s, these)
<1> DEFINE o == Only(s, these)
<1>1. o \in Seq(Frames)
  BY OnlyType
<1>2. Only(Append(s, f), these) = o \o (IF f \in these THEN <<f>> ELSE <<>>)
  BY PickedMore
<1> HIDE DEF o
<1>3. o \o <<f>> = Append(o, f) /\ o \o <<>> = o
  BY <1>1
<1> QED
  BY <1>2, <1>3 DEF o

(* What is picked of a beginning is the beginning of what is picked.        *)
OnlyOn(s, t, these) == \E y \in Seq(Frames) : Only(s \o t, these) = Only(s, these) \o y
LEMMA OnlyGoesOn ==
  ASSUME NEW s \in Seq(Frames), NEW t \in Seq(Frames), NEW these
  PROVE  OnlyOn(s, t, these)
<1> DEFINE S == {u \in Seq(Frames) : OnlyOn(s, u, these)}
<1>0. Only(s, these) \in Seq(Frames)
  BY OnlyType
<1>1. <<>> \in S
  <2>1. <<>> \in Seq(Frames) /\ s \o <<>> = s
    OBVIOUS
  <2>2. Only(s, these) \o <<>> = Only(s, these)
    BY <1>0, ConcatEmpty
  <2> QED
    BY <2>1, <2>2 DEF OnlyOn
<1>2. ASSUME NEW u \in Seq(Frames), NEW f \in Frames, u \in S PROVE Append(u, f) \in S
  <2>1. PICK y \in Seq(Frames) : Only(s \o u, these) = Only(s, these) \o y
    BY <1>2 DEF OnlyOn
  <2>2. s \o u \in Seq(Frames) /\ Append(u, f) \in Seq(Frames) /\ s \o Append(u, f) = Append(s \o u, f)
    BY ConcatType
  <2>3. Only(s \o Append(u, f), these) =
          IF f \in these THEN Append(Only(s \o u, these), f) ELSE Only(s \o u, these)
    BY <2>2, OnlyMore
  <2> DEFINE o == Only(s, these)
  <2>4. Append(o \o y, f) = o \o Append(y, f) /\ Append(y, f) \in Seq(Frames)
    <3> HIDE DEF o
    <3>1. o \in Seq(Frames) /\ <<f>> \in Seq(Frames)
      BY <1>0 DEF o
    <3>2. Assoc(o, y, <<f>>) /\ o \o y \in Seq(Frames)
      BY <3>1, ConcatAssoc, ConcatType
    <3>3. \A q \in Seq(Frames) : Append(q, f) = q \o <<f>>
      OBVIOUS
    <3>4. Append(o \o y, f) = (o \o y) \o <<f>> /\ Append(y, f) = y \o <<f>>
      BY <3>2, <3>3
    <3> QED
      BY <3>2, <3>4 DEF Assoc
  <2>5. OnlyOn(s, Append(u, f), these)
    BY <2>1, <2>3, <2>4 DEF OnlyOn
  <2> QED
    BY <2>2, <2>5
<1> HIDE DEF S
<1>3. t \in S
  BY <1>1, <1>2, AllSequences
<1> QED
  BY <1>3 DEF S

(* What is picked was there.                                                *)
AllPicked(s, these) ==
  /\ \A i \in 1 .. Len(Only(s, these)) :
       \E k \in 1 .. Len(s) : Only(s, these)[i] = s[k] /\ s[k] \in these
  /\ Only(s, these) = <<>> => \A k \in 1 .. Len(s) : s[k] \notin these
LEMMA OnlyPicks ==
  ASSUME NEW s \in Seq(Frames), NEW these
  PROVE  AllPicked(s, these)
<1> DEFINE S == {u \in Seq(Frames) : AllPicked(u, these)}
<1>1. <<>> \in S
  <2>1. <<>> \in Seq(Frames) /\ Len(<<>>) = 0
    OBVIOUS
  <2> QED
    BY <2>1, OnlyNone DEF AllPicked
<1>2. ASSUME NEW u \in Seq(Frames), NEW f \in Frames, u \in S PROVE Append(u, f) \in S
  <2> DEFINE v == Append(u, f)
             o == Only(u, these)
             p == Only(v, these)
  <2>1. /\ o \in Seq(Frames)
        /\ \A i \in 1 .. Len(o) : \E k \in 1 .. Len(u) : o[i] = u[k] /\ u[k] \in these
        /\ o = <<>> => \A k \in 1 .. Len(u) : u[k] \notin these
    BY <1>2, OnlyType DEF AllPicked
  <2>2. p = IF f \in these THEN Append(o, f) ELSE o
    BY OnlyMore
  <2>3. v \in Seq(Frames) /\ Len(v) = Len(u) + 1 /\ v[Len(v)] = f /\ Len(u) \in Nat
        /\ \A k \in 1 .. Len(u) : v[k] = u[k]
    OBVIOUS
  <2> HIDE DEF v, o, p
  <2>4. CASE f \in these
    <3>1. Len(p) = Len(o) + 1 /\ p[Len(p)] = f /\ Len(o) \in Nat /\ p # <<>>
          /\ \A i \in 1 .. Len(o) : p[i] = o[i]
      BY <2>1, <2>2, <2>4
    <3>2. ASSUME NEW i \in 1 .. Len(p) PROVE \E k \in 1 .. Len(v) : p[i] = v[k] /\ v[k] \in these
      <4>1. CASE i = Len(p)
        <5>1. Len(v) \in 1 .. Len(v)
          BY <2>3
        <5> QED
          BY <2>3, <2>4, <3>1, <4>1, <5>1
      <4>2. CASE i # Len(p)
        <5>1. i \in 1 .. Len(o)
          BY <3>1, <4>2
        <5>2. PICK k \in 1 .. Len(u) : o[i] = u[k] /\ u[k] \in these
          BY <2>1, <5>1
        <5>3. k \in 1 .. Len(v) /\ v[k] = u[k] /\ p[i] = o[i]
          BY <2>3, <3>1, <5>1
        <5> QED
          BY <5>2, <5>3
      <4> QED
        BY <4>1, <4>2
    <3>3. AllPicked(v, these)
      BY <3>1, <3>2 DEF AllPicked, p
    <3> QED
      BY <2>3, <3>3 DEF v
  <2>5. CASE f \notin these
    <3>1. p = o
      BY <2>2, <2>5
    <3>2. ASSUME NEW i \in 1 .. Len(p) PROVE \E k \in 1 .. Len(v) : p[i] = v[k] /\ v[k] \in these
      <4>1. PICK k \in 1 .. Len(u) : o[i] = u[k] /\ u[k] \in these
        BY <2>1, <3>1
      <4>2. k \in 1 .. Len(v) /\ v[k] = u[k]
        BY <2>3
      <4> QED
        BY <3>1, <4>1, <4>2
    <3>3. ASSUME p = <<>>, NEW k \in 1 .. Len(v) PROVE v[k] \notin these
      <4>1. CASE k = Len(v)
        BY <2>3, <2>5, <4>1
      <4>2. CASE k # Len(v)
        <5>1. k \in 1 .. Len(u)
          BY <2>3, <4>2
        <5> QED
          BY <2>1, <2>3, <3>1, <3>3, <5>1
      <4> QED
        BY <4>1, <4>2
    <3>4. AllPicked(v, these)
      BY <3>2, <3>3 DEF AllPicked, p
    <3> QED
      BY <2>3, <3>4 DEF v
  <2> QED
    BY <2>4, <2>5
<1> HIDE DEF S
<1>3. s \in S
  BY <1>1, <1>2, AllSequences
<1> QED
  BY <1>3 DEF S

(* Every frame has a cell.                                                  *)
LEMMA FewerFrames ==
  ASSUME NEW s \in Seq(Frames)
  PROVE  Len(s) <= Len(CellsOf(s))
<1> DEFINE S == {u \in Seq(Frames) : Len(u) <= Len(CellsOf(u))}
<1>1. <<>> \in S
  <2>1. <<>> \in Seq(Frames) /\ Len(<<>>) = 0
    OBVIOUS
  <2> QED
    BY <2>1, CellsNone
<1>2. ASSUME NEW u \in Seq(Frames), NEW f \in Frames, u \in S PROVE Append(u, f) \in S
  <2>1. /\ CellsOf(u) \in Seq(FileCell) /\ CellsOf(Append(u, f)) = CellsOf(u) \o Piece(f)
        /\ Piece(f) \in Seq(FileCell) /\ Len(Piece(f)) = f.len /\ f.len \in Nat \ {0}
    BY CellsAre, PieceIs, FramesMade
  <2>2. Len(CellsOf(Append(u, f))) = Len(CellsOf(u)) + f.len /\ Len(CellsOf(u)) \in Nat
    <3> DEFINE a == CellsOf(u)
               b == Piece(f)
    <3>1. a \in Seq(FileCell) /\ b \in Seq(FileCell) /\ Len(b) = f.len /\ CellsOf(Append(u, f)) = a \o b
      BY <2>1
    <3> HIDE DEF a, b
    <3>2. Len(a \o b) = Len(a) + Len(b) /\ Len(a) \in Nat
      BY <3>1, ConcatIs
    <3> QED
      BY <3>1, <3>2 DEF a
  <2>3. Append(u, f) \in Seq(Frames) /\ Len(Append(u, f)) = Len(u) + 1 /\ Len(u) \in Nat
    OBVIOUS
  <2>4. Len(u) <= Len(CellsOf(u))
    BY <1>2
  <2> QED
    BY <2>1, <2>2, <2>3, <2>4
<1> HIDE DEF S
<1>3. s \in S
  BY <1>1, <1>2, AllSequences
<1> QED
  BY <1>3 DEF S

-----------------------------------------------------------------------------
(* The function of the turns of a loop.                                     *)

First(op, r) == Goes(r, IF op = "list" THEN {} ELSE <<>>)
LoopOf(op, of, r, turn) ==
  /\ Loop(op, of, r) = turn[Len(file) + 1] /\ turn[0] = First(op, r)
  /\ \A n \in 0 .. Len(file) : turn[n + 1] = TurnOf(op, of, turn[n])
Turning(op, of, start, last, turn) ==
  turn = [n \in 0 .. last |-> IF n = 0 THEN start ELSE TurnOf(op, of, turn[n - 1])]
LEMMA LoopExists ==
  ASSUME NEW op, NEW of, NEW start, NEW last \in Nat
  PROVE  \E turn : Turning(op, of, start, last, turn)
<1> DEFINE D == 0 .. last
           Put(g, i) == IF i = 0 THEN start ELSE TurnOf(op, of, g[i - 1])
           Right(g, n) == \A i \in D : i <= n => g[i] = Put(g, i)
           S == {n \in Nat : \E g : Right(g, n)}
<1>2. 0 \in S
  <2> DEFINE g == [i \in D |-> start]
  <2>1. Right(g, 0)
    <3>1. \A i \in D : i <= 0 => i = 0
      OBVIOUS
    <3> QED
      BY <3>1
  <2>2. \E h : Right(h, 0)
    BY <2>1
  <2> QED
    BY <2>2
<1>3. ASSUME NEW n \in 0 .. last - 1, n \in S
      PROVE  n + 1 \in S
  <2>1. PICK g : Right(g, n)
    BY <1>3
  <2> DEFINE m == n + 1
             x == TurnOf(op, of, g[n])
             h == [i \in D |-> IF i = m THEN x ELSE g[i]]
  <2>2. m \in D /\ m \in Nat /\ n \in Nat /\ n \in D /\ m - 1 = n /\ m # 0
    OBVIOUS
  <2> HIDE DEF x
  <2>4. h[m] = x /\ \A i \in D : i # m => h[i] = g[i]
    BY <2>2
  <2> HIDE DEF h
  <2>5. ASSUME NEW i \in D, i <= m
        PROVE  h[i] = Put(h, i)
    <3>1. CASE i = m
      <4>1. h[n] = g[n]
        BY <2>2, <2>4
      <4>2. Put(h, m) = TurnOf(op, of, h[n])
        BY <2>2
      <4> QED
        BY <2>4, <3>1, <4>1, <4>2 DEF x
    <3>2. CASE i # m /\ i # 0
      <4>1. i <= n /\ i - 1 \in D /\ i - 1 # m
        BY <2>2, <2>5, <3>2
      <4>2. g[i] = TurnOf(op, of, g[i - 1]) /\ h[i] = g[i] /\ h[i - 1] = g[i - 1]
        BY <2>1, <2>4, <3>2, <4>1
      <4> QED
        BY <3>2, <4>2
    <3>3. CASE i # m /\ i = 0
      BY <2>1, <2>2, <2>4, <3>3
    <3> QED
      BY <3>1, <3>2, <3>3
  <2>6. Right(h, n + 1)
    BY <2>5
  <2>7. \E k : Right(k, n + 1)
    BY <2>6
  <2> QED
    BY <2>2, <2>7
<1>4. last \in S
  <2> HIDE DEF S
  <2>1. \A n \in 0 .. last : n \in S
    BY <1>2, <1>3, Upwards
  <2> QED
    BY <2>1
<1>5. PICK f : Right(f, last)
  BY <1>4
<1> DEFINE g == [i \in D |-> f[i]]
<1>6. \A i \in D : g[i] = Put(g, i)
  <2>1. ASSUME NEW i \in D PROVE g[i] = Put(g, i)
    <3>1. g[i] = f[i] /\ f[i] = Put(f, i)
      BY <1>5
    <3>2. i # 0 => i - 1 \in D /\ g[i - 1] = f[i - 1]
      OBVIOUS
    <3> HIDE DEF g
    <3> QED
      BY <3>1, <3>2
  <2> QED
    BY <2>1
<1>7. g = [i \in D |-> Put(g, i)]
  <2>1. g = [i \in D |-> g[i]]
    OBVIOUS
  <2> HIDE DEF Put, g
  <2> QED
    BY <1>6, <2>1
<1> HIDE DEF g
<1>8. Turning(op, of, start, last, g)
  BY <1>7 DEF Turning
<1> QED
  BY <1>8

LEMMA LoopIs ==
  ASSUME NEW op, NEW of, NEW r, Env
  PROVE  \E turn : LoopOf(op, of, r, turn)
<1> DEFINE N == Len(file) + 1
           start == First(op, r)
           P(turn) == Turning(op, of, start, N, turn)
           turn == CHOOSE turn : P(turn)
<1>1. N \in Nat /\ N \in 0 .. N /\ N # 0 /\ Len(file) \in Nat
  BY FileIs
<1>2. Loop(op, of, r) = turn[N]
  BY DEF Loop, First, Turning
<1>3. PICK g : P(g)
  <2> HIDE DEF N, start
  <2> QED
    BY <1>1, LoopExists
<1>4. P(turn)
  <2> HIDE DEF P
  <2> QED
    BY <1>3
<1> HIDE DEF turn
<1>5. \A n \in 0 .. N : turn[n] = IF n = 0 THEN start ELSE TurnOf(op, of, turn[n - 1])
  BY <1>4 DEF Turning
<1> HIDE DEF start, P
<1>6. turn[0] = start
  <2>1. 0 \in 0 .. N
    BY <1>1
  <2> QED
    BY <1>5, <2>1
<1>7. ASSUME NEW n \in 0 .. Len(file) PROVE turn[n + 1] = TurnOf(op, of, turn[n])
  <2>1. n + 1 \in 0 .. N /\ n + 1 # 0 /\ (n + 1) - 1 = n
    BY <1>1
  <2> QED
    BY <1>5, <2>1
<1> QED
  BY <1>2, <1>6, <1>7 DEF LoopOf, start

(* Which readers a question leaves behind.                                  *)
Questions == {"find", "list", "write"}
LEMMA ChunkSane ==
  ASSUME NEW r, Env, Sane(r)
  PROVE  DoneSane(ReadChunk(PeekFrame(r))) /\ Sane(PeekFrame(r).r)
<1>1. Sane(PeekFrame(r).r)
  BY PeekKind
<1> QED
  BY <1>1, StructSane, SkipSane DEF ReadChunk

LEMMA TurnSane ==
  ASSUME NEW op \in Questions, NEW of, NEW turn, Env, Sane(turn.r)
  PROVE  Sane(TurnOf(op, of, turn).r)
<1> DEFINE peek == PeekFrame(turn.r)
           next == ReadChunk(peek)
           read == IF peek.kind = "file" THEN ReadStruct(peek.r, "file") ELSE Fail(peek.r)
           skip == Skip(read.r)
<1>1. Sane(peek.r) /\ Sane(next.r)
  BY ChunkSane DEF DoneSane
<1>2. FindFile(turn, of).r \in {peek.r, next.r} /\ ListFiles(turn).r \in {peek.r, next.r}
  BY DEF FindFile, ListFiles, Goes, Ends
<1>3. Sane(read.r)
  BY <1>1, StructSane, FailSane DEF DoneSane
<1>4. ReadFileFd(turn, of).r \in {read.r, skip.r}
  <2> HIDE DEF read
  <2>1. ReadFileFd(turn, of) =
          IF peek.kind = "none" \/ (peek.kind = "file" /\ read.frame = <<>>)
          THEN Ends(read.r, FALSE, turn.out)
          ELSE IF peek.kind = "file" /\ read.frame[1].path = of
          THEN IF read.frame[1].last THEN Ends(read.r, TRUE, Append(turn.out, read.frame[1].id))
               ELSE Goes(read.r, Append(turn.out, read.frame[1].id))
          ELSE IF skip.frame = <<>> THEN Ends(skip.r, FALSE, turn.out)
          ELSE Goes(skip.r, turn.out)
    BY DEF ReadFileFd, read
  <2> HIDE DEF peek, skip
  <2> QED
    BY <2>1 DEF Goes, Ends
<1> HIDE DEF read
<1>5. Sane(skip.r)
  BY <1>3, SkipSane DEF DoneSane
<1>6. TurnOf(op, of, turn) \in {turn, FindFile(turn, of), ListFiles(turn), ReadFileFd(turn, of)}
  BY DEF TurnOf, Questions
<1> HIDE DEF peek, next, skip
<1> QED
  BY <1>1, <1>2, <1>3, <1>4, <1>5, <1>6

LEMMA LoopSane ==
  ASSUME NEW op \in Questions, NEW of, NEW r, Env, Sane(r)
  PROVE  Sane(Loop(op, of, r).r)
<1>1. PICK turn : LoopOf(op, of, r, turn)
  BY LoopIs
<1>2. Len(file) \in Nat
  BY FileIs
<1> DEFINE S == {n \in Nat : Sane(turn[n].r)}
           N == Len(file) + 1
<1>3. 0 \in S
  BY <1>1 DEF LoopOf, First, Goes
<1>4. ASSUME NEW n \in 0 .. N - 1, n \in S PROVE n + 1 \in S
  <2>1. n \in 0 .. Len(file) /\ n + 1 \in Nat /\ Sane(turn[n].r)
    BY <1>2, <1>4
  <2>2. turn[n + 1] = TurnOf(op, of, turn[n])
    BY <1>1, <2>1 DEF LoopOf
  <2>3. Sane(TurnOf(op, of, turn[n]).r)
    BY <2>1, TurnSane
  <2>4. Sane(turn[n + 1].r)
    BY <2>2, <2>3
  <2> QED
    BY <2>1, <2>4
<1> HIDE DEF S
<1>5. N \in S
  <2>1. N \in Nat
    BY <1>2
  <2> HIDE DEF N
  <2>2. \A n \in 0 .. N : n \in S
    BY <1>3, <1>4, <2>1, Upwards
  <2>3. N \in 0 .. N
    BY <2>1
  <2> QED
    BY <2>2, <2>3
<1> QED
  BY <1>1, <1>5 DEF S, LoopOf

-----------------------------------------------------------------------------
(* A reader of a file of this machine that stands behind the frames s, with *)
(* the frames t to come.                                                    *)

Between(r, s, t) == Split(file, rest, s, t) /\ Stands(r, FALSE, Len(CellsOf(s)))

LEMMA FacesAny ==
  ASSUME NEW s, NEW t, Env, ~foreign, Split(file, rest, s, t)
  PROVE  Faces(Len(CellsOf(s)), DueOf(t))
<1> DEFINE n == Len(CellsOf(s))
<1>1. s \in Seq(Frames) /\ t \in Seq(Frames) /\ CellsOf(s) \in Seq(FileCell) /\ n \in Nat
  BY CellsAre DEF Split
<1>2. /\ t # <<>> => Due(file, n, Head(t))
      /\ t = <<>> => n = Len(file)
  BY NextDue
<1>3. CASE t = <<>>
  <2>1. DueOf(t) = NoFrame
    BY <1>3 DEF DueOf
  <2>2. WellMade(NoFrame)
    <3>1. BufSz \in Nat \ {0}
      BY ReaderAssumption
    <3> QED
      BY <3>1 DEF WellMade, NoFrame, MinLen, Basic, Counters
  <2>3. Due(file, n, NoFrame)
    BY <1>1, <1>2, <1>3 DEF Due
  <2> HIDE DEF n
  <2> QED
    BY <1>1, <2>1, <2>2, <2>3 DEF Faces, n
<1>4. CASE t # <<>>
  <2>1. DueOf(t) = Head(t) /\ WellMade(Head(t))
    BY <1>1, <1>4, FirstCell, FramesMade DEF DueOf
  <2> HIDE DEF n
  <2> QED
    BY <1>1, <1>2, <1>4, <2>1 DEF Faces, n
<1> QED
  BY <1>3, <1>4

(* What a read or a skip did: it is a frame further, or there is none.      *)
Forward(done, s, t) ==
  t # <<>> /\ done.frame = <<Head(t)>> /\ Between(done.r, Append(s, Head(t)), Tail(t))
Stuck(done, s) == done.frame = <<>> /\ Whole = s
Moves(done, s, t) == Forward(done, s, t) \/ Stuck(done, s)

LEMMA TookMoves ==
  ASSUME NEW s, NEW t, NEW done, Env, Split(file, rest, s, t),
         Took(done, Len(CellsOf(s)), DueOf(t))
  PROVE  Forward(done, s, t)
<1> DEFINE n == Len(CellsOf(s))
           f == DueOf(t)
<1>1. s \in Seq(Frames) /\ t \in Seq(Frames) /\ CellsOf(s) \in Seq(FileCell) /\ n \in Nat
  BY CellsAre DEF Split
<1>2. Stands(done.r, FALSE, n + f.len) /\ done.frame = <<f>>
  BY DEF Took
<1>3. (n + f.len) + Avail(done.r) <= Len(file) /\ Avail(done.r) \in Nat /\ Len(file) \in Nat
  BY <1>2, StandsIs, FileIs
<1>4. t # <<>>
  <2>1. t = <<>> => n = Len(file) /\ f.len = 1
    BY NextDue DEF DueOf, NoFrame
  <2> HIDE DEF n, f
  <2> QED
    BY <1>1, <1>3, <2>1
<1>5. f = Head(t)
  BY <1>4 DEF DueOf
<1>6. Head(t).len \in Nat /\ Head(t) \in Frames
  BY <1>1, <1>4, FirstCell, FramesMade
<1>7. n + Head(t).len <= Len(file)
  <2> HIDE DEF n, f
  <2> QED
    BY <1>1, <1>3, <1>5, <1>6
<1>8. Onwards(file, rest, s, t)
  BY <1>4, <1>7, WholeGoesOn
<1> HIDE DEF f
<1>9. s \o <<Head(t)>> = Append(s, Head(t))
  BY <1>1, <1>6
<1>10. /\ Split(file, rest, Append(s, Head(t)), Tail(t))
       /\ Len(CellsOf(Append(s, Head(t)))) = n + f.len
  BY <1>5, <1>8, <1>9 DEF Onwards
<1> QED
  BY <1>2, <1>4, <1>5, <1>10 DEF Forward, Between

(* A frame that is not whole in the file is not read, whatever is asked.    *)
LEMMA CutStays ==
  ASSUME NEW s, NEW t, Env, Split(file, rest, s, t),
         t = <<>> \/ Len(CellsOf(s)) + Head(t).len > Len(file)
  PROVE  Whole = s
BY WholeStops DEF Whole

LEMMA SkipTakes ==
  ASSUME NEW r, NEW n, NEW f, Faces(n, f), Stands(r, FALSE, n), ~foreign, n + f.len <= Len(file)
  PROVE  Took(Skip(r), n, f)
<1> DEFINE a == EnsureSpaceFor(r, 1)
           h == BswapFrame(a)
           e == EnsureSpaceFor(h, f.len)
<1>1. /\ f.len \in Nat \ {0} /\ Env /\ foreign \in BOOLEAN /\ n \in Nat /\ Sane(r)
      /\ Len(file) \in Nat /\ BufSz \in Nat \ {0} /\ f.len <= BufSz
  BY FacesIs, StandsIs, FileIs, ReaderAssumption DEF Env
<1>2. EnsureLeft(r, FALSE, n, 1, a)
  BY <1>1, EnsureStands
<1>3. Skip(r) = IF Avail(a) < 1 THEN Fail(a) ELSE IF LenHere(h) < 1 THEN Fail(h) ELSE MakeRoom(h)
  BY DEF Skip
<1> HIDE DEF a
<1>4. Stands(a, FALSE, n) /\ (Avail(a) < 1 => 1 > BufSz \/ n + 1 > Len(file))
  BY <1>2 DEF EnsureLeft
<1>5. Avail(a) \in Nat
  BY <1>4, StandsIs
<1>6. Avail(a) >= 1
  BY <1>1, <1>4, <1>5
<1>7. Stands(h, foreign, n) /\ Avail(h) >= 1
  BY <1>1, <1>4, <1>6, BswapStands
<1>8. Stands(h, FALSE, n)
  BY <1>1, <1>7
<1> HIDE DEF h
<1>9. LenHere(h) = f.len /\ Holds(h, 1)
  BY <1>1, <1>7, HereStands
<1>10. EnsureLeft(h, FALSE, n, f.len, e)
  BY <1>1, <1>8, EnsureStands
<1>11. MakeRoom(h) = TakeWhole(e, f.len)
  BY <1>9 DEF MakeRoom
<1>12. LenHere(e) = f.len
  BY <1>1, <1>9, EnsureHolds
<1> HIDE DEF e
<1>13. Stands(e, FALSE, n) /\ (Avail(e) < f.len => f.len > BufSz \/ n + f.len > Len(file))
  BY <1>10 DEF EnsureLeft
<1>14. Avail(e) \in Nat
  BY <1>13, StandsIs
<1>15. Avail(e) >= f.len
  BY <1>1, <1>13, <1>14
<1>16. Took(TakeWhole(e, f.len), n, f)
  BY <1>12, <1>13, <1>15, TakeStands
<1>17. ~(Avail(a) < 1) /\ ~(LenHere(h) < 1)
  BY <1>1, <1>5, <1>6, <1>9
<1> QED
  BY <1>3, <1>11, <1>16, <1>17

LEMMA SkipMoves ==
  ASSUME NEW r, NEW s, NEW t, Env, ~foreign, Between(r, s, t)
  PROVE  Moves(Skip(r), s, t)
<1> DEFINE n == Len(CellsOf(s))
           f == DueOf(t)
           done == Skip(r)
<1>1. Split(file, rest, s, t) /\ Stands(r, FALSE, n) /\ Faces(n, f)
  BY FacesAny DEF Between
<1>2. f.len \in Nat /\ n \in Nat /\ Len(file) \in Nat
  BY <1>1, FacesIs, FileIs
<1>3. CASE n + f.len <= Len(file)
  <2>1. Took(done, n, f)
    BY <1>1, <1>3, SkipTakes
  <2> QED
    BY <1>1, <2>1, TookMoves DEF Moves
<1>4. CASE ~(n + f.len <= Len(file))
  <2>1. Outcome(done, n, f, f.kind)
    BY <1>1, SkipOutcome
  <2> HIDE DEF done
  <2>2. ~Took(done, n, f)
    <3>1. ASSUME Took(done, n, f) PROVE FALSE
      <4>1. (n + f.len) + Avail(done.r) <= Len(file) /\ Avail(done.r) \in Nat
        BY <3>1, StandsIs DEF Took
      <4> HIDE DEF n, f
      <4> QED
        BY <1>2, <1>4, <4>1
    <3> QED
      BY <3>1
  <2>3. done.frame = <<>>
    BY <2>1, <2>2 DEF Outcome, Left
  <2>4. t = <<>> \/ n + Head(t).len > Len(file)
    <3>1. t # <<>> => f = Head(t)
      BY DEF DueOf
    <3> HIDE DEF n, f
    <3> QED
      BY <1>2, <1>4, <3>1
  <2>5. Whole = s
    BY <1>1, <2>4, CutStays
  <2> QED
    BY <2>3, <2>5 DEF Moves, Stuck, done
<1> QED
  BY <1>3, <1>4

(* A reader that could not skip a frame stays in front of it.               *)
LEMMA SkipStays ==
  ASSUME NEW r, NEW s, NEW t, Env, ~foreign, Between(r, s, t), Skip(r).frame = <<>>
  PROVE  Between(Skip(r).r, s, t)
<1> DEFINE n == Len(CellsOf(s))
           f == DueOf(t)
           done == Skip(r)
<1>1. Split(file, rest, s, t) /\ Stands(r, FALSE, n) /\ Faces(n, f)
  BY FacesAny DEF Between
<1>2. Outcome(done, n, f, f.kind)
  BY <1>1, SkipOutcome
<1> HIDE DEF done
<1>3. ~Took(done, n, f)
  BY DEF Took, done
<1>4. Stands(done.r, FALSE, n)
  BY <1>2, <1>3 DEF Outcome, Left
<1> QED
  BY <1>1, <1>4 DEF Between, done

(* An index frame may be cut by the window, when it is read.                *)
AtIndex(s) == Len(s) < Len(Whole) /\ IsIndexFrame(Whole[Len(s) + 1])

LEMMA OutcomeMoves ==
  ASSUME NEW done, NEW s, NEW t, NEW kind, Env, ~foreign, Split(file, rest, s, t),
         Outcome(done, Len(CellsOf(s)), DueOf(t), kind), t # <<>>, kind = Head(t).kind
  PROVE  Moves(done, s, t) \/ (done.frame = <<>> /\ AtIndex(s) /\ IsIndexFrame(Head(t)))
<1> DEFINE n == Len(CellsOf(s))
           f == Head(t)
<1>1. DueOf(t) = f
  BY DEF DueOf
<1>2. /\ s \in Seq(Frames) /\ t \in Seq(Frames) /\ n \in Nat /\ Len(file) \in Nat
      /\ f \in Frames /\ f.len \in Nat
  <2>1. s \in Seq(Frames) /\ t \in Seq(Frames) /\ CellsOf(s) \in Seq(FileCell)
    BY CellsAre DEF Split
  <2> QED
    BY <2>1, FileIs, FirstCell, FramesMade
<1>3. CASE Took(done, n, f)
  BY <1>1, <1>3, TookMoves DEF Moves
<1>4. CASE ~Took(done, n, f)
  <2>1. done.frame = <<>> /\ Excuse(done.r, n, f)
    BY <1>1, <1>4 DEF Outcome, Left
  <2>2. n + f.len > Len(file) \/ IsIndexFrame(f)
    BY <2>1 DEF Excuse, Unreadable
  <2>3. CASE n + f.len > Len(file)
    <3>1. Whole = s
      BY <2>3, CutStays
    <3> QED
      BY <2>1, <3>1 DEF Moves, Stuck
  <2>4. CASE ~(n + f.len > Len(file)) /\ IsIndexFrame(f)
    <3>1. n + f.len <= Len(file)
      <4> HIDE DEF n, f
      <4> QED
        BY <1>2, <2>4
    <3>2. Onwards(file, rest, s, t)
      BY <3>1, WholeGoesOn
    <3>3. Len(s) < Len(Whole) /\ Whole[Len(s) + 1] = f
      BY <3>2 DEF Onwards, Whole
    <3> HIDE DEF f
    <3>4. AtIndex(s)
      BY <2>4, <3>3 DEF AtIndex
    <3> QED
      BY <2>1, <2>4, <3>4 DEF f
  <2> QED
    BY <2>2, <2>3, <2>4
<1> QED
  BY <1>3, <1>4

(* What a turn of a loop is told is next.                                   *)
Told(peek, s, t) ==
  /\ Between(peek.r, s, t)
  /\ \/ peek.kind = "none" /\ Whole = s
     \/ t # <<>> /\ Head(t) \in Frames /\ peek.kind = Head(t).kind /\ peek.kind # "none"
LEMMA PeekTold ==
  ASSUME NEW r, NEW s, NEW t, Env, ~foreign, Between(r, s, t)
  PROVE  Told(PeekFrame(r), s, t)
<1> DEFINE n == Len(CellsOf(s))
           f == DueOf(t)
           peek == PeekFrame(r)
<1>1. Split(file, rest, s, t) /\ Stands(r, FALSE, n) /\ Faces(n, f)
  BY FacesAny DEF Between
<1>2. PeekRight(peek, n, f)
  BY <1>1, PeekStands
<1>3. f.len \in Nat /\ n \in Nat /\ Len(file) \in Nat /\ f.kind # "none" /\ t \in Seq(Frames)
  BY <1>1, FacesIs, FileIs DEF Split
<1> HIDE DEF peek
<1>4. Between(peek.r, s, t)
  BY <1>1, <1>2 DEF PeekRight, Between
<1>5. CASE peek.kind = "none"
  <2>1. n + f.len > Len(file)
    BY <1>2, <1>3, <1>5 DEF PeekRight
  <2>2. t # <<>> => f = Head(t)
    BY DEF DueOf
  <2>3. t = <<>> \/ n + Head(t).len > Len(file)
    BY <2>1, <2>2
  <2>4. Whole = s
    BY <1>1, <2>3, CutStays
  <2> QED
    BY <1>4, <1>5, <2>4 DEF Told, peek
<1>6. CASE peek.kind # "none"
  <2>1. peek.kind = f.kind /\ n < Len(file)
    BY <1>2, <1>6 DEF PeekRight
  <2>2. t # <<>>
    <3>1. t = <<>> => n = Len(file)
      BY <1>1, NextDue
    <3> HIDE DEF n
    <3> QED
      BY <1>3, <2>1, <3>1
  <2>3. f = Head(t) /\ Head(t) \in Frames
    BY <1>3, <2>2, FirstCell DEF DueOf
  <2> QED
    BY <1>4, <1>6, <2>1, <2>2, <2>3 DEF Told, peek
<1> QED
  BY <1>5, <1>6

LEMMA FileMoves ==
  ASSUME NEW r, NEW s, NEW t, Env, ~foreign, Between(r, s, t), t # <<>>, Head(t).kind = "file"
  PROVE  Moves(ReadStruct(r, "file"), s, t)
<1>1. Split(file, rest, s, t) /\ Stands(r, FALSE, Len(CellsOf(s))) /\ Faces(Len(CellsOf(s)), DueOf(t))
  BY FacesAny DEF Between
<1>2. Outcome(ReadStruct(r, "file"), Len(CellsOf(s)), DueOf(t), "file")
  BY <1>1, StructOutcome
<1>3. ~IsIndexFrame(Head(t))
  BY DEF IsIndexFrame
<1>4. "file" = Head(t).kind
  OBVIOUS
<1>5. Moves(ReadStruct(r, "file"), s, t)
      \/ (ReadStruct(r, "file").frame = <<>> /\ AtIndex(s) /\ IsIndexFrame(Head(t)))
  BY <1>1, <1>2, <1>4, OutcomeMoves
<1> QED
  BY <1>3, <1>5

LEMMA ChunkMoves ==
  ASSUME NEW peek, NEW s, NEW t, Env, ~foreign, Told(peek, s, t), peek.kind # "none"
  PROVE  Moves(ReadChunk(peek), s, t)
BY FileMoves, SkipMoves DEF ReadChunk, Told

LEMMA ReadMoves ==
  ASSUME NEW peek, NEW s, NEW t, Env, ~foreign, Told(peek, s, t), peek.kind # "none"
  PROVE  \/ Moves(ReadAs(peek.r, peek.kind), s, t)
         \/ ReadAs(peek.r, peek.kind).frame = <<>> /\ AtIndex(s)
<1> DEFINE done == ReadAs(peek.r, peek.kind)
<1>1. /\ Split(file, rest, s, t) /\ Stands(peek.r, FALSE, Len(CellsOf(s)))
      /\ Faces(Len(CellsOf(s)), DueOf(t)) /\ t # <<>> /\ peek.kind = Head(t).kind
  BY FacesAny DEF Between, Told
<1>2. Outcome(done, Len(CellsOf(s)), DueOf(t), peek.kind)
  BY <1>1, ReadOutcome
<1> HIDE DEF done
<1>3. Moves(done, s, t) \/ (done.frame = <<>> /\ AtIndex(s) /\ IsIndexFrame(Head(t)))
  BY <1>1, <1>2, OutcomeMoves
<1> QED
  BY <1>3 DEF done

-----------------------------------------------------------------------------
(* What a loop has found when it has passed the frames s, and at its end.   *)

ChunksIn(path) == {f \in Frames : f.kind = "file" /\ f.path = path}
Meeting(conditions) == {f \in Frames : Given(conditions, f)}
Ids(s) == [i \in 1 .. Len(s) |-> s[i].id]

(* The first last chunk of a file, with chunks of that file only before it. *)
FirstLast(path, n) ==
  /\ n \in 1 .. Len(Whole) /\ Whole[n].kind = "file" /\ Whole[n].path = path /\ Whole[n].last
  /\ \A k \in 1 .. n - 1 : Whole[k].kind = "file" => Whole[k].path = path /\ ~Whole[k].last

Partly(op, of, s, out) ==
  /\ op = "find" => Only(s, ChunksIn(of)) = <<>>
  /\ op = "list" => out = PathsIn(s)
  /\ op = "cursor" => out = Only(s, Meeting(of))
  /\ op = "write" => \E n : FirstLast(of, n) /\ Len(s) < n /\ out = Ids(Only(s, ChunksIn(of)))

FindRight(path, out) == out = IF ChunksOf(path) = <<>> THEN <<>> ELSE <<Head(ChunksOf(path))>>
CursorRight(conditions, out) ==
  \E n \in 0 .. Len(Whole) :
    /\ n = Len(Whole) \/ IsIndexFrame(Whole[n + 1])
    /\ out = Only(SubSeq(Whole, 1, n), Meeting(conditions))
WriteRight(path, ok, out) ==
  LET chunks == ChunksOf(path)
      lasts == {n \in DOMAIN chunks : chunks[n].last}
      last == CHOOSE n \in lasts : \A k \in lasts : n <= k
  IN  lasts # {} => ok /\ out = [n \in 1 .. last |-> chunks[n].id]

Rightly(op, of, turn) ==
  /\ op = "find" => FindRight(of, turn.out)
  /\ op = "list" => turn.out = PathsIn(Whole)
  /\ op = "cursor" => CursorRight(of, turn.out)
  /\ op = "write" => WriteRight(of, turn.ok, turn.out)

(* After m turns m frames were passed; or fewer, by the walk for the list,  *)
(* which need not come to an end.                                           *)
InLoop(op, of, turn, m) ==
  \/ /\ turn.more
     /\ \E s, t : /\ Between(turn.r, s, t) /\ (op = "list" \/ Len(s) >= m)
                  /\ Partly(op, of, s, turn.out)
  \/ ~turn.more /\ Rightly(op, of, turn)

LEMMA BetweenIs ==
  ASSUME NEW r, NEW s, NEW t, Env, Between(r, s, t)
  PROVE  /\ s \in Seq(Frames) /\ t \in Seq(Frames) /\ Whole \in Seq(Frames)
         /\ \E x \in Seq(Frames) : Whole = s \o x
<1>1. Split(file, rest, s, t)
  BY DEF Between
<1>2. PICK x \in Seq(Frames) : Serial(file) = s \o x
  BY <1>1, WholeBegins
<1>3. s \in Seq(Frames) /\ t \in Seq(Frames)
  BY <1>1 DEF Split
<1> QED
  BY <1>2, <1>3, ConcatType DEF Whole

(* One frame further.                                                       *)
LEMMA ForwardIs ==
  ASSUME NEW r, NEW done, NEW s, NEW t, NEW m \in Nat, Env, Between(r, s, t), Len(s) >= m,
         Forward(done, s, t)
  PROVE  /\ Head(t) \in Frames /\ done.frame = <<Head(t)>> /\ done.frame # <<>> /\ done.frame[1] = Head(t)
         /\ Between(done.r, Append(s, Head(t)), Tail(t))
         /\ Append(s, Head(t)) \in Seq(Frames) /\ Len(Append(s, Head(t))) >= m + 1
<1>1. s \in Seq(Frames) /\ t \in Seq(Frames) /\ t # <<>> /\ done.frame = <<Head(t)>>
  BY BetweenIs DEF Forward
<1>2. Head(t) \in Frames
  BY <1>1
<1>3. Append(s, Head(t)) \in Seq(Frames) /\ Len(Append(s, Head(t))) >= m + 1
  BY <1>1, <1>2
<1> QED
  BY <1>1, <1>2, <1>3 DEF Forward

LEMMA GoesOn ==
  ASSUME NEW op, NEW of, NEW turn, NEW r, NEW s, NEW t, NEW m, NEW found,
         turn = Goes(r, found), Between(r, s, t), op = "list" \/ Len(s) >= m,
         Partly(op, of, s, found)
  PROVE  InLoop(op, of, turn, m)
<1>1. turn.more /\ turn.r = r /\ turn.out = found
  BY DEF Goes
<1> QED
  BY <1>1 DEF InLoop

LEMMA EndsRight ==
  ASSUME NEW op, NEW of, NEW turn, NEW r, NEW ok, NEW found, NEW m,
         turn = Ends(r, ok, found), Rightly(op, of, [ok |-> ok, out |-> found])
  PROVE  InLoop(op, of, turn, m)
<1>1. ~turn.more /\ turn.ok = ok /\ turn.out = found
  BY DEF Ends
<1>2. Rightly(op, of, turn)
  BY <1>1 DEF Rightly
<1> QED
  BY <1>1, <1>2 DEF InLoop

LEMMA FindTurn ==
  ASSUME NEW path, NEW turn, NEW s, NEW t, NEW m \in Nat, Env, ~foreign, Between(turn.r, s, t),
         Len(s) >= m, Only(s, ChunksIn(path)) = <<>>
  PROVE  InLoop("find", path, FindFile(turn, path), m + 1)
<1> DEFINE peek == PeekFrame(turn.r)
           next == ReadChunk(peek)
           h == Head(t)
           on == Append(s, h)
           C == ChunksIn(path)
<1>1. Told(peek, s, t)
  BY PeekTold
<1>2. FindFile(turn, path) =
        IF peek.kind = "none" THEN Ends(peek.r, FALSE, <<>>)
        ELSE IF next.frame = <<>> THEN Ends(next.r, FALSE, <<>>)
        ELSE IF peek.kind = "file" /\ next.frame[1].path = path THEN Ends(next.r, TRUE, next.frame)
        ELSE Goes(next.r, <<>>)
  BY DEF FindFile
<1>c. ChunksOf(path) = Only(Whole, C)
  BY DEF ChunksOf, ChunksIn
<1>3. peek.kind # "none" => Moves(next, s, t)
  BY <1>1, ChunkMoves
<1> HIDE DEF peek, next, C
<1>4. ASSUME Whole = s PROVE \A ok : Rightly("find", path, [ok |-> ok, out |-> <<>>])
  BY <1>4, <1>c DEF C, Rightly, FindRight
<1>5. CASE peek.kind = "none"
  <2>1. Whole = s
    BY <1>1, <1>5 DEF Told
  <2>2. FindFile(turn, path) = Ends(peek.r, FALSE, <<>>)
    BY <1>2, <1>5
  <2> QED
    BY <1>4, <2>1, <2>2, EndsRight
<1>6. CASE peek.kind # "none" /\ Stuck(next, s)
  <2>1. FindFile(turn, path) = Ends(next.r, FALSE, <<>>)
    BY <1>2, <1>6 DEF Stuck
  <2>2. Whole = s
    BY <1>6 DEF Stuck
  <2> QED
    BY <1>4, <2>1, <2>2, EndsRight
<1>7. CASE peek.kind # "none" /\ Forward(next, s, t)
  <2>1. /\ h \in Frames /\ next.frame = <<h>> /\ next.frame # <<>> /\ next.frame[1] = h
        /\ Between(next.r, on, Tail(t)) /\ on \in Seq(Frames) /\ Len(on) >= m + 1
    BY <1>7, ForwardIs
  <2>2. peek.kind = h.kind
    BY <1>1, <1>7 DEF Told
  <2>3. Only(on, C) = IF h \in C THEN Append(Only(s, C), h) ELSE Only(s, C)
    BY <2>1, BetweenIs, OnlyMore
  <2>4. Only(s, C) = <<>>
    BY DEF C
  <2>5. PICK x \in Seq(Frames) : Whole = on \o x
    BY <2>1, BetweenIs
  <2>6. h \in C <=> h.kind = "file" /\ h.path = path
    BY <2>1 DEF C, ChunksIn
  <2> HIDE DEF h, on
  <2>7. CASE h \in C
    <3>1. Only(on, C) = <<h>>
      BY <2>3, <2>4, <2>7
    <3>2. PICK y \in Seq(Frames) : Only(Whole, C) = <<h>> \o y
      <4>1. OnlyOn(on, x, C)
        BY <2>1, OnlyGoesOn
      <4> QED
        BY <2>5, <3>1, <4>1 DEF OnlyOn
    <3>3. <<h>> \o y # <<>> /\ Head(<<h>> \o y) = h
      BY <2>1
    <3>4. FindFile(turn, path) = Ends(next.r, TRUE, <<h>>)
      BY <1>2, <1>7, <2>1, <2>2, <2>6, <2>7
    <3>5. Rightly("find", path, [ok |-> TRUE, out |-> <<h>>])
      BY <1>c, <3>2, <3>3 DEF Rightly, FindRight
    <3> QED
      BY <3>4, <3>5, EndsRight
  <2>8. CASE h \notin C
    <3>1. FindFile(turn, path) = Goes(next.r, <<>>)
      BY <1>2, <1>7, <2>1, <2>2, <2>6, <2>8
    <3>2. Partly("find", path, on, <<>>)
      BY <2>3, <2>4, <2>8 DEF Partly, C
    <3> QED
      BY <2>1, <3>1, <3>2, GoesOn
  <2> QED
    BY <2>7, <2>8
<1> QED
  BY <1>3, <1>5, <1>6, <1>7 DEF Moves

(* The paths of the chunks are those of the files.                          *)
LEMMA PathsMore ==
  ASSUME NEW s \in Seq(Frames), NEW h \in Frames
  PROVE  PathsIn(Append(s, h)) = IF h.kind = "file" THEN PathsIn(s) \cup {h.path} ELSE PathsIn(s)
<1> DEFINE on == Append(s, h)
<1>1. Len(on) = Len(s) + 1 /\ on[Len(on)] = h /\ Len(s) \in Nat /\ \A k \in 1 .. Len(s) : on[k] = s[k]
  OBVIOUS
<1> HIDE DEF on
<1>2. \A k \in 1 .. Len(on) : k = Len(on) \/ k \in 1 .. Len(s)
  BY <1>1
<1>3. Len(on) \in 1 .. Len(on) /\ \A k \in 1 .. Len(s) : k \in 1 .. Len(on)
  BY <1>1
<1>4. ASSUME NEW p \in PathsIn(on) PROVE p \in PathsIn(s) \/ (h.kind = "file" /\ p = h.path)
  <2>1. PICK i \in 1 .. Len(on) : on[i].kind = "file" /\ p = on[i].path
    BY DEF PathsIn
  <2> QED
    BY <1>1, <1>2, <2>1 DEF PathsIn
<1>5. ASSUME NEW p \in PathsIn(s) PROVE p \in PathsIn(on)
  <2>1. PICK i \in 1 .. Len(s) : s[i].kind = "file" /\ p = s[i].path
    BY DEF PathsIn
  <2> QED
    BY <1>1, <1>3, <2>1 DEF PathsIn
<1>6. h.kind = "file" => h.path \in PathsIn(on)
  BY <1>1, <1>3 DEF PathsIn
<1> QED
  BY <1>4, <1>5, <1>6 DEF on

LEMMA ListTurn ==
  ASSUME NEW of, NEW turn, NEW s, NEW t, NEW m, Env, ~foreign, Between(turn.r, s, t),
         turn.out = PathsIn(s)
  PROVE  InLoop("list", of, ListFiles(turn), m)
<1> DEFINE peek == PeekFrame(turn.r)
           next == ReadChunk(peek)
           h == Head(t)
           on == Append(s, h)
<1>1. Told(peek, s, t)
  BY PeekTold
<1>2. ListFiles(turn) =
        IF peek.kind = "none" THEN Ends(peek.r, TRUE, turn.out)
        ELSE IF peek.kind # "file" THEN Goes(next.r, turn.out)
        ELSE IF next.frame = <<>> THEN Ends(next.r, TRUE, turn.out)
        ELSE Goes(next.r, turn.out \cup {next.frame[1].path})
  BY DEF ListFiles
<1>3. peek.kind # "none" => Moves(next, s, t)
  BY <1>1, ChunkMoves
<1>s. next.frame = <<>> /\ peek.kind # "file" => Between(next.r, s, t)
  <2>1. Between(peek.r, s, t)
    BY <1>1 DEF Told
  <2>2. Skip(peek.r).frame = <<>> => Between(Skip(peek.r).r, s, t)
    BY <2>1, SkipStays
  <2>3. peek.kind # "file" => next = Skip(peek.r)
    BY DEF ReadChunk
  <2> HIDE DEF peek, next
  <2> QED
    BY <2>2, <2>3
<1> HIDE DEF peek, next
<1>4. ASSUME Whole = s PROVE Rightly("list", of, [ok |-> TRUE, out |-> turn.out])
  BY <1>4 DEF Rightly
<1>5. CASE peek.kind = "none"
  <2>1. Whole = s
    BY <1>1, <1>5 DEF Told
  <2>2. ListFiles(turn) = Ends(peek.r, TRUE, turn.out)
    BY <1>2, <1>5
  <2> QED
    BY <1>4, <2>1, <2>2, EndsRight
<1>6. CASE peek.kind # "none" /\ peek.kind # "file" /\ Stuck(next, s)
  <2>1. Between(next.r, s, t)
    BY <1>6, <1>s DEF Stuck
  <2>2. ListFiles(turn) = Goes(next.r, PathsIn(s))
    BY <1>2, <1>6
  <2>3. Partly("list", of, s, PathsIn(s))
    BY DEF Partly
  <2> QED
    BY <2>1, <2>2, <2>3, GoesOn
<1>7. CASE peek.kind # "none" /\ peek.kind = "file" /\ Stuck(next, s)
  <2>1. ListFiles(turn) = Ends(next.r, TRUE, turn.out)
    BY <1>2, <1>7 DEF Stuck
  <2>2. Whole = s
    BY <1>7 DEF Stuck
  <2> QED
    BY <1>4, <2>1, <2>2, EndsRight
<1>8. CASE peek.kind # "none" /\ Forward(next, s, t)
  <2>0. Len(s) >= 0
    BY BetweenIs
  <2>1. /\ h \in Frames /\ next.frame # <<>> /\ next.frame[1] = h
        /\ Between(next.r, on, Tail(t)) /\ on \in Seq(Frames)
    BY <1>8, <2>0, ForwardIs
  <2>2. peek.kind = h.kind
    BY <1>1, <1>8 DEF Told
  <2>3. PathsIn(on) = IF h.kind = "file" THEN PathsIn(s) \cup {h.path} ELSE PathsIn(s)
    BY <2>1, BetweenIs, PathsMore
  <2> HIDE DEF h, on
  <2>4. ListFiles(turn) = Goes(next.r, PathsIn(on))
    BY <1>2, <1>8, <2>1, <2>2, <2>3
  <2>5. Partly("list", of, on, PathsIn(on))
    BY DEF Partly
  <2> QED
    BY <2>1, <2>4, <2>5, GoesOn
<1> QED
  BY <1>3, <1>5, <1>6, <1>7, <1>8 DEF Moves

LEMMA CursorTurn ==
  ASSUME NEW of, NEW turn, NEW s, NEW t, NEW m \in Nat, Env, ~foreign, Between(turn.r, s, t),
         Len(s) >= m, turn.out = Only(s, Meeting(of))
  PROVE  InLoop("cursor", of, Foreach(turn, of), m + 1)
<1> DEFINE peek == PeekFrame(turn.r)
           next == ReadAs(peek.r, peek.kind)
           h == Head(t)
           on == Append(s, h)
           T == Meeting(of)
<1>1. Told(peek, s, t)
  BY PeekTold
<1>2. Foreach(turn, of) =
        IF peek.kind = "none" \/ next.frame = <<>> THEN Ends(turn.r, TRUE, turn.out)
        ELSE Goes(next.r, IF Given(of, next.frame[1]) THEN Append(turn.out, next.frame[1]) ELSE turn.out)
  BY DEF Foreach
<1>3. peek.kind # "none" => Moves(next, s, t) \/ (next.frame = <<>> /\ AtIndex(s))
  BY <1>1, ReadMoves
<1> HIDE DEF peek, next
<1>w. PICK x \in Seq(Frames) : Whole = s \o x /\ s \in Seq(Frames)
  BY BetweenIs
<1>4. ASSUME Whole = s \/ AtIndex(s) PROVE Rightly("cursor", of, [ok |-> TRUE, out |-> turn.out])
  <2>1. Len(s) \in 0 .. Len(Whole) /\ SubSeq(Whole, 1, Len(s)) = s
    <3>1. Len(s \o x) = Len(s) + Len(x) /\ SubSeq(s \o x, 1, Len(s)) = s
      BY <1>w
    <3> QED
      BY <1>w, <3>1
  <2>2. Len(s) = Len(Whole) \/ IsIndexFrame(Whole[Len(s) + 1])
    BY <1>4 DEF AtIndex
  <2>3. CursorRight(of, turn.out)
    BY <2>1, <2>2 DEF CursorRight
  <2> QED
    BY <2>3 DEF Rightly
<1>5. CASE peek.kind = "none" \/ next.frame = <<>>
  <2>1. Whole = s \/ AtIndex(s)
    <3>1. peek.kind = "none" => Whole = s
      BY <1>1 DEF Told
    <3>2. next.frame = <<>> => ~Forward(next, s, t)
      BY DEF Forward
    <3> QED
      BY <1>3, <1>5, <3>1, <3>2 DEF Moves, Stuck
  <2>2. Foreach(turn, of) = Ends(turn.r, TRUE, turn.out)
    BY <1>2, <1>5
  <2> QED
    BY <1>4, <2>1, <2>2, EndsRight
<1>7. CASE peek.kind # "none" /\ next.frame # <<>>
  <2>0. Forward(next, s, t)
    BY <1>3, <1>7 DEF Moves, Stuck
  <2>1. /\ h \in Frames /\ next.frame # <<>> /\ next.frame[1] = h
        /\ Between(next.r, on, Tail(t)) /\ on \in Seq(Frames) /\ Len(on) >= m + 1
    BY <2>0, ForwardIs
  <2>2. Only(on, T) = IF h \in T THEN Append(Only(s, T), h) ELSE Only(s, T)
    BY <1>w, <2>1, OnlyMore
  <2>3. h \in T <=> Given(of, h)
    BY <2>1 DEF Meeting
  <2> HIDE DEF h, on, T
  <2>4. Foreach(turn, of) = Goes(next.r, Only(on, T))
    BY <1>2, <1>7, <2>1, <2>2, <2>3 DEF T
  <2>5. Partly("cursor", of, on, Only(on, T))
    BY DEF Partly, T
  <2> QED
    BY <2>1, <2>4, <2>5, GoesOn
<1> QED
  BY <1>5, <1>7

(* The ids of the chunks up to the last.                                    *)
LEMMA IdsMore ==
  ASSUME NEW s \in Seq(Frames), NEW h \in Frames
  PROVE  Ids(Append(s, h)) = Append(Ids(s), h.id)
<1> DEFINE on == Append(s, h)
           k == Len(s)
           a == Ids(s)
           x == h.id
           I == {f.id : f \in Frames}
<1>1. Len(on) = k + 1 /\ k \in Nat /\ on[k + 1] = h /\ (\A i \in 1 .. k : on[i] = s[i])
      /\ \A i \in 1 .. k : s[i] \in Frames
  OBVIOUS
<1>2. x \in I
  OBVIOUS
<1> HIDE DEF on, k
<1>3. a = [i \in 1 .. k |-> s[i].id]
  BY DEF Ids, k
<1>4. a \in Seq(I) /\ Len(a) = k /\ \A i \in 1 .. k : a[i] = s[i].id
  <2>1. a \in [1 .. k -> I] /\ \A i \in 1 .. k : a[i] = s[i].id
    BY <1>1, <1>3
  <2> HIDE DEF a, I
  <2> QED
    BY <1>1, <2>1, OfLength
<1> HIDE DEF a, x, I
<1>5. /\ Append(a, x) \in Seq(I) /\ Len(Append(a, x)) = k + 1 /\ Append(a, x)[k + 1] = x
      /\ \A i \in 1 .. k : Append(a, x)[i] = a[i]
  BY <1>2, <1>4, AppendProperties
<1>6. Ids(on) = [i \in 1 .. k + 1 |-> on[i].id]
  BY <1>1 DEF Ids
<1> DEFINE q == Append(a, x)
<1>7. q = [i \in 1 .. k + 1 |-> q[i]]
  <2> HIDE DEF q
  <2>1. q \in Seq(I) /\ Len(q) = k + 1
    BY <1>5 DEF q
  <2> QED
    BY <2>1
<1>8. ASSUME NEW i \in 1 .. k + 1 PROVE q[i] = on[i].id
  <2>1. CASE i = k + 1
    BY <1>1, <1>5, <2>1 DEF x
  <2>2. CASE i # k + 1
    <3>1. i \in 1 .. k
      BY <1>1, <2>2
    <3> QED
      BY <1>1, <1>4, <1>5, <3>1
  <2> QED
    BY <2>1, <2>2
<1> HIDE DEF q
<1>9. q = Ids(on)
  BY <1>6, <1>7, <1>8
<1> QED
  BY <1>9 DEF q, a, x, on

LEMMA LastWritten ==
  ASSUME NEW path, NEW s \in Seq(Frames), NEW h \in Frames, NEW x \in Seq(Frames),
         Whole = Append(s, h) \o x, FirstLast(path, Len(s) + 1)
  PROVE  WriteRight(path, TRUE, Ids(Append(Only(s, ChunksIn(path)), h)))
<1> DEFINE C == ChunksIn(path)
           o == Only(s, C)
           on == Append(s, h)
           p == Append(o, h)
           L == Len(o) + 1
           chunks == ChunksOf(path)
           lasts == {n \in DOMAIN chunks : chunks[n].last}
           last == CHOOSE n \in lasts : \A k \in lasts : n <= k
<1>1. /\ on \in Seq(Frames) /\ Len(on) = Len(s) + 1 /\ on[Len(on)] = h /\ Len(s) \in Nat
      /\ \A k \in 1 .. Len(s) : on[k] = s[k]
  OBVIOUS
<1> HIDE DEF on
<1>2. \A k \in 1 .. Len(on) : Whole[k] = on[k]
  BY <1>1, ConcatIs DEF on
<1>3. h \in C /\ h.last
  <2>1. Len(on) \in 1 .. Len(on)
    BY <1>1
  <2>2. Whole[Len(s) + 1] = h
    BY <1>1, <1>2, <2>1
  <2> QED
    BY <2>2 DEF FirstLast, ChunksIn
<1>4. ASSUME NEW k \in 1 .. Len(s), s[k] \in C PROVE ~s[k].last
  <2>1. k \in 1 .. (Len(s) + 1) - 1 /\ k \in 1 .. Len(on)
    BY <1>1
  <2>2. Whole[k] = s[k]
    BY <1>1, <1>2, <2>1
  <2> QED
    BY <1>4, <2>1, <2>2 DEF FirstLast, ChunksIn
<1>5. o \in Seq(Frames) /\ AllPicked(s, C)
  BY OnlyType, OnlyPicks
<1>6. ASSUME NEW i \in 1 .. Len(o) PROVE ~o[i].last
  <2>1. PICK k \in 1 .. Len(s) : o[i] = s[k] /\ s[k] \in C
    BY <1>5 DEF AllPicked
  <2> QED
    BY <1>4, <2>1
<1>7. Only(on, C) = p
  <2> HIDE DEF C
  <2>1. Only(Append(s, h), C) = IF h \in C THEN Append(Only(s, C), h) ELSE Only(s, C)
    BY OnlyMore
  <2> QED
    BY <1>3, <2>1 DEF on
<1> HIDE DEF C, o
<1>8. p \in Seq(Frames) /\ Len(p) = L /\ p[L] = h /\ L \in Nat \ {0}
      /\ \A i \in 1 .. Len(o) : p[i] = o[i]
  BY <1>5
<1>9. PICK y \in Seq(Frames) : chunks = p \o y
  <2>1. OnlyOn(on, x, C)
    BY <1>1, OnlyGoesOn
  <2>2. chunks = Only(Whole, C)
    BY DEF ChunksOf, ChunksIn, C
  <2> HIDE DEF chunks, p
  <2> QED
    BY <1>7, <2>1, <2>2 DEF OnlyOn, on
<1> HIDE DEF p, chunks
<1>10. /\ chunks \in Seq(Frames) /\ Len(chunks) \in Nat /\ L <= Len(chunks)
       /\ \A i \in 1 .. L : chunks[i] = p[i]
  BY <1>8, <1>9, ConcatIs
<1>11. L \in lasts
  BY <1>3, <1>8, <1>10
<1>12. ASSUME NEW k \in lasts PROVE L <= k
  <2>1. k \in 1 .. Len(chunks) /\ chunks[k].last
    BY <1>10
  <2>2. CASE k <= Len(o)
    <3>1. Len(o) \in Nat /\ L = Len(o) + 1
      BY <1>5
    <3>2. k \in 1 .. Len(o) /\ k \in 1 .. L
      BY <2>1, <2>2, <3>1
    <3>3. chunks[k] = o[k]
      BY <1>8, <1>10, <3>2
    <3> QED
      BY <1>6, <2>1, <3>2, <3>3
  <2>3. CASE ~(k <= Len(o))
    <3>1. Len(o) \in Nat
      BY <1>5
    <3> QED
      BY <2>1, <2>3, <3>1
  <2> QED
    BY <2>2, <2>3
<1>13. last = L
  <2>1. \A k \in lasts : k \in Nat
    BY <1>10
  <2> HIDE DEF lasts, L
  <2>2. ASSUME NEW n \in lasts, \A k \in lasts : n <= k PROVE n = L
    <3>1. n <= L /\ L <= n /\ n \in Nat /\ L \in Nat
      BY <1>11, <1>12, <2>1, <2>2
    <3> QED
      BY <3>1
  <2>3. L \in lasts /\ \A k \in lasts : L <= k
    BY <1>11, <1>12
  <2>4. last \in lasts /\ \A k \in lasts : last <= k
    BY <2>3
  <2> QED
    BY <2>2, <2>4
<1>14. Ids(p) = [n \in 1 .. L |-> chunks[n].id]
  <2>1. Ids(p) = [n \in 1 .. L |-> p[n].id]
    BY <1>8 DEF Ids
  <2> HIDE DEF L
  <2> QED
    BY <1>10, <2>1
<1>15. WriteRight(path, TRUE, Ids(p)) = (lasts # {} => Ids(p) = [n \in 1 .. last |-> chunks[n].id])
  BY DEF WriteRight, chunks
<1> HIDE DEF lasts, last, L
<1>16. WriteRight(path, TRUE, Ids(p))
  BY <1>13, <1>14, <1>15
<1> QED
  BY <1>16 DEF p, o, C

LEMMA WriteTurn ==
  ASSUME NEW path, NEW turn, NEW s, NEW t, NEW m \in Nat, NEW n, Env, ~foreign,
         Between(turn.r, s, t), Len(s) >= m,
         FirstLast(path, n), Len(s) < n, turn.out = Ids(Only(s, ChunksIn(path)))
  PROVE  InLoop("write", path, ReadFileFd(turn, path), m + 1)
<1> DEFINE peek == PeekFrame(turn.r)
           read == IF peek.kind = "file" THEN ReadStruct(peek.r, "file") ELSE Fail(peek.r)
           next == Skip(read.r)
           h == Head(t)
           on == Append(s, h)
           C == ChunksIn(path)
           o == Only(s, C)
<1>1. Told(peek, s, t)
  BY PeekTold
<1>2. ReadFileFd(turn, path) =
        IF peek.kind = "none" \/ (peek.kind = "file" /\ read.frame = <<>>)
        THEN Ends(read.r, FALSE, turn.out)
        ELSE IF peek.kind = "file" /\ read.frame[1].path = path
        THEN IF read.frame[1].last THEN Ends(read.r, TRUE, Append(turn.out, read.frame[1].id))
             ELSE Goes(read.r, Append(turn.out, read.frame[1].id))
        ELSE IF next.frame = <<>> THEN Ends(next.r, FALSE, turn.out)
        ELSE Goes(next.r, turn.out)
  BY DEF ReadFileFd
<1>w. PICK x \in Seq(Frames) : Whole = s \o x /\ s \in Seq(Frames) /\ Whole \in Seq(Frames)
  BY BetweenIs
<1>3. Whole # s /\ n \in 1 .. Len(Whole) /\ Len(s) \in Nat /\ n \in Nat
  BY <1>w DEF FirstLast
<1>4. peek.kind # "none" /\ t # <<>> /\ peek.kind = h.kind /\ Between(peek.r, s, t)
  BY <1>1, <1>3 DEF Told
<1>5. peek.kind = "file" => Forward(read, s, t)
  <2>1. ASSUME peek.kind = "file" PROVE Forward(read, s, t)
    <3>1. read = ReadStruct(peek.r, "file") /\ Head(t).kind = "file"
      BY <1>4, <2>1
    <3>2. Moves(ReadStruct(peek.r, "file"), s, t)
      BY <1>4, <3>1, FileMoves
    <3> HIDE DEF read, peek
    <3> QED
      BY <1>3, <3>1, <3>2 DEF Moves, Stuck
  <2> QED
    BY <2>1
<1>6. peek.kind # "file" => Forward(next, s, t)
  <2>1. ASSUME peek.kind # "file" PROVE Forward(next, s, t)
    <3>1. read.r = peek.r
      BY <2>1 DEF Fail
    <3> HIDE DEF read, peek
    <3>2. Moves(next, s, t)
      BY <1>4, <3>1, SkipMoves
    <3> QED
      BY <1>3, <3>2 DEF Moves, Stuck
  <2> QED
    BY <2>1
<1> HIDE DEF peek, read, next
<1>7. ASSUME NEW done, Forward(done, s, t)
      PROVE  /\ h \in Frames /\ done.frame # <<>> /\ done.frame[1] = h
             /\ Between(done.r, on, Tail(t)) /\ on \in Seq(Frames) /\ Len(on) >= m + 1
             /\ \E y \in Seq(Frames) : Whole = on \o y
  <2>1. /\ h \in Frames /\ done.frame # <<>> /\ done.frame[1] = h
        /\ Between(done.r, on, Tail(t)) /\ on \in Seq(Frames) /\ Len(on) >= m + 1
    BY <1>4, <1>7, ForwardIs
  <2> HIDE DEF h, on
  <2>2. \E y \in Seq(Frames) : Whole = on \o y
    BY <2>1, BetweenIs
  <2> QED
    BY <2>1, <2>2
<1>8. h \in Frames /\ \E y \in Seq(Frames) : Whole = on \o y
  BY <1>5, <1>6, <1>7
<1>9. PICK y \in Seq(Frames) : Whole = on \o y
  BY <1>8
<1>10. /\ on \in Seq(Frames) /\ Len(on) = Len(s) + 1 /\ on[Len(s) + 1] = h
       /\ Len(s) + 1 \in 1 .. Len(on)
  BY <1>w, <1>8
<1>11. Whole[Len(s) + 1] = h
  <2> HIDE DEF on
  <2> QED
    BY <1>9, <1>10, ConcatIs
<1>12. Only(on, C) = IF h \in C THEN Append(o, h) ELSE o
  <2> HIDE DEF C, h
  <2> QED
    BY <1>w, <1>8, OnlyMore
<1>13. o \in Seq(Frames)
  BY <1>w, OnlyType
<1>14. h \in C <=> h.kind = "file" /\ h.path = path
  BY <1>8 DEF ChunksIn
<1>15. turn.out = Ids(o)
  OBVIOUS
<1> HIDE DEF C, o
<1>16. CASE h.kind = "file"
  <2>1. /\ read.frame # <<>> /\ read.frame[1] = h /\ Between(read.r, on, Tail(t)) /\ Len(on) >= m + 1
    BY <1>4, <1>5, <1>7, <1>16
  <2>2. Ids(Append(o, h)) = Append(Ids(o), h.id)
    BY <1>8, <1>13, IdsMore
  <2>3. Len(s) + 1 # n => Len(s) + 1 \in 1 .. n - 1
    BY <1>3
  <2>4. h.path = path /\ (h.last <=> Len(s) + 1 = n)
    BY <1>11, <1>16, <2>3 DEF FirstLast
  <2> HIDE DEF h
  <2>5. Only(on, C) = Append(o, h)
    BY <1>12, <1>14, <1>16, <2>4
  <2>6. CASE Len(s) + 1 = n
    <3>1. ReadFileFd(turn, path) = Ends(read.r, TRUE, Ids(Append(o, h)))
      BY <1>2, <1>4, <1>15, <1>16, <2>1, <2>2, <2>4, <2>6
    <3>2. WriteRight(path, TRUE, Ids(Append(o, h)))
      BY <1>w, <1>8, <1>9, <2>6, LastWritten DEF o, C
    <3>3. Rightly("write", path, [ok |-> TRUE, out |-> Ids(Append(o, h))])
      BY <3>2 DEF Rightly
    <3> QED
      BY <3>1, <3>3, EndsRight
  <2>7. CASE Len(s) + 1 # n
    <3>1. ReadFileFd(turn, path) = Goes(read.r, Ids(Append(o, h)))
      BY <1>2, <1>4, <1>15, <1>16, <2>1, <2>2, <2>4, <2>7
    <3>2. Len(on) < n
      BY <1>3, <1>10, <2>7
    <3> HIDE DEF on
    <3>3. Partly("write", path, on, Ids(Append(o, h)))
      BY <2>5, <3>2 DEF Partly, C
    <3> QED
      BY <2>1, <3>1, <3>3, GoesOn
  <2> QED
    BY <2>6, <2>7
<1>17. CASE h.kind # "file"
  <2>1. /\ next.frame # <<>> /\ Between(next.r, on, Tail(t)) /\ Len(on) >= m + 1
    BY <1>4, <1>6, <1>7, <1>17
  <2>2. Len(on) < n
    <3>1. Len(s) + 1 # n
      BY <1>11, <1>17 DEF FirstLast
    <3> QED
      BY <1>3, <1>10, <3>1
  <2> HIDE DEF h, on
  <2>3. ReadFileFd(turn, path) = Goes(next.r, turn.out)
    BY <1>2, <1>4, <1>17, <2>1
  <2>4. Partly("write", path, on, turn.out)
    BY <1>12, <1>14, <1>15, <1>17, <2>2 DEF Partly, C
  <2> QED
    BY <2>1, <2>3, <2>4, GoesOn
<1> QED
  BY <1>16, <1>17

(* Where there is one in front of which is nothing of another file.         *)
LEMMA LastFirst ==
  ASSUME NEW path, AloneUpToLast(path), Whole \in Seq(Frames)
  PROVE  \E n : FirstLast(path, n)
<1> DEFINE S == {n \in 1 .. Len(Whole) : Whole[n].kind = "file" /\ Whole[n].last}
<1>1. PICK e \in DOMAIN Whole :
        /\ Whole[e].kind = "file" /\ Whole[e].last
        /\ \A k \in 1 .. e : Whole[k].kind = "file" => Whole[k].path = path
  BY DEF AloneUpToLast
<1>2. e \in S /\ e \in Nat /\ S \subseteq Nat
  <2>1. e \in 1 .. Len(Whole)
    OBVIOUS
  <2> QED
    BY <1>1, <2>1
<1>3. PICK n \in S : \A k \in S : n <= k
  <2> HIDE DEF S
  <2> QED
    BY <1>2, LeastElement
<1>4. n \in 1 .. Len(Whole) /\ n \in Nat /\ n <= e /\ n \in 1 .. e
  BY <1>2, <1>3
<1>5. ASSUME NEW k \in 1 .. n - 1, Whole[k].kind = "file" PROVE Whole[k].path = path /\ ~Whole[k].last
  <2>1. k \in 1 .. e /\ k \in 1 .. Len(Whole) /\ ~(n <= k)
    BY <1>2, <1>4
  <2> QED
    BY <1>1, <1>3, <1>5, <2>1
<1> QED
  BY <1>1, <1>3, <1>4, <1>5 DEF FirstLast

-----------------------------------------------------------------------------
(* A loop from the start of the file.                                       *)

LEMMA TurnRight ==
  ASSUME NEW op \in Questions \cup {"cursor"}, NEW of, NEW turn, NEW m \in Nat, Env, ~foreign,
         InLoop(op, of, turn, m)
  PROVE  InLoop(op, of, TurnOf(op, of, turn), m + 1)
<1>1. CASE ~turn.more
  <2>1. TurnOf(op, of, turn) = turn
    BY <1>1 DEF TurnOf
  <2>2. InLoop(op, of, turn, m + 1)
    BY <1>1 DEF InLoop
  <2> QED
    BY <2>1, <2>2
<1>2. CASE turn.more
  <2>1. PICK s, t : /\ Between(turn.r, s, t) /\ (op = "list" \/ Len(s) >= m)
                    /\ Partly(op, of, s, turn.out)
    BY <1>2 DEF InLoop
  <2>2. CASE op = "find"
    <3>1. Only(s, ChunksIn(of)) = <<>>
      BY <2>1, <2>2 DEF Partly
    <3>2. TurnOf("find", of, turn) = FindFile(turn, of)
      BY <1>2 DEF TurnOf
    <3> QED
      BY <2>1, <2>2, <3>1, <3>2, FindTurn
  <2>3. CASE op = "list"
    <3>1. turn.out = PathsIn(s)
      BY <2>1, <2>3 DEF Partly
    <3>2. TurnOf("list", of, turn) = ListFiles(turn)
      BY <1>2 DEF TurnOf
    <3> QED
      BY <2>1, <2>3, <3>1, <3>2, ListTurn
  <2>4. CASE op = "write"
    <3>1. PICK n : FirstLast(of, n) /\ Len(s) < n /\ turn.out = Ids(Only(s, ChunksIn(of)))
      BY <2>1, <2>4 DEF Partly
    <3>2. TurnOf("write", of, turn) = ReadFileFd(turn, of)
      BY <1>2 DEF TurnOf
    <3> QED
      BY <2>1, <2>4, <3>1, <3>2, WriteTurn
  <2>5. CASE op = "cursor"
    <3>1. turn.out = Only(s, Meeting(of))
      BY <2>1, <2>5 DEF Partly
    <3>2. TurnOf("cursor", of, turn) = Foreach(turn, of)
      BY <1>2 DEF TurnOf
    <3> QED
      BY <2>1, <2>5, <3>1, <3>2, CursorTurn
  <2> QED
    BY <2>2, <2>3, <2>4, <2>5 DEF Questions
<1> QED
  BY <1>1, <1>2

(* Before the first turn nothing was passed.                                *)
LEMMA PartlyNone ==
  ASSUME NEW op, NEW of, op = "write" => \E n : FirstLast(of, n)
  PROVE  Partly(op, of, <<>>, IF op = "list" THEN {} ELSE <<>>)
<1>1. \A these : Only(<<>>, these) = <<>>
  BY OnlyNone
<1>2. Len(<<>>) = 0
  OBVIOUS
<1>3. PathsIn(<<>>) = {}
  BY <1>2 DEF PathsIn
<1>4. Ids(<<>>) = <<>>
  BY <1>2 DEF Ids
<1>5. op = "write" => \E n : FirstLast(of, n) /\ Len(<<>>) < n
  BY <1>2 DEF FirstLast
<1> QED
  BY <1>1, <1>3, <1>4, <1>5 DEF Partly

LEMMA LoopRight ==
  ASSUME NEW op \in Questions \cup {"cursor"}, NEW of, NEW r, NEW t, Env, ~foreign,
         Between(r, <<>>, t), op = "write" => \E n : FirstLast(of, n),
         op = "list" => ~Loop(op, of, r).more
  PROVE  Rightly(op, of, Loop(op, of, r))
<1>1. PICK turn : LoopOf(op, of, r, turn)
  BY LoopIs
<1>2. Len(file) \in Nat
  BY FileIs
<1> DEFINE S == {n \in Nat : InLoop(op, of, turn[n], n)}
           N == Len(file) + 1
<1>3. 0 \in S
  <2>1. turn[0] = Goes(r, IF op = "list" THEN {} ELSE <<>>)
    BY <1>1 DEF LoopOf, First
  <2>2. Partly(op, of, <<>>, IF op = "list" THEN {} ELSE <<>>)
    BY PartlyNone
  <2>3. Len(<<>>) >= 0
    OBVIOUS
  <2>4. InLoop(op, of, turn[0], 0)
    BY <2>1, <2>2, <2>3, GoesOn
  <2> QED
    BY <2>4
<1>4. ASSUME NEW n \in 0 .. N - 1, n \in S PROVE n + 1 \in S
  <2>1. n \in 0 .. Len(file) /\ n + 1 \in Nat /\ n \in Nat /\ InLoop(op, of, turn[n], n)
    BY <1>2, <1>4
  <2>2. turn[n + 1] = TurnOf(op, of, turn[n])
    BY <1>1, <2>1 DEF LoopOf
  <2>3. InLoop(op, of, TurnOf(op, of, turn[n]), n + 1)
    BY <2>1, TurnRight
  <2> QED
    BY <2>1, <2>2, <2>3
<1> HIDE DEF S
<1>5. N \in S
  <2>1. N \in Nat
    BY <1>2
  <2> HIDE DEF N
  <2>2. \A n \in 0 .. N : n \in S
    BY <1>3, <1>4, <2>1, Upwards
  <2>3. N \in 0 .. N
    BY <2>1
  <2> QED
    BY <2>2, <2>3
<1>6. Loop(op, of, r) = turn[N] /\ InLoop(op, of, turn[N], N)
  BY <1>1, <1>5 DEF S, LoopOf
<1>7. CASE turn[N].more
  <2>0. op # "list"
    BY <1>6, <1>7
  <2>1. PICK s, u : Between(turn[N].r, s, u) /\ Len(s) >= N
    BY <1>6, <1>7, <2>0 DEF InLoop
  <2>2. s \in Seq(Frames) /\ Len(CellsOf(s)) <= Len(file)
    BY <2>1 DEF Between, Split
  <2>3. Len(s) <= Len(CellsOf(s)) /\ Len(s) \in Nat /\ Len(CellsOf(s)) \in Nat
    <3>1. CellsOf(s) \in Seq(FileCell)
      BY <2>2, CellsAre
    <3> QED
      BY <2>2, <3>1, FewerFrames
  <2> QED
    BY <1>2, <2>1, <2>2, <2>3
<1>8. CASE ~turn[N].more
  BY <1>6, <1>8 DEF InLoop
<1> QED
  BY <1>7, <1>8
-----------------------------------------------------------------------------
(* What is told is right, a reader of which nothing was asked stands at the *)
(* start, and the list that it has is of the frames that it was made from.  *)
Listing == foreign \/ listed = NoList \/ listed.paths = listed.there
RInv ==
  /\ IInv
  /\ calls = 0 => got = <<>> /\ peeked = "none" /\ ~ended
  /\ Listing /\ AnswersAsWalk

LEMMA ReadInitHolds == ReadInit => RInv
BY InitHolds DEF ReadInit, Init, RInv, AnswersAsWalk, Listing

LEMMA ListingStays ==
  ASSUME Listing, foreign' = foreign, listed' = listed
  PROVE  Listing'
BY DEF Listing

LEMMA ReadingStep ==
  ASSUME RInv, Reading
  PROVE  RInv'
<1>0. foreign' = foreign /\ listed' = listed
  BY DEF Reading, Next, Grow, New, PeekType, SkipFrame, Read, Call, Reset
<1>1. IInv' /\ AnswersAsWalk' /\ Listing'
  BY <1>0, ListingStays, StepHolds DEF RInv, Reading, AnswersAsWalk, NoAnswer
<1>2. calls \in Nat /\ (calls = 0 => got = <<>> /\ peeked = "none" /\ ~ended)
  BY DEF RInv, IInv, TypeOK
<1>3. CASE Grow \/ \E untimed \in BOOLEAN : New(untimed)
  BY <1>1, <1>2, <1>3 DEF RInv, Grow, New
<1>4. CASE calls' = calls + 1
  <2>1. calls' # 0
    BY <1>2, <1>4
  <2> QED
    BY <1>1, <2>1 DEF RInv
<1>5. CASE Reset
  BY <1>1, <1>5 DEF RInv, Reset
<1> QED
  BY <1>3, <1>4, <1>5 DEF Reading, Next, PeekType, SkipFrame, Read, Call

(* A reader that is reset, of a file of this machine.                       *)
LEMMA FromStart ==
  ASSUME RInv, rd # NoReader, calls = 0
  PROVE  /\ Env /\ rd \in Readers /\ Sane(ResetOf(rd))
         /\ ~foreign => \E t : Between(ResetOf(rd), <<>>, t)
<1>1. TypeOK /\ Env /\ rd \in Readers /\ IInv /\ got = <<>>
  BY DEF RInv, IInv, TypeOK, Env
<1>2. Sane(ResetOf(rd)) /\ Stands(ResetOf(rd), FALSE, 0)
  BY <1>1, AtStart
<1>3. ASSUME ~foreign PROVE \E t : Between(ResetOf(rd), <<>>, t)
  <2>1. PICK t \in Seq(Frames) : Ahead(t)
    BY <1>1, <1>3 DEF IInv, Astray
  <2>2. Split(file, rest, <<>>, t)
    BY <1>1, <2>1, AheadSplit
  <2>3. Len(<<>>) = 0
    OBVIOUS
  <2> QED
    BY <1>2, <2>2, <2>3, CellsNone DEF Between
<1> QED
  BY <1>1, <1>2, <1>3

LEMMA AskStep ==
  ASSUME NEW op \in {"find", "write"}, NEW path \in Paths, RInv, Ask(op, path)
  PROVE  RInv'
<1> DEFINE done == Loop(op, path, ResetOf(rd))
<1>1. /\ rd # NoReader /\ calls = 0 /\ rd' = ResetOf(done.r)
      /\ answer' = [op |-> op, path |-> path, ok |-> done.ok, out |-> done.out]
      /\ file' = file /\ rest' = rest /\ foreign' = foreign /\ got' = got
      /\ peeked' = peeked /\ ended' = ended /\ calls' = calls /\ listed' = listed
  BY DEF Ask
<1>2. got = <<>> /\ peeked = "none" /\ ended = FALSE
  BY <1>1 DEF RInv, IInv, TypeOK
<1>3. /\ Env /\ rd \in Readers /\ Sane(ResetOf(rd))
      /\ ~foreign => \E t : Between(ResetOf(rd), <<>>, t)
  BY <1>1, FromStart
<1>4. Sane(done.r)
  BY <1>3, LoopSane DEF Questions
<1>5. Begins(done.r)
  BY <1>1, <1>2 DEF Begins
<1>6. IInv'
  BY <1>4, <1>5, SaneIs, BeginStep DEF RInv
<1>7. ASSUME ~foreign, op = "write" => AloneUpToLast(path) PROVE Rightly(op, path, done)
  <2>1. PICK t : Between(ResetOf(rd), <<>>, t)
    BY <1>3, <1>7
  <2>2. op = "write" => \E n : FirstLast(path, n)
    BY <1>3, <1>7, <2>1, BetweenIs, LastFirst
  <2> QED
    BY <1>3, <1>7, <2>1, <2>2, LoopRight DEF Questions
<1> HIDE DEF done
<1>8. Whole' = Whole /\ ChunksOf(path)' = ChunksOf(path) /\ AloneUpToLast(path)' = AloneUpToLast(path)
  BY <1>1 DEF Whole, ChunksOf, AloneUpToLast
<1>9. AnswersAsWalk'
  <2>1. /\ answer'.op = op /\ answer'.path = path /\ answer'.ok = done.ok /\ answer'.out = done.out
    BY <1>1
  <2>2. CASE foreign
    BY <1>1, <2>2 DEF AnswersAsWalk
  <2>3. CASE ~foreign /\ op = "find"
    <3>1. FindRight(path, answer'.out)
      BY <1>7, <2>1, <2>3 DEF Rightly
    <3> QED
      BY <1>1, <2>1, <2>3, <3>1 DEF AnswersAsWalk, FindRight, ChunksOf, Whole
  <2>5. CASE ~foreign /\ op = "write"
    <3>1. AloneUpToLast(path) => WriteRight(path, answer'.ok, answer'.out)
      BY <1>7, <2>1, <2>5 DEF Rightly
    <3>2. (AloneUpToLast(answer.path) => ReadBack)'
      BY <1>1, <1>8, <2>1, <3>1 DEF WriteRight, ReadBack, ChunksOf, Whole, AloneUpToLast
    <3> QED
      BY <2>1, <2>5, <3>2 DEF AnswersAsWalk
  <2> QED
    BY <2>2, <2>3, <2>5
<1>10. Listing'
  BY <1>1, ListingStays DEF RInv
<1> QED
  BY <1>1, <1>2, <1>6, <1>9, <1>10 DEF RInv

(* The list is made, or there is one.                                       *)
LEMMA ListStep ==
  ASSUME RInv, List
  PROVE  RInv'
<1> DEFINE done == Loop("list", "", ResetOf(rd))
<1>1. /\ rd # NoReader /\ calls = 0 /\ answer' = [op |-> "list", out |-> listed'.paths]
      /\ file' = file /\ rest' = rest /\ foreign' = foreign /\ got' = got
      /\ peeked' = peeked /\ ended' = ended /\ calls' = calls
  BY DEF List
<1>2. \/ /\ listed = NoList /\ ~done.more /\ rd' = ResetOf(done.r)
         /\ listed' = [paths |-> done.out, there |-> PathsIn(Whole)]
      \/ listed # NoList /\ rd' = ResetOf(rd) /\ listed' = listed
  BY DEF List
<1>3. got = <<>> /\ peeked = "none" /\ ended = FALSE
  BY <1>1 DEF RInv, IInv, TypeOK
<1>4. /\ Env /\ rd \in Readers /\ Sane(ResetOf(rd))
      /\ ~foreign => \E t : Between(ResetOf(rd), <<>>, t)
  BY <1>1, FromStart
<1>5. done.r \in Readers
  BY <1>4, LoopSane, SaneIs DEF Questions
<1> HIDE DEF done
<1>6. Begins(done.r) \/ Begins(rd)
  BY <1>1, <1>2, <1>3 DEF Begins
<1>7. IInv'
  BY <1>4, <1>5, <1>6, BeginStep DEF RInv
<1>8. Listing' /\ (foreign \/ listed'.paths = listed'.there)
  <2>1. CASE foreign \/ listed # NoList
    BY <1>1, <1>2, <2>1 DEF Listing, RInv
  <2>2. CASE ~foreign /\ listed = NoList
    <3>1. PICK t : Between(ResetOf(rd), <<>>, t)
      BY <1>4, <2>2
    <3>2. ~done.more
      BY <1>2, <2>2
    <3>3. Rightly("list", "", done)
      BY <1>4, <2>2, <3>1, <3>2, LoopRight DEF Questions, done
    <3>4. listed' = [paths |-> done.out, there |-> PathsIn(Whole)] /\ done.out = PathsIn(Whole)
      BY <1>2, <2>2, <3>3 DEF Rightly
    <3>5. listed'.paths = listed'.there
      BY <3>4
    <3> QED
      BY <3>5 DEF Listing
  <2> QED
    BY <2>1, <2>2
<1>9. AnswersAsWalk'
  BY <1>1, <1>8 DEF AnswersAsWalk
<1> QED
  BY <1>1, <1>3, <1>7, <1>8, <1>9 DEF RInv

LEMMA CursorStep ==
  ASSUME NEW conditions \in Conditions, RInv, Cursor(conditions)
  PROVE  RInv'
<1> DEFINE done == Loop("cursor", conditions, ResetOf(rd))
<1>1. /\ rd # NoReader /\ calls = 0
      /\ answer' = [op |-> "cursor", conditions |-> conditions, out |-> done.out]
      /\ UNCHANGED vars /\ listed' = listed
  BY DEF Cursor, vars
<1>2. IInv'
  BY <1>1, StepHolds DEF RInv
<1>3. Env /\ (~foreign => \E t : Between(ResetOf(rd), <<>>, t))
  BY <1>1, FromStart
<1>4. ASSUME ~foreign PROVE CursorRight(conditions, done.out)
  <2>1. PICK t : Between(ResetOf(rd), <<>>, t)
    BY <1>3, <1>4
  <2>2. Rightly("cursor", conditions, done)
    BY <1>3, <1>4, <2>1, LoopRight
  <2> QED
    BY <2>2 DEF Rightly
<1> HIDE DEF done
<1>5. AnswersAsWalk'
  <2>1. answer'.op = "cursor" /\ answer'.conditions = conditions /\ answer'.out = done.out
    BY <1>1
  <2>2. file' = file /\ foreign' = foreign
    BY <1>1 DEF vars
  <2>3. CASE foreign
    BY <2>2, <2>3 DEF AnswersAsWalk
  <2>4. CASE ~foreign
    BY <1>4, <2>1, <2>2, <2>4 DEF AnswersAsWalk, CursorRight, Meeting, Whole
  <2> QED
    BY <2>3, <2>4
<1>6. Listing'
  BY <1>1, ListingStays DEF RInv, vars
<1> QED
  BY <1>1, <1>2, <1>5, <1>6 DEF RInv, vars

LEMMA ReadStepHolds ==
  ASSUME RInv, [ReadNext]_readVars
  PROVE  RInv'
<1>1. CASE UNCHANGED readVars
  <2>1. UNCHANGED vars /\ answer' = answer /\ listed' = listed
    BY <1>1 DEF readVars
  <2>2. IInv'
    BY <2>1, StepHolds DEF RInv
  <2>3. file' = file /\ foreign' = foreign /\ answer' = answer /\ listed' = listed
    BY <2>1 DEF vars
  <2>4. AnswersAsWalk' = AnswersAsWalk
    <3>1. (AloneUpToLast(answer.path) => ReadBack)' = (AloneUpToLast(answer.path) => ReadBack)
      BY <2>3 DEF ReadBack, AloneUpToLast, ChunksOf, Whole
    <3> QED
      BY <2>3, <3>1 DEF AnswersAsWalk, ChunksOf, Whole
  <2>5. Listing'
    BY <2>3, ListingStays DEF RInv
  <2> QED
    BY <2>1, <2>2, <2>4, <2>5 DEF RInv, vars
<1>2. CASE ReadNext
  BY <1>2, ReadingStep, AskStep, ListStep, CursorStep DEF ReadNext
<1> QED
  BY <1>1, <1>2

-----------------------------------------------------------------------------
(* The walks of a join, also over files of the other byte order, but those  *)
(* with counters whose length reads as another one.                         *)
LEMMA FacesDue ==
  ASSUME NEW s, NEW t, Env, ~Led, Split(file, rest, s, t)
  PROVE  Faces(Len(CellsOf(s)), DueOf(t))
<1>1. CASE ~foreign
  BY <1>1, FacesAny
<1>2. CASE foreign
  <2> DEFINE n == Len(CellsOf(s))
             f == DueOf(t)
  <2>1. s \in Seq(Frames) /\ t \in Seq(Frames) /\ CellsOf(s) \in Seq(FileCell) /\ n \in Nat
    BY CellsAre DEF Split
  <2>2. /\ t # <<>> => Due(file, n, Head(t))
        /\ t = <<>> => n = Len(file)
    BY NextDue
  <2>3. WellMade(f) /\ (f.kind \in Counters => t # <<>>)
    <3>1. CASE t = <<>>
      <4>1. BufSz \in Nat \ {0}
        BY ReaderAssumption
      <4>2. f = NoFrame
        BY <3>1 DEF DueOf
      <4> QED
        BY <4>1, <4>2 DEF WellMade, NoFrame, MinLen, Basic, Counters
    <3>2. CASE t # <<>>
      BY <2>1, <3>2, FirstCell, FramesMade DEF DueOf
    <3> QED
      BY <3>1, <3>2
  <2>4. Due(file, n, f)
    <3>1. CASE t = <<>>
      <4> HIDE DEF n
      <4> QED
        BY <2>1, <2>2, <3>1 DEF Due
    <3>2. CASE t # <<>>
      BY <2>2, <3>2 DEF DueOf
    <3> QED
      BY <3>1, <3>2
  <2>5. f.kind \in Counters => Exchange(f.len) = f.len \/ Exchange(f.len) < 2
    <3> SUFFICES ASSUME f.kind \in Counters PROVE Exchange(f.len) = f.len \/ Exchange(f.len) < 2
      OBVIOUS
    <3>1. f \in Frames
      BY <2>1, <2>3, FirstCell DEF DueOf
    <3>2. Exchange(f.len) \in {1, f.len}
      BY <1>2, <3>1 DEF Led
    <3> QED
      BY <3>2
  <2> HIDE DEF n, f
  <2> QED
    BY <2>1, <2>3, <2>4, <2>5 DEF Faces, n, f
<1> QED
  BY <1>1, <1>2 DEF Env

LEMMA PeekAt ==
  ASSUME NEW r, NEW s, NEW t, Env, ~Led, Between(r, s, t)
  PROVE  Told(PeekFrame(r), s, t)
<1> DEFINE n == Len(CellsOf(s))
           f == DueOf(t)
           peek == PeekFrame(r)
<1>1. Split(file, rest, s, t) /\ Stands(r, FALSE, n) /\ Faces(n, f)
  BY FacesDue DEF Between
<1>2. PeekRight(peek, n, f)
  BY <1>1, PeekStands
<1>3. f.len \in Nat /\ n \in Nat /\ Len(file) \in Nat /\ f.kind # "none" /\ t \in Seq(Frames)
  BY <1>1, FacesIs, FileIs DEF Split
<1> HIDE DEF peek
<1>4. Between(peek.r, s, t)
  BY <1>1, <1>2 DEF PeekRight, Between
<1>5. CASE peek.kind = "none"
  <2>1. n + f.len > Len(file)
    BY <1>2, <1>3, <1>5 DEF PeekRight
  <2>2. t # <<>> => f = Head(t)
    BY DEF DueOf
  <2>3. t = <<>> \/ n + Head(t).len > Len(file)
    BY <2>1, <2>2
  <2>4. Whole = s
    BY <1>1, <2>3, CutStays
  <2> QED
    BY <1>4, <1>5, <2>4 DEF Told, peek
<1>6. CASE peek.kind # "none"
  <2>1. peek.kind = f.kind /\ n < Len(file)
    BY <1>2, <1>6 DEF PeekRight
  <2>2. t # <<>>
    <3>1. t = <<>> => n = Len(file)
      BY <1>1, NextDue
    <3> HIDE DEF n
    <3> QED
      BY <1>3, <2>1, <3>1
  <2>3. f = Head(t) /\ Head(t) \in Frames
    BY <1>3, <2>2, FirstCell DEF DueOf
  <2> QED
    BY <1>4, <1>6, <2>1, <2>2, <2>3 DEF Told, peek
<1> QED
  BY <1>5, <1>6

(* A read or a skip is a frame further, or the join ends.                   *)
Further(done, s, t) == done.frame = <<>> \/ Forward(done, s, t)
LEMMA StepsFurther ==
  ASSUME NEW r, NEW s, NEW t, NEW kind, Env, ~Led, Between(r, s, t)
  PROVE  Further(Skip(r), s, t) /\ Further(ReadAs(r, kind), s, t)
<1> DEFINE n == Len(CellsOf(s))
           f == DueOf(t)
<1>1. Split(file, rest, s, t) /\ Stands(r, FALSE, n) /\ Faces(n, f)
  BY FacesDue DEF Between
<1>2. Outcome(Skip(r), n, f, f.kind) /\ Outcome(ReadAs(r, kind), n, f, kind)
  BY <1>1, SkipOutcome, ReadOutcome
<1>3. ASSUME NEW done, NEW k, Outcome(done, n, f, k) PROVE Further(done, s, t)
  <2>1. CASE Took(done, n, f)
    BY <1>1, <2>1, TookMoves DEF Further
  <2>2. CASE Left(done, n, f, k)
    BY <2>2 DEF Left, Further
  <2> QED
    BY <1>3, <2>1, <2>2 DEF Outcome
<1> QED
  BY <1>2, <1>3

(* The frames that were walked and that are to come are the capture.        *)
FromCapture == \E frames \in Captures : file \o rest = CellsOf(frames)
LEMMA TheWhole ==
  ASSUME NEW r, NEW s, NEW t, Env, rest = <<>>, FromCapture, Between(r, s, t)
  PROVE  s \o t = Whole /\ Whole \in Captures /\ Whole \in Seq(Frames)
<1>1. Split(file, rest, s, t)
  BY DEF Between
<1>2. PICK c \in Captures : file \o rest = CellsOf(c)
  BY DEF FromCapture
<1>3. c \in Seq(Frames) /\ s \in Seq(Frames) /\ t \in Seq(Frames) /\ file \in Seq(FileCell)
      /\ rest \in Seq(FileCell)
  BY <1>1, ReaderAssumption DEF Split
<1>4. file \o rest = file
  BY <1>3, ConcatEmpty
<1>5. ASSUME NEW x \in Seq(Frames), CellsOf(x) = file \o rest PROVE Serial(file) = x
  <2>1. x \o <<>> = x /\ <<>> \in Seq(Frames)
    BY <1>5, ConcatEmpty
  <2>2. Len(CellsOf(x)) <= Len(file)
    BY <1>3, <1>4, <1>5, CellsAre
  <2>3. Split(file, rest, x, <<>>)
    BY <1>3, <1>5, <2>1, <2>2 DEF Split
  <2> QED
    BY <2>3, WholeStops
<1>6. s \o t \in Seq(Frames)
  BY <1>3, ConcatType
<1>7. CellsOf(s \o t) = file \o rest
  BY <1>1 DEF Split
<1>8. Serial(file) = c /\ Serial(file) = s \o t
  BY <1>2, <1>3, <1>5, <1>6, <1>7
<1> QED
  BY <1>2, <1>3, <1>8 DEF Whole

-----------------------------------------------------------------------------
(* What the operators of CaptureCat are of one frame more.                  *)
LEMMA SetOfMore ==
  ASSUME NEW S, NEW s \in Seq(S), NEW f
  PROVE  /\ ToSet(Append(s, f)) = ToSet(s) \cup {f}
         /\ Len(Append(s, f)) = Len(s) + 1 /\ Append(s, f)[Len(s) + 1] = f
         /\ \A i \in 1 .. Len(s) : Append(s, f)[i] = s[i]
<1> DEFINE n == Len(s)
           T == S \cup {f}
           u == Append(s, f)
<1>1. n \in Nat /\ DOMAIN s = 1 .. n
  OBVIOUS
<1>2. s \in Seq(T) /\ f \in T
  <2>1. \A i \in 1 .. n : s[i] \in S
    OBVIOUS
  <2>2. s \in [1 .. n -> T]
    BY <1>1, <2>1
  <2> QED
    BY <1>1, <2>2
<1>3. u \in Seq(T) /\ Len(u) = n + 1 /\ u[n + 1] = f /\ \A i \in 1 .. n : u[i] = s[i]
  BY <1>2
<1>4. DOMAIN u = 1 .. n + 1
  BY <1>1, <1>3
<1> HIDE DEF u, n
<1>5. ToSet(u) = {u[i] : i \in 1 .. n + 1} /\ ToSet(s) = {s[i] : i \in 1 .. n}
  BY <1>1, <1>4 DEF ToSet
<1>6. 1 .. n + 1 = (1 .. n) \cup {n + 1}
  BY <1>1
<1>7. ToSet(u) = ToSet(s) \cup {f}
  BY <1>3, <1>5, <1>6
<1> QED
  BY <1>3, <1>7 DEF u, n

LEMMA SetOf ==
  ASSUME NEW S, NEW s \in Seq(S)
  PROVE  /\ ToSet(s) \subseteq S /\ Len(s) \in Nat /\ DOMAIN s = 1 .. Len(s)
         /\ \A x : x \in ToSet(s) <=> \E i \in 1 .. Len(s) : s[i] = x
<1>1. Len(s) \in Nat /\ DOMAIN s = 1 .. Len(s) /\ \A i \in 1 .. Len(s) : s[i] \in S
  OBVIOUS
<1> QED
  BY <1>1 DEF ToSet

LEMMA NamesMore ==
  ASSUME NEW s \in Seq(Frames), NEW f
  PROVE  Names(Append(s, f)) = Names(s) \cup (IF f.kind = "jitmap" THEN ToSet(f.defs) ELSE {})
<1>1. ToSet(Append(s, f)) = ToSet(s) \cup {f}
  BY SetOfMore
<1> QED
  BY <1>1 DEF Names

LEMMA DefinedMore ==
  ASSUME NEW s \in Seq(Frames), NEW f
  PROVE  DefinedIn(Append(s, f)) = DefinedIn(s) \cup (IF f.kind = "ctrdef" THEN ToSet(f.ids) ELSE {})
<1>1. ToSet(Append(s, f)) = ToSet(s) \cup {f}
  BY SetOfMore
<1> QED
  BY <1>1 DEF DefinedIn

LEMMA NothingNamed == Names(<<>>) = {} /\ DefinedIn(<<>>) = {} /\ ToSet(<<>>) = {}
<1>1. ToSet(<<>>) = {}
  BY DEF ToSet
<1> QED
  BY <1>1 DEF Names, DefinedIn

(* What is translated.                                                      *)
LEMMA TranslateIs ==
  ASSUME NEW T, NEW x
  PROVE  /\ (\A i \in T : i[1] # x) => Translate(T, x) = x
         /\ (\E i \in T : i[1] = x) => \E i \in T : i[1] = x /\ Translate(T, x) = i[2]
<1> DEFINE F == {i \in T : i[1] = x}
<1>1. Translate(T, x) = IF F = {} THEN x ELSE (CHOOSE i \in F : TRUE)[2]
  BY DEF Translate
<1>2. F # {} => (CHOOSE i \in F : TRUE) \in F
  OBVIOUS
<1> QED
  BY <1>1, <1>2

LEMMA TranslateSame ==
  ASSUME NEW T, NEW U, NEW x, \A i \in U : i[1] # x
  PROVE  Translate(T \cup U, x) = Translate(T, x)
<1> DEFINE chosen(F) == IF F = {} THEN x ELSE (CHOOSE i \in F : TRUE)[2]
           F == {i \in T : i[1] = x}
           G == {i \in T \cup U : i[1] = x}
<1>1. F = G
  OBVIOUS
<1>2. Translate(T, x) = chosen(F) /\ Translate(T \cup U, x) = chosen(G)
  BY DEF Translate
<1> HIDE DEF F, G
<1>3. chosen(F) = chosen(G)
  BY ONLY <1>1
<1> QED
  BY <1>2, <1>3

-----------------------------------------------------------------------------
(* Names.                                                                   *)
Entries(w) == w.names \cup w.written

(* The table leads from the addresses of these to addresses of their names. *)
Naming(table, defs, entries) ==
  /\ \A i \in table : \E d \in defs : \E e \in entries : d[2] = i[1] /\ e[1] = d[1] /\ e[2] = i[2]
  /\ \A d \in defs : \E i \in table : i[1] = d[2]

(* A writer that has more names.                                            *)
Grown(w, v) ==
  /\ v.seq >= w.seq /\ v.ctr = w.ctr /\ v.event = w.event /\ Entries(w) \subseteq Entries(v)
  /\ \A e \in Entries(v) : e \in Entries(w) \/ e[2] > Mark + w.seq

(* As WriterMade, but for the bound.                                        *)
Writing(w) ==
  /\ w = [names |-> w.names, written |-> w.written, seq |-> w.seq, ctr |-> w.ctr, event |-> w.event]
  /\ w.seq \in Nat /\ w.ctr \in Nat /\ w.event \in Nat
  /\ \A d, e \in Entries(w) : d[2] \in Mark + 1 .. Mark + w.seq /\ (d[2] = e[2] => d[1] = e[1])

LEMMA WritingIs ==
  ASSUME NEW w
  PROVE  WriterMade(w) <=> Writing(w) /\ w.seq <= MaxSeq
<1>1. MaxSeq \in Nat
  BY CatAssumption
<1>2. w.seq \in 0 .. MaxSeq <=> w.seq \in Nat /\ w.seq <= MaxSeq
  BY <1>1
<1> QED
  BY <1>2 DEF WriterMade, Writing, Entries

NameAdded(w, v, name) ==
  /\ Writing(v) /\ Grown(w, v)
  /\ \E e \in Entries(v) : e[1] = name /\ e[2] = AddressOf(v, name)
LEMMA AddNameRight ==
  ASSUME NEW w, Writing(w), NEW name
  PROVE  NameAdded(w, AddName(w, name), name)
<1> DEFINE v == AddName(w, name)
           entry == <<name, Mark + w.seq + 1>>
           full == Cardinality(w.names) = JitMax
<1>1. Mark \in Nat /\ w.seq \in Nat
  BY CatAssumption DEF Writing
<1>2. ASSUME \E e \in v.names : e[1] = name
      PROVE  \E e \in Entries(v) : e[1] = name /\ e[2] = AddressOf(v, name)
  <2> DEFINE e == CHOOSE e \in v.names : e[1] = name
  <2> HIDE DEF v
  <2>1. e \in v.names /\ e[1] = name
    BY <1>2
  <2>2. AddressOf(v, name) = e[2]
    BY DEF AddressOf
  <2> HIDE DEF e
  <2> QED
    BY <2>1, <2>2 DEF Entries
<1>3. CASE \E e \in w.names : e[1] = name
  <2>1. v = w
    BY <1>3 DEF AddName
  <2> HIDE DEF v
  <2>2. Grown(w, v)
    BY <1>1, <2>1 DEF Grown
  <2> QED
    BY <1>2, <1>3, <2>1, <2>2 DEF NameAdded, v
<1>4. CASE ~\E e \in w.names : e[1] = name
  <2>1. v = [w EXCEPT !.seq = w.seq + 1, !.written = IF full THEN w.written \cup w.names ELSE w.written,
                      !.names = IF full THEN {entry} ELSE w.names \cup {entry}]
    BY <1>4 DEF AddName
  <2>2. w = [names |-> w.names, written |-> w.written, seq |-> w.seq, ctr |-> w.ctr, event |-> w.event]
    BY DEF Writing
  <2>3. /\ v.seq = w.seq + 1 /\ v.ctr = w.ctr /\ v.event = w.event
        /\ v.written = IF full THEN w.written \cup w.names ELSE w.written
        /\ v.names = IF full THEN {entry} ELSE w.names \cup {entry}
        /\ v = [names |-> v.names, written |-> v.written, seq |-> v.seq, ctr |-> v.ctr, event |-> v.event]
    <3> HIDE DEF full, entry, v
    <3> QED
      BY <2>1, <2>2
  <2> HIDE DEF v
  <2>4. Entries(v) = Entries(w) \cup {entry}
    BY <2>3 DEF Entries
  <2>5. entry[1] = name /\ entry[2] = Mark + w.seq + 1 /\ entry \in v.names
    BY <2>3
  <2> HIDE DEF entry, full
  <2>6. Grown(w, v)
    BY <1>1, <2>3, <2>4, <2>5 DEF Grown
  <2>7. \A d \in Entries(w) : d[2] \in Mark + 1 .. Mark + w.seq
    BY DEF Writing
  <2>8. \A d \in Entries(w) : d[2] \in Mark + 1 .. Mark + v.seq /\ d[2] # entry[2]
    BY <1>1, <2>3, <2>5, <2>7
  <2>9. entry[2] \in Mark + 1 .. Mark + v.seq
    BY <1>1, <2>3, <2>5
  <2>10. \A d, e \in Entries(w) : d[2] = e[2] => d[1] = e[1]
    BY DEF Writing
  <2>11. \A d, e \in Entries(v) : d[2] \in Mark + 1 .. Mark + v.seq /\ (d[2] = e[2] => d[1] = e[1])
    BY <2>4, <2>8, <2>9, <2>10
  <2>12. v.seq \in Nat /\ v.ctr \in Nat /\ v.event \in Nat
    BY <1>1, <2>3 DEF Writing
  <2>13. Writing(v)
    BY <2>3, <2>11, <2>12 DEF Writing
  <2> QED
    BY <1>2, <2>5, <2>6, <2>13 DEF NameAdded, v
<1> QED
  BY <1>3, <1>4

LEMMA GrownOn ==
  ASSUME NEW w, NEW v, NEW u, Writing(w), Writing(v), Writing(u), Grown(w, v), Grown(v, u)
  PROVE  Grown(w, u)
<1>1. Mark \in Nat /\ w.seq \in Nat /\ v.seq \in Nat /\ u.seq \in Nat
  BY CatAssumption DEF Writing
<1>2. \A e \in Entries(u) : e[2] \in Nat
  BY <1>1 DEF Writing
<1> QED
  BY <1>1, <1>2 DEF Grown

-----------------------------------------------------------------------------
(* The loop over the names of a frame.                                      *)
LEMMA GrownSame ==
  ASSUME NEW w, Writing(w)
  PROVE  Grown(w, w)
<1>1. w.seq \in Nat
  BY DEF Writing
<1> QED
  BY <1>1 DEF Grown

Renaming(start, defs, at) ==
  at = [n \in 0 .. Len(defs) |-> IF n = 0 THEN start ELSE RenameTurn(at[n - 1], defs[n])]
LEMMA RenamingExists ==
  ASSUME NEW start, NEW defs, Len(defs) \in Nat
  PROVE  \E at : Renaming(start, defs, at)
<1> DEFINE last == Len(defs)
           D == 0 .. last
           Put(g, i) == IF i = 0 THEN start ELSE RenameTurn(g[i - 1], defs[i])
           Right(g, n) == \A i \in D : i <= n => g[i] = Put(g, i)
           S == {n \in Nat : \E g : Right(g, n)}
<1>1. last \in Nat
  OBVIOUS
<1> HIDE DEF last
<1>2. 0 \in S
  <2> DEFINE g == [i \in D |-> start]
  <2>1. Right(g, 0)
    <3>1. \A i \in D : i <= 0 => i = 0
      BY <1>1
    <3> QED
      BY <3>1
  <2>2. \E h : Right(h, 0)
    BY <2>1
  <2> QED
    BY <2>2
<1>3. ASSUME NEW n \in 0 .. last - 1, n \in S
      PROVE  n + 1 \in S
  <2>1. PICK g : Right(g, n)
    BY <1>3
  <2> DEFINE m == n + 1
             x == RenameTurn(g[n], defs[m])
             h == [i \in D |-> IF i = m THEN x ELSE g[i]]
  <2>2. m \in D /\ m \in Nat /\ n \in Nat /\ n \in D /\ m - 1 = n /\ m # 0 /\ n # m
    BY <1>1
  <2> HIDE DEF x
  <2>4. h[m] = x /\ \A i \in D : i # m => h[i] = g[i]
    BY <2>2
  <2> HIDE DEF h
  <2>5. ASSUME NEW i \in D, i <= m
        PROVE  h[i] = Put(h, i)
    <3>1. CASE i = m
      <4>1. h[n] = g[n]
        BY <2>2, <2>4
      <4>2. Put(h, m) = RenameTurn(h[n], defs[m])
        BY <2>2
      <4> QED
        BY <2>4, <3>1, <4>1, <4>2 DEF x
    <3>2. CASE i # m /\ i # 0
      <4>1. i <= n /\ i - 1 \in D /\ i - 1 # m
        BY <1>1, <2>2, <2>5, <3>2
      <4>2. g[i] = RenameTurn(g[i - 1], defs[i]) /\ h[i] = g[i] /\ h[i - 1] = g[i - 1]
        BY <2>1, <2>4, <3>2, <4>1
      <4> QED
        BY <3>2, <4>2
    <3>3. CASE i # m /\ i = 0
      BY <2>1, <2>2, <2>4, <3>3
    <3> QED
      BY <3>1, <3>2, <3>3
  <2>6. Right(h, n + 1)
    BY <2>5
  <2>7. \E k : Right(k, n + 1)
    BY <2>6
  <2> QED
    BY <2>2, <2>7
<1>4. last \in S
  <2> HIDE DEF S
  <2>1. \A n \in 0 .. last : n \in S
    BY <1>1, <1>2, <1>3, Upwards
  <2> QED
    BY <1>1, <2>1
<1>5. PICK f : Right(f, last)
  BY <1>4
<1> DEFINE g == [i \in D |-> f[i]]
<1>6. \A i \in D : g[i] = Put(g, i)
  <2>1. ASSUME NEW i \in D PROVE g[i] = Put(g, i)
    <3>1. g[i] = f[i] /\ f[i] = Put(f, i)
      BY <1>1, <1>5
    <3>2. i # 0 => i - 1 \in D /\ g[i - 1] = f[i - 1]
      BY <1>1
    <3> HIDE DEF g
    <3> QED
      BY <3>1, <3>2
  <2> QED
    BY <2>1
<1>7. g = [i \in D |-> Put(g, i)]
  <2>1. g = [i \in D |-> g[i]]
    OBVIOUS
  <2> HIDE DEF Put, g
  <2> QED
    BY <1>6, <2>1
<1> HIDE DEF g
<1>8. Renaming(start, defs, g)
  BY <1>7 DEF Renaming, last
<1> QED
  BY <1>8

RenamedBy(start, defs, at) ==
  /\ Renamed(defs) = at[Len(defs)] /\ at[0] = start
  /\ \A n \in 0 .. Len(defs) - 1 : at[n + 1] = RenameTurn(at[n], defs[n + 1])
LEMMA RenamedIs ==
  ASSUME NEW defs, Len(defs) \in Nat
  PROVE  \E at : RenamedBy([dest |-> dest, addr |-> cat.table.addr], defs, at)
<1> DEFINE N == Len(defs)
           start == [dest |-> dest, addr |-> cat.table.addr]
           P(at) == Renaming(start, defs, at)
           at == CHOOSE at : P(at)
<1>1. N \in Nat /\ N \in 0 .. N /\ 0 \in 0 .. N
  OBVIOUS
<1>2. Renamed(defs) = at[N]
  BY DEF Renamed, Renaming
<1>3. PICK g : P(g)
  <2> HIDE DEF N, start
  <2> QED
    BY RenamingExists DEF N
<1>4. P(at)
  <2> HIDE DEF P
  <2> QED
    BY <1>3
<1> HIDE DEF at
<1> HIDE DEF start
<1>5. \A n \in 0 .. N : at[n] = IF n = 0 THEN start ELSE RenameTurn(at[n - 1], defs[n])
  BY <1>4 DEF Renaming
<1> HIDE DEF P
<1>6. at[0] = start
  BY <1>1, <1>5
<1> HIDE DEF N
<1>7. ASSUME NEW n \in 0 .. N - 1 PROVE at[n + 1] = RenameTurn(at[n], defs[n + 1])
  <2>1. n + 1 \in 0 .. N /\ n + 1 # 0 /\ (n + 1) - 1 = n
    BY <1>1
  <2> QED
    BY <1>5, <2>1
<1> QED
  BY <1>2, <1>6, <1>7 DEF RenamedBy, start, N

(* A writer and the table that leads from these addresses.                  *)
RightlyNamed(at, w, defs) ==
  Writing(at.dest) /\ Grown(w, at.dest) /\ Naming(at.addr, defs, Entries(at.dest))
LEMMA RenameTurnRight ==
  ASSUME NEW w, Writing(w), NEW at, NEW D, NEW def, RightlyNamed(at, w, D)
  PROVE  RightlyNamed(RenameTurn(at, def), w, D \cup {def})
<1> DEFINE d == at.dest
           v == AddName(d, def[1])
           a == AddressOf(v, def[1])
           T == at.addr
           U == T \cup {<<def[2], a>>}
           next == RenameTurn(at, def)
<1>1. next.dest = v /\ next.addr = U
  BY DEF RenameTurn
<1>2. Writing(d) /\ Grown(w, d) /\ Naming(T, D, Entries(d))
  BY DEF RightlyNamed
<1> HIDE DEF d, T
<1>3. NameAdded(d, v, def[1])
  BY <1>2, AddNameRight
<1> HIDE DEF v, next
<1>4. /\ Writing(v) /\ Grown(d, v) /\ Entries(d) \subseteq Entries(v)
      /\ \E e \in Entries(v) : e[1] = def[1] /\ e[2] = a
  BY <1>3 DEF NameAdded, Grown
<1>5. Grown(w, v)
  BY <1>2, <1>4, GrownOn
<1> HIDE DEF a
<1> DEFINE i == <<def[2], a>>
<1>6. i[1] = def[2] /\ i[2] = a
  OBVIOUS
<1> HIDE DEF i
<1>7. Naming(T \cup {i}, D \cup {def}, Entries(v))
  BY <1>2, <1>4, <1>6 DEF Naming
<1>8. next.addr = T \cup {i}
  BY <1>1 DEF i
<1> QED
  BY <1>1, <1>4, <1>5, <1>7, <1>8 DEF RightlyNamed, next

LEMMA RenamedRight ==
  ASSUME NEW D, NEW defs, Len(defs) \in Nat, DOMAIN defs = 1 .. Len(defs), Writing(dest),
         Naming(cat.table.addr, D, Entries(dest))
  PROVE  RightlyNamed(Renamed(defs), dest, D \cup ToSet(defs))
<1> DEFINE N == Len(defs)
           start == [dest |-> dest, addr |-> cat.table.addr]
           upto(n) == {defs[i] : i \in 1 .. n}
           P(at, n) == RightlyNamed(at[n], dest, D \cup upto(n))
<1>1. PICK at : RenamedBy(start, defs, at)
  BY RenamedIs
<1>2. /\ Renamed(defs) = at[N] /\ at[0] = start
      /\ \A n \in 0 .. N - 1 : at[n + 1] = RenameTurn(at[n], defs[n + 1])
  BY <1>1 DEF RenamedBy
<1>3. start.dest = dest /\ start.addr = cat.table.addr
  OBVIOUS
<1> HIDE DEF start
<1> DEFINE S == {n \in Nat : P(at, n)}
<1>4. 0 \in S
  <2>1. D \cup upto(0) = D
    OBVIOUS
  <2>2. RightlyNamed(start, dest, D)
    BY <1>3, GrownSame DEF RightlyNamed
  <2> HIDE DEF upto
  <2> QED
    BY <1>2, <2>1, <2>2
<1>5. ASSUME NEW n \in 0 .. N - 1, n \in S PROVE n + 1 \in S
  <2> DEFINE def == defs[n + 1]
  <2>1. (D \cup upto(n)) \cup {def} = D \cup upto(n + 1)
    <3>1. 1 .. n + 1 = (1 .. n) \cup {n + 1}
      OBVIOUS
    <3> QED
      BY <3>1
  <2>2. RightlyNamed(at[n], dest, D \cup upto(n))
    BY <1>5
  <2> HIDE DEF upto, def
  <2>3. RightlyNamed(RenameTurn(at[n], def), dest, (D \cup upto(n)) \cup {def})
    BY <2>2, RenameTurnRight
  <2>4. at[n + 1] = RenameTurn(at[n], def) /\ n + 1 \in Nat
    BY <1>2 DEF def
  <2>5. P(at, n + 1)
    BY <2>1, <2>3, <2>4
  <2> QED
    BY <2>4, <2>5
<1>6. N \in S
  <2> HIDE DEF S, N
  <2>1. N \in Nat
    BY DEF N
  <2>2. \A n \in 0 .. N : n \in S
    BY <1>4, <1>5, <2>1, Upwards
  <2> QED
    BY <2>1, <2>2
<1>7. upto(N) = ToSet(defs)
  BY DEF ToSet
<1> HIDE DEF upto
<1> QED
  BY <1>2, <1>6, <1>7

-----------------------------------------------------------------------------
(* Every frame that is picked is there, and every one of its kind is picked.*)
PicksAll(s, these) ==
  \A k \in 1 .. Len(s) :
    s[k] \in these => \E j \in 1 .. Len(Only(s, these)) : Only(s, these)[j] = s[k]
LEMMA OnlyHas ==
  ASSUME NEW s \in Seq(Frames), NEW these
  PROVE  PicksAll(s, these)
<1> DEFINE S == {u \in Seq(Frames) : PicksAll(u, these)}
<1>1. <<>> \in S
  <2>1. <<>> \in Seq(Frames) /\ Len(<<>>) = 0
    OBVIOUS
  <2> QED
    BY <2>1 DEF PicksAll
<1>2. ASSUME NEW u \in Seq(Frames), NEW f \in Frames, u \in S PROVE Append(u, f) \in S
  <2> DEFINE v == Append(u, f)
             o == Only(u, these)
             p == Only(v, these)
  <2>1. /\ v \in Seq(Frames) /\ Len(v) = Len(u) + 1 /\ v[Len(u) + 1] = f /\ Len(u) \in Nat
        /\ \A k \in 1 .. Len(u) : v[k] = u[k]
    OBVIOUS
  <2>2. PicksAll(u, these) /\ o \in Seq(Frames)
    BY <1>2, OnlyType
  <2>3. p = IF f \in these THEN Append(o, f) ELSE o
    BY OnlyMore
  <2> HIDE DEF o, v
  <2>4. /\ Len(o) \in Nat /\ Len(o) <= Len(p) /\ Len(p) \in Nat
        /\ \A j \in 1 .. Len(o) : p[j] = o[j]
        /\ f \in these => p[Len(p)] = f /\ Len(p) \in 1 .. Len(p)
    <3> HIDE DEF p
    <3> QED
      BY <2>2, <2>3
  <2> HIDE DEF p
  <2>5. ASSUME NEW k \in 1 .. Len(v), v[k] \in these PROVE \E j \in 1 .. Len(p) : p[j] = v[k]
    <3>1. CASE k = Len(u) + 1
      BY <2>1, <2>4, <2>5, <3>1
    <3>2. CASE k \in 1 .. Len(u)
      <4>1. PICK j \in 1 .. Len(o) : o[j] = u[k]
        BY <2>1, <2>2, <2>5, <3>2 DEF PicksAll, o
      <4> QED
        BY <2>1, <2>4, <3>2, <4>1
    <3> QED
      BY <2>1, <3>1, <3>2
  <2>6. PicksAll(v, these)
    BY <2>5 DEF PicksAll, p
  <2> QED
    BY <2>1, <2>6 DEF v
<1> HIDE DEF S
<1>3. s \in S
  BY <1>1, <1>2, AllSequences
<1> QED
  BY <1>3 DEF S

-----------------------------------------------------------------------------
(* What means the same.                                                     *)
Alike(f, F, N, g, G, M) ==
  /\ f.kind = g.kind /\ f.id = g.id
  /\ f.kind \in Addressed =>
       /\ DOMAIN f.addrs = DOMAIN g.addrs
       /\ \A n \in DOMAIN f.addrs : NameOf(f.addrs[n], N) = NameOf(g.addrs[n], M)
  /\ f.kind \in Counters =>
       /\ DOMAIN f.ids = DOMAIN g.ids
       /\ \A n \in DOMAIN f.ids : CounterOf(f.ids[n], F) = CounterOf(g.ids[n], G)
  /\ f.kind \in Evented => EventOf(f.event, F) = EventOf(g.event, G)
SameMeant(f, F, N, g, G, M) == Meaning(f, F, N) = Meaning(g, G, M)
LEMMA AlikeMeans ==
  ASSUME NEW f, NEW F, NEW N, NEW g, NEW G, NEW M, Alike(f, F, N, g, G, M)
  PROVE  SameMeant(f, F, N, g, G, M)
<1> DEFINE a == [n \in DOMAIN f.addrs |-> NameOf(f.addrs[n], N)]
           b == [n \in DOMAIN g.addrs |-> NameOf(g.addrs[n], M)]
           c == [n \in DOMAIN f.ids |-> CounterOf(f.ids[n], F)]
           d == [n \in DOMAIN g.ids |-> CounterOf(g.ids[n], G)]
           x == EventOf(f.event, F)
           y == EventOf(g.event, G)
<1>1. /\ f.kind = g.kind /\ f.id = g.id
      /\ f.kind \in Addressed => a = b
      /\ f.kind \in Counters => c = d
      /\ f.kind \in Evented => x = y
  BY DEF Alike
<1>2. Meaning(f, F, N) =
        CASE f.kind = "sample" -> <<f.id, a>>
          [] f.kind = "memory_sample" -> <<f.id, x, a>>
          [] f.kind \in Counters -> <<f.id, c>>
          [] f.kind = "metadata" -> <<f.id, x>>
          [] OTHER -> <<f.id>>
  BY DEF Meaning
<1>3. Meaning(g, G, M) =
        CASE g.kind = "sample" -> <<g.id, b>>
          [] g.kind = "memory_sample" -> <<g.id, y, b>>
          [] g.kind \in Counters -> <<g.id, d>>
          [] g.kind = "metadata" -> <<g.id, y>>
          [] OTHER -> <<g.id>>
  BY DEF Meaning
<1> HIDE DEF a, b, c, d, x, y
<1>4. CASE f.kind = "sample"
  BY <1>1, <1>2, <1>3, <1>4 DEF SameMeant, Addressed
<1>5. CASE f.kind = "memory_sample"
  BY <1>1, <1>2, <1>3, <1>5 DEF SameMeant, Addressed, Evented
<1>6. CASE f.kind \in Counters
  BY <1>1, <1>2, <1>3, <1>6 DEF SameMeant, Counters
<1>7. CASE f.kind = "metadata"
  BY <1>1, <1>2, <1>3, <1>7 DEF SameMeant, Counters, Evented
<1>8. CASE f.kind \notin {"sample", "memory_sample", "metadata"} \cup Counters
  BY <1>1, <1>2, <1>3, <1>8 DEF SameMeant
<1> QED
  BY <1>4, <1>5, <1>6, <1>7, <1>8

-----------------------------------------------------------------------------
(* A frame that refers to nothing that is not there yet.                    *)
Clear(a, seq) == a \in Nat /\ (a <= Mark + seq \/ a > Mark + MaxSeq)
Within(f, seq, b, e) ==
  /\ f.kind \in Addressed => \A n \in DOMAIN f.addrs : Clear(f.addrs[n], seq)
  /\ f.kind \in Counters => \A n \in DOMAIN f.ids : f.ids[n] \in 0 .. b
  /\ f.kind \in Evented => f.event \in 0 .. e
(* A frame whose counters and events are new.                               *)
Newer(g, b, e) ==
  /\ g.kind = "ctrdef" => \A n \in DOMAIN g.ids : g.ids[n] \in Nat /\ g.ids[n] > b
  /\ g.kind = "metadata" => g.event \in Nat /\ (g.event = 0 \/ g.event > e)

LEMMA WithinMore ==
  ASSUME NEW f, NEW seq \in Nat, NEW b \in Nat, NEW e \in Nat, Within(f, seq, b, e),
         NEW last \in Nat, NEW c \in Nat, NEW d \in Nat, last >= seq, last <= MaxSeq, c >= b, d >= e
  PROVE  Within(f, last, c, d)
<1>1. Mark \in Nat /\ MaxSeq \in Nat
  BY CatAssumption
<1>2. \A a : Clear(a, seq) => Clear(a, last)
  BY <1>1 DEF Clear
<1> QED
  BY <1>2 DEF Within

LEMMA NameStays ==
  ASSUME NEW w, NEW v, Writing(w), Writing(v), Grown(w, v), v.seq <= MaxSeq,
         NEW a, Clear(a, w.seq)
  PROVE  NameOf(a, Entries(v)) = NameOf(a, Entries(w))
<1>1. Mark \in Nat /\ MaxSeq \in Nat /\ w.seq \in Nat /\ v.seq \in Nat /\ a \in Nat
  BY CatAssumption DEF Writing, Clear
<1>2. ASSUME NEW d \in Entries(v), d[2] = a PROVE d \in Entries(w)
  <2>1. d[2] \in Mark + 1 .. Mark + v.seq
    BY DEF Writing
  <2>2. d \in Entries(w) \/ d[2] > Mark + w.seq
    BY DEF Grown
  <2> QED
    BY <1>1, <1>2, <2>1, <2>2 DEF Clear
<1>3. {d \in Entries(v) : d[2] = a} = {d \in Entries(w) : d[2] = a}
  BY <1>2 DEF Grown
<1> QED
  BY <1>3 DEF NameOf

CountsAs(id, F, G) == CounterOf(id, F) = CounterOf(id, G)
LEMMA CounterStays ==
  ASSUME NEW S, NEW F \in Seq(S), NEW g, NEW b \in Nat, NEW e, Newer(g, b, e), NEW id \in 0 .. b
  PROVE  CountsAs(id, F, Append(F, g))
<1> DEFINE G == Append(F, g)
           D(fs) == {d \in ToSet(fs) : d.kind = "ctrdef"}
           of(d) == {<<d.id, n>> : n \in {k \in DOMAIN d.ids : d.ids[k] = id}}
<1>1. ToSet(G) = ToSet(F) \cup {g}
  BY SetOfMore
<1> HIDE DEF G
<1>2. D(G) = D(F) \cup (IF g.kind = "ctrdef" THEN {g} ELSE {})
  BY <1>1
<1>3. ASSUME g.kind = "ctrdef" PROVE of(g) = {}
  <2>1. \A n \in DOMAIN g.ids : g.ids[n] # id
    BY <1>3 DEF Newer
  <2> QED
    BY <2>1
<1>4. CounterOf(id, F) = UNION {of(d) : d \in D(F)} /\ CounterOf(id, G) = UNION {of(d) : d \in D(G)}
  BY DEF CounterOf
<1> HIDE DEF of, D
<1>5. UNION {of(d) : d \in D(G)} = UNION {of(d) : d \in D(F)}
  BY <1>2, <1>3
<1> QED
  BY <1>4, <1>5 DEF CountsAs, G

HappensAs(x, F, G) == EventOf(x, F) = EventOf(x, G)
LEMMA EventStays ==
  ASSUME NEW S, NEW F \in Seq(S), NEW g, NEW b, NEW e \in Nat, Newer(g, b, e), NEW x \in 0 .. e
  PROVE  HappensAs(x, F, Append(F, g))
<1> DEFINE G == Append(F, g)
           D(fs) == {d \in ToSet(fs) : d.kind = "metadata" /\ d.event = x}
<1>1. ToSet(G) = ToSet(F) \cup {g}
  BY SetOfMore
<1> HIDE DEF G
<1>2. ASSUME x # 0 PROVE D(G) = D(F)
  <2>1. ~(g.kind = "metadata" /\ g.event = x)
    BY <1>2 DEF Newer
  <2> QED
    BY <1>1, <2>1
<1>3. /\ EventOf(x, F) = IF x = 0 THEN {} ELSE {d.id : d \in D(F)}
      /\ EventOf(x, G) = IF x = 0 THEN {} ELSE {d.id : d \in D(G)}
  BY DEF EventOf
<1> HIDE DEF D
<1> QED
  BY <1>2, <1>3 DEF HappensAs, G

-----------------------------------------------------------------------------
(* What the tables of the second walk lead to.                              *)
CtrRight(table, defined, b, last) ==
  /\ \A i \in table : i[1] \in defined
  /\ \A x \in defined : Translate(table, x) \in Nat /\ Translate(table, x) > b
                        /\ Translate(table, x) <= last
  /\ \A x, y \in defined : Translate(table, x) = Translate(table, y) => x = y
EventRight(table, e, last) ==
  /\ \A i \in table : i[1] \in Nat \ {0} /\ i[2] \in Nat /\ i[2] > e /\ i[2] <= last
  /\ \A i, j \in table : i[1] = j[1] <=> i[2] = j[2]

(* The frame that is added refers to what the frame that was read does.     *)
AddrsMatch(f, g, N, M) ==
  /\ DOMAIN f.addrs = DOMAIN g.addrs
  /\ \A n \in DOMAIN f.addrs : NameOf(f.addrs[n], N) = NameOf(g.addrs[n], M)
IdsMatch(f, g, defined, ctr) ==
  /\ DOMAIN f.ids = DOMAIN g.ids
  /\ \A n \in DOMAIN f.ids : f.ids[n] \in defined /\ g.ids[n] = Translate(ctr, f.ids[n])
EventMatch(f, g, event) ==
  (f.event = 0 /\ g.event = 0) \/ \E i \in event : i[1] = f.event /\ i[2] = g.event
Matches(f, g, defined, ctr, event, N, M) ==
  /\ f.kind = g.kind /\ f.id = g.id
  /\ f.kind \in Addressed => AddrsMatch(f, g, N, M)
  /\ f.kind \in Counters => IdsMatch(f, g, defined, ctr)
  /\ f.kind \in Evented => EventMatch(f, g, event)

(* An address and what it is translated to.                                 *)
AddrRight(a, N) ==
  /\ Clear(TranslateAddr(a), dest.seq)
  /\ NameOf(a, N) = NameOf(TranslateAddr(a), Entries(dest))
LEMMA AddressRight ==
  ASSUME NEW N, \A d, e \in N : d[2] = e[2] => d[1] = e[1], WriterMade(dest),
         Naming(cat.table.addr, N, Entries(dest)), NEW a \in Nat,
         a \notin Mark .. Mark + MaxSeq \/ \E d \in N : d[2] = a
  PROVE  AddrRight(a, N)
<1> DEFINE T == cat.table.addr
           M == Entries(dest)
<1>1. /\ Mark \in Nat /\ MaxSeq \in Nat /\ dest.seq \in Nat /\ dest.seq <= MaxSeq
      /\ \A d, e \in M : d[2] \in Mark + 1 .. Mark + dest.seq /\ (d[2] = e[2] => d[1] = e[1])
  BY CatAssumption, WritingIs DEF Writing
<1>2. Naming(T, N, M)
  OBVIOUS
<1> HIDE DEF T, M
<1>3. CASE a < Mark
  <2>1. TranslateAddr(a) = a
    BY <1>3 DEF TranslateAddr
  <2> QED
    BY <1>1, <1>3, <2>1 DEF AddrRight, Clear, NameOf
<1>4. CASE a >= Mark /\ \E d \in N : d[2] = a
  <2>0. ~(a < Mark)
    BY <1>1, <1>4
  <2>1. TranslateAddr(a) = Translate(T, a)
    BY <2>0 DEF TranslateAddr, T
  <2>2. \E i \in T : i[1] = a
    BY <1>2, <1>4 DEF Naming
  <2>3. PICK i \in T : i[1] = a /\ Translate(T, a) = i[2]
    BY <2>2, TranslateIs
  <2>4. PICK d \in N, e \in M : d[2] = a /\ e[1] = d[1] /\ e[2] = i[2]
    BY <1>2, <2>3 DEF Naming
  <2> DEFINE c == TranslateAddr(a)
  <2>5. c = e[2]
    BY <2>1, <2>3, <2>4
  <2> HIDE DEF c
  <2>6. c \in Mark + 1 .. Mark + dest.seq
    BY <1>1, <2>4, <2>5
  <2>7. Clear(c, dest.seq) /\ ~(c < Mark)
    BY <1>1, <2>6 DEF Clear
  <2>8. NameOf(a, N) = {d[1]}
    <3>1. NameOf(a, N) = {k[1] : k \in {j \in N : j[2] = a}}
      BY <2>0 DEF NameOf
    <3>2. \A k \in {j \in N : j[2] = a} : k[1] = d[1]
      BY <2>4
    <3>3. d \in {j \in N : j[2] = a}
      BY <2>4
    <3> QED
      BY <3>1, <3>2, <3>3
  <2>9. NameOf(c, M) = {e[1]}
    <3>1. NameOf(c, M) = {k[1] : k \in {j \in M : j[2] = c}}
      BY <2>7 DEF NameOf
    <3>2. \A k \in {j \in M : j[2] = c} : k[1] = e[1]
      BY <1>1, <2>4, <2>5
    <3>3. e \in {j \in M : j[2] = c}
      BY <2>4, <2>5
    <3> QED
      BY <3>1, <3>2, <3>3
  <2> QED
    BY <2>4, <2>7, <2>8, <2>9 DEF AddrRight, c, M
<1>5. CASE a >= Mark /\ ~\E d \in N : d[2] = a
  <2>1. a > Mark + MaxSeq /\ ~(a < Mark)
    BY <1>1, <1>5
  <2>2. \A i \in T : i[1] # a
    BY <1>2, <1>5 DEF Naming
  <2>3. TranslateAddr(a) = a
    <3>1. TranslateAddr(a) = Translate(T, a)
      BY <2>1 DEF TranslateAddr, T
    <3> QED
      BY <2>2, <3>1, TranslateIs
  <2>4. \A e \in M : e[2] # a
    BY <1>1, <2>1
  <2>5. {d \in N : d[2] = a} = {} /\ {d \in M : d[2] = a} = {}
    BY <1>5, <2>4
  <2>6. NameOf(a, N) = {} /\ NameOf(a, M) = {}
    BY <2>1, <2>5 DEF NameOf
  <2> QED
    BY <2>1, <2>3, <2>6 DEF AddrRight, Clear, M
<1> QED
  BY <1>1, <1>3, <1>4, <1>5

(* The addresses of a frame.                                                *)
AddrsOf(f) == [f EXCEPT !.addrs = [n \in DOMAIN @ |-> TranslateAddr(@[n])]]
AddrsPlaced(f, g, N) ==
  /\ g.kind = f.kind /\ g.id = f.id /\ DOMAIN g = DOMAIN f
  /\ \A x \in DOMAIN f : x # "addrs" => g[x] = f[x]
  /\ AddrsMatch(f, g, N, Entries(dest))
  /\ \A n \in DOMAIN g.addrs : Clear(g.addrs[n], dest.seq)
LEMMA AddrsRight ==
  ASSUME NEW f, NEW N, \A d, e \in N : d[2] = e[2] => d[1] = e[1], WriterMade(dest),
         Naming(cat.table.addr, N, Entries(dest)), FrameMade(f), f.kind \in Addressed,
         \A a \in ToSet(f.addrs) : a \notin Mark .. Mark + MaxSeq \/ \E d \in N : d[2] = a
  PROVE  AddrsPlaced(f, AddrsOf(f), N)
<1> DEFINE g == AddrsOf(f)
           addrs == [n \in DOMAIN f.addrs |-> TranslateAddr(f.addrs[n])]
<1>1. {"kind", "id", "addrs"} \subseteq DOMAIN f /\ f.addrs \in Seq(Nat)
  BY DEF FrameMade
<1>2. g = [f EXCEPT !.addrs = addrs]
  BY DEF AddrsOf
<1>3. DOMAIN addrs = DOMAIN f.addrs /\ \A n \in DOMAIN f.addrs : addrs[n] = TranslateAddr(f.addrs[n])
  OBVIOUS
<1> HIDE DEF addrs
<1>4. /\ g.kind = f.kind /\ g.id = f.id /\ DOMAIN g = DOMAIN f /\ g.addrs = addrs
      /\ \A x \in DOMAIN f : x # "addrs" => g[x] = f[x]
  BY <1>1, <1>2
<1> HIDE DEF g
<1>5. ASSUME NEW n \in DOMAIN f.addrs PROVE AddrRight(f.addrs[n], N)
  <2> DEFINE a == f.addrs[n]
  <2>1. a \in Nat /\ a \in ToSet(f.addrs)
    BY <1>1 DEF ToSet
  <2> HIDE DEF a
  <2>2. AddrRight(a, N)
    BY <2>1, AddressRight
  <2> QED
    BY <2>2 DEF a
<1>6. AddrsMatch(f, g, N, Entries(dest))
  BY <1>3, <1>4, <1>5 DEF AddrsMatch, AddrRight
<1>7. \A n \in DOMAIN g.addrs : Clear(g.addrs[n], dest.seq)
  BY <1>3, <1>4, <1>5 DEF AddrRight
<1> QED
  BY <1>4, <1>6, <1>7 DEF AddrsPlaced, g

-----------------------------------------------------------------------------
(* Counters that are defined.                                               *)
Distinct(f, defined) ==
  /\ \A j, k \in DOMAIN f.ids : f.ids[j] = f.ids[k] => j = k
  /\ \A k \in DOMAIN f.ids : f.ids[k] \notin defined
CountersPlaced(add, f, defined, b) ==
  /\ add.frame.kind = f.kind /\ add.frame.id = f.id
  /\ IdsMatch(f, add.frame, defined \cup ToSet(f.ids), add.table.ctr)
  /\ \A n \in DOMAIN add.frame.ids :
       add.frame.ids[n] \in Nat /\ add.frame.ids[n] > b /\ add.frame.ids[n] <= add.dest.ctr
  /\ CtrRight(add.table.ctr, defined \cup ToSet(f.ids), b, add.dest.ctr)
  /\ \A x \in defined : Translate(add.table.ctr, x) = Translate(cat.table.ctr, x)
  /\ add.table = [cat.table EXCEPT !.ctr = add.table.ctr]
  /\ add.dest = [dest EXCEPT !.ctr = add.dest.ctr]
  /\ add.dest.ctr \in Nat /\ add.dest.ctr >= dest.ctr

LEMMA CountersRight ==
  ASSUME NEW f, FrameMade(f), f.kind = "ctrdef", NEW D, NEW b \in Nat, b <= dest.ctr,
         "ctr" \in DOMAIN cat.table, "ctr" \in DOMAIN dest, dest.ctr \in Nat,
         CtrRight(cat.table.ctr, D, b, dest.ctr), Distinct(f, D)
  PROVE  CountersPlaced(AddCounters(f), f, D, b)
<1> DEFINE c == dest.ctr
           T == cat.table.ctr
           m == Len(f.ids)
           ids == [n \in DOMAIN f.ids |-> c + n]
           changed == {<<f.ids[n], ids[n]>> : n \in {k \in DOMAIN f.ids : f.ids[k] # ids[k]}}
           U == T \cup changed
           add == AddCounters(f)
           E == D \cup ToSet(f.ids)
<1>1. /\ {"kind", "id", "ids"} \subseteq DOMAIN f /\ f.ids \in Seq(Nat)
      /\ m \in Nat /\ DOMAIN f.ids = 1 .. m /\ c \in Nat
  BY DEF FrameMade, Counters
<1>2. /\ add.frame = [f EXCEPT !.ids = ids] /\ add.dest = [dest EXCEPT !.ctr = c + m]
      /\ add.table = [cat.table EXCEPT !.ctr = U]
  BY DEF AddCounters
<1>3. DOMAIN ids = 1 .. m /\ \A n \in 1 .. m : ids[n] = c + n
  BY <1>1
<1> HIDE DEF ids
<1>5. \A n \in 1 .. m : f.ids[n] # ids[n] => \E i \in changed : i[1] = f.ids[n]
  <2>1. ASSUME NEW n \in 1 .. m, f.ids[n] # ids[n] PROVE \E i \in changed : i[1] = f.ids[n]
    <3>1. <<f.ids[n], ids[n]>> \in changed
      BY <1>1, <2>1
    <3> QED
      BY <3>1
  <2> QED
    BY <2>1
<1>6. ASSUME NEW i \in changed
      PROVE  \E n \in 1 .. m : i[1] = f.ids[n] /\ i[2] = ids[n] /\ f.ids[n] # ids[n]
  <2>1. PICK n \in {k \in DOMAIN f.ids : f.ids[k] # ids[k]} : i = <<f.ids[n], ids[n]>>
    BY <1>6
  <2> QED
    BY <1>1, <2>1
<1> HIDE DEF changed, add
<1>7. /\ add.frame.kind = f.kind /\ add.frame.id = f.id /\ add.frame.ids = ids
      /\ add.dest.ctr = c + m /\ add.table.ctr = U
  BY <1>1, <1>2
<1>8. /\ \A x : x \in ToSet(f.ids) <=> \E n \in 1 .. m : x = f.ids[n]
      /\ \A j, k \in 1 .. m : f.ids[j] = f.ids[k] => j = k
      /\ \A k \in 1 .. m : f.ids[k] \notin D
  BY <1>1 DEF ToSet, Distinct
<1>9. /\ \A i \in T : i[1] \in D
      /\ \A x \in D : Translate(T, x) \in Nat /\ Translate(T, x) > b /\ Translate(T, x) <= c
      /\ \A x, y \in D : Translate(T, x) = Translate(T, y) => x = y
  BY DEF CtrRight
<1> HIDE DEF c, T, m
<1>10. ASSUME NEW x \in D PROVE Translate(U, x) = Translate(T, x)
  <2>1. \A i \in changed : i[1] # x
    BY <1>6, <1>8
  <2> QED
    BY <2>1, TranslateSame
<1>11. ASSUME NEW n \in 1 .. m PROVE Translate(U, f.ids[n]) = ids[n]
  <2> DEFINE x == f.ids[n]
  <2>1. \A i \in T : i[1] # x
    BY <1>8, <1>9
  <2>2. \A i \in changed : i[1] = x => i[2] = ids[n] /\ x # ids[n]
    BY <1>6, <1>8
  <2>3. CASE x = ids[n]
    <3>1. \A i \in U : i[1] # x
      BY <2>1, <2>2, <2>3
    <3> HIDE DEF x, U
    <3>2. Translate(U, x) = x
      BY <3>1, TranslateIs
    <3> QED
      BY <2>3, <3>2 DEF x
  <2>4. CASE x # ids[n]
    <3>1. \E i \in U : i[1] = x
      BY <1>5, <2>4
    <3>2. \A i \in U : i[1] = x => i[2] = ids[n]
      BY <2>1, <2>2
    <3> HIDE DEF x, U
    <3>3. \E i \in U : i[1] = x /\ Translate(U, x) = i[2]
      BY <3>1, TranslateIs
    <3> QED
      BY <3>2, <3>3 DEF x
  <2> QED
    BY <2>3, <2>4
<1>12. CtrRight(U, E, b, c + m)
  <2>1. \A i \in U : i[1] \in E
    BY <1>6, <1>8, <1>9
  <2>2. m \in Nat /\ c \in Nat /\ b \in Nat /\ b <= c
    BY <1>1 DEF m, c
  <2>3. \A x \in E : x \in D \/ \E n \in 1 .. m : x = f.ids[n]
    BY <1>8
  <2>4. \A n \in 1 .. m : ids[n] \in Nat /\ ids[n] > c /\ ids[n] <= c + m
    BY <1>3, <2>2
  <2>5. ASSUME NEW x \in E
        PROVE  Translate(U, x) \in Nat /\ Translate(U, x) > b /\ Translate(U, x) <= c + m
    <3>1. CASE x \in D
      BY <1>9, <1>10, <2>2, <3>1
    <3>2. CASE \E n \in 1 .. m : x = f.ids[n]
      <4>1. PICK n \in 1 .. m : x = f.ids[n]
        BY <3>2
      <4>2. Translate(U, x) = ids[n]
        BY <1>11, <4>1
      <4>3. ids[n] \in Nat /\ ids[n] > c /\ ids[n] <= c + m
        BY <2>4, <4>1
      <4> QED
        BY <2>2, <4>2, <4>3
    <3> QED
      BY <2>3, <3>1, <3>2
  <2>6. ASSUME NEW x \in E, NEW y \in E, Translate(U, x) = Translate(U, y) PROVE x = y
    <3>1. CASE x \in D /\ y \in D
      BY <1>9, <1>10, <2>6, <3>1
    <3>2. CASE x \in D /\ y \notin D
      <4>1. PICK n \in 1 .. m : y = f.ids[n]
        BY <2>3, <3>2
      <4>2. Translate(U, y) > c /\ Translate(U, y) \in Nat
        BY <1>11, <2>4, <4>1
      <4>3. Translate(U, x) <= c /\ Translate(U, x) \in Nat
        BY <1>9, <1>10, <3>2
      <4> QED
        BY <2>2, <2>6, <4>2, <4>3
    <3>3. CASE x \notin D /\ y \in D
      <4>1. PICK n \in 1 .. m : x = f.ids[n]
        BY <2>3, <3>3
      <4>2. Translate(U, x) > c /\ Translate(U, x) \in Nat
        BY <1>11, <2>4, <4>1
      <4>3. Translate(U, y) <= c /\ Translate(U, y) \in Nat
        BY <1>9, <1>10, <3>3
      <4> QED
        BY <2>2, <2>6, <4>2, <4>3
    <3>4. CASE x \notin D /\ y \notin D
      <4>1. PICK n \in 1 .. m : x = f.ids[n]
        BY <2>3, <3>4
      <4>2. PICK k \in 1 .. m : y = f.ids[k]
        BY <2>3, <3>4
      <4>3. c + n = c + k
        BY <1>3, <1>11, <2>6, <4>1, <4>2
      <4> QED
        BY <2>2, <4>1, <4>2, <4>3
    <3> QED
      BY <3>1, <3>2, <3>3, <3>4
  <2> HIDE DEF U, E
  <2> QED
    BY <2>1, <2>5, <2>6 DEF CtrRight
<1>13. IdsMatch(f, add.frame, E, U)
  <2>1. DOMAIN f.ids = 1 .. m
    BY <1>1 DEF m
  <2> HIDE DEF U
  <2> QED
    BY <1>3, <1>7, <1>8, <1>11, <2>1 DEF IdsMatch
<1>14. \A n \in 1 .. m : ids[n] \in Nat /\ ids[n] > b /\ ids[n] <= c + m
  <2>1. m \in Nat /\ c \in Nat /\ b <= c
    BY <1>1 DEF m, c
  <2> QED
    BY <1>3, <2>1
<1>15. c + m \in Nat /\ c + m >= dest.ctr
  BY <1>1 DEF c, m
<1> HIDE DEF U, E
<1> QED
  BY <1>2, <1>3, <1>7, <1>10, <1>12, <1>13, <1>14, <1>15 DEF CountersPlaced, T, E, add

-----------------------------------------------------------------------------
(* An event that is met.                                                    *)
Recorded ==
  /\ cat.table = [addr |-> cat.table.addr, ctr |-> cat.table.ctr, event |-> cat.table.event]
  /\ dest = [names |-> dest.names, written |-> dest.written, seq |-> dest.seq,
             ctr |-> dest.ctr, event |-> dest.event]
EventPlaced(add, f, e) ==
  /\ add.frame = [f EXCEPT !.event = add.frame.event]
  /\ EventMatch(f, add.frame, add.table.event)
  /\ add.frame.event \in Nat /\ (add.frame.event = 0 \/ add.frame.event > e)
  /\ add.frame.event <= add.dest.event
  /\ EventRight(add.table.event, e, add.dest.event)
  /\ cat.table.event \subseteq add.table.event
  /\ add.table = [cat.table EXCEPT !.event = add.table.event]
  /\ add.dest = [dest EXCEPT !.event = add.dest.event]
  /\ add.dest.event \in Nat /\ add.dest.event >= dest.event
LEMMA EventIsRight ==
  ASSUME NEW f, "event" \in DOMAIN f, f.event \in Nat, NEW e \in Nat, e <= dest.event,
         Recorded, dest.event \in Nat,
         EventRight(cat.table.event, e, dest.event)
  PROVE  EventPlaced(AddEvent(f, f.event), f, e)
<1> DEFINE x == f.event
           T == cat.table.event
           last == dest.event
           add == AddEvent(f, x)
<1>1. /\ \A i \in T : i[1] \in Nat \ {0} /\ i[2] \in Nat /\ i[2] > e /\ i[2] <= last
      /\ \A i, j \in T : i[1] = j[1] <=> i[2] = j[2]
  BY DEF EventRight
<1>2. CASE x = 0 \/ \E i \in T : i[1] = x
  <2> DEFINE y == Translate(T, x)
  <2>1. add.frame = [f EXCEPT !.event = y] /\ add.dest = dest /\ add.table = cat.table
    BY <1>2 DEF AddEvent
  <2>2. (x = 0 /\ y = 0) \/ \E i \in T : i[1] = x /\ i[2] = y
    <3>1. CASE \E i \in T : i[1] = x
      BY <3>1, TranslateIs
    <3>2. CASE ~\E i \in T : i[1] = x
      BY <1>2, <3>2, TranslateIs
    <3> QED
      BY <3>1, <3>2
  <2> HIDE DEF y, add
  <2>3. add.frame.event = y
    BY <2>1
  <2>4. y \in Nat /\ (y = 0 \/ y > e) /\ y <= last
    BY <1>1, <2>2
  <2>5. cat.table = [cat.table EXCEPT !.event = cat.table.event]
        /\ dest = [dest EXCEPT !.event = dest.event]
    BY DEF Recorded
  <2> QED
    BY <1>1, <2>1, <2>2, <2>3, <2>4, <2>5 DEF EventPlaced, EventMatch, EventRight, add
<1>3. CASE ~(x = 0 \/ \E i \in T : i[1] = x)
  <2> DEFINE y == last + 1
             i == <<x, y>>
             U == T \cup {i}
  <2>0. "event" \in DOMAIN cat.table /\ "event" \in DOMAIN dest
    BY DEF Recorded
  <2>1. /\ add.frame = [f EXCEPT !.event = y] /\ add.dest = [dest EXCEPT !.event = y]
        /\ add.table = [cat.table EXCEPT !.event = U]
    BY <1>3 DEF AddEvent
  <2>2. i[1] = x /\ i[2] = y
    OBVIOUS
  <2>3. y \in Nat /\ y > e /\ y > last /\ last \in Nat
    OBVIOUS
  <2> HIDE DEF y, i, add
  <2>4. /\ add.frame.event = y /\ add.dest.event = y /\ add.table.event = U
        /\ add.frame = [f EXCEPT !.event = add.frame.event]
        /\ add.table = [cat.table EXCEPT !.event = add.table.event]
        /\ add.dest = [dest EXCEPT !.event = add.dest.event]
    BY <2>0, <2>1
  <2>5. \A j \in T : j[1] # x /\ j[2] # y
    BY <1>1, <1>3, <2>3
  <2>6. /\ \A j \in U : j[1] \in Nat \ {0} /\ j[2] \in Nat /\ j[2] > e /\ j[2] <= y
        /\ \A j, k \in U : j[1] = k[1] <=> j[2] = k[2]
    <3>1. \A j \in T : j[2] <= y
      BY <1>1, <2>3
    <3> QED
      BY <1>1, <1>3, <2>2, <2>3, <2>5, <3>1
  <2> HIDE DEF U
  <2>7. EventRight(U, e, y)
    BY <2>6 DEF EventRight
  <2>8. i \in U /\ T \subseteq U
    BY DEF U
  <2> QED
    BY <2>2, <2>3, <2>4, <2>7, <2>8 DEF EventPlaced, EventMatch, add
<1> QED
  BY <1>2, <1>3

-----------------------------------------------------------------------------
(* A frame of the capture, and the frame that is added for it.              *)
Sourced(f, defined, N) ==
  /\ FrameMade(f)
  /\ f.kind = "ctrdef" => Distinct(f, defined)
  /\ f.kind = "ctrset" => ToSet(f.ids) \subseteq defined
  /\ f.kind \in Addressed =>
       \A a \in ToSet(f.addrs) : a \notin Mark .. Mark + MaxSeq \/ \E d \in N : d[2] = a
Defining(f, defined) == defined \cup (IF f.kind = "ctrdef" THEN ToSet(f.ids) ELSE {})
TablesRight(table, w, defined, b, e) ==
  /\ CtrRight(table.ctr, defined, b, w.ctr) /\ EventRight(table.event, e, w.event)
  /\ b \in Nat /\ e \in Nat /\ w.ctr \in Nat /\ w.event \in Nat /\ b <= w.ctr /\ e <= w.event
NamesRight(N) ==
  /\ \A d, e \in N : d[2] = e[2] => d[1] = e[1]
  /\ WriterMade(dest) /\ Naming(cat.table.addr, N, Entries(dest))

Placed(add, f, defined, b, e, N) ==
  /\ Matches(f, add.frame, Defining(f, defined), add.table.ctr, add.table.event, N, Entries(dest))
  /\ Within(add.frame, dest.seq, add.dest.ctr, add.dest.event) /\ Newer(add.frame, b, e)
  /\ TablesRight(add.table, add.dest, Defining(f, defined), b, e)
  /\ \A x \in defined : Translate(add.table.ctr, x) = Translate(cat.table.ctr, x)
  /\ cat.table.event \subseteq add.table.event
  /\ add.table = [addr |-> cat.table.addr, ctr |-> add.table.ctr, event |-> add.table.event]
  /\ add.dest = [names |-> dest.names, written |-> dest.written, seq |-> dest.seq,
                 ctr |-> add.dest.ctr, event |-> add.dest.event]
  /\ add.dest.ctr >= dest.ctr /\ add.dest.event >= dest.event

LEMMA SamePlaced ==
  ASSUME NEW f, NEW g, NEW add, NEW D, NEW b, NEW e, NEW N, f.kind # "ctrdef",
         add.frame = g, add.dest = dest, add.table = cat.table, Recorded,
         TablesRight(cat.table, dest, D, b, e),
         Matches(f, g, D, cat.table.ctr, cat.table.event, N, Entries(dest)),
         Within(g, dest.seq, dest.ctr, dest.event)
  PROVE  Placed(add, f, D, b, e, N)
<1>1. Defining(f, D) = D
  BY DEF Defining
<1>2. Newer(g, b, e)
  <2>1. g.kind = f.kind
    BY DEF Matches
  <2>2. ASSUME g.kind = "metadata" PROVE g.event \in Nat /\ (g.event = 0 \/ g.event > e)
    <3>1. EventMatch(f, g, cat.table.event)
      BY <2>1, <2>2 DEF Matches, Evented
    <3> QED
      BY <3>1 DEF EventMatch, TablesRight, EventRight
  <2> QED
    BY <2>1, <2>2 DEF Newer
<1>3. add.dest.ctr >= dest.ctr /\ add.dest.event >= dest.event
  BY DEF TablesRight
<1> QED
  BY <1>1, <1>2, <1>3 DEF Placed, Recorded

LEMMA EventAdds ==
  ASSUME NEW f, NEW h, NEW D, NEW b, NEW e, NEW N, f.kind \in Evented, Recorded,
         {"kind", "id", "event"} \subseteq DOMAIN h, h.event \in Nat,
         h.kind = f.kind /\ h.id = f.id /\ h.event = f.event,
         TablesRight(cat.table, dest, D, b, e),
         f.kind \in Addressed =>
           /\ "addrs" \in DOMAIN h /\ AddrsMatch(f, h, N, Entries(dest))
           /\ \A n \in DOMAIN h.addrs : Clear(h.addrs[n], dest.seq)
  PROVE  Placed(AddEvent(h, h.event), f, D, b, e, N)
<1> DEFINE add == AddEvent(h, h.event)
           g == add.frame
<1>1. /\ e \in Nat /\ e <= dest.event /\ dest.event \in Nat /\ EventRight(cat.table.event, e, dest.event)
      /\ b \in Nat /\ b <= dest.ctr /\ dest.ctr \in Nat /\ CtrRight(cat.table.ctr, D, b, dest.ctr)
  BY DEF TablesRight
<1>2. EventPlaced(add, h, e)
  BY <1>1, EventIsRight
<1> HIDE DEF add
<1>3. /\ g = [h EXCEPT !.event = g.event] /\ EventMatch(h, g, add.table.event)
      /\ g.event \in Nat /\ (g.event = 0 \/ g.event > e)
      /\ g.event <= add.dest.event /\ EventRight(add.table.event, e, add.dest.event)
      /\ cat.table.event \subseteq add.table.event
      /\ add.table = [cat.table EXCEPT !.event = add.table.event]
      /\ add.dest = [dest EXCEPT !.event = add.dest.event]
      /\ add.dest.event \in Nat /\ add.dest.event >= dest.event
  BY <1>2 DEF EventPlaced
<1>4. /\ g.kind = f.kind /\ g.id = f.id
      /\ f.kind \in Addressed => g.addrs = h.addrs
  <2> HIDE DEF g
  <2> QED
    BY <1>3
<1>5. /\ add.table = [addr |-> cat.table.addr, ctr |-> cat.table.ctr, event |-> add.table.event]
      /\ add.dest = [names |-> dest.names, written |-> dest.written, seq |-> dest.seq,
                     ctr |-> dest.ctr, event |-> add.dest.event]
      /\ add.table.ctr = cat.table.ctr /\ add.dest.ctr = dest.ctr
  BY <1>3 DEF Recorded
<1> HIDE DEF g
<1>6. Defining(f, D) = D /\ f.kind \notin Counters /\ f.kind # "ctrdef"
  BY DEF Defining, Evented, Counters
<1>7. EventMatch(f, g, add.table.event)
  BY <1>3 DEF EventMatch
<1>8. Matches(f, g, D, add.table.ctr, add.table.event, N, Entries(dest))
  BY <1>4, <1>6, <1>7 DEF Matches, AddrsMatch
<1>9. Within(g, dest.seq, add.dest.ctr, add.dest.event)
  BY <1>3, <1>4, <1>6 DEF Within
<1>10. Newer(g, b, e)
  BY <1>3, <1>4, <1>6 DEF Newer
<1>11. TablesRight(add.table, add.dest, D, b, e)
  <2>1. e <= add.dest.event
    BY <1>1, <1>3
  <2> QED
    BY <1>1, <1>3, <1>5, <2>1 DEF TablesRight
<1>12. add.dest.ctr >= dest.ctr
  BY <1>1, <1>5
<1> QED
  BY <1>3, <1>5, <1>6, <1>8, <1>9, <1>10, <1>11, <1>12 DEF Placed, g, add

LEMMA CountersAdd ==
  ASSUME NEW f, NEW D, NEW b, NEW e, NEW N, f.kind = "ctrdef", Recorded, FrameMade(f),
         TablesRight(cat.table, dest, D, b, e), Distinct(f, D)
  PROVE  Placed(AddCounters(f), f, D, b, e, N)
<1> DEFINE add == AddCounters(f)
           g == add.frame
           E == D \cup ToSet(f.ids)
<1>1. /\ e \in Nat /\ e <= dest.event /\ dest.event \in Nat /\ EventRight(cat.table.event, e, dest.event)
      /\ b \in Nat /\ b <= dest.ctr /\ dest.ctr \in Nat /\ CtrRight(cat.table.ctr, D, b, dest.ctr)
  BY DEF TablesRight
<1>2. CountersPlaced(add, f, D, b)
  <2>1. "ctr" \in DOMAIN cat.table /\ "ctr" \in DOMAIN dest
    BY DEF Recorded
  <2> QED
    BY <1>1, <2>1, CountersRight
<1> HIDE DEF add
<1>3. /\ g.kind = f.kind /\ g.id = f.id /\ IdsMatch(f, g, E, add.table.ctr)
      /\ \A n \in DOMAIN g.ids : g.ids[n] \in Nat /\ g.ids[n] > b /\ g.ids[n] <= add.dest.ctr
      /\ CtrRight(add.table.ctr, E, b, add.dest.ctr)
      /\ \A x \in D : Translate(add.table.ctr, x) = Translate(cat.table.ctr, x)
      /\ add.table = [cat.table EXCEPT !.ctr = add.table.ctr]
      /\ add.dest = [dest EXCEPT !.ctr = add.dest.ctr]
      /\ add.dest.ctr \in Nat /\ add.dest.ctr >= dest.ctr
  BY <1>2 DEF CountersPlaced
<1>4. /\ add.table = [addr |-> cat.table.addr, ctr |-> add.table.ctr, event |-> cat.table.event]
      /\ add.dest = [names |-> dest.names, written |-> dest.written, seq |-> dest.seq,
                     ctr |-> add.dest.ctr, event |-> dest.event]
      /\ add.table.event = cat.table.event /\ add.dest.event = dest.event
  BY <1>3 DEF Recorded
<1> HIDE DEF g
<1>5. Defining(f, D) = E /\ f.kind \notin Addressed /\ f.kind \notin Evented
  BY DEF Defining, Addressed, Evented
<1> HIDE DEF E
<1>6. Matches(f, g, E, add.table.ctr, add.table.event, N, Entries(dest))
  BY <1>3, <1>5 DEF Matches
<1>7. Within(g, dest.seq, add.dest.ctr, add.dest.event)
  BY <1>3, <1>5 DEF Within
<1>8. Newer(g, b, e)
  BY <1>3 DEF Newer
<1>9. TablesRight(add.table, add.dest, E, b, e)
  <2>1. b <= add.dest.ctr
    BY <1>1, <1>3
  <2> QED
    BY <1>1, <1>3, <1>4, <2>1 DEF TablesRight
<1>10. add.dest.event >= dest.event
  BY <1>1, <1>4
<1> QED
  BY <1>3, <1>4, <1>5, <1>6, <1>7, <1>8, <1>9, <1>10 DEF Placed, g, add

LEMMA SetAdds ==
  ASSUME NEW f, NEW D, NEW b, NEW e, NEW N, f.kind = "ctrset", Recorded, FrameMade(f),
         TablesRight(cat.table, dest, D, b, e), ToSet(f.ids) \subseteq D
  PROVE  Placed(Added(f), f, D, b, e, N)
<1> DEFINE add == Added(f)
           ids == [n \in DOMAIN f.ids |-> Translate(cat.table.ctr, f.ids[n])]
           g == [f EXCEPT !.ids = ids]
<1>1. {"kind", "id", "ids"} \subseteq DOMAIN f /\ f.ids \in Seq(Nat)
  BY DEF FrameMade, Counters
<1>2. add = [frame |-> g, dest |-> dest, table |-> cat.table]
  BY DEF Added
<1>3. DOMAIN ids = DOMAIN f.ids /\ \A n \in DOMAIN f.ids : ids[n] = Translate(cat.table.ctr, f.ids[n])
  OBVIOUS
<1> HIDE DEF ids
<1>4. g.kind = f.kind /\ g.id = f.id /\ g.ids = ids
  BY <1>1
<1> HIDE DEF add, g
<1>5. \A n \in DOMAIN f.ids : f.ids[n] \in D
  BY <1>1 DEF ToSet
<1>6. IdsMatch(f, g, D, cat.table.ctr)
  BY <1>3, <1>4, <1>5 DEF IdsMatch
<1>7. f.kind \notin Addressed /\ f.kind \notin Evented /\ f.kind # "ctrdef"
  BY DEF Addressed, Evented
<1>8. Matches(f, g, D, cat.table.ctr, cat.table.event, N, Entries(dest))
  BY <1>4, <1>6, <1>7 DEF Matches
<1>9. Within(g, dest.seq, dest.ctr, dest.event)
  <2>1. \A n \in DOMAIN g.ids : g.ids[n] \in 0 .. dest.ctr
    <3>1. \A x \in D : Translate(cat.table.ctr, x) \in 0 .. dest.ctr
      BY DEF TablesRight, CtrRight
    <3> QED
      BY <1>3, <1>4, <1>5, <3>1
  <2> QED
    BY <1>4, <1>7, <2>1 DEF Within
<1>10. add.frame = g /\ add.dest = dest /\ add.table = cat.table
  BY <1>2
<1>11. Placed(add, f, D, b, e, N)
  BY <1>7, <1>8, <1>9, <1>10, SamePlaced
<1> QED
  BY <1>11 DEF add

LEMMA AddedRight ==
  ASSUME NEW f, NEW D, NEW b, NEW e, NEW N, Recorded, Sourced(f, D, N), NamesRight(N),
         TablesRight(cat.table, dest, D, b, e)
  PROVE  Placed(Added(f), f, D, b, e, N)
<1> DEFINE add == Added(f)
           h == AddrsOf(f)
<1>1. FrameMade(f)
  BY DEF Sourced
<1>2. ASSUME f.kind \in Addressed PROVE AddrsPlaced(f, h, N)
  <2>1. \A a \in ToSet(f.addrs) : a \notin Mark .. Mark + MaxSeq \/ \E d \in N : d[2] = a
    BY <1>2 DEF Sourced
  <2>2. /\ \A d, k \in N : d[2] = k[2] => d[1] = k[1]
        /\ WriterMade(dest) /\ Naming(cat.table.addr, N, Entries(dest))
    BY DEF NamesRight
  <2> QED
    BY <1>1, <1>2, <2>1, <2>2, AddrsRight
<1>3. CASE f.kind = "sample"
  <2>1. add = [frame |-> h, dest |-> dest, table |-> cat.table]
    BY <1>3 DEF Added, AddrsOf
  <2>2. /\ h.kind = f.kind /\ h.id = f.id /\ AddrsMatch(f, h, N, Entries(dest))
        /\ \A n \in DOMAIN h.addrs : Clear(h.addrs[n], dest.seq)
    BY <1>2, <1>3 DEF AddrsPlaced, Addressed
  <2> HIDE DEF h, add
  <2>3. f.kind \notin Counters /\ f.kind \notin Evented /\ f.kind # "ctrdef"
    BY <1>3 DEF Counters, Evented
  <2>4. Matches(f, h, D, cat.table.ctr, cat.table.event, N, Entries(dest))
    BY <2>2, <2>3 DEF Matches
  <2>5. Within(h, dest.seq, dest.ctr, dest.event)
    BY <2>2, <2>3 DEF Within
  <2>6. add.frame = h /\ add.dest = dest /\ add.table = cat.table
    BY <2>1
  <2>7. Placed(add, f, D, b, e, N)
    BY <2>3, <2>4, <2>5, <2>6, SamePlaced
  <2> QED
    BY <2>7 DEF add
<1>4. CASE f.kind = "memory_sample"
  <2>1. add = AddEvent(h, f.event)
    BY <1>4 DEF Added, AddrsOf
  <2>2. {"kind", "id", "event"} \subseteq DOMAIN f /\ f.event \in Nat /\ "addrs" \in DOMAIN f
    BY <1>1, <1>4 DEF FrameMade, Evented, Addressed
  <2>3. AddrsPlaced(f, h, N)
    BY <1>2, <1>4 DEF Addressed
  <2> HIDE DEF h, add
  <2>4. /\ h.kind = f.kind /\ h.id = f.id /\ DOMAIN h = DOMAIN f /\ h.event = f.event
        /\ AddrsMatch(f, h, N, Entries(dest))
        /\ \A n \in DOMAIN h.addrs : Clear(h.addrs[n], dest.seq)
    BY <2>2, <2>3 DEF AddrsPlaced
  <2>5. Placed(AddEvent(h, h.event), f, D, b, e, N)
    BY <1>4, <2>2, <2>4, EventAdds DEF Evented
  <2> QED
    BY <2>1, <2>4, <2>5 DEF add
<1>5. CASE f.kind = "metadata"
  <2>1. add = AddEvent(f, f.event)
    BY <1>5 DEF Added
  <2>2. {"kind", "id", "event"} \subseteq DOMAIN f /\ f.event \in Nat
    BY <1>1, <1>5 DEF FrameMade, Evented
  <2>3. f.kind \in Evented /\ f.kind \notin Addressed
    BY <1>5 DEF Evented, Addressed
  <2> HIDE DEF add
  <2>4. Placed(AddEvent(f, f.event), f, D, b, e, N)
    BY <2>2, <2>3, EventAdds
  <2> QED
    BY <2>1, <2>4 DEF add
<1>6. CASE f.kind = "ctrdef"
  <2>1. add = AddCounters(f)
    BY <1>6 DEF Added
  <2>2. Distinct(f, D)
    BY <1>6 DEF Sourced
  <2> HIDE DEF add
  <2>3. Placed(AddCounters(f), f, D, b, e, N)
    BY <1>1, <1>6, <2>2, CountersAdd
  <2> QED
    BY <2>1, <2>3 DEF add
<1>7. CASE f.kind = "ctrset"
  <2>1. ToSet(f.ids) \subseteq D
    BY <1>7 DEF Sourced
  <2> QED
    BY <1>1, <1>7, <2>1, SetAdds
<1>8. CASE f.kind \notin {"sample", "memory_sample", "metadata", "ctrdef", "ctrset"}
  <2>1. add = [frame |-> f, dest |-> dest, table |-> cat.table]
    BY <1>8 DEF Added
  <2>2. f.kind \notin Counters /\ f.kind \notin Evented /\ f.kind \notin Addressed /\ f.kind # "ctrdef"
    BY <1>8 DEF Counters, Evented, Addressed
  <2> HIDE DEF add
  <2>3. /\ Matches(f, f, D, cat.table.ctr, cat.table.event, N, Entries(dest))
        /\ Within(f, dest.seq, dest.ctr, dest.event)
    BY <2>2 DEF Matches, Within
  <2>4. add.frame = f /\ add.dest = dest /\ add.table = cat.table
    BY <2>1
  <2>5. Placed(add, f, D, b, e, N)
    BY <2>2, <2>3, <2>4, SamePlaced
  <2> QED
    BY <2>5 DEF add
<1> QED
  BY <1>3, <1>4, <1>5, <1>6, <1>7, <1>8

-----------------------------------------------------------------------------
(* Behind the frames that were there, those of a capture are added.         *)
Adding(F, base, s, table, w, b, e, N, M) ==
  LET O == Only(s, Copied)
  IN  /\ s \in Seq(Frames) /\ base \in Nat /\ Len(F) = base + Len(O) /\ DOMAIN F = 1 .. Len(F)
      /\ \A k \in 1 .. base : Within(F[k], w.seq, b, e)
      /\ \A j \in 1 .. Len(O) :
           Matches(O[j], F[base + j], DefinedIn(s), table.ctr, table.event, N, M)
      /\ TablesRight(table, w, DefinedIn(s), b, e)

(* The frames of the capture that are picked.                               *)
Parallel(F, base, s, O) ==
  /\ Len(O) \in Nat /\ base \in Nat
  /\ \A k \in DOMAIN F : k \in 1 .. base \/ \E j \in 1 .. Len(O) : k = base + j
  /\ \A j \in 1 .. Len(O) : base + j \in DOMAIN F /\ F[base + j] \in ToSet(F) /\ O[j] \in ToSet(s)
  /\ \A g \in ToSet(F) : \E k \in DOMAIN F : F[k] = g
  /\ \A f \in ToSet(s) : f.kind \in {"ctrdef", "metadata"} => \E j \in 1 .. Len(O) : O[j] = f
LEMMA AddingIs ==
  ASSUME NEW F, NEW base, NEW s, NEW table, NEW w, NEW b, NEW e, NEW N, NEW M,
         Adding(F, base, s, table, w, b, e, N, M)
  PROVE  Parallel(F, base, s, Only(s, Copied))
<1> DEFINE O == Only(s, Copied)
<1>1. s \in Seq(Frames) /\ base \in Nat /\ Len(F) = base + Len(O) /\ DOMAIN F = 1 .. Len(F)
  BY DEF Adding
<1>2. O \in Seq(Frames) /\ AllPicked(s, Copied) /\ PicksAll(s, Copied)
  BY <1>1, OnlyType, OnlyPicks, OnlyHas
<1>3. /\ \A i \in 1 .. Len(O) : \E k \in 1 .. Len(s) : O[i] = s[k]
      /\ \A k \in 1 .. Len(s) : s[k] \in Copied => \E j \in 1 .. Len(O) : O[j] = s[k]
  BY <1>2 DEF AllPicked, PicksAll
<1> HIDE DEF O
<1>4. Len(O) \in Nat /\ DOMAIN s = 1 .. Len(s) /\ ToSet(s) \subseteq Frames
  BY <1>1, <1>2, SetOf
<1>5. \A j \in 1 .. Len(O) : base + j \in DOMAIN F /\ F[base + j] \in ToSet(F) /\ O[j] \in ToSet(s)
  <2>1. ASSUME NEW j \in 1 .. Len(O) PROVE base + j \in DOMAIN F /\ O[j] \in ToSet(s)
    <3>1. base + j \in 1 .. base + Len(O)
      BY <1>1, <1>4
    <3>2. PICK k \in 1 .. Len(s) : O[j] = s[k]
      BY <1>3
    <3> QED
      BY <1>1, <1>4, <3>1, <3>2 DEF ToSet
  <2> QED
    BY <2>1 DEF ToSet
<1>6. \A k \in DOMAIN F : k \in 1 .. base \/ \E j \in 1 .. Len(O) : k = base + j
  <2>1. ASSUME NEW k \in 1 .. base + Len(O), k > base PROVE \E j \in 1 .. Len(O) : k = base + j
    <3>1. k - base \in 1 .. Len(O) /\ k = base + (k - base)
      BY <1>1, <1>4, <2>1
    <3> QED
      BY <3>1
  <2> QED
    BY <1>1, <1>4, <2>1
<1>7. ASSUME NEW f \in ToSet(s), f.kind \in {"ctrdef", "metadata"}
      PROVE  \E j \in 1 .. Len(O) : O[j] = f
  <2>1. f \in Copied
    BY <1>4, <1>7 DEF Copied, IsIndexFrame
  <2>2. PICK k \in 1 .. Len(s) : s[k] = f
    BY <1>4, <1>7 DEF ToSet
  <2> QED
    BY <1>3, <2>1, <2>2
<1>8. \A g \in ToSet(F) : \E k \in DOMAIN F : F[k] = g
  BY DEF ToSet
<1> QED
  BY <1>1, <1>4, <1>5, <1>6, <1>7, <1>8 DEF Parallel, O

InCounter(z, id, F) ==
  \E d \in ToSet(F) : d.kind = "ctrdef" /\ \E n \in DOMAIN d.ids : d.ids[n] = id /\ z = <<d.id, n>>
InEvent(z, x, F) ==
  x # 0 /\ \E d \in ToSet(F) : d.kind = "metadata" /\ d.event = x /\ z = d.id
LEMMA CounterIs ==
  ASSUME NEW z, NEW id, NEW F
  PROVE  z \in CounterOf(id, F) <=> InCounter(z, id, F)
<1> DEFINE of(d) == {<<d.id, n>> : n \in {k \in DOMAIN d.ids : d.ids[k] = id}}
           D == {g \in ToSet(F) : g.kind = "ctrdef"}
<1>1. CounterOf(id, F) = UNION {of(d) : d \in D}
  BY DEF CounterOf
<1>2. ASSUME NEW d PROVE z \in of(d) <=> \E n \in DOMAIN d.ids : d.ids[n] = id /\ z = <<d.id, n>>
  OBVIOUS
<1> HIDE DEF of
<1>3. z \in UNION {of(d) : d \in D} <=> \E d \in D : z \in of(d)
  OBVIOUS
<1> QED
  BY <1>1, <1>2, <1>3 DEF InCounter
LEMMA EventIs ==
  ASSUME NEW z, NEW x, NEW F
  PROVE  z \in EventOf(x, F) <=> InEvent(z, x, F)
BY DEF EventOf, InEvent

(* Counters keep what they stand for, and so do events.                     *)
LEMMA CounterMoves ==
  ASSUME NEW F, NEW base, NEW s, NEW table, NEW w, NEW b, NEW e, NEW N, NEW M,
         Adding(F, base, s, table, w, b, e, N, M), NEW x \in DefinedIn(s)
  PROVE  CounterOf(x, s) = CounterOf(Translate(table.ctr, x), F)
<1> DEFINE O == Only(s, Copied)
           y == Translate(table.ctr, x)
<1>1. Parallel(F, base, s, O)
  BY AddingIs
<1>2. /\ \A k \in 1 .. base : Within(F[k], w.seq, b, e)
      /\ \A j \in 1 .. Len(O) :
           Matches(O[j], F[base + j], DefinedIn(s), table.ctr, table.event, N, M)
      /\ CtrRight(table.ctr, DefinedIn(s), b, w.ctr) /\ b \in Nat
  BY DEF Adding, TablesRight
<1>3. y \in Nat /\ y > b /\ \A v \in DefinedIn(s) : Translate(table.ctr, v) = y => v = x
  BY <1>2 DEF CtrRight
<1> HIDE DEF y, O
<1>4. ASSUME NEW z, InCounter(z, x, s) PROVE InCounter(z, y, F)
  <2>1. PICK d \in ToSet(s) :
          d.kind = "ctrdef" /\ \E n \in DOMAIN d.ids : d.ids[n] = x /\ z = <<d.id, n>>
    BY <1>4 DEF InCounter
  <2>2. PICK n \in DOMAIN d.ids : d.ids[n] = x /\ z = <<d.id, n>>
    BY <2>1
  <2>3. PICK j \in 1 .. Len(O) : O[j] = d
    BY <1>1, <2>1 DEF Parallel
  <2> DEFINE g == F[base + j]
  <2>4. Matches(d, g, DefinedIn(s), table.ctr, table.event, N, M) /\ g \in ToSet(F)
    BY <1>1, <1>2, <2>3 DEF Parallel
  <2> HIDE DEF g
  <2>5. g.kind = "ctrdef" /\ g.id = d.id /\ n \in DOMAIN g.ids /\ g.ids[n] = Translate(table.ctr, d.ids[n])
    BY <2>1, <2>4 DEF Matches, IdsMatch, Counters
  <2>6. g.ids[n] = y /\ z = <<g.id, n>>
    BY <2>2, <2>5 DEF y
  <2> QED
    BY <2>4, <2>5, <2>6 DEF InCounter
<1>5. ASSUME NEW z, InCounter(z, y, F) PROVE InCounter(z, x, s)
  <2>1. PICK g \in ToSet(F) :
          g.kind = "ctrdef" /\ \E n \in DOMAIN g.ids : g.ids[n] = y /\ z = <<g.id, n>>
    BY <1>5 DEF InCounter
  <2>2. PICK n \in DOMAIN g.ids : g.ids[n] = y /\ z = <<g.id, n>>
    BY <2>1
  <2>3. PICK k \in DOMAIN F : F[k] = g
    BY <1>1, <2>1 DEF Parallel
  <2>4. ASSUME k \in 1 .. base PROVE FALSE
    <3>1. Within(g, w.seq, b, e)
      BY <1>2, <2>3, <2>4
    <3>2. y \in 0 .. b
      BY <2>1, <2>2, <3>1 DEF Within, Counters
    <3> QED
      BY <1>2, <1>3, <3>2
  <2>5. PICK j \in 1 .. Len(O) : k = base + j
    BY <1>1, <2>3, <2>4 DEF Parallel
  <2> DEFINE d == O[j]
  <2>6. Matches(d, g, DefinedIn(s), table.ctr, table.event, N, M) /\ d \in ToSet(s)
    BY <1>1, <1>2, <2>3, <2>5 DEF Parallel
  <2> HIDE DEF d
  <2>7. /\ d.kind = "ctrdef" /\ g.id = d.id /\ n \in DOMAIN d.ids
        /\ d.ids[n] \in DefinedIn(s) /\ g.ids[n] = Translate(table.ctr, d.ids[n])
    BY <2>1, <2>2, <2>6 DEF Matches, IdsMatch, Counters
  <2>8. d.ids[n] = x /\ z = <<d.id, n>>
    BY <1>3, <2>2, <2>7
  <2> QED
    BY <2>6, <2>7, <2>8 DEF InCounter
<1>6. \A z : z \in CounterOf(x, s) <=> z \in CounterOf(y, F)
  BY <1>4, <1>5, CounterIs
<1>7. CounterOf(x, s) = UNION {CounterOf(x, s)} /\ CounterOf(y, F) = UNION {CounterOf(y, F)}
  OBVIOUS
<1>8. CounterOf(x, s) = CounterOf(y, F)
  BY <1>6, <1>7
<1> QED
  BY <1>8 DEF y

LEMMA EventMoves ==
  ASSUME NEW F, NEW base, NEW s, NEW table, NEW w, NEW b, NEW e, NEW N, NEW M,
         Adding(F, base, s, table, w, b, e, N, M),
         NEW f, NEW h, EventMatch(f, h, table.event)
  PROVE  EventOf(f.event, s) = EventOf(h.event, F)
<1> DEFINE O == Only(s, Copied)
           x == f.event
           y == h.event
<1>1. Parallel(F, base, s, O)
  BY AddingIs
<1>2. /\ \A k \in 1 .. base : Within(F[k], w.seq, b, e)
      /\ \A j \in 1 .. Len(O) :
           Matches(O[j], F[base + j], DefinedIn(s), table.ctr, table.event, N, M)
      /\ EventRight(table.event, e, w.event) /\ e \in Nat
  BY DEF Adding, TablesRight
<1>3. CASE x = 0 /\ y = 0
  BY <1>3 DEF EventOf
<1>4. CASE ~(x = 0 /\ y = 0)
  <2>1. PICK i \in table.event : i[1] = x /\ i[2] = y
    BY <1>4 DEF EventMatch
  <2>2. /\ x # 0 /\ y \in Nat /\ y > e /\ y # 0
        /\ \A j \in table.event : j[1] = x <=> j[2] = y
    BY <1>2, <2>1 DEF EventRight
  <2> HIDE DEF O, x, y
  <2>3. ASSUME NEW z, InEvent(z, x, s) PROVE InEvent(z, y, F)
    <3>1. PICK d \in ToSet(s) : d.kind = "metadata" /\ d.event = x /\ z = d.id
      BY <2>3 DEF InEvent
    <3>2. PICK j \in 1 .. Len(O) : O[j] = d
      BY <1>1, <3>1 DEF Parallel
    <3> DEFINE g == F[base + j]
    <3>3. Matches(d, g, DefinedIn(s), table.ctr, table.event, N, M) /\ g \in ToSet(F)
      BY <1>1, <1>2, <3>2 DEF Parallel
    <3> HIDE DEF g
    <3>4. g.kind = "metadata" /\ g.id = d.id /\ EventMatch(d, g, table.event)
      BY <3>1, <3>3 DEF Matches, Evented
    <3>5. g.event = y
      BY <2>2, <3>1, <3>4 DEF EventMatch
    <3> QED
      BY <2>2, <3>1, <3>3, <3>4, <3>5 DEF InEvent
  <2>4. ASSUME NEW z, InEvent(z, y, F) PROVE InEvent(z, x, s)
    <3>1. PICK g \in ToSet(F) : g.kind = "metadata" /\ g.event = y /\ z = g.id
      BY <2>4 DEF InEvent
    <3>2. PICK k \in DOMAIN F : F[k] = g
      BY <1>1, <3>1 DEF Parallel
    <3>3. ASSUME k \in 1 .. base PROVE FALSE
      <4>1. Within(g, w.seq, b, e)
        BY <1>2, <3>2, <3>3
      <4>2. y \in 0 .. e
        BY <3>1, <4>1 DEF Within, Evented
      <4> QED
        BY <1>2, <2>2, <4>2
    <3>4. PICK j \in 1 .. Len(O) : k = base + j
      BY <1>1, <3>2, <3>3 DEF Parallel
    <3> DEFINE d == O[j]
    <3>5. Matches(d, g, DefinedIn(s), table.ctr, table.event, N, M) /\ d \in ToSet(s)
      BY <1>1, <1>2, <3>2, <3>4 DEF Parallel
    <3> HIDE DEF d
    <3>6. d.kind = "metadata" /\ g.id = d.id /\ EventMatch(d, g, table.event)
      BY <3>1, <3>5 DEF Matches, Evented
    <3>7. d.event = x
      BY <2>2, <3>1, <3>6 DEF EventMatch
    <3> QED
      BY <2>2, <3>1, <3>5, <3>6, <3>7 DEF InEvent
  <2>5. \A z : z \in EventOf(x, s) <=> z \in EventOf(y, F)
    BY <2>3, <2>4, EventIs
  <2>6. EventOf(x, s) = UNION {EventOf(x, s)} /\ EventOf(y, F) = UNION {EventOf(y, F)}
    OBVIOUS
  <2>7. EventOf(x, s) = EventOf(y, F)
    BY <2>5, <2>6
  <2> QED
    BY <2>7 DEF x, y
<1> QED
  BY <1>3, <1>4

(* Each frame that was added means what the one that was read does.         *)
LEMMA AddedMeans ==
  ASSUME NEW F, NEW base, NEW s, NEW table, NEW w, NEW b, NEW e, NEW N, NEW M,
         Adding(F, base, s, table, w, b, e, N, M), NEW j \in 1 .. Len(Only(s, Copied))
  PROVE  SameMeant(Only(s, Copied)[j], s, N, F[base + j], F, M)
<1> DEFINE f == Only(s, Copied)[j]
           g == F[base + j]
<1>1. Matches(f, g, DefinedIn(s), table.ctr, table.event, N, M)
  BY DEF Adding
<1> HIDE DEF f, g
<1>2. ASSUME f.kind \in Addressed
      PROVE  /\ DOMAIN f.addrs = DOMAIN g.addrs
             /\ \A n \in DOMAIN f.addrs : NameOf(f.addrs[n], N) = NameOf(g.addrs[n], M)
  BY <1>1, <1>2 DEF Matches, AddrsMatch
<1>3. ASSUME f.kind \in Counters
      PROVE  /\ DOMAIN f.ids = DOMAIN g.ids
             /\ \A n \in DOMAIN f.ids : CounterOf(f.ids[n], s) = CounterOf(g.ids[n], F)
  <2>1. IdsMatch(f, g, DefinedIn(s), table.ctr)
    BY <1>1, <1>3 DEF Matches
  <2>2. ASSUME NEW n \in DOMAIN f.ids PROVE CounterOf(f.ids[n], s) = CounterOf(g.ids[n], F)
    <3>1. f.ids[n] \in DefinedIn(s) /\ g.ids[n] = Translate(table.ctr, f.ids[n])
      BY <2>1 DEF IdsMatch
    <3> QED
      BY <3>1, CounterMoves
  <2> QED
    BY <2>1, <2>2 DEF IdsMatch
<1>4. ASSUME f.kind \in Evented PROVE EventOf(f.event, s) = EventOf(g.event, F)
  <2>1. EventMatch(f, g, table.event)
    BY <1>1, <1>4 DEF Matches
  <2> QED
    BY <2>1, EventMoves
<1>5. f.kind = g.kind /\ f.id = g.id
  BY <1>1 DEF Matches
<1>6. Alike(f, s, N, g, F, M)
  BY <1>2, <1>3, <1>4, <1>5 DEF Alike
<1>7. SameMeant(f, s, N, g, F, M)
  BY <1>6, AlikeMeans
<1> QED
  BY <1>7 DEF f, g

-----------------------------------------------------------------------------
(* The invariant of the join.                                               *)
Listed(x) == x \in Seq(ToSet(x))
Kept(F, M, W) == \A k \in 1 .. Len(W) : W[k] = Meaning(F[k], F, M)
AllWithin(F, last, seq, b, e) == \A k \in 1 .. last : Within(F[k], seq, b, e)

NamesWalked(s, t) == Between(rd, s, t) /\ Naming(cat.table.addr, Names(s), Entries(dest))
FramesWalked(s, t, b, e) ==
  /\ Between(rd, s, t) /\ Naming(cat.table.addr, Names(Whole), Entries(dest))
  /\ Adding(added, Len(want), s, cat.table, dest, b, e, Names(Whole), Entries(dest))

Shaped ==
  /\ cat = [phase |-> cat.phase, table |-> cat.table]
  /\ cat.table = [addr |-> cat.table.addr, ctr |-> cat.table.ctr, event |-> cat.table.event]
Settled == Len(added) = Len(want)
Safely ==
  /\ Env /\ FromCapture /\ rest \in Seq(FileCell) /\ Shaped /\ WriterMade(dest)
  /\ Listed(added) /\ Listed(want) /\ joined \in Nat /\ Len(want) <= Len(added)
  /\ AllWithin(added, Len(added), dest.seq, dest.ctr, dest.event)
  /\ Kept(added, Entries(dest), want)
Joining ==
  /\ Safely
  /\ cat.phase # "idle" => rest = <<>>
  /\ cat.phase = "idle" =>
       /\ cat = Idle /\ Settled /\ rd \in Readers \cup {NoReader}
       /\ joined = 0 => RInv /\ added = <<>> /\ want = <<>>
  /\ cat.phase = "names" =>
       /\ Settled /\ cat.table.ctr = {} /\ cat.table.event = {}
       /\ \E s, t : NamesWalked(s, t)
  /\ cat.phase = "frames" => \E s, t, b, e : FramesWalked(s, t, b, e)
  /\ cat.phase = "done" => Settled /\ dest.names = {} /\ rd \in Readers
CInv == Led \/ Joining

-----------------------------------------------------------------------------
(* The reader of a capture.                                                 *)
LEMMA BetweenKeeps ==
  ASSUME NEW s, NEW t, Between(rd', s, t), file' = file, rest' = rest
  PROVE  Between(rd, s, t)'
<1>1. Split(file, rest, s, t)' /\ Split(file, rest, s, t) /\ Stands(rd', FALSE, Len(CellsOf(s)))
  BY DEF Between, Split
<1> DEFINE n == Len(CellsOf(s))
<1>2. Stands(rd', FALSE, n)
  BY <1>1
<1> HIDE DEF n
<1>3. Stands(rd, FALSE, n)'
  BY <1>2 DEF Stands, Sane, Avail
<1> QED
  BY <1>1, <1>3 DEF Between, n

LEMMA StartOver ==
  ASSUME NEW x \in Readers, Env, FromCapture, rest \in Seq(FileCell)
  PROVE  \E t : Between(ResetOf(x), <<>>, t)
<1>1. PICK t \in Captures : file \o rest = CellsOf(t)
  BY DEF FromCapture
<1>2. t \in Seq(Frames) /\ <<>> \in Seq(Frames) /\ file \in Seq(FileCell)
  BY ReaderAssumption DEF Env
<1>3. <<>> \o t = t
  BY <1>2, ConcatEmpty
<1>4. Len(<<>>) = 0 /\ CellsOf(<<>>) = <<>> /\ Len(file) \in Nat
  BY <1>2, CellsNone
<1>5. Split(file, rest, <<>>, t)
  BY <1>1, <1>2, <1>3, <1>4 DEF Split
<1>6. Stands(ResetOf(x), FALSE, Len(CellsOf(<<>>)))
  BY <1>4, AtStart
<1> QED
  BY <1>5, <1>6 DEF Between

LEMMA GrowKeeps ==
  ASSUME file \in Seq(FileCell), rest \in Seq(FileCell), Grow
  PROVE  file' \o rest' = file \o rest
<1>1. PICK k \in 1 .. Len(rest) :
        file' = file \o SubSeq(rest, 1, k) /\ rest' = SubSeq(rest, k + 1, Len(rest))
  BY DEF Grow
<1> DEFINE p == SubSeq(rest, 1, k)
           q == SubSeq(rest, k + 1, Len(rest))
<1>2. p \in Seq(FileCell) /\ q \in Seq(FileCell) /\ p \o q = rest
  OBVIOUS
<1> HIDE DEF p, q
<1>3. (file \o p) \o q = file \o (p \o q)
  <2>1. Assoc(file, p, q)
    BY <1>2, ConcatAssoc
  <2> QED
    BY <2>1 DEF Assoc
<1> QED
  BY <1>1, <1>2, <1>3 DEF p, q

LEMMA ReadKeeps ==
  ASSUME file \in Seq(FileCell), rest \in Seq(FileCell), ReadNext, FromCapture
  PROVE  FromCapture' /\ foreign' = foreign
<1>1. foreign' = foreign /\ (Grow \/ (file' = file /\ rest' = rest))
  BY DEF ReadNext, Reading, Next, Grow, PeekType, SkipFrame, Reset, New, Read, Call, Ask,
         List, Cursor
<1>2. file' \o rest' = file \o rest
  BY <1>1, GrowKeeps
<1> QED
  BY <1>1, <1>2 DEF FromCapture

-----------------------------------------------------------------------------
(* What frames mean when others are added, and when there are more names.   *)
LEMMA MeansOn ==
  ASSUME NEW S, NEW F \in Seq(S), NEW g, NEW b \in Nat, NEW e \in Nat, Newer(g, b, e),
         NEW f, NEW seq, Within(f, seq, b, e), NEW M
  PROVE  SameMeant(f, F, M, f, Append(F, g), M)
<1> DEFINE G == Append(F, g)
<1>1. ASSUME NEW n \in DOMAIN f.ids, f.kind \in Counters
      PROVE  CounterOf(f.ids[n], F) = CounterOf(f.ids[n], G)
  <2>1. f.ids[n] \in 0 .. b
    BY <1>1 DEF Within
  <2>2. CountsAs(f.ids[n], F, Append(F, g))
    BY <2>1, CounterStays
  <2> QED
    BY <2>2 DEF CountsAs
<1>2. ASSUME f.kind \in Evented PROVE EventOf(f.event, F) = EventOf(f.event, G)
  <2>1. f.event \in 0 .. e
    BY <1>2 DEF Within
  <2>2. HappensAs(f.event, F, Append(F, g))
    BY <2>1, EventStays
  <2> QED
    BY <2>2 DEF HappensAs
<1> HIDE DEF G
<1>3. Alike(f, F, M, f, G, M)
  BY <1>1, <1>2 DEF Alike
<1>4. SameMeant(f, F, M, f, G, M)
  BY <1>3, AlikeMeans
<1> QED
  BY <1>4 DEF G

LEMMA MeansNamed ==
  ASSUME NEW w, NEW v, Writing(w), Writing(v), Grown(w, v), v.seq <= MaxSeq,
         NEW f, NEW b, NEW e, Within(f, w.seq, b, e), NEW F
  PROVE  SameMeant(f, F, Entries(w), f, F, Entries(v))
<1>1. ASSUME NEW n \in DOMAIN f.addrs, f.kind \in Addressed
      PROVE  NameOf(f.addrs[n], Entries(w)) = NameOf(f.addrs[n], Entries(v))
  <2>1. Clear(f.addrs[n], w.seq)
    BY <1>1 DEF Within
  <2> QED
    BY <2>1, NameStays
<1>2. Alike(f, F, Entries(w), f, F, Entries(v))
  BY <1>1 DEF Alike
<1> QED
  BY <1>2, AlikeMeans

(* The frames that were there when the writer has more names.               *)
LEMMA NamedKeeps ==
  ASSUME Safely, NEW v, Writing(v), Grown(dest, v), v.seq <= MaxSeq
  PROVE  /\ WriterMade(v) /\ AllWithin(added, Len(added), v.seq, v.ctr, v.event)
         /\ Kept(added, Entries(v), want)
<1>1. WriterMade(v) /\ Writing(dest)
  BY WritingIs DEF Safely
<1>2. /\ dest.seq \in Nat /\ dest.ctr \in Nat /\ dest.event \in Nat
      /\ v.seq \in Nat /\ v.ctr \in Nat /\ v.event \in Nat
      /\ v.seq >= dest.seq /\ v.ctr = dest.ctr /\ v.event = dest.event
  BY <1>1 DEF Writing, Grown
<1>3. ASSUME NEW k \in 1 .. Len(added) PROVE Within(added[k], v.seq, v.ctr, v.event)
  <2>1. Within(added[k], dest.seq, dest.ctr, dest.event)
    BY DEF Safely, AllWithin
  <2> QED
    BY <1>2, <2>1, WithinMore
<1>4. Len(want) \in Nat /\ Len(added) \in Nat /\ Len(want) <= Len(added)
  BY SetOf DEF Safely, Listed
<1>5. ASSUME NEW k \in 1 .. Len(want) PROVE want[k] = Meaning(added[k], added, Entries(v))
  <2>1. k \in 1 .. Len(added)
    BY <1>4
  <2>2. Within(added[k], dest.seq, dest.ctr, dest.event)
    BY <2>1 DEF Safely, AllWithin
  <2>3. SameMeant(added[k], added, Entries(dest), added[k], added, Entries(v))
    BY <1>1, <2>2, MeansNamed
  <2>4. want[k] = Meaning(added[k], added, Entries(dest))
    BY DEF Safely, Kept
  <2> QED
    BY <2>3, <2>4 DEF SameMeant
<1> QED
  BY <1>1, <1>3, <1>5 DEF AllWithin, Kept

-----------------------------------------------------------------------------
(* Where the frames of a capture come from.                                 *)
LEMMA NextSourced ==
  ASSUME NEW s, NEW t, s \in Seq(Frames), t \in Seq(Frames), t # <<>>,
         s \o t = Whole, Whole \in Captures
  PROVE  Sourced(Head(t), DefinedIn(s), Names(Whole)) /\ Head(t) \in Frames
<1> DEFINE f == Head(t)
           m == Len(s) + 1
           W == Whole
<1>1. /\ W \in Seq(Frames) /\ m \in DOMAIN W /\ W[m] = f /\ Len(s) \in Nat /\ m \in Nat
      /\ \A k \in 1 .. Len(s) : W[k] = s[k] /\ k \in DOMAIN W
      /\ f \in Frames
  BY ReaderAssumption
<1>2. SubSeq(W, 1, m - 1) = s
  <2>1. W = s \o t /\ m - 1 = Len(s)
    BY <1>1
  <2>2. SubSeq(s \o t, 1, Len(s)) = s
    OBVIOUS
  <2> QED
    BY <2>1, <2>2
<1>3. CaptureMade(W) /\ FrameMade(f)
  BY <1>1, CatAssumption
<1> HIDE DEF W, f
<1>4. /\ \A i, n \in DOMAIN W :
           W[i].kind = "ctrdef" /\ W[n].kind = "ctrdef" =>
             \A j \in DOMAIN W[i].ids, k \in DOMAIN W[n].ids :
               W[i].ids[j] = W[n].ids[k] => i = n /\ j = k
      /\ \A n \in DOMAIN W :
           W[n].kind = "ctrset" => ToSet(W[n].ids) \subseteq DefinedIn(SubSeq(W, 1, n - 1))
      /\ \A g \in ToSet(W) : g.kind \in Addressed =>
           \A a \in ToSet(g.addrs) :
             a \notin Mark .. Mark + MaxSeq \/ \E d \in Names(W) : d[2] = a
  BY <1>3 DEF CaptureMade
<1>5. f \in ToSet(W)
  BY <1>1 DEF ToSet
<1>6. f.kind = "ctrset" => ToSet(f.ids) \subseteq DefinedIn(s)
  BY <1>1, <1>2, <1>4
<1>7. ASSUME f.kind = "ctrdef" PROVE Distinct(f, DefinedIn(s))
  <2>1. \A j, k \in DOMAIN f.ids : f.ids[j] = f.ids[k] => j = k
    BY <1>1, <1>4, <1>7
  <2>2. ASSUME NEW k \in DOMAIN f.ids, f.ids[k] \in DefinedIn(s) PROVE FALSE
    <3>1. PICK g \in ToSet(s) : g.kind = "ctrdef" /\ f.ids[k] \in ToSet(g.ids)
      BY <2>2 DEF DefinedIn
    <3>2. PICK i \in 1 .. Len(s) : s[i] = g
      BY <1>1, <3>1, SetOf
    <3>3. PICK j \in DOMAIN g.ids : g.ids[j] = f.ids[k]
      BY <3>1 DEF ToSet
    <3>4. i \in DOMAIN W /\ W[i] = g /\ i # m
      BY <1>1, <3>2
    <3>5. i = m
      BY <1>1, <1>4, <1>7, <3>1, <3>3, <3>4
    <3> QED
      BY <3>4, <3>5
  <2> QED
    BY <2>1, <2>2 DEF Distinct
<1> QED
  BY <1>1, <1>3, <1>4, <1>5, <1>6, <1>7 DEF Sourced, f, W

LEMMA NamesApart ==
  ASSUME Whole \in Captures
  PROVE  \A d, e \in Names(Whole) : d[2] = e[2] => d[1] = e[1]
BY CatAssumption DEF CaptureMade

-----------------------------------------------------------------------------
(* The first walk.                                                          *)
Quietly == /\ file' = file /\ rest' = rest /\ foreign' = foreign /\ joined' = joined
           /\ UNCHANGED <<got, peeked, ended, calls, answer>>
LEMMA QuietIs ==
  ASSUME Quiet
  PROVE  Quietly /\ Whole' = Whole /\ (Env => Env') /\ (FromCapture => FromCapture')
BY DEF Quiet, Quietly, Whole, Env, FromCapture

LEMMA SafelyNamed ==
  ASSUME Safely, Quiet, added' = added, want' = want, Shaped',
         Writing(dest'), Grown(dest, dest'), dest'.seq <= MaxSeq
  PROVE  Safely'
<1>1. /\ WriterMade(dest') /\ AllWithin(added, Len(added), dest'.seq, dest'.ctr, dest'.event)
      /\ Kept(added, Entries(dest'), want)
  BY NamedKeeps
<1>2. Quietly /\ Env' /\ FromCapture'
  BY QuietIs DEF Safely
<1> QED
  BY <1>1, <1>2 DEF Safely, Quietly, Listed

LEMMA SafelyStays ==
  ASSUME Safely, Quiet, added' = added, want' = want, Shaped', dest' = dest
  PROVE  Safely'
<1>1. Writing(dest) /\ dest.seq <= MaxSeq
  BY WritingIs DEF Safely
<1>2. Grown(dest, dest')
  BY <1>1, GrownSame
<1> QED
  BY <1>1, <1>2, SafelyNamed

(* What a step of it is.                                                    *)
NamesEnd(peek) ==
  /\ peek.kind = "none" /\ rd' = ResetOf(peek.r) /\ cat' = [cat EXCEPT !.phase = "frames"]
  /\ dest' = dest /\ added' = added /\ want' = want
Gone(next) ==
  /\ next.frame = <<>> /\ rd' = next.r /\ cat' = [cat EXCEPT !.phase = "panic"]
  /\ dest' = dest /\ added' = added /\ want' = want
NamesTaken(next) ==
  LET more == Renamed(next.frame[1].defs)
  IN  /\ next.frame # <<>> /\ rd' = next.r /\ more.dest.seq <= MaxSeq
      /\ dest' = more.dest /\ cat' = [cat EXCEPT !.table.addr = more.addr]
      /\ added' = added /\ want' = want
NamesLeft(next) ==
  /\ next.frame # <<>> /\ rd' = next.r /\ dest' = dest
  /\ cat' = [cat EXCEPT !.table.addr = cat.table.addr] /\ added' = added /\ want' = want
NamesCase(peek) ==
  \/ NamesEnd(peek)
  \/ peek.kind = "jitmap" /\ (Gone(ReadJitmap(peek.r)) \/ NamesTaken(ReadJitmap(peek.r)))
  \/ peek.kind \notin {"none", "jitmap"} /\ (Gone(Skip(peek.r)) \/ NamesLeft(Skip(peek.r)))
LEMMA NamesCases ==
  ASSUME CatNames
  PROVE  cat.phase = "names" /\ Quiet /\ NamesCase(PeekFrame(rd))
<1> DEFINE peek == PeekFrame(rd)
           jit == ReadJitmap(peek.r)
           skip == Skip(peek.r)
<1>1. /\ cat.phase = "names" /\ Quiet
      /\ \/ NamesEnd(peek)
         \/ peek.kind = "jitmap" /\ (Gone(jit) \/ NamesTaken(jit))
         \/ peek.kind \notin {"none", "jitmap"} /\ (Gone(skip) \/ NamesLeft(skip))
  BY DEF CatNames, Panic, NamesEnd, Gone, NamesTaken, NamesLeft
<1> QED
  BY <1>1 DEF NamesCase

LEMMA PanicStep ==
  ASSUME Safely, Quiet, rest = <<>>, NEW next, Gone(next)
  PROVE  Joining'
<1>1. /\ cat' = [cat EXCEPT !.phase = "panic"] /\ dest' = dest /\ added' = added /\ want' = want
  BY DEF Gone
<1>2. Shaped' /\ cat'.phase = "panic"
  BY <1>1 DEF Safely, Shaped
<1>3. Safely' /\ rest' = rest
  BY <1>1, <1>2, SafelyStays, QuietIs DEF Quietly
<1> QED
  BY <1>2, <1>3 DEF Joining

LEMMA NamesEndStep ==
  ASSUME Safely, Quiet, rest = <<>>, Settled, cat.table.ctr = {}, cat.table.event = {},
         NEW s, NEW t, NamesWalked(s, t), NEW peek, Told(peek, s, t), NamesEnd(peek)
  PROVE  Joining'
<1>1. /\ peek.kind = "none" /\ rd' = ResetOf(peek.r) /\ cat' = [cat EXCEPT !.phase = "frames"]
      /\ dest' = dest /\ added' = added /\ want' = want
  BY DEF NamesEnd
<1>2. Shaped' /\ cat'.phase = "frames" /\ cat'.table = cat.table
  BY <1>1 DEF Safely, Shaped
<1>3. Safely' /\ rest' = rest /\ file' = file /\ Whole' = Whole
  BY <1>1, <1>2, SafelyStays, QuietIs DEF Quietly
<1>4. Whole = s /\ peek.r \in Readers
  BY <1>1 DEF Told, Between, Stands, Sane
<1>5. PICK u : Between(ResetOf(peek.r), <<>>, u)
  BY <1>4, StartOver DEF Safely
<1>6. Between(rd, <<>>, u)'
  BY <1>1, <1>3, <1>5, BetweenKeeps
<1> DEFINE T == cat.table
           M == Entries(dest)
           N == Names(Whole)
           b == dest.ctr
           e == dest.event
           O == Only(<<>>, Copied)
<1>7. Naming(T.addr, N, M)
  BY <1>4 DEF NamesWalked
<1>8. /\ Listed(added) /\ Len(added) \in Nat /\ DOMAIN added = 1 .. Len(added)
      /\ Len(want) = Len(added) /\ b \in Nat /\ e \in Nat
  BY SetOf, WritingIs DEF Safely, Listed, Settled, Writing
<1>9. /\ Len(O) = 0 /\ (\A j \in 1 .. Len(O) : FALSE) /\ DefinedIn(<<>>) = {}
      /\ <<>> \in Seq(Frames) /\ Len(added) = Len(want) + Len(O) /\ Len(want) \in Nat
  <2>1. O = <<>> /\ Len(<<>>) = 0
    BY OnlyNone
  <2>2. Len(O) = 0
    BY <2>1
  <2>3. <<>> \in Seq(Frames)
    OBVIOUS
  <2> HIDE DEF O
  <2>4. (\A j \in 1 .. Len(O) : FALSE) /\ Len(added) = Len(want) + Len(O) /\ Len(want) \in Nat
    BY <1>8, <2>2
  <2> QED
    BY <2>2, <2>3, <2>4, NothingNamed
<1>10. TablesRight(T, dest, {}, b, e)
  BY <1>8 DEF TablesRight, CtrRight, EventRight
<1>11. Adding(added, Len(want), <<>>, T, dest, b, e, N, M)
  <2>1. \A k \in 1 .. Len(want) : Within(added[k], dest.seq, b, e)
    BY <1>8 DEF Safely, AllWithin
  <2> HIDE DEF T, M, N, b, e, O
  <2> QED
    BY <1>8, <1>9, <1>10, <2>1 DEF Adding, O
<1>12. FramesWalked(<<>>, u, b, e)'
  BY <1>1, <1>2, <1>3, <1>6, <1>7, <1>11 DEF FramesWalked
<1>13. \E x, y, c, d : FramesWalked(x, y, c, d)'
  BY <1>12
<1> QED
  BY <1>2, <1>3, <1>13 DEF Joining

LEMMA NamesForward ==
  ASSUME Safely, Quiet, rest = <<>>, Settled, cat.table.ctr = {}, cat.table.event = {},
         NEW s, NEW t, NamesWalked(s, t), NEW next, Forward(next, s, t), rd' = next.r,
         NEW addr, cat' = [cat EXCEPT !.table.addr = addr], added' = added, want' = want,
         cat.phase = "names",
         Writing(dest'), Grown(dest, dest'), dest'.seq <= MaxSeq,
         Naming(addr, Names(Append(s, Head(t))), Entries(dest'))
  PROVE  Joining'
<1>1. Shaped' /\ cat'.phase = "names" /\ cat'.table.addr = addr
      /\ cat'.table.ctr = {} /\ cat'.table.event = {}
  BY DEF Safely, Shaped
<1>2. Safely' /\ rest' = rest /\ file' = file
  BY <1>1, SafelyNamed, QuietIs DEF Quietly
<1> DEFINE u == Append(s, Head(t))
<1>3. Between(rd', u, Tail(t))
  BY DEF Forward
<1> HIDE DEF u
<1>4. Between(rd, u, Tail(t))'
  BY <1>2, <1>3, BetweenKeeps
<1>5. NamesWalked(u, Tail(t))'
  BY <1>1, <1>4 DEF NamesWalked, u
<1>6. \E x, y : NamesWalked(x, y)'
  BY <1>5
<1>7. Settled'
  BY DEF Settled
<1> QED
  BY <1>1, <1>2, <1>6, <1>7 DEF Joining

LEMMA NamesStep ==
  ASSUME ~Led, Joining, CatNames
  PROVE  Joining'
<1> DEFINE peek == PeekFrame(rd)
<1>1. cat.phase = "names" /\ Quiet /\ NamesCase(peek)
  BY NamesCases
<1>2. /\ Safely /\ Env /\ rest = <<>> /\ Settled /\ cat.table.ctr = {} /\ cat.table.event = {}
      /\ \E s, t : NamesWalked(s, t)
  BY <1>1 DEF Joining, Safely
<1>3. PICK s, t : NamesWalked(s, t)
  BY <1>2
<1>4. Between(rd, s, t) /\ Naming(cat.table.addr, Names(s), Entries(dest))
  BY <1>3 DEF NamesWalked
<1>5. Told(peek, s, t)
  BY <1>2, <1>4, PeekAt
<1> HIDE DEF peek
<1>6. Between(peek.r, s, t) /\ s \in Seq(Frames)
  BY <1>5 DEF Told, Between, Split
<1>7. Writing(dest) /\ dest.seq <= MaxSeq
  BY <1>2, WritingIs DEF Safely
<1>8. CASE NamesEnd(peek)
  BY <1>1, <1>2, <1>3, <1>5, <1>8, NamesEndStep
<1>9. CASE peek.kind = "jitmap" /\ NamesTaken(ReadJitmap(peek.r))
  <2> DEFINE next == ReadJitmap(peek.r)
             f == Head(t)
             more == Renamed(f.defs)
  <2>1. Further(ReadAs(peek.r, "jitmap"), s, t)
    BY <1>2, <1>6, StepsFurther
  <2>2. ReadAs(peek.r, "jitmap") = next
    BY DEF ReadAs, Basic, Counters
  <2> HIDE DEF next
  <2>3. next.frame # <<>> /\ NamesTaken(next)
    BY <1>9 DEF NamesTaken, next
  <2>4. Forward(next, s, t) /\ next.frame = <<f>>
    BY <2>1, <2>2, <2>3 DEF Further, Forward
  <2>5. next.frame[1] = f
    BY <2>4
  <2>6. f \in Frames /\ f.kind = "jitmap"
    BY <1>5, <1>9 DEF Told
  <2> HIDE DEF f
  <2>7. Len(f.defs) \in Nat /\ DOMAIN f.defs = 1 .. Len(f.defs)
    BY <2>6, CatAssumption, SetOf DEF FrameMade
  <2>8. RightlyNamed(more, dest, Names(s) \cup ToSet(f.defs))
    BY <1>4, <1>7, <2>7, RenamedRight
  <2>9. Names(Append(s, f)) = Names(s) \cup ToSet(f.defs)
    BY <1>6, <2>6, NamesMore
  <2>10. /\ rd' = next.r /\ more.dest.seq <= MaxSeq /\ dest' = more.dest
         /\ cat' = [cat EXCEPT !.table.addr = more.addr] /\ added' = added /\ want' = want
    BY <2>3, <2>5 DEF NamesTaken
  <2> HIDE DEF more
  <2>11. /\ Writing(dest') /\ Grown(dest, dest') /\ dest'.seq <= MaxSeq
         /\ Naming(more.addr, Names(Append(s, f)), Entries(dest'))
    BY <2>8, <2>9, <2>10 DEF RightlyNamed
  <2> QED
    BY <1>1, <1>2, <1>3, <2>4, <2>10, <2>11, NamesForward DEF f
<1>10. CASE peek.kind \notin {"none", "jitmap"} /\ NamesLeft(Skip(peek.r))
  <2> DEFINE next == Skip(peek.r)
             f == Head(t)
  <2>1. Further(next, s, t)
    BY <1>2, <1>6, StepsFurther
  <2> HIDE DEF next
  <2>2. /\ next.frame # <<>> /\ rd' = next.r /\ dest' = dest
        /\ cat' = [cat EXCEPT !.table.addr = cat.table.addr] /\ added' = added /\ want' = want
    BY <1>10 DEF NamesLeft, next
  <2>3. Forward(next, s, t)
    BY <2>1, <2>2 DEF Further
  <2>4. t # <<>> /\ f \in Frames /\ peek.kind = f.kind
    BY <1>5, <1>10 DEF Told
  <2>5. Names(Append(s, f)) = Names(s)
    BY <1>6, <1>10, <2>4, NamesMore
  <2>6. /\ Writing(dest') /\ Grown(dest, dest') /\ dest'.seq <= MaxSeq
        /\ Naming(cat.table.addr, Names(Append(s, f)), Entries(dest'))
    BY <1>4, <1>7, <2>2, <2>5, GrownSame
  <2> QED
    BY <1>1, <1>2, <1>3, <2>2, <2>3, <2>6, NamesForward DEF f
<1>11. CASE Gone(ReadJitmap(peek.r)) \/ Gone(Skip(peek.r))
  BY <1>1, <1>2, <1>11, PanicStep
<1> QED
  BY <1>1, <1>8, <1>9, <1>10, <1>11 DEF NamesCase

-----------------------------------------------------------------------------
(* The second walk.                                                         *)
LeadsOn(T, D, U, E) ==
  /\ D \subseteq E /\ T.event \subseteq U.event
  /\ \A x \in D : Translate(U.ctr, x) = Translate(T.ctr, x)
LEMMA MatchesOn ==
  ASSUME NEW f, NEW g, NEW D, NEW E, NEW T, NEW U, NEW N, NEW M,
         Matches(f, g, D, T.ctr, T.event, N, M), LeadsOn(T, D, U, E)
  PROVE  Matches(f, g, E, U.ctr, U.event, N, M)
<1>1. IdsMatch(f, g, D, T.ctr) => IdsMatch(f, g, E, U.ctr)
  BY DEF IdsMatch, LeadsOn
<1>2. EventMatch(f, g, T.event) => EventMatch(f, g, U.event)
  BY DEF EventMatch, LeadsOn
<1> QED
  BY <1>1, <1>2 DEF Matches

LEMMA AddingMore ==
  ASSUME NEW F, NEW base, NEW s, NEW T, NEW w, NEW b, NEW e, NEW N, NEW M,
         Adding(F, base, s, T, w, b, e, N, M), Listed(F), NEW f \in Frames, f \in Copied,
         NEW g, NEW U, NEW v, v.seq = w.seq,
         Matches(f, g, Defining(f, DefinedIn(s)), U.ctr, U.event, N, M),
         TablesRight(U, v, Defining(f, DefinedIn(s)), b, e),
         \A x \in DefinedIn(s) : Translate(U.ctr, x) = Translate(T.ctr, x),
         T.event \subseteq U.event
  PROVE  Adding(Append(F, g), base, Append(s, f), U, v, b, e, N, M)
<1> DEFINE O == Only(s, Copied)
           P == Only(Append(s, f), Copied)
           D == DefinedIn(s)
           E == Defining(f, D)
           G == Append(F, g)
<1>1. /\ s \in Seq(Frames) /\ base \in Nat /\ Len(F) = base + Len(O) /\ DOMAIN F = 1 .. Len(F)
      /\ \A k \in 1 .. base : Within(F[k], w.seq, b, e)
      /\ \A j \in 1 .. Len(O) : Matches(O[j], F[base + j], D, T.ctr, T.event, N, M)
  BY DEF Adding
<1>2. O \in Seq(Frames) /\ P = Append(O, f) /\ Append(s, f) \in Seq(Frames)
  BY <1>1, OnlyType, OnlyMore
<1>3. DefinedIn(Append(s, f)) = E
  BY <1>1, DefinedMore DEF Defining
<1>4. Len(P) = Len(O) + 1 /\ Len(O) \in Nat /\ P[Len(O) + 1] = f /\ \A j \in 1 .. Len(O) : P[j] = O[j]
  <2> HIDE DEF O, P
  <2> QED
    BY <1>2
<1>5. /\ Len(F) \in Nat /\ Len(G) = Len(F) + 1 /\ DOMAIN G = 1 .. Len(G) /\ G[Len(F) + 1] = g
      /\ \A k \in 1 .. Len(F) : G[k] = F[k]
  <2>1. F \in Seq(ToSet(F))
    BY DEF Listed
  <2>2. G \in Seq(ToSet(F) \cup {g})
    <3>1. F \in Seq(ToSet(F) \cup {g}) /\ g \in ToSet(F) \cup {g}
      <4> DEFINE A == ToSet(F)
      <4>1. F \in Seq(A)
        BY <2>1
      <4> HIDE DEF A
      <4>2. F \in Seq(A \cup {g})
        BY <4>1
      <4> QED
        BY <4>2 DEF A
    <3> DEFINE B == ToSet(F) \cup {g}
    <3>2. F \in Seq(B) /\ g \in B
      BY <3>1
    <3> HIDE DEF B
    <3>3. Append(F, g) \in Seq(B)
      BY <3>2
    <3> QED
      BY <3>3 DEF B
  <2> QED
    BY <2>1, <2>2, SetOfMore, SetOf
<1> HIDE DEF O, P, G
<1>6. D \subseteq E
  BY DEF Defining
<1> HIDE DEF E
<1>7. ASSUME NEW j \in 1 .. Len(P) PROVE Matches(P[j], G[base + j], E, U.ctr, U.event, N, M)
  <2>1. CASE j \in 1 .. Len(O)
    <3>1. base + j \in 1 .. Len(F)
      BY <1>1, <1>4, <2>1
    <3>2. Matches(O[j], F[base + j], D, T.ctr, T.event, N, M)
      BY <1>1, <2>1
    <3> DEFINE h == O[j]
               k == F[base + j]
    <3>3. Matches(h, k, E, U.ctr, U.event, N, M)
      <4>1. Matches(h, k, D, T.ctr, T.event, N, M) /\ LeadsOn(T, D, U, E)
        BY <1>6, <3>2 DEF LeadsOn
      <4> HIDE DEF h, k, D
      <4> QED
        BY <4>1, MatchesOn
    <3> QED
      BY <1>4, <1>5, <2>1, <3>1, <3>3
  <2>2. CASE j = Len(O) + 1
    <3>1. base + j = Len(F) + 1
      BY <1>1, <1>4, <2>2
    <3> QED
      BY <1>4, <1>5, <2>2, <3>1 DEF E
  <2> QED
    BY <1>4, <2>1, <2>2
<1>8. \A k \in 1 .. base : Within(G[k], v.seq, b, e)
  <2>1. \A k \in 1 .. base : k \in 1 .. Len(F)
    BY <1>1, <1>4
  <2> QED
    BY <1>1, <1>5, <2>1
<1>9. Len(G) = base + Len(P)
  BY <1>1, <1>4, <1>5
<1>10. TablesRight(U, v, E, b, e)
  BY DEF E
<1> QED
  BY <1>1, <1>2, <1>3, <1>5, <1>7, <1>8, <1>9, <1>10 DEF Adding, P, G

LEMMA AddingPast ==
  ASSUME NEW F, NEW base, NEW s, NEW T, NEW w, NEW b, NEW e, NEW N, NEW M,
         Adding(F, base, s, T, w, b, e, N, M), NEW f \in Frames, f \notin Copied, f.kind # "ctrdef"
  PROVE  Adding(F, base, Append(s, f), T, w, b, e, N, M)
<1>1. s \in Seq(Frames)
  BY DEF Adding
<1>2. Only(Append(s, f), Copied) = Only(s, Copied) /\ Append(s, f) \in Seq(Frames)
  BY <1>1, OnlyMore
<1>3. DefinedIn(Append(s, f)) = DefinedIn(s)
  BY <1>1, DefinedMore
<1> QED
  BY <1>2, <1>3 DEF Adding

(* What a step of it is.                                                    *)
FramesEnd(peek) ==
  /\ peek.kind = "none" /\ rd' = peek.r /\ cat' = [cat EXCEPT !.phase = "done"]
  /\ dest' = [dest EXCEPT !.written = dest.written \cup dest.names, !.names = {}]
  /\ want' = want \o Meanings(Only(Whole, Copied), Whole, Names(Whole)) /\ added' = added
FramesPast(next) ==
  /\ next.frame # <<>> /\ rd' = next.r /\ want' = want /\ cat' = cat /\ dest' = dest
  /\ added' = added
FramesAdd(next) ==
  LET add == Added(next.frame[1])
  IN  /\ next.frame # <<>> /\ rd' = next.r /\ want' = want /\ ~IsIndexFrame(next.frame[1])
      /\ added' = Append(added, add.frame) /\ dest' = add.dest
      /\ cat' = [cat EXCEPT !.table = add.table]
FramesRead(next) ==
  \/ Gone(next)
  \/ IsIndexFrame(next.frame[1]) /\ FramesPast(next)
  \/ FramesAdd(next)
FramesCase(peek) ==
  \/ FramesEnd(peek)
  \/ peek.kind = "jitmap" /\ (Gone(Skip(peek.r)) \/ FramesPast(Skip(peek.r)))
  \/ peek.kind \notin {"none", "jitmap"} /\ FramesRead(ReadAs(peek.r, peek.kind))
LEMMA FramesCases ==
  ASSUME CatFrames
  PROVE  cat.phase = "frames" /\ Quiet /\ FramesCase(PeekFrame(rd))
<1> DEFINE peek == PeekFrame(rd)
           skip == Skip(peek.r)
           read == ReadAs(peek.r, peek.kind)
<1>1. /\ cat.phase = "frames" /\ Quiet
      /\ \/ FramesEnd(peek)
         \/ peek.kind = "jitmap" /\ (Gone(skip) \/ FramesPast(skip))
         \/ peek.kind \notin {"none", "jitmap"} /\ FramesRead(read)
  BY DEF CatFrames, Panic, FramesEnd, Gone, FramesPast, FramesAdd, FramesRead
<1> QED
  BY <1>1 DEF FramesCase

LEMMA FramesEndStep ==
  ASSUME Safely, Quiet, rest = <<>>, NEW s, NEW t, NEW b, NEW e, FramesWalked(s, t, b, e),
         NEW peek, Told(peek, s, t), FramesEnd(peek)
  PROVE  Joining'
<1> DEFINE O == Only(s, Copied)
           N == Names(Whole)
           M == Entries(dest)
           m == Len(want)
           mean == Meanings(O, s, N)
<1>1. Whole = s
  BY DEF Told, FramesEnd
<1>2. /\ cat' = [cat EXCEPT !.phase = "done"] /\ added' = added /\ want' = want \o mean
      /\ dest' = [dest EXCEPT !.written = dest.written \cup dest.names, !.names = {}]
  BY <1>1 DEF FramesEnd
<1>3. Shaped' /\ cat'.phase = "done"
  BY <1>2 DEF Safely, Shaped
<1>4. /\ dest'.names = {} /\ dest'.written = dest.written \cup dest.names /\ dest'.seq = dest.seq
      /\ dest'.ctr = dest.ctr /\ dest'.event = dest.event
      /\ dest' = [names |-> dest'.names, written |-> dest'.written, seq |-> dest'.seq,
                  ctr |-> dest'.ctr, event |-> dest'.event]
  <2>1. dest = [names |-> dest.names, written |-> dest.written, seq |-> dest.seq,
                ctr |-> dest.ctr, event |-> dest.event]
    BY DEF Safely, WriterMade
  <2> QED
    BY <1>2, <2>1
<1>5. Entries(dest') = M
  BY <1>4 DEF Entries
<1>6. WriterMade(dest')
  <2>1. Writing(dest) /\ dest.seq <= MaxSeq
    BY WritingIs DEF Safely
  <2>2. Writing(dest') /\ dest'.seq <= MaxSeq
    BY <1>4, <1>5, <2>1 DEF Writing
  <2> QED
    BY <2>2, WritingIs
<1>7. Adding(added, m, s, cat.table, dest, b, e, N, M)
  BY DEF FramesWalked
<1>8. s \in Seq(Frames) /\ Len(added) = m + Len(O) /\ m \in Nat
  BY <1>7 DEF Adding
<1>9. O \in Seq(Frames) /\ Len(O) \in Nat /\ DOMAIN O = 1 .. Len(O)
  BY <1>8, OnlyType, SetOf
<1>10. Listed(want) /\ want \in Seq(ToSet(want))
  BY DEF Safely, Listed
<1> HIDE DEF O, N, M
<1>11. mean = [j \in 1 .. Len(O) |-> Meaning(O[j], s, N)]
  BY <1>9 DEF Meanings
<1>12. /\ want' \in Seq(ToSet(want) \cup ToSet(mean)) /\ Len(want') = m + Len(O)
       /\ (\A k \in 1 .. m : want'[k] = want[k])
       /\ \A j \in 1 .. Len(O) : want'[m + j] = mean[j]
  <2> DEFINE R == ToSet(want) \cup ToSet(mean)
  <2>1. mean \in Seq(ToSet(mean)) /\ Len(mean) = Len(O)
    <3>1. \A j \in 1 .. Len(O) : mean[j] \in ToSet(mean)
      BY <1>9, <1>11 DEF ToSet
    <3>2. DOMAIN mean = 1 .. Len(O) /\ mean = [j \in 1 .. Len(O) |-> mean[j]]
      BY <1>11
    <3> HIDE DEF mean
    <3>3. mean \in [1 .. Len(O) -> ToSet(mean)]
      BY <3>1, <3>2
    <3> QED
      BY <1>9, <3>2, <3>3
  <2> DEFINE A == ToSet(want)
             B == ToSet(mean)
  <2>2. want \in Seq(A) /\ mean \in Seq(B)
    BY <1>10, <2>1
  <2> HIDE DEF A, B, mean
  <2>3. want \in Seq(A \cup B) /\ mean \in Seq(A \cup B)
    BY <2>2
  <2>4. /\ want \o mean \in Seq(A \cup B) /\ Len(want \o mean) = Len(want) + Len(mean)
        /\ (\A k \in 1 .. Len(want) : (want \o mean)[k] = want[k])
        /\ \A j \in 1 .. Len(mean) : (want \o mean)[Len(want) + j] = mean[j]
    <3>1. \A k \in 1 .. Len(want) + Len(mean) :
            (want \o mean)[k] = IF k <= Len(want) THEN want[k] ELSE mean[k - Len(want)]
      BY <2>3, ConcatProperties
    <3>2. Len(want) \in Nat /\ Len(mean) \in Nat
      BY <2>3
    <3> QED
      BY <2>3, <3>1, <3>2, ConcatProperties
  <2> QED
    BY <1>2, <2>1, <2>4 DEF A, B
<1>13. Listed(want')
  <2> DEFINE A == ToSet(want) \cup ToSet(mean)
             x == want'
  <2>1. x \in Seq(A)
    BY <1>12
  <2> HIDE DEF A, x
  <2>2. \A k \in 1 .. Len(x) : x[k] \in ToSet(x)
    BY <2>1, SetOf
  <2>3. Len(x) \in Nat /\ x = [k \in 1 .. Len(x) |-> x[k]]
    BY <2>1
  <2>4. x \in [1 .. Len(x) -> ToSet(x)]
    BY <2>2, <2>3
  <2> QED
    BY <2>3, <2>4 DEF Listed, x
<1> HIDE DEF mean
<1>14. Kept(added, M, want')
  <2>1. ASSUME NEW k \in 1 .. Len(want') PROVE want'[k] = Meaning(added[k], added, M)
    <3>1. CASE k \in 1 .. m
      BY <1>12, <3>1 DEF Safely, Kept, M
    <3>2. CASE k \notin 1 .. m
      <4>1. k - m \in 1 .. Len(O) /\ k = m + (k - m)
        BY <1>8, <1>9, <1>12, <3>2
      <4>2. PICK j \in 1 .. Len(O) : k = m + j
        BY <4>1
      <4>3. want'[k] = Meaning(O[j], s, N)
        BY <1>11, <1>12, <4>2
      <4>4. SameMeant(O[j], s, N, added[m + j], added, M)
        BY <1>7, AddedMeans DEF O
      <4> QED
        BY <4>2, <4>3, <4>4 DEF SameMeant
    <3> QED
      BY <3>1, <3>2
  <2> QED
    BY <2>1 DEF Kept
<1>15. Quietly /\ Env' /\ FromCapture'
  BY QuietIs DEF Safely
<1>16. AllWithin(added, Len(added), dest'.seq, dest'.ctr, dest'.event)
  BY <1>4 DEF Safely
<1>17. Len(want') = Len(added') /\ Len(want') \in Nat
  BY <1>2, <1>8, <1>9, <1>12
<1>18. Safely'
  <2>1. Len(want') <= Len(added')
    BY <1>17
  <2>2. Kept(added', Entries(dest'), want') /\ Listed(added')
    BY <1>2, <1>5, <1>14 DEF Safely
  <2>3. rest' \in Seq(FileCell) /\ joined' \in Nat
    BY <1>15 DEF Safely, Quietly
  <2>4. AllWithin(added', Len(added'), dest'.seq, dest'.ctr, dest'.event)
    BY <1>2, <1>16
  <2> QED
    BY <1>3, <1>6, <1>13, <1>15, <2>1, <2>2, <2>3, <2>4 DEF Safely
<1>19. Settled' /\ rest' = <<>>
  BY <1>15, <1>17 DEF Settled, Quietly
<1>20. rd' \in Readers
  <2>1. Stands(peek.r, FALSE, Len(CellsOf(s)))
    BY DEF Told, Between
  <2> QED
    BY <2>1 DEF FramesEnd, Stands, Sane
<1> QED
  BY <1>3, <1>4, <1>18, <1>19, <1>20 DEF Joining

LEMMA FramesPastStep ==
  ASSUME Safely, Quiet, rest = <<>>, NEW s, NEW t, NEW b, NEW e, FramesWalked(s, t, b, e),
         cat.phase = "frames", NEW next, FramesPast(next), Forward(next, s, t),
         Head(t) \in Frames, Head(t) \notin Copied, Head(t).kind # "ctrdef"
  PROVE  Joining'
<1> DEFINE f == Head(t)
           u == Append(s, f)
<1>1. rd' = next.r /\ want' = want /\ cat' = cat /\ dest' = dest /\ added' = added
  BY DEF FramesPast
<1>2. Shaped' /\ cat'.phase = "frames"
  BY <1>1 DEF Safely, Shaped
<1>3. Safely' /\ rest' = rest /\ file' = file /\ Whole' = Whole
  BY <1>1, <1>2, SafelyStays, QuietIs DEF Quietly
<1>4. Between(rd', u, Tail(t))
  BY <1>1 DEF Forward
<1>5. Between(rd, u, Tail(t))'
  <2> HIDE DEF u
  <2> QED
    BY <1>3, <1>4, BetweenKeeps
<1>6. Adding(added, Len(want), u, cat.table, dest, b, e, Names(Whole), Entries(dest))
  BY AddingPast DEF FramesWalked
<1> HIDE DEF u
<1>7. FramesWalked(u, Tail(t), b, e)'
  BY <1>1, <1>3, <1>5, <1>6 DEF FramesWalked
<1>8. \E x, y, c, d : FramesWalked(x, y, c, d)'
  BY <1>7
<1> QED
  BY <1>2, <1>3, <1>8 DEF Joining

LEMMA FramesAddStep ==
  ASSUME Safely, Quiet, rest = <<>>, NEW s, NEW t, NEW b, NEW e, FramesWalked(s, t, b, e),
         cat.phase = "frames", NEW next, FramesAdd(next), Forward(next, s, t),
         Head(t) \in Frames, Head(t) \in Copied
  PROVE  Joining'
<1> DEFINE f == Head(t)
           u == Append(s, f)
           add == Added(f)
           g == add.frame
           N == Names(Whole)
           M == Entries(dest)
           D == DefinedIn(s)
           m == Len(want)
<1>1. Between(rd, s, t) /\ Naming(cat.table.addr, N, M) /\ Adding(added, m, s, cat.table, dest, b, e, N, M)
  BY DEF FramesWalked
<1>2. t # <<>> /\ next.frame = <<f>> /\ next.frame[1] = f /\ Between(next.r, u, Tail(t))
  BY DEF Forward
<1>3. /\ rd' = next.r /\ want' = want /\ added' = Append(added, g) /\ dest' = add.dest
      /\ cat' = [cat EXCEPT !.table = add.table]
  BY <1>2 DEF FramesAdd
<1>4. s \o t = Whole /\ Whole \in Captures /\ s \in Seq(Frames) /\ t \in Seq(Frames)
  BY <1>1, TheWhole DEF Safely, Between, Split
<1>5. Sourced(f, D, N) /\ f \in Frames
  BY <1>2, <1>4, NextSourced
<1>6. Recorded
  BY DEF Safely, Shaped, WriterMade, Recorded
<1>7. NamesRight(N)
  BY <1>1, <1>4, NamesApart DEF NamesRight, Safely
<1>8. TablesRight(cat.table, dest, D, b, e)
  BY <1>1 DEF Adding
<1> HIDE DEF add, N, D
<1>9. Placed(add, f, D, b, e, N)
  BY <1>5, <1>6, <1>7, <1>8, AddedRight DEF add
<1> HIDE DEF f
<1>10. /\ Matches(f, g, Defining(f, D), add.table.ctr, add.table.event, N, M)
       /\ Within(g, dest.seq, add.dest.ctr, add.dest.event) /\ Newer(g, b, e)
       /\ TablesRight(add.table, add.dest, Defining(f, D), b, e)
       /\ \A x \in D : Translate(add.table.ctr, x) = Translate(cat.table.ctr, x)
       /\ cat.table.event \subseteq add.table.event
       /\ add.table = [addr |-> cat.table.addr, ctr |-> add.table.ctr, event |-> add.table.event]
       /\ add.dest = [names |-> dest.names, written |-> dest.written, seq |-> dest.seq,
                      ctr |-> add.dest.ctr, event |-> add.dest.event]
       /\ add.dest.ctr >= dest.ctr /\ add.dest.event >= dest.event
  BY <1>9 DEF Placed
<1> HIDE DEF g
<1>11. /\ dest'.names = dest.names /\ dest'.written = dest.written /\ dest'.seq = dest.seq
       /\ dest'.ctr = add.dest.ctr /\ dest'.event = add.dest.event
       /\ dest' = [names |-> dest'.names, written |-> dest'.written, seq |-> dest'.seq,
                   ctr |-> dest'.ctr, event |-> dest'.event]
  BY <1>3, <1>10
<1>12. /\ cat'.phase = "frames" /\ cat'.table = add.table /\ add.table.addr = cat.table.addr
       /\ Shaped'
  BY <1>3, <1>10 DEF Safely, Shaped
<1>13. /\ dest.seq \in Nat /\ dest.seq <= MaxSeq /\ dest.ctr \in Nat /\ dest.event \in Nat
       /\ Writing(dest)
  BY WritingIs DEF Safely, Writing
<1>14. /\ dest'.ctr \in Nat /\ dest'.event \in Nat /\ dest'.ctr >= dest.ctr /\ dest'.event >= dest.event
       /\ b \in Nat /\ e \in Nat
  BY <1>10, <1>11 DEF TablesRight
<1>15. Entries(dest') = M
  BY <1>11 DEF Entries
<1>16. WriterMade(dest')
  <2>1. Writing(dest') /\ dest'.seq <= MaxSeq
    BY <1>11, <1>13, <1>14, <1>15 DEF Writing
  <2> QED
    BY <2>1, WritingIs
<1>17. /\ Listed(added) /\ Len(added) \in Nat /\ Len(want) \in Nat /\ Len(want) <= Len(added)
       /\ Listed(want)
  BY SetOf DEF Safely, Listed
<1> DEFINE F == added'
<1>18. /\ Listed(F) /\ Len(F) = Len(added) + 1 /\ F[Len(added) + 1] = g
       /\ \A k \in 1 .. Len(added) : F[k] = added[k]
  <2> DEFINE A == ToSet(added)
             B == A \cup {g}
  <2>1. added \in Seq(A)
    BY <1>17 DEF Listed
  <2>2. ToSet(F) = B /\ Len(F) = Len(added) + 1 /\ F[Len(added) + 1] = g
        /\ \A k \in 1 .. Len(added) : F[k] = added[k]
    BY <1>3, <2>1, SetOfMore
  <2> HIDE DEF A
  <2>3. added \in Seq(B) /\ g \in B
    BY <2>1
  <2> HIDE DEF B
  <2>4. Append(added, g) \in Seq(B)
    BY <2>3
  <2> QED
    BY <1>3, <2>2, <2>4 DEF Listed
<1>19. AllWithin(F, Len(F), dest'.seq, dest'.ctr, dest'.event)
  <2>1. ASSUME NEW k \in 1 .. Len(F) PROVE Within(F[k], dest'.seq, dest'.ctr, dest'.event)
    <3>1. CASE k \in 1 .. Len(added)
      <4>1. Within(added[k], dest.seq, dest.ctr, dest.event)
        BY <3>1 DEF Safely, AllWithin
      <4>2. Within(added[k], dest'.seq, dest'.ctr, dest'.event)
        BY <1>11, <1>13, <1>14, <4>1, WithinMore
      <4> QED
        BY <1>18, <3>1, <4>2
    <3>2. CASE k = Len(added) + 1
      BY <1>10, <1>11, <1>18, <3>2
    <3> QED
      BY <1>17, <1>18, <3>1, <3>2
  <2> QED
    BY <2>1 DEF AllWithin
<1>20. Kept(F, M, want)
  <2>1. ASSUME NEW k \in 1 .. Len(want) PROVE want[k] = Meaning(F[k], F, M)
    <3>1. Within(added[k], dest.seq, b, e)
      BY <1>1 DEF Adding
    <3>2. added \in Seq(ToSet(added))
      BY <1>17 DEF Listed
    <3>3. SameMeant(added[k], added, M, added[k], Append(added, g), M)
      BY <1>10, <1>14, <3>1, <3>2, MeansOn
    <3>4. want[k] = Meaning(added[k], added, M) /\ F[k] = added[k]
      BY <1>17, <1>18 DEF Safely, Kept
    <3> QED
      BY <1>3, <3>3, <3>4 DEF SameMeant
  <2> QED
    BY <2>1 DEF Kept
<1>21. Quietly /\ Env' /\ FromCapture' /\ Whole' = Whole
  BY QuietIs DEF Safely
<1>22. Adding(Append(added, g), m, u, add.table, dest', b, e, N, M)
  <2>1. TablesRight(add.table, dest', Defining(f, D), b, e)
    BY <1>3, <1>10
  <2>2. f \in Frames /\ f \in Copied
    BY DEF f
  <2> QED
    BY <1>1, <1>10, <1>11, <1>17, <2>1, <2>2, AddingMore DEF D
<1>23. Safely'
  <2>1. Len(want') <= Len(added') /\ want' = want
    BY <1>3, <1>17, <1>18
  <2>2. rest' \in Seq(FileCell) /\ joined' \in Nat
    BY <1>21 DEF Safely, Quietly
  <2>3. Kept(added', Entries(dest'), want') /\ Listed(want')
    BY <1>15, <1>17, <1>20, <2>1
  <2> QED
    BY <1>12, <1>16, <1>18, <1>19, <1>21, <2>1, <2>2, <2>3 DEF Safely
<1>24. Between(rd, u, Tail(t))'
  <2>1. Between(rd', u, Tail(t)) /\ file' = file /\ rest' = rest
    BY <1>2, <1>3, <1>21 DEF Quietly
  <2> HIDE DEF u
  <2> QED
    BY <2>1, BetweenKeeps
<1> HIDE DEF u
<1>25. FramesWalked(u, Tail(t), b, e)'
  <2>1. Naming(cat'.table.addr, N, Entries(dest'))
    BY <1>1, <1>12, <1>15
  <2>2. Adding(added', Len(want'), u, cat'.table, dest', b, e, N, Entries(dest'))
    BY <1>3, <1>12, <1>15, <1>22
  <2>3. Names(Whole)' = N
    BY <1>21 DEF N
  <2> QED
    BY <1>24, <2>1, <2>2, <2>3 DEF FramesWalked
<1>26. \E x, y, c, d : FramesWalked(x, y, c, d)'
  BY <1>25
<1>27. rest' = <<>>
  BY <1>21 DEF Quietly
<1> QED
  BY <1>12, <1>23, <1>26, <1>27 DEF Joining

LEMMA FramesStep ==
  ASSUME ~Led, Joining, CatFrames
  PROVE  Joining'
<1> DEFINE peek == PeekFrame(rd)
<1>1. cat.phase = "frames" /\ Quiet /\ FramesCase(peek)
  BY FramesCases
<1>2. Safely /\ Env /\ rest = <<>> /\ \E s, t, b, e : FramesWalked(s, t, b, e)
  BY <1>1 DEF Joining, Safely
<1>3. PICK s, t, b, e : FramesWalked(s, t, b, e)
  BY <1>2
<1>4. Between(rd, s, t)
  BY <1>3 DEF FramesWalked
<1>5. Told(peek, s, t)
  BY <1>2, <1>4, PeekAt
<1> HIDE DEF peek
<1>6. Between(peek.r, s, t)
  BY <1>5 DEF Told
<1> DEFINE f == Head(t)
<1>7. CASE FramesEnd(peek)
  BY <1>1, <1>2, <1>3, <1>5, <1>7, FramesEndStep
<1>8. CASE peek.kind = "jitmap" /\ FramesPast(Skip(peek.r))
  <2> DEFINE next == Skip(peek.r)
  <2>1. Further(next, s, t)
    BY <1>2, <1>6, StepsFurther
  <2> HIDE DEF next
  <2>2. FramesPast(next) /\ Forward(next, s, t)
    BY <1>8, <2>1 DEF Further, FramesPast, next
  <2>3. f \in Frames /\ f \notin Copied /\ f.kind # "ctrdef"
    BY <1>5, <1>8 DEF Told, Copied
  <2> QED
    BY <1>1, <1>2, <1>3, <2>2, <2>3, FramesPastStep
<1>9. CASE peek.kind \notin {"none", "jitmap"} /\ FramesRead(ReadAs(peek.r, peek.kind))
  <2> DEFINE next == ReadAs(peek.r, peek.kind)
  <2>1. Further(next, s, t)
    BY <1>2, <1>6, StepsFurther
  <2>2. FramesRead(next)
    BY <1>9
  <2> HIDE DEF next
  <2>3. CASE Gone(next)
    BY <1>1, <1>2, <2>3, PanicStep
  <2>4. f \in Frames /\ f.kind # "jitmap"
    BY <1>5, <1>9 DEF Told
  <2>5. CASE IsIndexFrame(next.frame[1]) /\ FramesPast(next)
    <3>1. Forward(next, s, t)
      BY <2>1, <2>5 DEF Further, FramesPast
    <3>2. next.frame[1] = f
      BY <3>1 DEF Forward
    <3>3. f \notin Copied /\ f.kind # "ctrdef"
      BY <2>5, <3>2 DEF Copied, IsIndexFrame
    <3> QED
      BY <1>1, <1>2, <1>3, <2>4, <2>5, <3>1, <3>3, FramesPastStep
  <2>6. CASE FramesAdd(next)
    <3>1. Forward(next, s, t)
      BY <2>1, <2>6 DEF Further, FramesAdd
    <3>2. next.frame[1] = f
      BY <3>1 DEF Forward
    <3>3. f \in Copied
      BY <2>4, <2>6, <3>2 DEF Copied, FramesAdd
    <3> QED
      BY <1>1, <1>2, <1>3, <2>4, <2>6, <3>1, <3>3, FramesAddStep
  <2> QED
    BY <2>2, <2>3, <2>5, <2>6 DEF FramesRead
<1>10. CASE Gone(Skip(peek.r))
  BY <1>1, <1>2, <1>10, PanicStep
<1> QED
  BY <1>1, <1>7, <1>8, <1>9, <1>10 DEF FramesCase

-----------------------------------------------------------------------------
(* The other steps of a join.                                               *)
LEMMA StartStep ==
  ASSUME Joining, CatStart
  PROVE  Joining'
<1>1. /\ rd # NoReader /\ cat.phase = "idle" /\ rest = <<>> /\ cat' = [phase |-> "names", table |-> Tables]
      /\ rd' = ResetOf(rd) /\ UNCHANGED <<file, rest, foreign, dest, added, want, joined>>
  BY DEF CatStart
<1>2. Safely /\ Settled /\ rd \in Readers
  BY <1>1 DEF Joining
<1>3. cat'.phase = "names" /\ cat'.table = [addr |-> {}, ctr |-> {}, event |-> {}] /\ Shaped'
  BY <1>1 DEF Tables, Shaped
<1>4. Safely'
  BY <1>1, <1>2, <1>3 DEF Safely, Env, FromCapture, Listed
<1>5. PICK t : Between(ResetOf(rd), <<>>, t)
  BY <1>2, StartOver DEF Safely
<1>6. Between(rd, <<>>, t)'
  BY <1>1, <1>5, BetweenKeeps
<1>7. Naming(cat'.table.addr, Names(<<>>), Entries(dest'))
  BY <1>3, NothingNamed DEF Naming
<1>8. NamesWalked(<<>>, t)'
  BY <1>6, <1>7 DEF NamesWalked
<1>9. \E x, y : NamesWalked(x, y)'
  BY <1>8
<1>10. Settled' /\ rest' = <<>>
  BY <1>1, <1>2 DEF Settled
<1> QED
  BY <1>3, <1>4, <1>9, <1>10 DEF Joining

LEMMA NextCapture ==
  ASSUME Env, rest = <<>>, FromCapture, joined \in Nat, NextInput
  PROVE  Env' /\ FromCapture'
<1>1. joined' = joined + 1 /\ rest' = rest /\ foreign' = foreign
  BY DEF NextInput
<1>2. CASE joined' > Len(Later)
  <2>1. file' = file
    BY <1>2 DEF NextInput
  <2> QED
    BY <1>1, <2>1 DEF Env, FromCapture
<1>3. CASE ~(joined' > Len(Later))
  <2>1. PICK c \in Later[joined'] : file' = CellsOf(c)
    BY <1>3 DEF NextInput
  <2>2. joined' \in 1 .. Len(Later)
    BY <1>1, <1>3, CatAssumption
  <2>3. c \in Captures
    BY <2>1, <2>2, CatAssumption
  <2>4. c \in Seq(Frames)
    BY <2>3, ReaderAssumption
  <2>5. CellsOf(c) \in Seq(FileCell)
    BY <2>4, CellsAre
  <2>6. CellsOf(c) \o <<>> = CellsOf(c)
    BY <2>5, ConcatEmpty
  <2> QED
    BY <1>1, <2>1, <2>3, <2>5, <2>6 DEF Env, FromCapture
<1> QED
  BY <1>2, <1>3

LEMMA NextStep ==
  ASSUME Joining, NextInput
  PROVE  Joining'
<1>1. /\ cat.phase = "done" /\ cat' = Idle /\ joined' = joined + 1
      /\ UNCHANGED <<rest, foreign, dest, added, want>>
  BY DEF NextInput
<1>2. Safely /\ Settled /\ rest = <<>> /\ joined \in Nat /\ rd \in Readers
  BY <1>1 DEF Joining, Safely
<1>3. cat'.phase = "idle" /\ Shaped'
  BY <1>1 DEF Idle, Tables, Shaped
<1>4. Env' /\ FromCapture'
  BY <1>2, NextCapture DEF Safely
<1>5. rd' \in Readers
  <2>1. rd' \in {rd, Fresh}
    BY DEF NextInput
  <2> QED
    BY <1>2, <2>1, FreshSane DEF Safely
<1>6. Safely'
  BY <1>1, <1>2, <1>3, <1>4 DEF Safely, Listed
<1>7. joined' # 0
  BY <1>1, <1>2
<1>8. Settled'
  BY <1>1, <1>2 DEF Settled
<1> QED
  BY <1>1, <1>3, <1>5, <1>6, <1>7, <1>8 DEF Joining

LEMMA UsedStep ==
  ASSUME Joining, UsedBefore
  PROVE  Joining'
<1>1. cat = Idle /\ joined = 0 /\ ReadNext /\ UNCHANGED catVars
  BY DEF UsedBefore
<1>2. cat.phase = "idle"
  BY <1>1 DEF Idle
<1>3. Safely /\ Settled /\ RInv /\ added = <<>> /\ want = <<>>
  BY <1>1, <1>2 DEF Joining
<1>4. RInv'
  BY <1>1, <1>3, ReadStepHolds
<1>5. Env' /\ rest' \in Seq(FileCell) /\ rd' \in Readers \cup {NoReader}
  BY <1>4 DEF RInv, IInv, TypeOK, Env
<1>6. FromCapture'
  BY <1>1, <1>3, ReadKeeps DEF Safely, Env
<1>7. cat' = cat /\ dest' = dest /\ added' = added /\ want' = want /\ joined' = joined
  BY <1>1 DEF catVars
<1>8. Safely' /\ Settled'
  BY <1>3, <1>5, <1>6, <1>7 DEF Safely, Settled, Shaped, Listed
<1> QED
  BY <1>1, <1>2, <1>3, <1>4, <1>5, <1>7, <1>8 DEF Joining

LEMMA StillStep ==
  ASSUME Joining, UNCHANGED allVars
  PROVE  Joining'
<1>1. UNCHANGED readVars /\ UNCHANGED catVars
  BY DEF allVars
<1>2. /\ file' = file /\ rest' = rest /\ foreign' = foreign /\ rd' = rd
      /\ cat' = cat /\ dest' = dest /\ added' = added /\ want' = want /\ joined' = joined
  BY <1>1 DEF readVars, vars, catVars
<1>3. RInv => RInv'
  BY <1>1, ReadStepHolds
<1>4. Safely => Safely'
  BY <1>2 DEF Safely, Env, FromCapture, Shaped, Listed
<1>5. \A s, t : Between(rd, s, t) => Between(rd, s, t)'
  BY <1>2, BetweenKeeps
<1>6. Whole' = Whole
  BY <1>2 DEF Whole
<1>7. \A s, t : NamesWalked(s, t) => NamesWalked(s, t)'
  BY <1>2, <1>5 DEF NamesWalked
<1>8. \A s, t, b, e : FramesWalked(s, t, b, e) => FramesWalked(s, t, b, e)'
  BY <1>2, <1>5, <1>6 DEF FramesWalked
<1>9. Settled => Settled'
  BY <1>2 DEF Settled
<1> QED
  BY <1>2, <1>3, <1>4, <1>7, <1>8, <1>9 DEF Joining

LEMMA ReadInitFrom == ReadInit => FromCapture
<1> SUFFICES ASSUME ReadInit PROVE FromCapture
  OBVIOUS
<1>1. PICK c \in Captures, all \in BOOLEAN :
        /\ file = IF all THEN CellsOf(c) ELSE <<>>
        /\ rest = IF all THEN <<>> ELSE CellsOf(c)
  BY DEF ReadInit, Init
<1>2. CellsOf(c) \in Seq(FileCell)
  BY ReaderAssumption, CellsAre
<1>3. CellsOf(c) \o <<>> = CellsOf(c) /\ <<>> \o CellsOf(c) = CellsOf(c)
  BY <1>2, ConcatEmpty
<1>4. file \o rest = CellsOf(c)
  <2>1. CASE all
    BY <1>1, <1>3, <2>1
  <2>2. CASE ~all
    BY <1>1, <1>3, <2>2
  <2> QED
    BY <2>1, <2>2
<1> QED
  BY <1>4 DEF FromCapture

LEMMA CatInitHolds == CatInit => CInv
<1> SUFFICES ASSUME CatInit PROVE Joining
  BY DEF CInv
<1>1. /\ ReadInit /\ cat = Idle /\ dest \in Writers /\ added = <<>> /\ want = <<>> /\ joined = 0
  BY DEF CatInit
<1>2. RInv
  BY <1>1, ReadInitHolds
<1>3. Env /\ rest \in Seq(FileCell) /\ rd \in Readers \cup {NoReader}
  BY <1>2 DEF RInv, IInv, TypeOK, Env
<1>4. FromCapture
  BY <1>1, ReadInitFrom
<1>5. Len(<<>>) = 0 /\ Listed(<<>>)
  BY DEF Listed
<1>6. WriterMade(dest)
  BY <1>1, CatAssumption
<1>7. Shaped /\ cat.phase = "idle"
  BY <1>1 DEF Shaped, Idle, Tables
<1>8. AllWithin(added, Len(added), dest.seq, dest.ctr, dest.event) /\ Kept(added, Entries(dest), want)
  <2>1. Len(added) = 0 /\ Len(want) = 0
    BY <1>1, <1>5
  <2> QED
    BY <2>1 DEF AllWithin, Kept
<1>9. Len(want) <= Len(added) /\ Settled /\ joined \in Nat
  BY <1>1, <1>5 DEF Settled
<1>10. Safely
  BY <1>1, <1>3, <1>4, <1>5, <1>6, <1>7, <1>8, <1>9 DEF Safely
<1> QED
  BY <1>1, <1>2, <1>3, <1>7, <1>9, <1>10 DEF Joining

LEMMA CatStepHolds ==
  ASSUME CInv, [UsedBefore \/ CatNext]_allVars
  PROVE  CInv'
<1>1. CASE ~Led
  <2>1. Joining
    BY <1>1 DEF CInv
  <2>2. Joining'
    BY <1>1, <2>1, UsedStep, StartStep, NamesStep, FramesStep, NextStep, StillStep DEF CatNext
  <2> QED
    BY <2>2 DEF CInv
<1>2. CASE Led
  <2>1. foreign' = foreign
    <3>1. CASE UNCHANGED allVars
      BY <3>1 DEF allVars, readVars, vars
    <3>2. CASE UsedBefore
      BY <3>2 DEF UsedBefore, ReadNext, Reading, Next, Grow, PeekType, SkipFrame, Reset, New, Read,
                  Call, Ask, List, Cursor
    <3>3. CASE CatNext
      BY <3>3 DEF CatNext, CatStart, CatNames, CatFrames, NextInput, Quiet
    <3> QED
      BY <3>1, <3>2, <3>3
  <2>2. Led'
    BY <1>2, <2>1 DEF Led
  <2> QED
    BY <2>2 DEF CInv
<1> QED
  BY <1>1, <1>2

LEMMA JoinMeans == CInv => SameMeaning
<1> SUFFICES ASSUME Joining, cat.phase = "done" PROVE Meanings(added, added, dest.written) = want
  BY DEF CInv, SameMeaning
<1>1. /\ Listed(added) /\ Listed(want) /\ Len(added) = Len(want) /\ dest.names = {}
      /\ Kept(added, Entries(dest), want)
  BY DEF Joining, Safely, Settled
<1>2. Entries(dest) = dest.written
  BY <1>1 DEF Entries
<1> DEFINE n == Len(want)
           M == dest.written
           mean == [k \in 1 .. n |-> Meaning(added[k], added, M)]
<1>3. DOMAIN added = 1 .. n
  BY <1>1, SetOf DEF Listed
<1>4. Meanings(added, added, M) = mean
  BY <1>3 DEF Meanings
<1>5. \A k \in 1 .. n : want[k] = Meaning(added[k], added, M)
  BY <1>1, <1>2 DEF Kept
<1>6. want = [k \in 1 .. n |-> want[k]]
  <2> DEFINE A == ToSet(want)
  <2>1. want \in Seq(A)
    BY <1>1 DEF Listed
  <2> HIDE DEF A
  <2> QED
    BY <2>1
<1> HIDE DEF n, M
<1>7. want = mean
  BY <1>5, <1>6
<1> QED
  BY <1>4, <1>7 DEF M

-----------------------------------------------------------------------------
(* What the reader of a join says.  Nobody else calls it from the time its  *)
(* capture is joined.                                                       *)
Hushed == got = <<>> /\ peeked = "none" /\ ~ended /\ answer = NoAnswer
Marked(c) == {"phase", "table"} \subseteq DOMAIN c
KInv ==
  /\ Env /\ rest \in Seq(FileCell) /\ FromCapture /\ joined \in Nat /\ Marked(cat)
  /\ cat.phase # "idle" => rest = <<>>
  /\ IF cat.phase = "idle" /\ joined = 0 THEN RInv ELSE Hushed

LEMMA CatInitSays == CatInit => KInv
<1> SUFFICES ASSUME CatInit PROVE KInv
  OBVIOUS
<1>1. ReadInit /\ cat.phase = "idle" /\ joined = 0 /\ Marked(cat)
  BY DEF CatInit, Idle, Marked
<1>2. RInv /\ FromCapture
  BY <1>1, ReadInitHolds, ReadInitFrom
<1>3. Env /\ rest \in Seq(FileCell)
  BY <1>2 DEF RInv, IInv, TypeOK, Env
<1> QED
  BY <1>1, <1>2, <1>3 DEF KInv

LEMMA NextFrom ==
  ASSUME KInv, NextInput
  PROVE  KInv'
<1>1. /\ cat.phase = "done" /\ joined' = joined + 1 /\ rest' = rest /\ foreign' = foreign
      /\ cat' = Idle /\ got' = got /\ peeked' = peeked /\ ended' = ended /\ answer' = answer
  BY DEF NextInput
<1>2. Env /\ rest = <<>> /\ rest \in Seq(FileCell) /\ FromCapture /\ joined \in Nat /\ Hushed
  BY <1>1 DEF KInv
<1>3. joined' \in Nat /\ joined' # 0 /\ Hushed' /\ Marked(cat') /\ cat'.phase = "idle"
  BY <1>1, <1>2 DEF Hushed, Marked, Idle
<1>4. Env' /\ FromCapture'
  BY <1>2, NextCapture
<1> QED
  BY <1>1, <1>2, <1>3, <1>4 DEF KInv

LEMMA WalkGoesOn ==
  ASSUME Marked(cat), CatNames \/ CatFrames
  PROVE  cat'.phase # "idle" /\ Marked(cat')
<1>1. CASE CatNames
  <2>1. cat.phase = "names" /\ NamesCase(PeekFrame(rd))
    BY <1>1, NamesCases
  <2>2. \/ \E x : cat' = [cat EXCEPT !.table.addr = x]
        \/ \E p \in {"frames", "panic"} : cat' = [cat EXCEPT !.phase = p]
    BY <2>1 DEF NamesCase, NamesEnd, Gone, NamesTaken, NamesLeft
  <2> QED
    BY <2>1, <2>2 DEF Marked
<1>2. CASE CatFrames
  <2>1. cat.phase = "frames" /\ FramesCase(PeekFrame(rd))
    BY <1>2, FramesCases
  <2>2. \/ cat' = cat
        \/ \E x : cat' = [cat EXCEPT !.table = x]
        \/ \E p \in {"done", "panic"} : cat' = [cat EXCEPT !.phase = p]
    BY <2>1 DEF FramesCase, FramesEnd, FramesRead, FramesPast, FramesAdd, Gone
  <2> QED
    BY <2>1, <2>2 DEF Marked
<1> QED
  BY <1>1, <1>2

LEMMA SaysStep ==
  ASSUME KInv, [UsedBefore \/ CatNext]_allVars
  PROVE  KInv'
<1>1. CASE UNCHANGED allVars
  <2>1. UNCHANGED readVars /\ UNCHANGED catVars
    BY <1>1 DEF allVars
  <2>2. /\ file' = file /\ rest' = rest /\ foreign' = foreign /\ got' = got /\ peeked' = peeked
        /\ ended' = ended /\ answer' = answer /\ cat' = cat /\ joined' = joined
    BY <2>1 DEF readVars, vars, catVars
  <2>3. RInv => RInv'
    BY <2>1, ReadStepHolds
  <2> QED
    BY <2>2, <2>3 DEF KInv, Env, FromCapture, Hushed
<1>2. CASE UsedBefore
  <2>1. cat = Idle /\ joined = 0 /\ ReadNext /\ cat' = cat /\ joined' = joined
    BY <1>2 DEF UsedBefore, catVars
  <2>2. cat.phase = "idle" /\ cat'.phase = "idle"
    BY <2>1 DEF Idle
  <2>3. Marked(cat) /\ RInv /\ Env /\ FromCapture /\ rest \in Seq(FileCell) /\ joined \in Nat
    BY <2>1, <2>2 DEF KInv
  <2>4. RInv'
    BY <2>1, <2>3, ReadStepHolds
  <2>5. Env' /\ rest' \in Seq(FileCell)
    BY <2>4 DEF RInv, IInv, TypeOK, Env
  <2>6. FromCapture'
    BY <2>1, <2>3, ReadKeeps DEF Env
  <2> QED
    BY <2>1, <2>2, <2>3, <2>4, <2>5, <2>6 DEF KInv
<1>3. CASE CatStart
  <2>1. /\ rest = <<>> /\ cat'.phase = "names" /\ Marked(cat') /\ Hushed'
        /\ file' = file /\ rest' = rest /\ foreign' = foreign /\ joined' = joined
    BY <1>3 DEF CatStart, Hushed, Marked
  <2> QED
    BY <2>1 DEF KInv, Env, FromCapture
<1>4. CASE CatNames \/ CatFrames
  <2>1. cat.phase # "idle" /\ Quiet
    BY <1>4, NamesCases, FramesCases
  <2>2. cat'.phase # "idle" /\ Marked(cat')
    BY <1>4, WalkGoesOn DEF KInv
  <2> QED
    BY <2>1, <2>2 DEF KInv, Env, FromCapture, Quiet, Hushed
<1>5. CASE NextInput
  BY <1>5, NextFrom
<1> QED
  BY <1>1, <1>2, <1>3, <1>4, <1>5 DEF CatNext

LEMMA KeptSilent == KInv => WalkInOrder /\ AnswersAsWalk
<1>1. ASSUME RInv PROVE WalkInOrder /\ AnswersAsWalk
  BY <1>1, InOrder DEF RInv
<1>2. ASSUME KInv, Hushed PROVE WalkInOrder /\ AnswersAsWalk
  <2>1. PICK c \in Captures : file \o rest = CellsOf(c)
    BY <1>2 DEF KInv, FromCapture
  <2>2. c \in Seq(Frames) /\ <<>> \in Seq(Frames) /\ Len(<<>>) = 0 /\ file \in Seq(FileCell)
    BY <1>2, ReaderAssumption DEF KInv, Env
  <2>3. <<>> \o c = c /\ Len(file) \in Nat
    BY <2>2, ConcatEmpty
  <2>4. Split(file, rest, <<>>, c)
    BY <1>2, <2>1, <2>2, <2>3, CellsNone DEF Split, KInv
  <2>5. IsPrefix(<<>>, Whole)
    BY <2>4, PrefixWhole DEF Whole
  <2> QED
    BY <1>2, <2>5 DEF Hushed, WalkInOrder, AnswersAsWalk
<1> QED
  BY <1>1, <1>2 DEF KInv

-----------------------------------------------------------------------------
(* Theorems.                                                                *)

(* The reader stands behind the frames that it has, at the one that is due, *)
(* and the window is what the file has there.                               *)
THEOREM Invariance == Spec => []IInv
BY InitHolds, StepHolds, PTL DEF Spec

(* The window of every reader is of cells of the file, no more than the     *)
(* buffer holds, and its position is in it, but where a read of a file of   *)
(* the other byte order failed, which gives back a jitmap by any length.    *)
THEOREM TypeCorrect == Spec => []TypeOK
<1>1. IInv => TypeOK
  BY DEF IInv
<1> QED
  BY <1>1, Invariance, PTL

(* Whatever is called, and however the file grows: frames come in the order *)
(* of the file, each once, and a walk that ends has had all that there are. *)
THEOREM WalkCorrect == Spec => []WalkInOrder
BY InOrder, Invariance, PTL

(* However much was read of it before, a reader that is asked stands as one *)
(* that is reset, and has answered right.                                   *)
THEOREM AskedInvariance == ReadSpec => []RInv
BY ReadInitHolds, ReadStepHolds, PTL DEF ReadSpec

(* The same of a reader that is asked between other calls, and of one that  *)
(* cursors are made of.                                                     *)
THEOREM AskedWalkCorrect == ReadSpec => []WalkInOrder
<1>1. RInv => WalkInOrder
  BY InOrder DEF RInv
<1> QED
  BY <1>1, AskedInvariance, PTL

(* In a file of this machine: where embedded files are, which there are and *)
(* what is in them, and the frames that a cursor gives, are told as a walk  *)
(* over the frames of the file would find them.                             *)
THEOREM AnswersCorrect == ReadSpec => []AnswersAsWalk
<1>1. RInv => AnswersAsWalk
  BY DEF RInv
<1> QED
  BY <1>1, AskedInvariance, PTL

(* Between the steps of a join the reader stands between two frames, and    *)
(* the tables lead from the identifiers that the frames before define to    *)
(* new ones, to which the frames that were there do not refer.              *)
THEOREM JoinInvariance == CatSpec => []CInv
BY CatInitHolds, CatStepHolds, PTL DEF CatSpec

(* The frames of a joined capture mean what they meant, whoever used the    *)
(* reader of the first capture before, whatever names and identifiers the   *)
(* writer already had, and whatever the captures have in common; in a file  *)
(* of the other byte order, unless the length of counters is read as        *)
(* another one.                                                             *)
THEOREM JoinCorrect == CatSpec => []SameMeaning
BY JoinInvariance, JoinMeans, PTL

(* Walks and answers are as they should be before the joins and between.    *)
THEOREM JoinedWalkCorrect == CatSpec => [](WalkInOrder /\ AnswersAsWalk)
BY CatInitSays, SaysStep, KeptSilent, PTL DEF CatSpec
=============================================================================
