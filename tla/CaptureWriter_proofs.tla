------------------------ MODULE CaptureWriter_proofs ------------------------
(***************************************************************************)
(* What module CaptureWriter claims of the writer, proved for buffers,     *)
(* tables and intervals of any size, any frames, any files to splice and   *)
(* any number of writes that fail anywhere.                                *)
(*                                                                         *)
(* The functions of the writer are sets of outcomes.  Each lemma takes one *)
(* of them from an outcome that is Good to those that it leads to.         *)
(***************************************************************************)
EXTENDS CaptureWriter, CaptureFile_proofs

Entry == Names \X Nat
Lengths == {n \in Nat \ {0} : Units(n)}
OwnFrames == [kind : {"data"}, id : Nat, len : Lengths]
               \cup [kind : {"index"}, prev : Nat, len : {HeadLen}]
               \cup [kind : {"jitmap"}, defs : SUBSET Entry, len : Lengths]
AnyCell == [frame : OwnFrames, off : Nat] \cup CellsIn(Sources)
Content == Seq(AnyCell)

States ==
  [w : [buf : Content, jit : SUBSET Entry, seq : Nat, last : Nat, since : Nat],
   disk : [cells : Content, last_index : Nat], faults : Nat, ok : BOOLEAN]

TypeOK ==
  /\ Now \in States
  /\ saved \in Seq(AnyCell \cup CellsIn(Saved))
  /\ added \in Seq(OwnFrames \cup FramesIn(Sources))
  /\ given \in SUBSET Entry /\ spliced \in Sources \cup {<<>>}

(* The chain the writer goes on with, and the one that the header of the    *)
(* file begins: they end, and all that is on them is an index frame.        *)
Chained(s) ==
  \E places \in SUBSET Nat :
    /\ Linked(s.disk.cells, places)
    /\ s.w.last \in places \cup {0} /\ s.disk.last_index \in places \cup {0}

Good(s) ==
  /\ s \in States /\ Chained(s)
  /\ s.disk.last_index <= s.w.last
  /\ IsFiniteSet(s.w.jit)
  /\ Len(s.w.buf) <= BufLen
  /\ s.w.since <= Interval
  /\ \A entry \in s.w.jit : entry[2] <= s.w.seq

(* What is in the file stays there, and a name in the table until it is in  *)
(* the file.                                                                *)
Longer(s, t) ==
  /\ Len(s.disk.cells) <= Len(t.disk.cells)
  /\ \A i \in 1 .. Len(s.disk.cells) : t.disk.cells[i] = s.disk.cells[i]
InFile(s, entry) ==
  \E i \in 1 .. Len(s.disk.cells) :
    LET f == s.disk.cells[i].frame IN f.kind = "jitmap" /\ entry \in f.defs
Grown(s, t) ==
  /\ Longer(s, t)
  /\ \A entry \in s.w.jit : entry \in t.w.jit \/ InFile(t, entry)

(* The addresses given are those of the sequence so far, and every one is   *)
(* in the table, or with the table in the file.                             *)
Found(s) == \A entry \in given : entry \in s.w.jit \/ InFile(s, entry)
Given == AddressesDiffer /\ Found(Now) /\ \A entry \in given : entry[2] <= w.seq

IInv == TypeOK /\ Good(Now) /\ Given

-----------------------------------------------------------------------------
(* Cells.                                                                   *)

LEMMA SeqWider ==
  ASSUME NEW S, NEW T, NEW s \in Seq(S)
  PROVE  s \in Seq(S \cup T) /\ s \in Seq(T \cup S)
OBVIOUS

LEMMA CellsType ==
  ASSUME NEW f \in OwnFrames
  PROVE  /\ Cells(f) \in Content /\ Len(Cells(f)) = f.len /\ f.len \in Nat \ {0}
         /\ Units(f.len)
<1>1. f.len \in Nat \ {0} /\ Units(f.len)
  BY WriterAssumption DEF OwnFrames, Lengths
<1>2. \A i \in 1 .. f.len : [frame |-> f, off |-> i - 1] \in AnyCell
  BY <1>1 DEF AnyCell
<1>3. Cells(f) \in [1 .. f.len -> AnyCell]
  BY <1>2 DEF Cells
<1> QED
  BY <1>1, <1>3 DEF Content

LEMMA PartType ==
  ASSUME NEW cells \in Content, NEW n \in 0 .. Len(cells)
  PROVE  SubSeq(cells, 1, n) \in Content /\ Len(SubSeq(cells, 1, n)) = n
BY DEF Content

LEMMA WholePart ==
  ASSUME NEW cells \in Content
  PROVE  SubSeq(cells, 1, Len(cells)) = cells
BY DEF Content

LEMMA Behind ==
  ASSUME NEW a \in Content, NEW b \in Content
  PROVE  /\ a \o b \in Content /\ Len(a) \in Nat /\ Len(b) \in Nat
         /\ Len(a \o b) = Len(a) + Len(b)
         /\ \A i \in 1 .. Len(a) : (a \o b)[i] = a[i]
         /\ \A i \in 1 .. Len(b) : (a \o b)[Len(a) + i] = b[i]
BY ConcatProperties, LenProperties DEF Content

(* Lengths that are aligned.                                                *)
LEMMA UnitsSum ==
  ASSUME NEW a \in Nat, NEW b \in Nat, Units(a), Units(b)
  PROVE  Units(a + b)
<1>1. PICK k \in 0 .. a : a = k * Align
  BY DEF Units
<1>2. PICK j \in 0 .. b : b = j * Align
  BY DEF Units
<1>3. (k + j) * Align = a + b /\ k + j \in 0 .. a + b
  BY <1>1, <1>2, AlignAssumption
<1> QED
  BY <1>3 DEF Units

LEMMA UnitsTimes ==
  ASSUME NEW k \in Nat
  PROVE  Units(k * Align) /\ k * Align \in Nat
<1>1. k \in 0 .. k * Align /\ k * Align \in Nat
  BY AlignAssumption
<1> QED
  BY <1>1 DEF Units

(* The frame of a table.                                                    *)
LEMMA JitmapOwn ==
  ASSUME NEW jit \in SUBSET Entry, IsFiniteSet(jit)
  PROVE  /\ Jitmap(jit) \in OwnFrames /\ Jitmap(jit).kind = "jitmap"
         /\ Jitmap(jit).defs = jit
<1> DEFINE n == Cardinality(jit)
           len == HeadLen + n * Align
<1>1. n \in Nat
  BY FS_CardinalityType
<1> HIDE DEF n
<1>2. n * Align \in Nat /\ Units(n * Align) /\ HeadLen \in Nat \ {0} /\ Units(HeadLen)
  BY <1>1, UnitsTimes, WriterAssumption
<1>3. len \in Nat \ {0} /\ Units(len)
  <2> DEFINE names == n * Align
  <2>1. names \in Nat /\ Units(names)
    BY <1>2
  <2> HIDE DEF names
  <2>2. HeadLen + names \in Nat \ {0} /\ Units(HeadLen + names)
    BY <1>2, <2>1, UnitsSum
  <2> QED
    BY <2>2 DEF names
<1>4. Jitmap(jit) = [kind |-> "jitmap", defs |-> jit, len |-> len]
  BY DEF Jitmap, n
<1> HIDE DEF len
<1> QED
  BY <1>3, <1>4 DEF OwnFrames, Lengths

(* Writing behind the file leaves the chain alone.                          *)
LEMMA LinkedKept ==
  ASSUME NEW cells \in Content, NEW more \in Content,
         NEW places \in SUBSET Nat, Linked(cells, places)
  PROVE  Linked(cells \o more, places)
<1> SUFFICES ASSUME NEW pos \in places
             PROVE  /\ IsIndex(cells \o more, pos)
                    /\ At(cells \o more, pos) = At(cells, pos)
  BY DEF Linked
<1>1. IsIndex(cells, pos)
  BY DEF Linked
<1> QED
  BY <1>1, IndexKept DEF Content

(* An index frame behind a file that has ended so far: from there one gets  *)
(* to where the writer was before.                                          *)
LEMMA LinkedIndex ==
  ASSUME NEW cells \in Content, NEW places \in SUBSET Nat, Linked(cells, places),
         NEW last \in places \cup {0}
  PROVE  LET pos == Bytes(cells)
         IN  Linked(cells \o Cells(Index(last)), places \cup {pos})
<1> DEFINE more == Cells(Index(last))
           pos == Bytes(cells)
<1>1. /\ last \in Nat /\ Index(last) \in OwnFrames /\ Index(last).len = HeadLen
      /\ HeadLen \in Nat \ {0}
  BY WriterAssumption DEF Index, OwnFrames
<1>2. more \in Content /\ Len(more) = HeadLen /\ more[1] = [frame |-> Index(last), off |-> 0]
  <2>1. more \in Content /\ Len(more) = HeadLen
    BY <1>1, CellsType
  <2>2. more[1] = [frame |-> Index(last), off |-> 0]
    BY <1>1 DEF Cells
  <2> QED
    BY <2>1, <2>2
<1>3. Len(cells) \in Nat /\ pos = Len(cells) + 1
  BY DEF Content, Bytes, Header
<1>4. /\ Bytes(cells \o more) = pos + HeadLen
      /\ At(cells \o more, pos) = [frame |-> Index(last), off |-> 0]
  <2> HIDE DEF more
  <2>1. /\ Len(cells \o more) = Len(cells) + HeadLen
        /\ (cells \o more)[Len(cells) + 1] = more[1]
    <3>1. /\ Len(cells \o more) = Len(cells) + Len(more)
          /\ \A i \in 1 .. Len(more) : (cells \o more)[Len(cells) + i] = more[i]
      BY <1>2, Behind
    <3>2. 1 \in 1 .. Len(more)
      BY <1>1, <1>2
    <3> QED
      BY <3>1, <3>2, <1>2
  <2> QED
    BY <2>1, <1>1, <1>2, <1>3 DEF Bytes, Header, At
<1>5. last < pos
  <2>1. CASE last = 0
    BY <2>1, <1>3
  <2>2. CASE last \in places
    BY <2>2, <1>1, <1>3 DEF Linked, IsIndex, Header
  <2> QED
    BY <2>1, <2>2
<1>6. IsIndex(cells \o more, pos)
  BY <1>1, <1>3, <1>4 DEF IsIndex, FrameAt, Header, Index
<1>7. Linked(cells \o more, places)
  BY <1>2, LinkedKept
<1>8. At(cells \o more, pos).frame.prev = last
  BY <1>4 DEF Index
<1> HIDE DEF more, pos
<1>9. Linked(cells \o more, places \cup {pos})
  BY <1>5, <1>6, <1>7, <1>8 DEF Linked
<1> QED
  BY <1>9 DEF more, pos

-----------------------------------------------------------------------------
(* The file.                                                                *)

LEMMA FoundLonger ==
  ASSUME NEW s \in States, NEW t \in States, Longer(s, t), NEW entry, InFile(s, entry)
  PROVE  InFile(t, entry)
<1>1. Len(s.disk.cells) \in Nat /\ Len(t.disk.cells) \in Nat
  BY LenProperties DEF States, Content
<1>2. PICK i \in 1 .. Len(s.disk.cells) :
        s.disk.cells[i].frame.kind = "jitmap" /\ entry \in s.disk.cells[i].frame.defs
  BY DEF InFile
<1>3. i \in 1 .. Len(t.disk.cells) /\ t.disk.cells[i] = s.disk.cells[i]
  BY <1>1 DEF Longer
<1> QED
  BY <1>2, <1>3 DEF InFile

LEMMA GrownTrans ==
  ASSUME NEW s \in States, NEW t \in States, NEW u \in States, Grown(s, t), Grown(t, u)
  PROVE  Grown(s, u)
<1>1. Len(s.disk.cells) \in Nat /\ Len(t.disk.cells) \in Nat /\ Len(u.disk.cells) \in Nat
  BY LenProperties DEF States, Content
<1>2. Longer(s, t) /\ Longer(t, u)
  BY DEF Grown
<1>3. Longer(s, u)
  <2>1. ASSUME NEW i \in 1 .. Len(s.disk.cells)
        PROVE  u.disk.cells[i] = s.disk.cells[i]
    <3>1. i \in 1 .. Len(t.disk.cells) /\ t.disk.cells[i] = s.disk.cells[i]
      BY <1>1, <1>2 DEF Longer
    <3> QED
      BY <3>1, <1>2 DEF Longer
  <2>2. Len(s.disk.cells) <= Len(u.disk.cells)
    BY <1>1, <1>2 DEF Longer
  <2> QED
    BY <2>1, <2>2 DEF Longer
<1>4. \A entry \in s.w.jit : entry \in u.w.jit \/ InFile(u, entry)
  BY <1>2, FoundLonger DEF Grown
<1> QED
  BY <1>3, <1>4 DEF Grown

LEMMA GrownSame ==
  ASSUME NEW s \in States, NEW t, t.disk.cells = s.disk.cells, t.w.jit = s.w.jit
  PROVE  Grown(s, t)
<1>1. Len(s.disk.cells) \in Nat
  BY LenProperties DEF States, Content
<1> QED
  BY <1>1 DEF Grown, Longer

(* A call that leaves file and table as they are changes nothing here.      *)
LEMMA GrownThen ==
  ASSUME NEW s \in States, NEW t \in States, NEW u,
         Grown(s, t), u.disk.cells = t.disk.cells, u.w.jit = t.w.jit
  PROVE  Grown(s, u)
BY DEF Grown, Longer, InFile

(* write() changes the file, and what it says of itself.                    *)
LEMMA WriteFields ==
  ASSUME NEW s \in States, NEW cells \in Content, NEW t \in Write(s, cells)
  PROVE  /\ t \in States /\ t.w = s.w /\ t.disk.last_index = s.disk.last_index
         /\ \E n \in 0 .. Len(cells) :
              /\ t.disk.cells = s.disk.cells \o SubSeq(cells, 1, n)
              /\ t.ok <=> n = Len(cells)
<1>1. Len(cells) \in Nat /\ Len(cells) \in 0 .. Len(cells)
  BY DEF Content
<1>2. PICK n \in 0 .. Len(cells) :
        t = [s EXCEPT !.disk.cells = @ \o SubSeq(cells, 1, n),
                      !.ok = n = Len(cells),
                      !.faults = IF n = Len(cells) THEN @ ELSE @ + 1]
  BY <1>1 DEF Write
<1>3. SubSeq(cells, 1, n) \in Content
  BY PartType
<1>4. s.disk.cells \o SubSeq(cells, 1, n) \in Content
  BY <1>3 DEF States, Content
<1>5. /\ t.w = s.w /\ t.disk.last_index = s.disk.last_index
      /\ t.disk.cells = s.disk.cells \o SubSeq(cells, 1, n)
      /\ t.ok <=> n = Len(cells)
  BY <1>2 DEF States
<1>6. t \in States
  <2>1. (n = Len(cells)) \in BOOLEAN /\ (IF n = Len(cells) THEN s.faults ELSE s.faults + 1) \in Nat
    BY DEF States
  <2> QED
    BY <1>2, <1>4, <2>1 DEF States
<1> QED
  BY <1>5, <1>6

LEMMA WriteGood ==
  ASSUME NEW s, Good(s), NEW cells \in Content, NEW t \in Write(s, cells)
  PROVE  Good(t) /\ Grown(s, t) /\ t.w = s.w /\ (t.ok => t.disk.cells = s.disk.cells \o cells)
<1>1. s \in States
  BY DEF Good
<1>2. /\ t \in States /\ t.w = s.w /\ t.disk.last_index = s.disk.last_index
  BY <1>1, WriteFields
<1>3. PICK n \in 0 .. Len(cells) :
        /\ t.disk.cells = s.disk.cells \o SubSeq(cells, 1, n)
        /\ t.ok <=> n = Len(cells)
  BY <1>1, WriteFields
<1>4. SubSeq(cells, 1, n) \in Content /\ s.disk.cells \in Content
  BY <1>1, PartType DEF States
<1>5. Grown(s, t)
  <2> DEFINE part == SubSeq(cells, 1, n)
  <2>1. part \in Content
    BY <1>4
  <2>2. t.disk.cells = s.disk.cells \o part
    BY <1>3
  <2> HIDE DEF part
  <2>3. /\ Len(s.disk.cells \o part) = Len(s.disk.cells) + Len(part)
        /\ Len(s.disk.cells) \in Nat /\ Len(part) \in Nat
        /\ \A i \in 1 .. Len(s.disk.cells) : (s.disk.cells \o part)[i] = s.disk.cells[i]
    BY <2>1, <1>4, Behind
  <2> QED
    BY <1>2, <2>2, <2>3 DEF Grown, Longer
<1>6. Chained(t)
  BY <1>2, <1>3, <1>4, LinkedKept DEF Good, Chained
<1>7. t.ok => t.disk.cells = s.disk.cells \o cells
  BY <1>3, WholePart
<1> QED
  BY <1>2, <1>5, <1>6, <1>7 DEF Good

LEMMA FlushDataGood ==
  ASSUME NEW s, Good(s), NEW t \in FlushData(s)
  PROVE  /\ Good(t) /\ Grown(s, t)
         /\ t.w.jit = s.w.jit /\ t.w.seq = s.w.seq /\ t.w.last = s.w.last
         /\ t.w.since = s.w.since /\ t.disk.last_index = s.disk.last_index
         /\ t.ok => Len(t.w.buf) = 0
<1>1. s \in States /\ s.w.buf \in Content
  BY DEF Good, States
<1>2. PICK u \in Write(s, s.w.buf) : t = IF u.ok THEN [u EXCEPT !.w.buf = <<>>] ELSE u
  BY DEF FlushData
<1>3. Good(u) /\ Grown(s, u) /\ u.w = s.w /\ u \in States /\ u.disk.last_index = s.disk.last_index
  BY <1>1, <1>2, WriteGood, WriteFields
<1>4. <<>> \in Content /\ Len(<<>>) = 0
  BY DEF Content
<1>5. CASE u.ok
  <2>1. t = [u EXCEPT !.w.buf = <<>>]
    BY <1>2, <1>5
  <2>2. /\ t \in States /\ t.disk = u.disk /\ t.w.buf = <<>>
        /\ t.w.jit = u.w.jit /\ t.w.seq = u.w.seq /\ t.w.last = u.w.last /\ t.w.since = u.w.since
    BY <1>3, <1>4, <2>1 DEF States
  <2>3. Good(t)
    BY <1>3, <1>4, <2>2, WriterAssumption DEF Good, Chained
  <2> QED
    BY <1>1, <1>3, <1>4, <2>2, <2>3, GrownThen
<1>6. CASE ~u.ok
  <2>1. t = u
    BY <1>2, <1>6
  <2> QED
    BY <1>3, <1>6, <2>1
<1> QED
  BY <1>5, <1>6

LEMMA UpdateGood ==
  ASSUME NEW s, Good(s), NEW t \in UpdateFrameIndex(s)
  PROVE  Good(t) /\ t.w = s.w /\ t.disk.cells = s.disk.cells
<1>1. s \in States
  BY DEF Good
<1>2. CASE t = [s EXCEPT !.disk.last_index = s.w.last]
  <2>1. /\ t \in States /\ t.w = s.w /\ t.disk.cells = s.disk.cells
        /\ t.disk.last_index = s.w.last /\ s.w.last \in Nat
    BY <1>1, <1>2 DEF States
  <2>2. Chained(t)
    BY <2>1 DEF Good, Chained
  <2> QED
    BY <2>1, <2>2 DEF Good
<1>3. CASE t = [s EXCEPT !.faults = @ + 1]
  <2>1. t \in States /\ t.w = s.w /\ t.disk = s.disk
    BY <1>1, <1>3 DEF States
  <2> QED
    BY <2>1 DEF Good, Chained
<1> QED
  BY <1>2, <1>3 DEF UpdateFrameIndex

(* The index frame is in the file, and the writer goes on from it.          *)
Indexed(t) == [t EXCEPT !.w.last = Bytes(t.disk.cells) - HeadLen, !.w.since = 0]
LEMMA IndexGood ==
  ASSUME NEW s, Good(s), NEW t, Good(t), t.w = s.w, t.disk.last_index = s.disk.last_index,
         t.disk.cells = s.disk.cells \o Cells(Index(s.w.last))
  PROVE  /\ Good(Indexed(t)) /\ Indexed(t).disk = t.disk
         /\ Indexed(t).w.jit = s.w.jit /\ Indexed(t).w.seq = s.w.seq
         /\ Indexed(t).w.since = 0
<1> DEFINE u == Indexed(t)
           pos == Bytes(s.disk.cells)
<1>1. /\ s \in States /\ t \in States /\ s.w.last \in Nat /\ s.disk.cells \in Content
      /\ s.disk.last_index \in Nat
  BY DEF Good, States
<1>2. /\ Index(s.w.last) \in OwnFrames /\ Index(s.w.last).len = HeadLen
      /\ HeadLen \in Nat \ {0}
  BY <1>1, WriterAssumption DEF Index, OwnFrames
<1>3. Cells(Index(s.w.last)) \in Content /\ Len(Cells(Index(s.w.last))) = HeadLen
  BY <1>2, CellsType
<1>4. Len(s.disk.cells) \in Nat /\ Len(t.disk.cells) = Len(s.disk.cells) + HeadLen
  <2> DEFINE more == Cells(Index(s.w.last))
  <2>1. more \in Content /\ Len(more) = HeadLen /\ t.disk.cells = s.disk.cells \o more
    BY <1>3
  <2> HIDE DEF more
  <2>2. /\ Len(s.disk.cells \o more) = Len(s.disk.cells) + Len(more)
        /\ Len(s.disk.cells) \in Nat
    BY <1>1, <2>1, Behind
  <2> QED
    BY <2>1, <2>2
<1>5. Bytes(t.disk.cells) - HeadLen = pos /\ pos \in Nat /\ pos = Len(s.disk.cells) + 1
  BY <1>2, <1>4 DEF Bytes, Header
<1> HIDE DEF pos
<1>6. /\ u \in States /\ u.disk = t.disk /\ u.w.last = pos
      /\ u.w.jit = s.w.jit /\ u.w.buf = s.w.buf /\ u.w.seq = s.w.seq /\ u.w.since = 0
  BY <1>1, <1>5 DEF States, Indexed
<1> HIDE DEF u
<1>7. PICK places \in SUBSET Nat :
        /\ Linked(s.disk.cells, places)
        /\ s.w.last \in places \cup {0} /\ s.disk.last_index \in places \cup {0}
  BY DEF Good, Chained
<1>8. Linked(t.disk.cells, places \cup {pos})
  BY <1>1, <1>7, LinkedIndex DEF pos
<1>9. Chained(u)
  <2>1. places \cup {pos} \in SUBSET Nat
    BY <1>5
  <2>2. /\ Linked(u.disk.cells, places \cup {pos}) /\ u.w.last \in (places \cup {pos}) \cup {0}
        /\ u.disk.last_index \in (places \cup {pos}) \cup {0}
    BY <1>6, <1>7, <1>8
  <2> QED
    BY <2>1, <2>2 DEF Chained
<1>10. s.w.last < pos
  <2>1. CASE s.w.last = 0
    BY <2>1, <1>4, <1>5
  <2>2. CASE s.w.last \in places
    <3>1. s.w.last \in Header .. Bytes(s.disk.cells) - 1
      BY <2>2, <1>7 DEF Linked, IsIndex
    <3>2. s.w.last \in 1 .. pos - 1
      BY <3>1 DEF Header, pos
    <3> QED
      BY <3>2, <1>5
  <2> QED
    BY <2>1, <2>2, <1>7
<1>11. u.disk.last_index <= u.w.last
  BY <1>1, <1>5, <1>6, <1>10 DEF Good
<1>12. u.w.since <= Interval
  BY <1>6, WriterAssumption
<1>13. Good(u)
  BY <1>6, <1>9, <1>11, <1>12 DEF Good
<1> QED
  BY <1>6, <1>13 DEF u

LEMMA WriteFrameIndexGood ==
  ASSUME NEW s, Good(s), NEW force \in BOOLEAN, NEW t \in WriteFrameIndex(s, force)
  PROVE  /\ Good(t) /\ Grown(s, t)
         /\ t.w.jit = s.w.jit /\ t.w.seq = s.w.seq
         /\ t.ok => t.w.since < Interval
<1> DEFINE written(x) == Write(x, Cells(Index(x.w.last)))
           noted(x) == UpdateFrameIndex(
                         [x EXCEPT !.w.last = Bytes(x.disk.cells) - HeadLen, !.w.since = 0])
<1>1. s \in States /\ s.w.since \in Nat /\ Interval \in Nat /\ 0 < Interval
  BY WriterAssumption DEF Good, States
<1>2. CASE s.w.since = 0 \/ (~force /\ s.w.since < Interval)
  <2>1. t = s
    BY <1>2 DEF WriteFrameIndex
  <2> QED
    BY <1>1, <1>2, <2>1, GrownSame
<1>3. CASE ~(s.w.since = 0 \/ (~force /\ s.w.since < Interval))
  <2>1. t \in Then(Then(FlushData(s), written), noted)
    BY <1>3 DEF WriteFrameIndex
  <2>2. PICK v \in Then(FlushData(s), written) : t \in (IF v.ok THEN noted(v) ELSE {v})
    BY <2>1 DEF Then
  <2>3. PICK u \in FlushData(s) : v \in (IF u.ok THEN written(u) ELSE {u})
    BY <2>2 DEF Then
  <2>4. /\ Good(u) /\ Grown(s, u) /\ u \in States
        /\ u.w.jit = s.w.jit /\ u.w.seq = s.w.seq
    BY <2>3, FlushDataGood DEF Good
  <2>5. CASE ~u.ok
    <3>1. v = u /\ t = u
      BY <2>2, <2>3, <2>5
    <3> QED
      BY <2>4, <2>5, <3>1
  <2>6. CASE u.ok
    <3>1. Index(u.w.last) \in OwnFrames
      BY <2>4 DEF Index, OwnFrames, States
    <3>2. Cells(Index(u.w.last)) \in Content
      BY <3>1, CellsType
    <3>3. v \in Write(u, Cells(Index(u.w.last)))
      BY <2>3, <2>6
    <3>4. /\ Good(v) /\ Grown(u, v) /\ v.w = u.w /\ v \in States
          /\ v.ok => v.disk.cells = u.disk.cells \o Cells(Index(u.w.last))
      BY <2>4, <3>2, <3>3, WriteGood DEF Good
    <3>5. v.disk.last_index = u.disk.last_index
      BY <2>4, <3>2, <3>3, WriteFields
    <3>6. Grown(s, v)
      BY <1>1, <2>4, <3>4, GrownTrans
    <3>7. CASE ~v.ok
      <4>1. t = v
        BY <2>2, <3>7
      <4> QED
        BY <4>1, <3>4, <3>6, <3>7, <2>4
    <3>8. CASE v.ok
      <4> DEFINE x == Indexed(v)
      <4>1. t \in UpdateFrameIndex(x)
        BY <2>2, <3>8 DEF Indexed
      <4>2. /\ Good(x) /\ x.disk = v.disk
            /\ x.w.jit = u.w.jit /\ x.w.seq = u.w.seq /\ x.w.since = 0
        BY <2>4, <3>4, <3>5, <3>8, IndexGood
      <4> HIDE DEF x
      <4>3. Good(t) /\ t.w = x.w /\ t.disk.cells = x.disk.cells /\ t \in States
        BY <4>1, <4>2, UpdateGood DEF Good
      <4>4. t.w.jit = s.w.jit /\ t.w.seq = s.w.seq /\ t.w.since = 0
        BY <2>4, <4>2, <4>3
      <4>5. Grown(s, t)
        BY <1>1, <2>4, <3>4, <3>6, <4>2, <4>3, <4>4, GrownThen
      <4> QED
        BY <1>1, <4>3, <4>4, <4>5
    <3> QED
      BY <3>7, <3>8
  <2> QED
    BY <2>5, <2>6
<1> QED
  BY <1>2, <1>3

-----------------------------------------------------------------------------
(* Frames and names.                                                        *)

LEMMA EnsureSpaceGood ==
  ASSUME NEW s, Good(s), NEW len \in Nat, NEW t \in EnsureSpaceFor(s, len)
  PROVE  /\ Good(t) /\ Grown(s, t)
         /\ t.w.jit = s.w.jit /\ t.w.seq = s.w.seq /\ t.w.since = s.w.since
         /\ t.ok => Len(t.w.buf) + len <= BufLen
<1>1. s \in States /\ Len(s.w.buf) \in Nat
  BY LenProperties DEF Good, States, Content
<1>2. CASE len > MaxLen
  <2>1. t = [s EXCEPT !.ok = FALSE]
    BY <1>2 DEF EnsureSpaceFor
  <2>2. t \in States /\ t.w = s.w /\ t.disk = s.disk /\ ~t.ok
    BY <1>1, <2>1 DEF States
  <2>3. Good(t)
    BY <2>2 DEF Good, Chained
  <2> QED
    BY <1>1, <2>2, <2>3, GrownSame
<1>3. CASE ~(len > MaxLen) /\ BufLen < Len(s.w.buf) + len
  <2>1. t \in FlushData(s)
    BY <1>3 DEF EnsureSpaceFor
  <2> QED
    BY <2>1, <1>3, FlushDataGood, WriterAssumption
<1>4. CASE ~(len > MaxLen) /\ ~(BufLen < Len(s.w.buf) + len)
  <2>1. t = s
    BY <1>4 DEF EnsureSpaceFor
  <2> QED
    BY <1>1, <1>4, <2>1, GrownSame, WriterAssumption
<1> QED
  BY <1>2, <1>3, <1>4

LEMMA AllocateGood ==
  ASSUME NEW s, Good(s), NEW len \in Nat, NEW frame \in OwnFrames, frame.len <= len,
         NEW t \in Allocate(s, len, frame)
  PROVE  Good(t) /\ Grown(s, t) /\ t.w.jit = s.w.jit /\ t.w.seq = s.w.seq
<1> DEFINE fits(x) == EnsureSpaceFor(x, len)
           place(x) == {[x EXCEPT !.w.buf = @ \o Cells(frame), !.w.since = @ + 1]}
<1>1. t \in Then(Then(WriteFrameIndex(s, FALSE), fits), place)
  BY DEF Allocate
<1>2. PICK v \in Then(WriteFrameIndex(s, FALSE), fits) : t \in (IF v.ok THEN place(v) ELSE {v})
  BY <1>1 DEF Then
<1>3. PICK u \in WriteFrameIndex(s, FALSE) : v \in (IF u.ok THEN fits(u) ELSE {u})
  BY <1>2 DEF Then
<1>4. /\ Good(u) /\ Grown(s, u) /\ u.w.jit = s.w.jit /\ u.w.seq = s.w.seq
      /\ u.ok => u.w.since < Interval
  BY <1>3, WriteFrameIndexGood
<1>5. s \in States /\ u \in States
  BY <1>4 DEF Good
<1>6. CASE ~u.ok
  <2>1. t = u
    BY <1>2, <1>3, <1>6
  <2> QED
    BY <2>1, <1>4
<1>7. CASE u.ok
  <2>1. v \in EnsureSpaceFor(u, len)
    BY <1>3, <1>7
  <2>2. /\ Good(v) /\ Grown(u, v)
        /\ v.w.jit = u.w.jit /\ v.w.seq = u.w.seq /\ v.w.since = u.w.since
        /\ v.ok => Len(v.w.buf) + len <= BufLen
    BY <2>1, <1>4, EnsureSpaceGood
  <2>3. v \in States
    BY <2>2 DEF Good
  <2>4. Grown(s, v)
    BY <1>4, <1>5, <2>2, <2>3, GrownTrans
  <2>5. CASE ~v.ok
    <3>1. t = v
      BY <1>2, <2>5
    <3> QED
      BY <3>1, <1>4, <2>2, <2>4
  <2>6. CASE v.ok
    <3> DEFINE cells == Cells(frame)
           buf == v.w.buf \o cells
    <3>1. t = [v EXCEPT !.w.buf = buf, !.w.since = @ + 1]
      BY <1>2, <2>6
    <3>2. cells \in Content /\ Len(cells) = frame.len /\ frame.len \in Nat
      BY CellsType
    <3> HIDE DEF cells
    <3>3. v.w.buf \in Content /\ v.w.since \in Nat
      BY <2>3 DEF States
    <3>4. /\ buf \in Content /\ Len(v.w.buf) \in Nat
          /\ Len(buf) = Len(v.w.buf) + Len(cells)
      BY <3>2, <3>3, Behind
    <3> HIDE DEF buf
    <3>5. /\ t \in States /\ t.disk = v.disk /\ t.w.buf = buf
          /\ t.w.since = v.w.since + 1
          /\ t.w.jit = v.w.jit /\ t.w.seq = v.w.seq /\ t.w.last = v.w.last
      <4>1. v.w.since + 1 \in Nat
        BY <3>3
      <4> QED
        BY <2>3, <3>1, <3>4, <4>1 DEF States
    <3>6. Len(t.w.buf) <= BufLen
      <4>1. Len(v.w.buf) + len <= BufLen /\ BufLen \in Nat
        BY <2>2, <2>6, WriterAssumption
      <4>2. Len(t.w.buf) = Len(v.w.buf) + frame.len
        BY <3>2, <3>4, <3>5
      <4> QED
        BY <3>2, <3>4, <4>1, <4>2
    <3>7. t.w.since <= Interval
      BY <1>4, <1>7, <2>2, <3>3, <3>5, WriterAssumption
    <3>8. Good(t)
      BY <2>2, <3>5, <3>6, <3>7 DEF Good, Chained
    <3> QED
      BY <1>4, <1>5, <2>2, <2>3, <2>4, <3>5, <3>8, GrownThen
  <2> QED
    BY <2>5, <2>6
<1> QED
  BY <1>6, <1>7

LEMMA JitmapFrame ==
  ASSUME NEW s, Good(s)
  PROVE  Cells(Jitmap(s.w.jit)) \in Content
<1>1. s.w.jit \in SUBSET Entry /\ IsFiniteSet(s.w.jit)
  BY DEF Good, States
<1>2. Jitmap(s.w.jit) \in OwnFrames
  BY <1>1, JitmapOwn
<1> QED
  BY <1>2, CellsType

(* A table that was written is in the file.                                 *)
LEMMA JitmapWritten ==
  ASSUME NEW s, Good(s), NEW t, t.disk.cells = s.disk.cells \o Cells(Jitmap(s.w.jit)),
         NEW entry \in s.w.jit
  PROVE  InFile(t, entry)
<1> DEFINE frame == Jitmap(s.w.jit)
           more == Cells(frame)
<1>1. frame.kind = "jitmap" /\ frame.defs = s.w.jit
  BY DEF Jitmap
<1>2. frame \in OwnFrames /\ frame.len \in Nat \ {0}
  <2>1. s.w.jit \in SUBSET Entry /\ IsFiniteSet(s.w.jit)
    BY DEF Good, States
  <2>2. frame \in OwnFrames
    BY <2>1, JitmapOwn
  <2> QED
    BY <2>2, CellsType
<1>3. more \in Content /\ Len(more) \in Nat \ {0} /\ more[1].frame = frame
  <2>1. more \in Content /\ Len(more) = frame.len
    BY <1>2, CellsType
  <2>2. more[1].frame = frame
    BY <1>2 DEF Cells
  <2> QED
    BY <1>2, <2>1, <2>2
<1>4. s.disk.cells \in Content /\ t.disk.cells = s.disk.cells \o more
  BY DEF Good, States
<1> HIDE DEF frame, more
<1> DEFINE i == Len(s.disk.cells) + 1
<1>5. i \in 1 .. Len(s.disk.cells \o more) /\ (s.disk.cells \o more)[i] = more[1]
  <2>1. /\ Len(s.disk.cells \o more) = Len(s.disk.cells) + Len(more)
        /\ Len(s.disk.cells) \in Nat
        /\ \A j \in 1 .. Len(more) : (s.disk.cells \o more)[Len(s.disk.cells) + j] = more[j]
    BY <1>3, <1>4, Behind
  <2>2. 1 \in 1 .. Len(more)
    BY <1>3
  <2> QED
    BY <2>1, <2>2, <1>3
<1> QED
  BY <1>1, <1>3, <1>4, <1>5 DEF InFile

LEMMA FlushJitmapGood ==
  ASSUME NEW s, Good(s), NEW t \in FlushJitmap(s)
  PROVE  Good(t) /\ Grown(s, t) /\ t.w.seq = s.w.seq
<1> DEFINE written(x) == Write(x, Cells(Jitmap(x.w.jit)))
           clear(x) == {[x EXCEPT !.w.jit = {}, !.w.since = @ + 1]}
<1>1. s \in States
  BY DEF Good
<1>2. CASE s.w.jit = {}
  <2>1. t = s
    BY <1>2 DEF FlushJitmap
  <2> QED
    BY <1>1, <2>1, GrownSame
<1>3. CASE s.w.jit # {}
  <2>1. t \in Then(Then(WriteFrameIndex(s, FALSE), written), clear)
    BY <1>3 DEF FlushJitmap
  <2>2. PICK v \in Then(WriteFrameIndex(s, FALSE), written) :
          t \in (IF v.ok THEN clear(v) ELSE {v})
    BY <2>1 DEF Then
  <2>3. PICK u \in WriteFrameIndex(s, FALSE) : v \in (IF u.ok THEN written(u) ELSE {u})
    BY <2>2 DEF Then
  <2>4. Good(u) /\ Grown(s, u) /\ u.w.seq = s.w.seq /\ (u.ok => u.w.since < Interval)
    BY <2>3, WriteFrameIndexGood
  <2>5. u \in States
    BY <2>4 DEF Good
  <2>6. CASE ~u.ok
    <3>1. t = u
      BY <2>2, <2>3, <2>6
    <3> QED
      BY <3>1, <2>4
  <2>7. CASE u.ok
    <3>1. v \in Write(u, Cells(Jitmap(u.w.jit))) /\ Cells(Jitmap(u.w.jit)) \in Content
      BY <2>3, <2>4, <2>7, JitmapFrame
    <3>2. /\ Good(v) /\ Grown(u, v) /\ v.w = u.w /\ v \in States
          /\ v.ok => v.disk.cells = u.disk.cells \o Cells(Jitmap(u.w.jit))
      BY <3>1, <2>4, WriteGood DEF Good
    <3>3. Grown(s, v)
      BY <1>1, <2>4, <2>5, <3>2, GrownTrans
    <3>4. CASE ~v.ok
      <4>1. t = v
        BY <2>2, <3>4
      <4> QED
        BY <4>1, <3>2, <3>3, <2>4
    <3>5. CASE v.ok
      <4>1. t = [v EXCEPT !.w.jit = {}, !.w.since = @ + 1]
        BY <2>2, <3>5
      <4>2. /\ t \in States /\ t.disk = v.disk /\ t.w.buf = v.w.buf /\ t.w.jit = {}
            /\ t.w.since = v.w.since + 1 /\ t.w.seq = v.w.seq /\ t.w.last = v.w.last
        <5>1. v.w.since + 1 \in Nat /\ {} \in SUBSET Entry
          BY <3>2 DEF States
        <5> QED
          BY <3>2, <4>1, <5>1 DEF States
      <4>3. t.w.since <= Interval
        <5>1. v.w.since < Interval /\ Interval \in Nat
          BY <2>4, <2>7, <3>2, WriterAssumption
        <5>2. v.w.since \in Nat
          BY <3>2 DEF States
        <5> QED
          BY <5>1, <5>2, <4>2
      <4>4. Good(t)
        BY <3>2, <4>2, <4>3, FS_EmptySet DEF Good, Chained
      <4>5. \A entry \in v.w.jit : InFile(t, entry)
        <5>1. /\ Good(u) /\ v.w.jit = u.w.jit
              /\ t.disk.cells = u.disk.cells \o Cells(Jitmap(u.w.jit))
          BY <2>4, <3>2, <3>5, <4>2
        <5> QED
          BY <5>1, JitmapWritten
      <4>6. \A entry \in s.w.jit : entry \in t.w.jit \/ InFile(t, entry)
        BY <3>3, <4>2, <4>5 DEF Grown, InFile
      <4>7. Grown(s, t)
        BY <3>3, <4>2, <4>6 DEF Grown, Longer
      <4> QED
        BY <2>4, <3>2, <4>2, <4>4, <4>7
    <3> QED
      BY <3>4, <3>5
  <2> QED
    BY <2>6, <2>7
<1> QED
  BY <1>2, <1>3

LEMMA InsertGood ==
  ASSUME NEW s, Good(s), NEW name \in Names, NEW t \in InsertJitmap(s, name)
  PROVE  /\ Good(t) /\ Grown(s, t)
         /\ t.w.seq = IF t.ok THEN s.w.seq + 1 ELSE s.w.seq
         /\ t.ok => <<name, t.w.seq>> \in t.w.jit
<1> DEFINE insert(x) == {[x EXCEPT !.w.seq = @ + 1, !.w.jit = @ \cup {<<name, x.w.seq + 1>>}]}
           flushed == IF Cardinality(s.w.jit) = JitMax THEN FlushJitmap(s) ELSE {s}
<1>1. s \in States
  BY DEF Good
<1>2. PICK u \in flushed : t \in (IF u.ok THEN insert(u) ELSE {u})
  BY DEF InsertJitmap, Then
<1>3. Good(u) /\ Grown(s, u) /\ u.w.seq = s.w.seq /\ u \in States
  <2>1. CASE u \in FlushJitmap(s)
    BY <2>1, FlushJitmapGood DEF Good
  <2>2. CASE u = s
    BY <2>2, <1>1, GrownSame
  <2> QED
    BY <1>2, <2>1, <2>2
<1>4. CASE ~u.ok
  <2>1. t = u
    BY <1>2, <1>4
  <2> QED
    BY <1>3, <1>4, <2>1
<1>5. CASE u.ok
  <2> DEFINE entry == <<name, u.w.seq + 1>>
             jit == u.w.jit \cup {entry}
  <2>1. t = [u EXCEPT !.w.seq = @ + 1, !.w.jit = jit]
    BY <1>2, <1>5
  <2>2. u.w.seq \in Nat /\ u.w.seq + 1 \in Nat /\ entry \in Entry
    BY <1>3 DEF States, Entry
  <2>3. jit \in SUBSET Entry /\ IsFiniteSet(jit)
    BY <1>3, <2>2, FS_AddElement DEF Good, States
  <2>4. \A e \in jit : e[2] <= u.w.seq + 1
    <3> SUFFICES ASSUME NEW e \in jit PROVE e[2] <= u.w.seq + 1
      OBVIOUS
    <3>1. CASE e = entry
      BY <3>1, <2>2
    <3>2. CASE e \in u.w.jit
      <4>1. e[2] <= u.w.seq /\ e \in Entry
        BY <3>2, <2>3, <1>3 DEF Good
      <4> QED
        BY <4>1, <2>2 DEF Entry
    <3> QED
      BY <3>1, <3>2
  <2>7. entry \in jit /\ u.w.jit \subseteq jit
    OBVIOUS
  <2> HIDE DEF jit
  <2>5. /\ t \in States /\ t.disk = u.disk /\ t.w.buf = u.w.buf /\ t.w.since = u.w.since
        /\ t.w.seq = u.w.seq + 1 /\ t.w.jit = jit /\ t.w.last = u.w.last /\ t.ok = u.ok
    BY <1>3, <2>1, <2>2, <2>3 DEF States
  <2>6. Good(t)
    BY <1>3, <2>3, <2>4, <2>5 DEF Good, Chained
  <2>8. Grown(s, t)
    BY <1>3, <2>5, <2>7 DEF Grown, Longer, InFile
  <2> QED
    BY <1>3, <1>5, <2>5, <2>6, <2>7, <2>8
<1> QED
  BY <1>4, <1>5

LEMMA FlushAllGood ==
  ASSUME NEW s, Good(s), NEW t \in FlushAll(s)
  PROVE  Good(t) /\ Grown(s, t) /\ t.w.seq = s.w.seq
<1>1. PICK u \in FlushJitmap(s) : t \in (IF u.ok THEN FlushData(u) ELSE {u})
  BY DEF FlushAll, Then
<1>2. Good(u) /\ Grown(s, u) /\ u.w.seq = s.w.seq
  BY <1>1, FlushJitmapGood
<1>3. CASE ~u.ok
  BY <1>1, <1>2, <1>3
<1>4. CASE u.ok
  <2>1. Good(t) /\ Grown(u, t) /\ t.w.seq = u.w.seq
    BY <1>1, <1>2, <1>4, FlushDataGood
  <2>2. s \in States /\ u \in States /\ t \in States
    BY <1>2, <2>1 DEF Good
  <2> QED
    BY <1>2, <2>1, <2>2, GrownTrans
<1> QED
  BY <1>3, <1>4

(* A copy leaves the file of the writer as it is.                           *)
LEMMA CopyGood ==
  ASSUME NEW s, Good(s), NEW t \in Copy(s)
  PROVE  Good(t) /\ t.w = s.w /\ t.disk = s.disk
<1>1. s \in States /\ s.disk.cells \in Content
  BY DEF Good, States
<1>2. PICK u \in IF s.ok THEN Write(s, s.disk.cells) ELSE {s} :
        t = [u EXCEPT !.disk = s.disk, !.ok = s.ok /\ u.ok]
  BY DEF Copy
<1>3. u \in States /\ u.w = s.w
  BY <1>1, <1>2, WriteFields
<1>4. t \in States /\ t.w = s.w /\ t.disk = s.disk
  <2>1. (s.ok /\ u.ok) \in BOOLEAN /\ s.disk \in [cells : Content, last_index : Nat]
    BY <1>1 DEF States
  <2> QED
    BY <1>2, <1>3, <2>1 DEF States
<1> QED
  BY <1>4 DEF Good, Chained
-----------------------------------------------------------------------------
(* The calls.                                                               *)

(* Whatever outcome a call has, the writer is as good as it was.            *)
LEMMA OutcomeGood ==
  ASSUME Good(Now), NEW s, Good(s), Grown(Now, s), Outcome(s)
  PROVE  /\ Good(Now)' /\ Now' \in States /\ Grown(Now, Now')
         /\ w' = s.w
<1>1. s \in States
  BY DEF Good
<1>2. /\ Now'.w = s.w /\ Now'.disk = s.disk /\ Now'.faults = s.faults /\ Now'.ok = TRUE
      /\ w' = s.w
  BY DEF Now, Outcome
<1>3. Now' = [w |-> s.w, disk |-> s.disk, faults |-> s.faults, ok |-> TRUE]
  BY DEF Now, Outcome
<1>4. Now' \in States
  BY <1>1, <1>3 DEF States
<1>5. Good(Now)'
  BY <1>2, <1>4 DEF Good, Chained
<1>6. Now \in States
  BY DEF Good
<1>7. Grown(Now, Now')
  BY <1>1, <1>2, <1>6, GrownThen
<1> QED
  BY <1>2, <1>4, <1>5, <1>7

LEMMA NowGood ==
  ASSUME IInv
  PROVE  /\ Good(Now) /\ Now \in States /\ Grown(Now, Now)
         /\ Now.w = w /\ w.seq \in Nat /\ Now.ok = TRUE
<1>1. Good(Now) /\ Now \in States
  BY DEF IInv, Good
<1>2. Grown(Now, Now)
  BY <1>1, GrownSame
<1>3. Now.w = w /\ Now.ok = TRUE
  BY DEF Now
<1>4. w.seq \in Nat
  BY <1>1, <1>3 DEF States
<1> QED
  BY <1>1, <1>2, <1>3, <1>4

LEMMA FoundKept ==
  ASSUME NEW s \in States, NEW t \in States, Grown(s, t), NEW entry,
         entry \in s.w.jit \/ InFile(s, entry)
  PROVE  entry \in t.w.jit \/ InFile(t, entry)
BY FoundLonger DEF Grown

LEMMA GivenKept ==
  ASSUME IInv, given' = given, w'.seq = w.seq, Grown(Now, Now'), Now' \in States
  PROVE  Given'
<1>1. Now \in States /\ Found(Now)
  BY NowGood DEF IInv, Given
<1>2. Found(Now)'
  BY <1>1, FoundKept DEF Found
<1> QED
  BY <1>2 DEF IInv, Given, AddressesDiffer

LEMMA AddStep ==
  ASSUME IInv, NEW asked \in Lens, NEW len \in Lens, Add(asked, len)
  PROVE  IInv' /\ Grown(Now, Now')
<1> DEFINE frame == Data(Len(added) + 1, len)
<1>1. len \in Nat /\ asked \in Nat /\ len <= asked
  BY WriterAssumption DEF Add
<1>2. Len(added) + 1 \in Nat
  BY LenProperties DEF IInv, TypeOK
<1>3. frame \in OwnFrames /\ frame.len = len
  BY <1>1, <1>2, WriterAssumption DEF Data, OwnFrames, Lengths
<1>4. PICK s \in Allocate(Now, asked, frame) :
        Outcome(s) /\ added' = IF s.ok THEN Append(added, frame) ELSE added
  BY DEF Add
<1>5. saved' = <<>> /\ given' = given /\ spliced' = spliced
  BY DEF Add
<1> HIDE DEF frame
<1>6. Good(s) /\ Grown(Now, s) /\ s.w.seq = w.seq
  BY <1>1, <1>3, <1>4, NowGood, AllocateGood
<1>7. Good(Now)' /\ Now' \in States /\ Grown(Now, Now') /\ w'.seq = w.seq
  BY <1>4, <1>6, NowGood, OutcomeGood
<1>8. Append(added, frame) \in Seq(OwnFrames \cup FramesIn(Sources))
  BY <1>3 DEF IInv, TypeOK
<1>9. TypeOK'
  BY <1>4, <1>5, <1>7, <1>8 DEF IInv, TypeOK
<1> QED
  BY <1>5, <1>7, <1>9, GivenKept DEF IInv

LEMMA AddJitmapStep ==
  ASSUME IInv, NEW name \in Names, AddJitmap(name)
  PROVE  IInv' /\ Grown(Now, Now')
<1>1. PICK s \in InsertJitmap(Now, name) :
        Outcome(s) /\ given' = IF s.ok THEN given \cup {<<name, s.w.seq>>} ELSE given
  BY DEF AddJitmap
<1>2. saved' = <<>> /\ added' = added /\ spliced' = spliced
  BY DEF AddJitmap
<1>3. /\ Good(s) /\ Grown(Now, s)
      /\ s.w.seq = IF s.ok THEN w.seq + 1 ELSE w.seq
      /\ s.ok => <<name, s.w.seq>> \in s.w.jit
  BY <1>1, NowGood, InsertGood
<1>4. Good(Now)' /\ Now' \in States /\ Grown(Now, Now') /\ w' = s.w
  BY <1>1, <1>3, NowGood, OutcomeGood
<1>5. CASE ~s.ok
  <2>1. given' = given /\ w'.seq = w.seq
    BY <1>1, <1>3, <1>4, <1>5
  <2>2. TypeOK'
    BY <1>2, <1>4, <2>1 DEF IInv, TypeOK
  <2> QED
    BY <1>4, <2>1, <2>2, GivenKept DEF IInv
<1>6. CASE s.ok
  <2>1. given' = given \cup {<<name, w.seq + 1>>} /\ w'.seq = w.seq + 1
    BY <1>1, <1>3, <1>4, <1>6
  <2>2. w.seq \in Nat /\ given \in SUBSET Entry /\ \A e \in given : e[2] <= w.seq
    BY NowGood DEF IInv, TypeOK, Given
  <2>3. given' \in SUBSET Entry
    BY <2>1, <2>2 DEF Entry
  <2>4. \A e \in given' : e[2] <= w'.seq
    BY <2>1, <2>2 DEF Entry
  <2>5. AddressesDiffer'
    <3> SUFFICES ASSUME NEW a \in given', NEW b \in given', a[2] = b[2]
                 PROVE  a = b
      BY DEF AddressesDiffer
    <3>1. \A e \in given : e[2] \in Nat /\ e[2] # w.seq + 1
      BY <2>2 DEF Entry
    <3>2. CASE a \in given /\ b \in given
      BY <3>2 DEF IInv, Given, AddressesDiffer
    <3>3. CASE a = <<name, w.seq + 1>> /\ b = <<name, w.seq + 1>>
      BY <3>3
    <3>4. CASE a \in given /\ b = <<name, w.seq + 1>>
      BY <3>1, <3>4
    <3>5. CASE b \in given /\ a = <<name, w.seq + 1>>
      BY <3>1, <3>5
    <3> QED
      BY <2>1, <3>2, <3>3, <3>4, <3>5
  <2>6. TypeOK'
    BY <1>2, <1>4, <2>3 DEF IInv, TypeOK
  <2>7. Found(Now)'
    <3>1. \A e \in given : e \in Now'.w.jit \/ InFile(Now', e)
      BY <1>4, NowGood, FoundKept DEF IInv, Given, Found
    <3>2. <<name, w.seq + 1>> \in Now'.w.jit
      <4>1. <<name, w.seq + 1>> \in s.w.jit
        BY <1>3, <1>6
      <4>2. Now'.w = s.w
        BY <1>4 DEF Now
      <4> QED
        BY <4>1, <4>2
    <3> QED
      BY <2>1, <3>1, <3>2 DEF Found
  <2> QED
    BY <1>4, <2>4, <2>5, <2>6, <2>7 DEF IInv, Given
<1> QED
  BY <1>5, <1>6

LEMMA FlushStep ==
  ASSUME IInv, Flush
  PROVE  IInv' /\ Grown(Now, Now')
<1>1. PICK s \in FlushAll(Now) : Outcome(s)
  BY DEF Flush
<1>2. saved' = <<>> /\ added' = added /\ given' = given /\ spliced' = spliced
  BY DEF Flush
<1>3. Good(s) /\ Grown(Now, s) /\ s.w.seq = w.seq
  BY <1>1, NowGood, FlushAllGood
<1>4. Good(Now)' /\ Now' \in States /\ Grown(Now, Now') /\ w'.seq = w.seq
  BY <1>1, <1>3, NowGood, OutcomeGood
<1>5. TypeOK'
  BY <1>2, <1>4 DEF IInv, TypeOK
<1> QED
  BY <1>2, <1>4, <1>5, GivenKept DEF IInv

LEMMA SourceContent ==
  ASSUME NEW source \in Sources
  PROVE  source \in Content
<1>1. source \in Seq(CellsIn(Sources))
  BY WriterAssumption
<1>2. CellsIn(Sources) \subseteq AnyCell
  BY DEF AnyCell
<1> QED
  BY <1>1, <1>2 DEF Content

(* What is kept of a file are its own frames.                               *)
LEMMA KeptType ==
  ASSUME NEW C, NEW file \in Seq(C)
  PROVE  Kept(file) \in Seq(FramesOf(C))
<1> DEFINE skipped == {"index", "jitmap"}
<1>1. Kept(file) = Through(file, skipped).frames
  BY DEF Kept, Through
<1> HIDE DEF skipped
<1> QED
  BY <1>1, ValidThrough

(* The outcomes of a splice, stage by stage.                                *)
Due(c) == [c EXCEPT !.w.since = Interval]
AfterFlush(a, source) ==
  IF a.ok THEN {b \in {a, [a EXCEPT !.ok = FALSE]} : b.ok \in Passes(source)} ELSE {a}
AfterCheck(b) == IF b.ok THEN WriteFrameIndex(b, TRUE) ELSE {b}
AfterIndex(c, source) == IF c.ok THEN Write(c, source) ELSE {c}
AfterCopy(d, source) == IF d.ok /\ source # <<>> THEN {Due(d)} ELSE {d}
Stages(s, source, a, b, c, d, e) ==
  /\ a \in FlushAll(s) /\ b \in AfterFlush(a, source) /\ c \in AfterCheck(b)
  /\ d \in AfterIndex(c, source) /\ e \in AfterCopy(d, source)

LEMMA CheckGood ==
  ASSUME NEW a, Good(a), NEW source \in Content, NEW b \in AfterFlush(a, source)
  PROVE  /\ Good(b) /\ Grown(a, b) /\ b.w = a.w /\ b.disk = a.disk /\ b.faults = a.faults
         /\ b.ok => a.ok
<1>1. a \in States
  BY DEF Good
<1>2. b = a \/ b = [a EXCEPT !.ok = FALSE]
  BY DEF AfterFlush
<1>3. CASE b = [a EXCEPT !.ok = FALSE]
  <2>1. b \in States /\ b.w = a.w /\ b.disk = a.disk /\ b.faults = a.faults /\ ~b.ok
    BY <1>1, <1>3 DEF States
  <2>2. Good(b)
    BY <2>1 DEF Good, Chained
  <2> QED
    BY <1>1, <2>1, <2>2, GrownSame
<1>4. CASE b = a
  BY <1>1, <1>4, GrownSame
<1> QED
  BY <1>2, <1>3, <1>4

LEMMA CopiedGood ==
  ASSUME NEW d, Good(d), NEW source, NEW e \in AfterCopy(d, source)
  PROVE  /\ Good(e) /\ e.disk = d.disk /\ e.w.buf = d.w.buf /\ e.w.seq = d.w.seq
         /\ e.w.jit = d.w.jit /\ e.w.last = d.w.last /\ e.faults = d.faults /\ e.ok = d.ok
         /\ (e.w.since = d.w.since \/ (d.ok /\ source # <<>>))
<1>1. CASE d.ok /\ source # <<>>
  <2>1. e = [d EXCEPT !.w.since = Interval] /\ Interval \in Nat /\ d \in States
    BY <1>1, WriterAssumption DEF Good, Due, AfterCopy
  <2>2. /\ e \in States /\ e.disk = d.disk /\ e.w.seq = d.w.seq /\ e.w.buf = d.w.buf
        /\ e.w.jit = d.w.jit /\ e.w.last = d.w.last /\ e.w.since = Interval
        /\ e.faults = d.faults /\ e.ok = d.ok
    BY <2>1 DEF States
  <2>3. Good(e)
    BY <2>1, <2>2 DEF Good, Chained
  <2> QED
    BY <1>1, <2>2, <2>3
<1>2. CASE ~(d.ok /\ source # <<>>)
  <2>1. e = d
    BY <1>2 DEF AfterCopy
  <2> QED
    BY <2>1
<1> QED
  BY <1>1, <1>2

LEMMA SpliceGood ==
  ASSUME NEW s, Good(s), NEW source \in Content, NEW a, NEW b, NEW c, NEW d, NEW e,
         Stages(s, source, a, b, c, d, e)
  PROVE  /\ Good(a) /\ Good(b) /\ Good(c) /\ Good(d) /\ Good(e)
         /\ Grown(s, e) /\ e.w.seq = s.w.seq
<1>1. Good(a) /\ Grown(s, a) /\ a.w.seq = s.w.seq
  BY FlushAllGood DEF Stages
<1>2. Good(b) /\ Grown(a, b) /\ b.w.seq = a.w.seq
  <2>1. b \in AfterFlush(a, source)
    BY DEF Stages
  <2>2. Good(b) /\ Grown(a, b) /\ b.w = a.w
    BY <1>1, <2>1, CheckGood
  <2> QED
    BY <2>2
<1>3. Good(c) /\ Grown(b, c) /\ c.w.seq = b.w.seq
  <2>1. CASE b.ok
    BY <2>1, <1>2, WriteFrameIndexGood DEF AfterCheck, Stages
  <2>2. CASE ~b.ok
    BY <2>2, <1>2, GrownSame DEF Good, AfterCheck, Stages
  <2> QED
    BY <2>1, <2>2
<1>4. Good(d) /\ Grown(c, d) /\ d.w.seq = c.w.seq
  <2>1. CASE c.ok
    BY <2>1, <1>3, WriteGood DEF AfterIndex, Stages
  <2>2. CASE ~c.ok
    BY <2>2, <1>3, GrownSame DEF Good, AfterIndex, Stages
  <2> QED
    BY <2>1, <2>2
<1>5. Good(e) /\ e.disk = d.disk /\ e.w.seq = d.w.seq /\ e.w.jit = d.w.jit
  BY <1>4, CopiedGood DEF Stages
<1>6. s \in States /\ a \in States /\ b \in States /\ c \in States /\ d \in States
  BY <1>1, <1>2, <1>3, <1>4 DEF Good
<1>7. Grown(s, d)
  <2>1. Grown(s, b)
    BY <1>1, <1>2, <1>6, GrownTrans
  <2>2. Grown(s, c)
    BY <2>1, <1>3, <1>6, GrownTrans
  <2> QED
    BY <2>2, <1>4, <1>6, GrownTrans
<1>8. Grown(s, e)
  BY <1>5, <1>6, <1>7, GrownThen
<1> QED
  BY <1>1, <1>2, <1>3, <1>4, <1>5, <1>8

LEMMA SpliceOutcome ==
  ASSUME NEW source \in Sources, Splice(source)
  PROVE  /\ spliced = <<>> /\ saved' = <<>> /\ given' = given
         /\ \E a, b, c, d, e :
              /\ Stages(Now, source, a, b, c, d, e) /\ Outcome(e)
              /\ added' = IF e.ok THEN added \o Kept(source) ELSE added
              /\ spliced' = IF e.ok THEN source ELSE spliced
<1> DEFINE checked(s) == {t \in {s, [s EXCEPT !.ok = FALSE]} : t.ok \in Passes(source)}
           index(s) == WriteFrameIndex(s, TRUE)
           copy(s) == Write(s, source)
           due(s) == {IF source = <<>> THEN s ELSE [s EXCEPT !.w.since = Interval]}
<1>1. PICK e \in Then(Then(Then(Then(FlushAll(Now), checked), index), copy), due) :
        /\ Outcome(e)
        /\ added' = IF e.ok THEN added \o Kept(source) ELSE added
        /\ spliced' = IF e.ok THEN source ELSE spliced
  BY DEF Splice
<1>2. PICK d \in Then(Then(Then(FlushAll(Now), checked), index), copy) :
        e \in IF d.ok THEN due(d) ELSE {d}
  BY <1>1 DEF Then
<1>3. PICK c \in Then(Then(FlushAll(Now), checked), index) : d \in IF c.ok THEN copy(c) ELSE {c}
  BY <1>2 DEF Then
<1>4. PICK b \in Then(FlushAll(Now), checked) : c \in IF b.ok THEN index(b) ELSE {b}
  BY <1>3 DEF Then
<1>5. PICK a \in FlushAll(Now) : b \in IF a.ok THEN checked(a) ELSE {a}
  BY <1>4 DEF Then
<1>6. e \in AfterCopy(d, source)
  BY <1>2 DEF AfterCopy, Due
<1>7. Stages(Now, source, a, b, c, d, e)
  BY <1>3, <1>4, <1>5, <1>6 DEF Stages, AfterFlush, AfterCheck, AfterIndex
<1> QED
  BY <1>1, <1>7 DEF Splice

LEMMA SpliceStep ==
  ASSUME IInv, NEW source \in Sources, Splice(source)
  PROVE  IInv' /\ Grown(Now, Now')
<1>1. spliced = <<>> /\ saved' = <<>> /\ given' = given
  BY SpliceOutcome
<1>2. PICK a, b, c, d, e :
        /\ Stages(Now, source, a, b, c, d, e) /\ Outcome(e)
        /\ added' = IF e.ok THEN added \o Kept(source) ELSE added
        /\ spliced' = IF e.ok THEN source ELSE spliced
  BY SpliceOutcome
<1>3. Good(e) /\ Grown(Now, e) /\ e.w.seq = w.seq
  <2>1. Good(e) /\ Grown(Now, e) /\ e.w.seq = Now.w.seq
    BY <1>2, NowGood, SourceContent, SpliceGood
  <2> QED
    BY <2>1, NowGood
<1>4. Good(Now)' /\ Now' \in States /\ Grown(Now, Now') /\ w'.seq = w.seq
  BY <1>2, <1>3, NowGood, OutcomeGood
<1>5. added' \in Seq(OwnFrames \cup FramesIn(Sources))
  <2>1. Kept(source) \in Seq(FramesIn(Sources))
    BY WriterAssumption, KeptType DEF FramesOf, FramesIn
  <2>2. Kept(source) \in Seq(OwnFrames \cup FramesIn(Sources))
    BY <2>1, SeqWider
  <2>3. added \in Seq(OwnFrames \cup FramesIn(Sources))
    BY DEF IInv, TypeOK
  <2> QED
    BY <1>2, <2>2, <2>3, ConcatProperties
<1>6. TypeOK'
  BY <1>1, <1>2, <1>4, <1>5 DEF IInv, TypeOK
<1> QED
  BY <1>1, <1>4, <1>6, GivenKept DEF IInv

(* What a save may leave in a file.                                         *)
LEMMA OverType ==
  ASSUME NEW old \in Saved, NEW cells \in Content
  PROVE  LET C == AnyCell \cup CellsIn(Saved)
             rest == SubSeq(old, Len(cells) + 1, Len(old))
         IN  /\ cells \in Seq(C) /\ rest \in Seq(C) /\ Over(old, cells) = cells \o rest
             /\ Over(old, cells) \in Seq(C) /\ Len(old) \in Nat
             /\ Len(old) <= Len(cells) => rest = <<>>
<1> DEFINE C == AnyCell \cup CellsIn(Saved)
           n == Len(cells) + 1
           rest == SubSeq(old, n, Len(old))
<1>1. old \in Seq(CellsIn(Saved))
  BY WriterAssumption
<1>2. old \in Seq(C) /\ cells \in Seq(C)
  BY <1>1, SeqWider DEF Content
<1> HIDE DEF C
<1>3. n \in Nat \ {0} /\ Len(old) \in Nat /\ n = Len(cells) + 1 /\ Len(cells) \in Nat
  BY <1>2, LenProperties DEF Content
<1> HIDE DEF n
<1>4. rest \in Seq(C)
  BY <1>2, <1>3
<1>5. Len(old) <= Len(cells) => rest = <<>>
  <2>1. Len(old) <= Len(cells) => Len(old) < n
    BY <1>3
  <2> QED
    BY <1>2, <1>3, <2>1, SubSeqProperties
<1>6. Over(old, cells) = cells \o rest
  BY DEF Over, n
<1> HIDE DEF rest
<1>7. cells \o rest \in Seq(C)
  BY <1>2, <1>4, ConcatProperties
<1> QED
  BY <1>2, <1>3, <1>4, <1>5, <1>6, <1>7 DEF C, n, rest

LEMMA SaveAsStep ==
  ASSUME IInv, NEW old \in Saved, SaveAs(old)
  PROVE  IInv' /\ Grown(Now, Now')
<1>0. PICK s \in UNION {Copy(t) : t \in FlushAll(Now)} :
        Outcome(s) /\ saved' = IF s.ok THEN Over(old, s.disk.cells) ELSE <<>>
  BY DEF SaveAs
<1>1. PICK t \in FlushAll(Now) : s \in Copy(t)
  OBVIOUS
<1>2. added' = added /\ given' = given /\ spliced' = spliced
  BY DEF SaveAs
<1>3. Good(t) /\ Grown(Now, t) /\ t.w.seq = w.seq
  BY <1>1, NowGood, FlushAllGood
<1>4. Good(s) /\ s.w = t.w /\ s.disk = t.disk
  BY <1>1, <1>3, CopyGood
<1>5. Good(Now)' /\ Now' \in States /\ Grown(Now, Now') /\ w'.seq = w.seq
  <2>1. Grown(Now, s)
    <3>1. Now \in States /\ t \in States
      BY <1>3, NowGood DEF Good
    <3> QED
      BY <1>3, <1>4, <3>1, GrownThen
  <2> QED
    BY <1>0, <1>3, <1>4, <2>1, NowGood, OutcomeGood
<1>6. saved' \in Seq(AnyCell \cup CellsIn(Saved))
  <2>1. s.disk.cells \in Content
    BY <1>4 DEF Good, States
  <2>2. Over(old, s.disk.cells) \in Seq(AnyCell \cup CellsIn(Saved))
    BY <2>1, OverType
  <2>3. <<>> \in Seq(AnyCell \cup CellsIn(Saved))
    OBVIOUS
  <2> QED
    BY <1>0, <2>2, <2>3
<1>7. TypeOK'
  BY <1>2, <1>5, <1>6 DEF IInv, TypeOK
<1> QED
  BY <1>2, <1>5, <1>7, GivenKept DEF IInv
LEMMA InitGood ==
  ASSUME Init
  PROVE  IInv
<1>1. <<>> \in Content /\ Len(<<>>) = 0
  BY DEF Content
<1>2. /\ w = [buf |-> <<>>, jit |-> {}, seq |-> 0, last |-> 0, since |-> 0]
      /\ disk = [cells |-> <<>>, last_index |-> 0] /\ faults = 0
      /\ given = {} /\ added = <<>> /\ spliced = <<>>
  BY DEF Init
<1>3. Now \in States
  BY <1>1, <1>2 DEF Now, States
<1>4. Chained(Now)
  <2>1. Linked(Now.disk.cells, {}) /\ Now.w.last = 0 /\ Now.disk.last_index = 0
    BY <1>2 DEF Linked, Now
  <2> QED
    BY <2>1 DEF Chained
<1>5. Good(Now)
  <2>1. /\ Now.disk.last_index = 0 /\ Now.w.last = 0 /\ Now.w.jit = {}
        /\ Now.w.buf = <<>> /\ Now.w.since = 0
    BY <1>2 DEF Now
  <2>2. 0 <= BufLen /\ 0 <= Interval
    BY WriterAssumption
  <2> QED
    BY <1>1, <1>3, <1>4, <2>1, <2>2, FS_EmptySet DEF Good
<1>6. saved \in Seq(AnyCell \cup CellsIn(Saved))
  BY DEF Init
<1>7. TypeOK
  <2>1. \A S : <<>> \in Seq(S)
    OBVIOUS
  <2>2. added \in Seq(OwnFrames \cup FramesIn(Sources))
    BY <1>2, <2>1
  <2>3. given \in SUBSET Entry /\ spliced \in Sources \cup {<<>>}
    BY <1>2
  <2> QED
    BY <1>3, <1>6, <2>2, <2>3 DEF TypeOK
<1>8. Given
  BY <1>2 DEF Given, AddressesDiffer, Found
<1> QED
  BY <1>5, <1>7, <1>8 DEF IInv

LEMMA Step ==
  ASSUME IInv, [Next]_vars
  PROVE  IInv' /\ Grown(Now, Now')
<1>1. CASE UNCHANGED vars
  <2>1. /\ Now' = Now /\ w' = w /\ saved' = saved /\ added' = added
        /\ given' = given /\ spliced' = spliced
    BY <1>1 DEF vars, Now
  <2>2. Good(Now)' /\ Grown(Now, Now')
    BY <2>1, NowGood
  <2>3. TypeOK' /\ Given'
    BY <2>1, <2>2, NowGood, GivenKept DEF IInv, TypeOK
  <2> QED
    BY <2>2, <2>3 DEF IInv
<1>2. CASE Next
  <2>1. CASE \E asked, len \in Lens : Add(asked, len)
    BY <2>1, AddStep
  <2>2. CASE \E name \in Names : AddJitmap(name)
    BY <2>2, AddJitmapStep
  <2>3. CASE Flush
    BY <2>3, FlushStep
  <2>4. CASE \E old \in Saved : SaveAs(old)
    BY <2>4, SaveAsStep
  <2>5. CASE \E source \in Sources : Splice(source)
    BY <2>5, SpliceStep
  <2> QED
    BY <1>2, <2>1, <2>2, <2>3, <2>4, <2>5 DEF Next
<1> QED
  BY <1>1, <1>2

-----------------------------------------------------------------------------
(* What the file and the buffer hold.                                       *)

(* The chain that ends at last has aligned index frames only.               *)
Straight(cells, last) ==
  \E places \in SUBSET Nat :
    /\ Linked(cells, places) /\ last \in places \cup {0}
    /\ \A pos \in places : Aligned(pos)

(* As long as no write failed, and the file spliced ends with a frame, file *)
(* and buffer are frames from end to end, the buffer has no names, the      *)
(* header of the file knows the last index frame, and all are aligned.      *)
Sound(s) ==
  /\ Valid(s.disk.cells) /\ Valid(s.w.buf) /\ Defined(s.w.buf) = {}
  /\ s.disk.last_index = s.w.last
  /\ Units(Len(s.disk.cells)) /\ Units(Len(s.w.buf))
  /\ Straight(s.disk.cells, s.w.last)
Text(s) == Kept(s.disk.cells) \o Kept(s.w.buf)
Known(s) == Defined(s.disk.cells) \cup s.w.jit

(* No part that is closed has more frames than the interval, and those      *)
(* behind the last index frame were counted.                                *)
Near(s) ==
  /\ Spaced(s.disk.cells, s.w.last, Interval) /\ Open(s.disk.cells, s.w.last).valid
  /\ Len(Open(s.disk.cells, s.w.last).frames) + Len(Serial(s.w.buf)) <= s.w.since

(* From s to t no frame and no name is lost or comes along.                 *)
Carries(s, t) ==
  t.faults = 0 =>
    /\ s.faults = 0
    /\ Sound(s) => Sound(t) /\ Text(t) = Text(s) /\ Known(t) = Known(s)
    /\ Sound(s) /\ Near(s) => Near(t)

Held ==
  faults = 0 /\ Whole(spliced) =>
    /\ Sound(Now) /\ Text(Now) = added
    /\ Known(Now) = given \cup Defined(spliced)
    /\ spliced = <<>> => Near(Now)

LEMMA CarriesTrans ==
  ASSUME NEW s, NEW t, NEW u, Carries(s, t), Carries(t, u)
  PROVE  Carries(s, u)
BY DEF Carries

LEMMA CarriesSame ==
  ASSUME NEW s, NEW t, t.w = s.w, t.disk = s.disk, t.faults = 0 => s.faults = 0
  PROVE  Carries(s, t)
BY DEF Carries, Sound, Text, Known, Near

(* Files one behind the other.                                              *)
LEMMA ToSetJoined ==
  ASSUME NEW T, NEW a \in Seq(T), NEW b \in Seq(T)
  PROVE  ToSet(a \o b) = ToSet(a) \cup ToSet(b)
<1>1. /\ Len(a \o b) = Len(a) + Len(b) /\ a \o b \in Seq(T)
      /\ Len(a) \in Nat /\ Len(b) \in Nat
      /\ \A i \in 1 .. Len(a) : (a \o b)[i] = a[i]
      /\ \A i \in 1 .. Len(b) : (a \o b)[Len(a) + i] = b[i]
  BY ConcatProperties, LenProperties
<1>2. /\ DOMAIN (a \o b) = 1 .. Len(a \o b) /\ DOMAIN a = 1 .. Len(a) /\ DOMAIN b = 1 .. Len(b)
  BY <1>1
<1> DEFINE c == a \o b
<1>3. /\ Len(c) = Len(a) + Len(b) /\ DOMAIN c = 1 .. Len(c)
      /\ \A i \in 1 .. Len(a) : c[i] = a[i]
      /\ \A i \in 1 .. Len(b) : c[Len(a) + i] = b[i]
  BY <1>1, <1>2
<1> HIDE DEF c
<1>4. ASSUME NEW x \in ToSet(c) PROVE x \in ToSet(a) \cup ToSet(b)
  <2>1. PICK i \in 1 .. Len(c) : x = c[i]
    BY <1>3 DEF ToSet
  <2>2. CASE i \in 1 .. Len(a)
    BY <1>2, <1>3, <2>1, <2>2 DEF ToSet
  <2>3. CASE i \notin 1 .. Len(a)
    <3>1. PICK j \in 1 .. Len(b) : i = Len(a) + j
      <4>1. i - Len(a) \in 1 .. Len(b) /\ i = Len(a) + (i - Len(a))
        BY <1>1, <1>3, <2>3
      <4> QED
        BY <4>1
    <3>2. x = b[j]
      BY <1>3, <2>1, <3>1
    <3> QED
      BY <1>2, <3>2 DEF ToSet
  <2> QED
    BY <2>2, <2>3
<1>5. ASSUME NEW x \in ToSet(a) PROVE x \in ToSet(c)
  <2>1. PICK i \in 1 .. Len(a) : x = a[i]
    BY <1>2 DEF ToSet
  <2>2. i \in 1 .. Len(c)
    BY <1>1, <1>3
  <2> QED
    BY <1>3, <2>1, <2>2 DEF ToSet
<1>6. ASSUME NEW x \in ToSet(b) PROVE x \in ToSet(c)
  <2>1. PICK i \in 1 .. Len(b) : x = b[i]
    BY <1>2 DEF ToSet
  <2>2. Len(a) + i \in 1 .. Len(c)
    BY <1>1, <1>3
  <2> QED
    BY <1>3, <2>1, <2>2 DEF ToSet
<1> QED
  BY <1>4, <1>5, <1>6 DEF c

Combined(a, b) ==
  /\ a \o b \in Content
  /\ Units(Len(a)) /\ Units(Len(b)) => Units(Len(a \o b))
  /\ \A last : Straight(a, last) => Straight(a \o b, last)
  /\ Kept(a \o b) = Kept(a) \o Kept(b)
  /\ Serial(a \o b) = Serial(a) \o Serial(b)
  /\ Defined(a \o b) = Defined(a) \cup Defined(b)
  /\ Valid(a \o b) <=> Valid(b)
LEMMA Combine ==
  ASSUME NEW a \in Content, NEW b \in Content, Valid(a)
  PROVE  Combined(a, b)
<1> DEFINE own == {"index", "jitmap"}
           only == {"index"}
<1>1. /\ \A file : Kept(file) = Through(file, own).frames
      /\ \A file : Serial(file) = Through(file, only).frames
  BY DEF Kept, Serial, Scan, Through
<1> HIDE DEF own, only
<1>2. a \in Seq(AnyCell) /\ b \in Seq(AnyCell)
  BY DEF Content
<1>3. Through(a, own).valid /\ Through(a, only).valid
  BY <1>2, ValidThrough
<1>9. Joined(a, b, own) /\ Joined(a, b, only)
  BY <1>2, <1>3, WalkJoined
<1>4. Kept(a \o b) = Kept(a) \o Kept(b)
  BY <1>1, <1>9 DEF Joined
<1>5. Serial(a \o b) = Serial(a) \o Serial(b)
  BY <1>1, <1>9 DEF Joined
<1>6. a \o b \in Seq(AnyCell)
  BY <1>2, ConcatProperties
<1>7. Valid(a \o b) <=> Valid(b)
  <2>1. /\ Through(a \o b, own).valid <=> Valid(a \o b)
        /\ Through(b, own).valid <=> Valid(b)
    BY <1>2, <1>6, ValidThrough
  <2>2. Through(a \o b, own).valid = Through(b, own).valid
    BY <1>9 DEF Joined
  <2> QED
    BY <2>1, <2>2
<1>8. Defined(a \o b) = Defined(a) \cup Defined(b)
  <2>1. Serial(a) \in Seq(FramesOf(AnyCell)) /\ Serial(b) \in Seq(FramesOf(AnyCell))
    BY <1>1, <1>2, ValidThrough
  <2>2. ToSet(Serial(a \o b)) = ToSet(Serial(a)) \cup ToSet(Serial(b))
    BY <1>5, <2>1, ToSetJoined
  <2> QED
    BY <2>2 DEF Defined
<1>10. Units(Len(a)) /\ Units(Len(b)) => Units(Len(a \o b))
  <2>1. Len(a) \in Nat /\ Len(b) \in Nat /\ Len(a \o b) = Len(a) + Len(b)
    BY Behind
  <2> QED
    BY <2>1, UnitsSum
<1>11. ASSUME NEW last, Straight(a, last)
       PROVE  Straight(a \o b, last)
  BY <1>11, LinkedKept DEF Straight
<1> QED
  BY <1>4, <1>5, <1>6, <1>7, <1>8, <1>10, <1>11 DEF Combined, Content

(* An aligned index frame behind the file.                                  *)
LEMMA StraightIndex ==
  ASSUME NEW a \in Content, NEW last, Straight(a, last), Units(Len(a))
  PROVE  Straight(a \o Cells(Index(last)), Bytes(a))
<1> DEFINE more == Cells(Index(last))
           pos == Bytes(a)
<1>1. PICK places \in SUBSET Nat :
        /\ Linked(a, places) /\ last \in places \cup {0}
        /\ \A p \in places : Aligned(p)
  BY DEF Straight
<1>2. Len(a) \in Nat /\ pos = Len(a) + 1 /\ Header = 1
  BY LenProperties DEF Content, Bytes, Header
<1>3. Aligned(pos) /\ pos \in Nat
  <2>1. pos - Header = Len(a) /\ pos \in Nat
    BY <1>2
  <2> QED
    BY <2>1 DEF Aligned
<1>4. Linked(a \o more, places \cup {pos})
  BY <1>1, LinkedIndex
<1> HIDE DEF more, pos
<1>5. /\ places \cup {pos} \in SUBSET Nat /\ pos \in (places \cup {pos}) \cup {0}
      /\ \A p \in places \cup {pos} : Aligned(p)
  BY <1>1, <1>3
<1> QED
  BY <1>4, <1>5 DEF Straight, more, pos

LEMMA CombineNothing ==
  /\ Units(Len(<<>>)) /\ Straight(<<>>, 0) /\ Whole(<<>>)
  /\ <<>> \in Content /\ Valid(<<>>) /\ Kept(<<>>) = <<>> /\ Serial(<<>>) = <<>>
  /\ Defined(<<>>) = {}
<1> DEFINE own == {"index", "jitmap"}
           only == {"index"}
<1>1. /\ \A file : Kept(file) = Through(file, own).frames
      /\ \A file : Serial(file) = Through(file, only).frames
  BY DEF Kept, Serial, Scan, Through
<1> HIDE DEF own, only
<1>2. Valid(<<>>) /\ Kept(<<>>) = <<>> /\ Serial(<<>>) = <<>>
  BY <1>1, ThroughNothing
<1>3. Defined(<<>>) = {}
  BY <1>2 DEF Defined, ToSet
<1>4. Units(Len(<<>>))
  <2>1. Len(<<>>) = 0 /\ 0 * Align = 0 /\ 0 \in 0 .. 0
    BY AlignAssumption
  <2> QED
    BY <2>1 DEF Units
<1>5. Straight(<<>>, 0)
  BY DEF Straight, Linked
<1>6. Whole(<<>>)
  BY <1>2, <1>4 DEF Whole, Valid
<1> QED
  BY <1>2, <1>3, <1>4, <1>5, <1>6 DEF Content

Holds(f) ==
  /\ Cells(f) \in Content /\ Valid(Cells(f))
  /\ Kept(Cells(f)) = IF f.kind = "data" THEN <<f>> ELSE <<>>
  /\ Serial(Cells(f)) = IF f.kind = "index" THEN <<>> ELSE <<f>>
  /\ Defined(Cells(f)) = IF f.kind = "jitmap" THEN f.defs ELSE {}
  /\ Units(Len(Cells(f)))
LEMMA CombineFrame ==
  ASSUME NEW f \in OwnFrames
  PROVE  Holds(f)
<1> DEFINE own == {"index", "jitmap"}
           only == {"index"}
<1>1. /\ \A file : Kept(file) = Through(file, own).frames
      /\ \A file : Serial(file) = Through(file, only).frames
  BY DEF Kept, Serial, Scan, Through
<1>2. /\ Cells(f) \in Seq(AnyCell) /\ f.len \in Nat \ {0} /\ f.kind \in {"data", "index", "jitmap"}
      /\ Units(Len(Cells(f)))
  BY CellsType DEF Content, OwnFrames
<1>3. /\ f.kind \in own <=> f.kind # "data"
      /\ f.kind \in only <=> f.kind = "index"
  BY <1>2
<1> HIDE DEF own, only
<1>4. /\ Through(Cells(f), own).frames = (IF f.kind \in own THEN <<>> ELSE <<f>>)
      /\ Valid(Cells(f))
  BY <1>2, ThroughCells
<1>5. Through(Cells(f), only).frames = (IF f.kind \in only THEN <<>> ELSE <<f>>)
  BY <1>2, ThroughCells
<1>6. /\ Kept(Cells(f)) = IF f.kind = "data" THEN <<f>> ELSE <<>>
      /\ Serial(Cells(f)) = IF f.kind = "index" THEN <<>> ELSE <<f>>
  BY <1>1, <1>3, <1>4, <1>5
<1>7. Defined(Cells(f)) = IF f.kind = "jitmap" THEN f.defs ELSE {}
  <2>1. ToSet(<<>>) = {} /\ ToSet(<<f>>) = {f}
    BY DEF ToSet
  <2>2. CASE f.kind = "index"
    BY <1>6, <2>1, <2>2 DEF Defined
  <2>3. CASE f.kind # "index"
    <3>1. Defined(Cells(f)) = UNION {g.defs : g \in {h \in {f} : h.kind = "jitmap"}}
      BY <1>6, <2>1, <2>3 DEF Defined
    <3>2. CASE f.kind = "jitmap"
      BY <3>1, <3>2
    <3>3. CASE f.kind # "jitmap"
      BY <3>1, <3>3
    <3> QED
      BY <3>2, <3>3
  <2> QED
    BY <2>2, <2>3
<1> QED
  BY <1>2, <1>4, <1>6, <1>7 DEF Holds, Content

LEMMA ContentTypes ==
  ASSUME NEW file \in Content
  PROVE  /\ Kept(file) \in Seq(FramesOf(AnyCell)) /\ Serial(file) \in Seq(FramesOf(AnyCell))
         /\ Len(Serial(file)) \in Nat
<1> DEFINE only == {"index"}
<1>1. Serial(file) = Through(file, only).frames
  BY DEF Serial, Scan, Through
<1> HIDE DEF only
<1>2. Kept(file) \in Seq(FramesOf(AnyCell)) /\ Serial(file) \in Seq(FramesOf(AnyCell))
  BY <1>1, KeptType, ValidThrough DEF Content
<1> QED
  BY <1>2, LenProperties

LEMMA WriteClean ==
  ASSUME NEW s \in States, NEW cells \in Content, NEW t \in Write(s, cells), t.faults = 0
  PROVE  /\ t.ok /\ s.faults = 0 /\ t.w = s.w /\ t.disk.last_index = s.disk.last_index
         /\ t.disk.cells = s.disk.cells \o cells
<1>1. Len(cells) \in Nat /\ Len(cells) \in 0 .. Len(cells) /\ s.faults \in Nat
  BY DEF Content, States
<1>2. PICK n \in 0 .. Len(cells) :
        t = [s EXCEPT !.disk.cells = @ \o SubSeq(cells, 1, n),
                      !.ok = n = Len(cells),
                      !.faults = IF n = Len(cells) THEN @ ELSE @ + 1]
  BY <1>1 DEF Write
<1> DEFINE part == SubSeq(cells, 1, n)
           whole == n = Len(cells)
<1>3. /\ t.w = s.w /\ t.disk.last_index = s.disk.last_index
      /\ t.disk.cells = s.disk.cells \o part
  <2> HIDE DEF part, whole
  <2>1. t = [s EXCEPT !.disk.cells = @ \o part, !.ok = whole,
                      !.faults = IF whole THEN @ ELSE @ + 1]
    BY <1>2 DEF part, whole
  <2> QED
    BY <2>1 DEF States
<1>7. t.ok <=> n = Len(cells)
  <2> HIDE DEF part, whole
  <2>1. t = [s EXCEPT !.disk.cells = @ \o part, !.ok = whole,
                      !.faults = IF whole THEN @ ELSE @ + 1]
    BY <1>2 DEF part, whole
  <2>2. t.ok = whole
    BY <2>1 DEF States
  <2> QED
    BY <2>2 DEF whole
<1>6. t.faults = IF n = Len(cells) THEN s.faults ELSE s.faults + 1
  BY <1>2 DEF States
<1>4. n = Len(cells)
  BY <1>1, <1>6
<1>5. SubSeq(cells, 1, n) = cells
  BY <1>4, WholePart
<1> QED
  BY <1>3, <1>4, <1>5, <1>6, <1>7

(* A frame that is written, or what was buffered, comes behind the last     *)
(* index frame.                                                             *)
LEMMA OpenType ==
  ASSUME NEW file \in Content, NEW last, NEW most, Spaced(file, last, most)
  PROVE  /\ Open(file, last).frames \in Seq(FramesOf(AnyCell))
         /\ Len(Open(file, last).frames) \in Nat
<1> DEFINE at == ChainTo(file)[last]
           only == {"index"}
<1>1. last \in 0 .. Bytes(file) - 1 /\ at # Broken /\ file \in Seq(AnyCell)
  BY DEF Spaced, Content
<1>2. Places(file, at)
  BY <1>1, PastType
<1>3. Past(file, at, Len(at)) \in Header .. Bytes(file) /\ Bytes(file) \in Header .. Bytes(file)
  <2> HIDE DEF at
  <2>1. Len(at) \in 0 .. Len(at)
    BY <1>2 DEF Places
  <2>2. Bytes(file) \in Header .. Bytes(file)
    BY <1>1, Size
  <2> QED
    BY <1>2, <2>1, <2>2 DEF Places
<1>4. Open(file, last) = Walk(file, Bytes(file), only)[Past(file, at, Len(at))]
  BY DEF Open, Scan
<1> HIDE DEF only, at
<1>5. Open(file, last) \in Result(AnyCell)
  BY <1>1, <1>3, <1>4, WalkType
<1> QED
  BY <1>5, LenProperties DEF Result

LEMMA FlushDataCarries ==
  ASSUME NEW s, Good(s), NEW t \in FlushData(s)
  PROVE  /\ Carries(s, t)
         /\ t.faults = 0 => t.ok /\ s.faults = 0 /\ t.w.buf = <<>>
<1> SUFFICES ASSUME t.faults = 0
             PROVE  /\ t.ok /\ s.faults = 0 /\ t.w.buf = <<>>
                    /\ Sound(s) => Sound(t) /\ Text(t) = Text(s) /\ Known(t) = Known(s)
                    /\ Sound(s) /\ Near(s) => Near(t)
  BY DEF Carries
<1> DEFINE a == s.disk.cells
           b == s.w.buf
<1>1. s \in States /\ a \in Content /\ b \in Content /\ s.w.since \in Nat
  BY DEF Good, States
<1>2. PICK u \in Write(s, b) : t = IF u.ok THEN [u EXCEPT !.w.buf = <<>>] ELSE u
  BY DEF FlushData
<1>3. u \in States
  BY <1>1, <1>2, WriteFields
<1>4. u.faults = 0
  BY <1>2, <1>3 DEF States
<1>5. /\ u.ok /\ s.faults = 0 /\ u.w = s.w /\ u.disk.last_index = s.disk.last_index
      /\ u.disk.cells = a \o b
  BY <1>1, <1>2, <1>4, WriteClean
<1>6. t = [u EXCEPT !.w.buf = <<>>]
  BY <1>2, <1>5
<1>7. /\ t.ok /\ t.w.buf = <<>> /\ t.disk.cells = a \o b /\ t.disk.last_index = s.disk.last_index
      /\ t.w.last = s.w.last /\ t.w.jit = s.w.jit /\ t.w.since = s.w.since
  BY <1>3, <1>5, <1>6 DEF States
<1>8. ASSUME Sound(s)
      PROVE  Sound(t) /\ Text(t) = Text(s) /\ Known(t) = Known(s)
  <2>1. /\ Valid(a) /\ Valid(b) /\ Defined(b) = {} /\ s.disk.last_index = s.w.last
        /\ Units(Len(a)) /\ Units(Len(b)) /\ Straight(a, s.w.last)
    BY <1>8 DEF Sound
  <2>2. Combined(a, b)
    BY <1>1, <2>1, Combine
  <2>3. Kept(a \o b) \in Seq(FramesOf(AnyCell))
    BY <2>2, ContentTypes DEF Combined
  <2> HIDE DEF a, b
  <2>4. Sound(t)
    BY <1>7, <2>1, <2>2, CombineNothing DEF Sound, Combined
  <2>5. Kept(a \o b) \o <<>> = Kept(a) \o Kept(b)
    BY <2>2, <2>3, ConcatEmpty DEF Combined
  <2>6. Text(t) = Kept(a) \o Kept(b)
    BY <1>7, <2>5, CombineNothing DEF Text
  <2>7. Known(t) = Defined(a) \cup s.w.jit
    BY <1>7, <2>1, <2>2 DEF Known, Combined
  <2> QED
    BY <2>4, <2>6, <2>7 DEF Text, Known, a, b
<1>9. ASSUME Sound(s), Near(s)
      PROVE  Near(t)
  <2> DEFINE last == s.w.last
  <2>1. /\ Spaced(a, last, Interval) /\ Open(a, last).valid /\ Valid(b)
        /\ Len(Open(a, last).frames) + Len(Serial(b)) <= s.w.since
    BY <1>9 DEF Sound, Near
  <2> HIDE DEF a, b, last
  <2>2. SpacedOn(a, b, last, Interval)
    BY <1>1, <2>1, SpacedBehind DEF Content
  <2>3. /\ Spaced(a \o b, last, Interval) /\ Open(a \o b, last).valid
        /\ Open(a \o b, last).frames = Open(a, last).frames \o Serial(b)
    BY <2>1, <2>2 DEF SpacedOn
  <2>4. /\ Open(a, last).frames \in Seq(FramesOf(AnyCell))
        /\ Serial(b) \in Seq(FramesOf(AnyCell))
    BY <1>1, <2>1, OpenType, ContentTypes
  <2>5. Len(Open(a \o b, last).frames) = Len(Open(a, last).frames) + Len(Serial(b))
    BY <2>3, <2>4, ConcatProperties
  <2>6. Len(Serial(<<>>)) = 0
    BY CombineNothing
  <2>7. Len(Open(a \o b, last).frames) \in Nat
    BY <2>4, <2>5, LenProperties
  <2>8. Len(Open(a \o b, last).frames) + Len(Serial(<<>>)) <= s.w.since
    BY <2>1, <2>5, <2>6, <2>7
  <2> QED
    BY <1>7, <2>3, <2>8 DEF Near, last
<1> QED
  BY <1>5, <1>7, <1>8, <1>9

LEMMA UpdateClean ==
  ASSUME NEW s \in States, NEW t \in UpdateFrameIndex(s), t.faults = 0
  PROVE  /\ s.faults = 0 /\ t.w = s.w /\ t.disk.cells = s.disk.cells
         /\ t.disk.last_index = s.w.last /\ t.ok = s.ok
<1>1. s.faults \in Nat
  BY DEF States
<1>2. CASE t = [s EXCEPT !.disk.last_index = s.w.last]
  BY <1>2 DEF States
<1>3. CASE t = [s EXCEPT !.faults = @ + 1]
  <2>1. t.faults = s.faults + 1
    BY <1>3 DEF States
  <2> QED
    BY <1>1, <2>1
<1> QED
  BY <1>2, <1>3 DEF UpdateFrameIndex

(* A part is closed: nothing was buffered, so that all that was counted is  *)
(* in front of the index frame.                                             *)
LEMMA IndexCarries ==
  ASSUME NEW u, Good(u), u.w.buf = <<>>, NEW v \in Write(u, Cells(Index(u.w.last))), v.ok,
         NEW t \in UpdateFrameIndex(Indexed(v)), t.faults = 0
  PROVE  /\ Carries(u, t) /\ t.w.buf = <<>> /\ t.ok
<1> DEFINE f == Index(u.w.last)
           a == u.disk.cells
           more == Cells(f)
           last == u.w.last
           pos == Bytes(a)
           x == Indexed(v)
<1>1. /\ u \in States /\ a \in Content /\ u.w.last \in Nat /\ u.w.since \in Nat
      /\ u.w.since <= Interval /\ Interval \in Nat
  BY WriterAssumption DEF Good, States
<1>2. /\ f \in OwnFrames /\ f.kind = "index" /\ f.prev = last /\ f.len = HeadLen
      /\ HeadLen \in Nat \ {0}
  BY <1>1, WriterAssumption DEF Index, OwnFrames
<1>3. Holds(f) /\ more \in Content /\ Len(more) = HeadLen
  BY <1>2, CombineFrame, CellsType
<1>4. v \in States /\ v.disk.cells = a \o more
  <2>1. v \in States
    BY <1>1, <1>3, WriteFields
  <2>2. v.disk.cells = a \o more
    BY <1>3, WriteGood
  <2> QED
    BY <2>1, <2>2
<1>8. Bytes(a \o more) - HeadLen = pos /\ pos \in Nat
  <2>0. a \in Seq(AnyCell) /\ more \in Seq(AnyCell)
    BY <1>1, <1>3 DEF Content
  <2> HIDE DEF a, more
  <2>1. Bytes(a \o more) = Bytes(a) + Len(more) /\ Bytes(a) \in Nat
    BY <2>0, AtJoined, Size
  <2> QED
    BY <1>2, <1>3, <2>1
<1>5. /\ x \in States /\ x.faults = v.faults /\ x.ok = v.ok /\ x.disk = v.disk
      /\ x.w.last = Bytes(v.disk.cells) - HeadLen /\ x.w.since = 0
      /\ x.w.buf = v.w.buf /\ x.w.jit = v.w.jit
  <2>1. Bytes(v.disk.cells) - HeadLen \in Nat
    BY <1>4, <1>8
  <2> QED
    BY <1>4, <2>1 DEF States, Indexed
<1> HIDE DEF x
<1>6. /\ v.faults = 0 /\ t.w = x.w /\ t.disk.cells = v.disk.cells
      /\ t.disk.last_index = x.w.last /\ t.ok = v.ok
  BY <1>5, UpdateClean DEF x
<1>7. /\ v.ok /\ u.faults = 0 /\ v.w = u.w /\ v.disk.cells = a \o more
  BY <1>1, <1>3, <1>6, WriteClean
<1>9. /\ t.disk.cells = a \o more /\ t.disk.last_index = pos
      /\ t.w.last = pos /\ t.w.since = 0 /\ t.w.buf = <<>> /\ t.w.jit = u.w.jit
  BY <1>5, <1>6, <1>7, <1>8
<1>10. ASSUME Sound(u)
       PROVE  Sound(t) /\ Text(t) = Text(u) /\ Known(t) = Known(u)
  <2>1. Valid(a)
    BY <1>10 DEF Sound
  <2>2. Combined(a, more)
    BY <1>1, <1>3, <2>1, Combine
  <2>3. Valid(more) /\ Kept(more) = <<>> /\ Defined(more) = {} /\ Units(Len(more))
    BY <1>2, <1>3 DEF Holds
  <2>4. Kept(a) \in Seq(FramesOf(AnyCell))
    BY <1>1, ContentTypes
  <2>9. Straight(a \o more, pos) /\ Units(Len(a))
    BY <1>1, <1>10, StraightIndex DEF Sound
  <2> HIDE DEF a, more, pos
  <2>5. Kept(a \o more) = Kept(a)
    BY <2>2, <2>3, <2>4, ConcatEmpty DEF Combined
  <2>6. Sound(t)
    BY <1>9, <2>2, <2>3, <2>9, CombineNothing DEF Sound, Combined
  <2>7. Text(t) = Text(u)
    BY <1>9, <2>5 DEF Text, a
  <2>8. Known(t) = Known(u)
    <3>1. Defined(a \o more) = Defined(a)
      BY <2>2, <2>3 DEF Combined
    <3> QED
      BY <1>9, <3>1 DEF Known, a
  <2> QED
    BY <2>6, <2>7, <2>8
<1>11. ASSUME Near(u)
       PROVE  Near(t)
  <2>1. /\ Spaced(a, last, Interval)
        /\ Len(Open(a, last).frames) + Len(Serial(<<>>)) <= u.w.since
    BY <1>11 DEF Near
  <2>2. Len(Open(a, last).frames) \in Nat /\ Len(Serial(<<>>)) = 0
    BY <1>1, <2>1, OpenType, CombineNothing
  <2>3. Len(Open(a, last).frames) <= Interval
    BY <1>1, <2>1, <2>2
  <2> HIDE DEF f, a, last
  <2>4. Closed(a \o Cells(f), Bytes(a), Interval)
    BY <1>1, <1>2, <1>3, <2>1, <2>3, SpacedIndex DEF Content
  <2>5. /\ Spaced(a \o more, pos, Interval) /\ Open(a \o more, pos).valid
        /\ Len(Open(a \o more, pos).frames) = 0
    BY <2>4 DEF Closed
  <2> HIDE DEF more, pos
  <2> QED
    BY <1>9, <2>2, <2>5 DEF Near
<1> QED
  BY <1>6, <1>7, <1>9, <1>10, <1>11 DEF Carries

LEMMA WriteFrameIndexCarries ==
  ASSUME NEW s, Good(s), NEW force \in BOOLEAN, NEW t \in WriteFrameIndex(s, force)
  PROVE  /\ Carries(s, t) /\ (t.faults = 0 /\ s.ok => t.ok)
         /\ t.faults = 0 /\ s.w.buf = <<>> => t.w.buf = <<>>
<1> DEFINE written(x) == Write(x, Cells(Index(x.w.last)))
           noted(x) == UpdateFrameIndex(
                         [x EXCEPT !.w.last = Bytes(x.disk.cells) - HeadLen, !.w.since = 0])
<1>1. CASE s.w.since = 0 \/ (~force /\ s.w.since < Interval)
  <2>1. t = s
    BY <1>1 DEF WriteFrameIndex
  <2> QED
    BY <2>1, CarriesSame
<1>2. CASE ~(s.w.since = 0 \/ (~force /\ s.w.since < Interval))
  <2>1. t \in Then(Then(FlushData(s), written), noted)
    BY <1>2 DEF WriteFrameIndex
  <2>2. PICK v \in Then(FlushData(s), written) : t \in (IF v.ok THEN noted(v) ELSE {v})
    BY <2>1 DEF Then
  <2>3. PICK u \in FlushData(s) : v \in (IF u.ok THEN written(u) ELSE {u})
    BY <2>2 DEF Then
  <2>4. /\ Good(u) /\ Carries(s, u)
        /\ u.faults = 0 => u.ok /\ s.faults = 0 /\ u.w.buf = <<>>
    BY <2>3, FlushDataGood, FlushDataCarries
  <2> SUFFICES ASSUME t.faults = 0
               PROVE  Carries(s, t) /\ t.ok /\ t.w.buf = <<>>
    BY DEF Carries
  <2>5. Good(u) /\ u \in States /\ Cells(Index(u.w.last)) \in Content
    <3>1. u \in States
      BY <2>4 DEF Good
    <3>2. Index(u.w.last) \in OwnFrames
      BY <3>1 DEF Index, OwnFrames, States
    <3> QED
      BY <2>4, <3>1, <3>2, CellsType
  <2>6. u.ok
    <3>1. ASSUME ~u.ok PROVE FALSE
      <4>1. v = u
        BY <2>3, <3>1
      <4>2. t = u
        BY <2>2, <3>1, <4>1
      <4> QED
        BY <2>4, <3>1, <4>2
    <3> QED
      BY <3>1
  <2>7. v \in Write(u, Cells(Index(u.w.last)))
    BY <2>3, <2>6
  <2>8. v.ok
    <3>1. ASSUME ~v.ok PROVE FALSE
      <4>1. t = v
        BY <2>2, <3>1
      <4> QED
        BY <2>5, <2>7, <3>1, <4>1, WriteClean
    <3> QED
      BY <3>1
  <2>9. t \in UpdateFrameIndex(Indexed(v))
    BY <2>2, <2>8 DEF Indexed
  <2>10. u.faults = 0
    <3>1. v \in States
      BY <2>5, <2>7, WriteFields
    <3>2. Indexed(v) \in States /\ Indexed(v).faults = v.faults
      <4>1. /\ v.disk.cells = u.disk.cells \o Cells(Index(u.w.last))
            /\ v.w = u.w /\ Good(v)
        BY <2>5, <2>7, <2>8, WriteGood
      <4>4. v.disk.last_index = u.disk.last_index
        BY <2>5, <2>7, WriteFields
      <4>2. Good(Indexed(v))
        BY <2>5, <4>1, <4>4, IndexGood
      <4>3. Indexed(v).faults = v.faults
        BY <3>1 DEF States, Indexed
      <4> QED
        BY <4>2, <4>3 DEF Good
    <3>3. v.faults = 0
      BY <2>9, <3>2, UpdateClean
    <3> QED
      BY <2>5, <2>7, <3>3, WriteClean
  <2>11. u.w.buf = <<>>
    BY <2>4, <2>10
  <2>12. Carries(u, t) /\ t.w.buf = <<>> /\ t.ok
    BY <2>5, <2>7, <2>8, <2>9, <2>11, IndexCarries
  <2> QED
    BY <2>4, <2>12, CarriesTrans
<1> QED
  BY <1>1, <1>2

LEMMA EnsureSpaceCarries ==
  ASSUME NEW s, Good(s), NEW len, NEW t \in EnsureSpaceFor(s, len)
  PROVE  Carries(s, t)
<1>1. CASE t = [s EXCEPT !.ok = FALSE]
  <2>1. t.w = s.w /\ t.disk = s.disk /\ t.faults = s.faults
    BY <1>1 DEF Good, States
  <2> QED
    BY <2>1, CarriesSame
<1>2. CASE t \in FlushData(s)
  BY <1>2, FlushDataCarries
<1>3. CASE t = s
  BY <1>3, CarriesSame
<1> QED
  BY <1>1, <1>2, <1>3 DEF EnsureSpaceFor

(* A frame is added, if that worked out.                                    *)
Gains(s, t, frame) ==
  t.faults = 0 =>
    /\ s.faults = 0
    /\ Sound(s) => /\ Sound(t) /\ Known(t) = Known(s)
                   /\ Text(t) = IF t.ok THEN Append(Text(s), frame) ELSE Text(s)
    /\ Sound(s) /\ Near(s) => Near(t)

Placed(v, frame) == [v EXCEPT !.w.buf = @ \o Cells(frame), !.w.since = @ + 1]
LEMMA PlacedGains ==
  ASSUME NEW v, Good(v), v.ok, NEW frame \in OwnFrames, frame.kind = "data"
  PROVE  Gains(v, Placed(v, frame), frame)
<1> DEFINE t == Placed(v, frame)
           a == v.disk.cells
           b == v.w.buf
           more == Cells(frame)
           F == FramesOf(AnyCell)
<1>1. v \in States /\ a \in Content /\ b \in Content /\ v.w.since \in Nat
  BY DEF Good, States
<1>2. /\ t.disk = v.disk /\ t.w.buf = b \o more /\ t.w.since = v.w.since + 1
      /\ t.w.jit = v.w.jit /\ t.w.last = v.w.last /\ t.faults = v.faults /\ t.ok
  BY <1>1 DEF States, Placed
<1>3. /\ Holds(frame) /\ more \in Content /\ Kept(more) = <<frame>> /\ Serial(more) = <<frame>>
      /\ Defined(more) = {} /\ Valid(more) /\ Units(Len(more))
  BY CombineFrame DEF Holds
<1> HIDE DEF t, a, b, more, F
<1>4. /\ Kept(a) \in Seq(F) /\ Kept(b) \in Seq(F) /\ Serial(b) \in Seq(F) /\ <<frame>> \in Seq(F)
      /\ Len(Serial(b)) \in Nat
  BY <1>1, <1>3, ContentTypes DEF F
<1>5. ASSUME Sound(v)
      PROVE  Combined(b, more)
  BY <1>1, <1>3, <1>5, Combine DEF Sound, b
<1>6. ASSUME Sound(v)
      PROVE  Sound(t) /\ Known(t) = Known(v) /\ Text(t) = Append(Text(v), frame)
  <2>1. /\ Kept(b \o more) = Kept(b) \o <<frame>> /\ Defined(b \o more) = Defined(b)
        /\ Valid(b \o more) /\ (Units(Len(b)) => Units(Len(b \o more)))
    BY <1>3, <1>5, <1>6 DEF Combined
  <2>2. Sound(t) /\ Known(t) = Known(v)
    BY <1>2, <1>6, <2>1 DEF Sound, Known, a, b
  <2>3. Text(v) \in Seq(F) /\ Text(v) = Kept(a) \o Kept(b)
    BY <1>4, ConcatType DEF Text, a, b
  <2>4. Assoc(Kept(a), Kept(b), <<frame>>)
    BY <1>4, ConcatAssoc
  <2>5. Text(t) = Text(v) \o <<frame>>
    BY <1>2, <2>1, <2>3, <2>4 DEF Text, Assoc, a
  <2>6. frame \in F
    BY <1>4
  <2> QED
    BY <2>2, <2>3, <2>5, <2>6, AppendIsConcat
<1>7. ASSUME Sound(v), Near(v)
      PROVE  Near(t)
  <2>1. Serial(b \o more) = Serial(b) \o <<frame>>
    BY <1>3, <1>5, <1>7 DEF Combined
  <2>2. Len(Serial(b \o more)) = Len(Serial(b)) + 1
    <3>1. Len(Serial(b) \o <<frame>>) = Len(Serial(b)) + Len(<<frame>>) /\ Len(<<frame>>) = 1
      BY <1>4, ConcatProperties
    <3> QED
      BY <2>1, <3>1
  <2> DEFINE n == Len(Open(a, v.w.last).frames)
             m == Len(Serial(b))
  <2>3. Spaced(a, v.w.last, Interval) /\ Open(a, v.w.last).valid /\ n + m <= v.w.since
    BY <1>7 DEF Near, a, b
  <2>4. n \in Nat /\ m \in Nat
    BY <1>1, <1>4, <2>3, OpenType
  <2> HIDE DEF n, m
  <2>5. n + (m + 1) <= v.w.since + 1
    BY <1>1, <2>3, <2>4
  <2> QED
    BY <1>2, <2>2, <2>3, <2>5 DEF Near, n, m, a
<1> QED
  BY <1>2, <1>6, <1>7 DEF Gains, t

LEMMA AllocateGains ==
  ASSUME NEW s, Good(s), NEW len \in Nat, NEW frame \in OwnFrames, frame.kind = "data",
         NEW t \in Allocate(s, len, frame)
  PROVE  Gains(s, t, frame)
<1> DEFINE fits(x) == EnsureSpaceFor(x, len)
           place(x) == {[x EXCEPT !.w.buf = @ \o Cells(frame), !.w.since = @ + 1]}
<1>1. t \in Then(Then(WriteFrameIndex(s, FALSE), fits), place)
  BY DEF Allocate
<1>2. PICK v \in Then(WriteFrameIndex(s, FALSE), fits) : t \in (IF v.ok THEN place(v) ELSE {v})
  BY <1>1 DEF Then
<1>3. PICK u \in WriteFrameIndex(s, FALSE) : v \in (IF u.ok THEN fits(u) ELSE {u})
  BY <1>2 DEF Then
<1>4. Good(u) /\ Carries(s, u)
  BY <1>3, WriteFrameIndexGood, WriteFrameIndexCarries
<1>5. Good(v) /\ Carries(u, v)
  <2>1. CASE u.ok
    BY <1>3, <1>4, <2>1, EnsureSpaceGood, EnsureSpaceCarries
  <2>2. CASE ~u.ok
    BY <1>3, <1>4, <2>2, CarriesSame
  <2> QED
    BY <2>1, <2>2
<1>6. Carries(s, v)
  BY <1>4, <1>5, CarriesTrans
<1>7. CASE v.ok
  <2>1. t = Placed(v, frame)
    BY <1>2, <1>7 DEF Placed
  <2>2. Gains(v, t, frame)
    BY <1>5, <1>7, <2>1, PlacedGains
  <2> QED
    BY <1>6, <2>2 DEF Gains, Carries
<1>8. CASE ~v.ok
  <2>1. t = v
    BY <1>2, <1>8
  <2> QED
    BY <1>6, <1>8, <2>1 DEF Gains, Carries
<1> QED
  BY <1>7, <1>8

(* The table goes into the file, in front of what is buffered.              *)
Cleared(v) == [v EXCEPT !.w.jit = {}, !.w.since = @ + 1]
LEMMA TableCarries ==
  ASSUME NEW u, Good(u), NEW v \in Write(u, Cells(Jitmap(u.w.jit)))
  PROVE  /\ Carries(u, v) \/ v.ok
         /\ v.ok => Carries(u, Cleared(v))
<1> DEFINE f == Jitmap(u.w.jit)
           a == u.disk.cells
           more == Cells(f)
           last == u.w.last
           F == FramesOf(AnyCell)
           t == Cleared(v)
<1>1. u \in States /\ a \in Content /\ u.w.buf \in Content /\ u.w.since \in Nat
  BY DEF Good, States
<1>2. f \in OwnFrames /\ f.kind = "jitmap" /\ f.defs = u.w.jit
  <2>1. u.w.jit \in SUBSET Entry /\ IsFiniteSet(u.w.jit)
    BY DEF Good, States
  <2> QED
    BY <2>1, JitmapOwn
<1>3. /\ more \in Content /\ Valid(more) /\ Kept(more) = <<>> /\ Serial(more) = <<f>>
      /\ Defined(more) = u.w.jit /\ Units(Len(more))
  BY <1>2, CombineFrame DEF Holds
<1>4. v \in States
  BY <1>1, <1>3, WriteFields
<1>5. v.faults = 0 => /\ v.ok /\ u.faults = 0 /\ v.w = u.w
                      /\ v.disk.last_index = u.disk.last_index /\ v.disk.cells = a \o more
  BY <1>1, <1>3, WriteClean
<1>6. Carries(u, v) \/ v.ok
  BY <1>5 DEF Carries
<1>7. /\ t.disk = v.disk /\ t.w.buf = v.w.buf /\ t.w.jit = {} /\ t.w.last = v.w.last
      /\ t.w.since = v.w.since + 1 /\ t.faults = v.faults
  BY <1>4 DEF States, Cleared
<1> HIDE DEF f, a, more, last, F, t
<1>8. ASSUME t.faults = 0
      PROVE  /\ u.faults = 0 /\ t.w.buf = u.w.buf /\ t.w.last = last
             /\ t.w.since = u.w.since + 1 /\ t.w.jit = {}
             /\ t.disk.last_index = u.disk.last_index /\ t.disk.cells = a \o more
  BY <1>5, <1>7, <1>8 DEF last
<1>9. ASSUME t.faults = 0, Sound(u)
      PROVE  Sound(t) /\ Text(t) = Text(u) /\ Known(t) = Known(u)
  <2>1. Valid(a)
    BY <1>9 DEF Sound, a
  <2>2. Combined(a, more)
    BY <1>1, <1>3, <2>1, Combine
  <2>3. Kept(a) \in Seq(F)
    BY <1>1, ContentTypes DEF F
  <2>4. /\ Kept(a \o more) = Kept(a) /\ Defined(a \o more) = Defined(a) \cup u.w.jit
        /\ Valid(a \o more) /\ (Units(Len(a)) => Units(Len(a \o more)))
        /\ Straight(a, last) => Straight(a \o more, last)
    BY <1>3, <2>2, <2>3, ConcatEmpty DEF Combined
  <2> QED
    BY <1>8, <1>9, <2>4 DEF Sound, Text, Known, a, last
<1>10. ASSUME t.faults = 0, Sound(u), Near(u)
       PROVE  Near(t)
  <2> DEFINE b == u.w.buf
             n == Len(Open(a, last).frames)
             m == Len(Serial(b))
  <2>1. Spaced(a, last, Interval) /\ Open(a, last).valid /\ n + m <= u.w.since
    BY <1>10 DEF Near, a, last
  <2>2. n \in Nat /\ m \in Nat /\ Open(a, last).frames \in Seq(F)
    BY <1>1, <2>1, OpenType, ContentTypes DEF F
  <2>3. <<f>> \in Seq(F)
    BY <1>3, ContentTypes DEF F
  <2>4. SpacedOn(a, more, last, Interval)
    BY <1>1, <1>3, <2>1, SpacedBehind DEF Content
  <2>5. /\ Spaced(a \o more, last, Interval) /\ Open(a \o more, last).valid
        /\ Open(a \o more, last).frames = Open(a, last).frames \o <<f>>
    BY <1>3, <2>4 DEF SpacedOn
  <2>6. Len(Open(a \o more, last).frames) = n + 1
    <3>1. /\ Len(Open(a, last).frames \o <<f>>) = Len(Open(a, last).frames) + Len(<<f>>)
          /\ Len(<<f>>) = 1
      BY <2>2, <2>3, ConcatProperties
    <3> QED
      BY <2>5, <3>1
  <2> HIDE DEF n, m
  <2>7. (n + 1) + m <= u.w.since + 1
    BY <1>1, <2>1, <2>2
  <2> QED
    BY <1>8, <1>10, <2>5, <2>6, <2>7 DEF Near, m
<1>11. Carries(u, t)
  BY <1>8, <1>9, <1>10 DEF Carries
<1> QED
  BY <1>6, <1>11 DEF t

LEMMA FlushJitmapCarries ==
  ASSUME NEW s, Good(s), NEW t \in FlushJitmap(s)
  PROVE  Carries(s, t)
<1> DEFINE written(x) == Write(x, Cells(Jitmap(x.w.jit)))
           clear(x) == {[x EXCEPT !.w.jit = {}, !.w.since = @ + 1]}
<1>1. CASE s.w.jit = {}
  BY <1>1, CarriesSame DEF FlushJitmap
<1>2. CASE s.w.jit # {}
  <2>1. t \in Then(Then(WriteFrameIndex(s, FALSE), written), clear)
    BY <1>2 DEF FlushJitmap
  <2>2. PICK v \in Then(WriteFrameIndex(s, FALSE), written) :
          t \in (IF v.ok THEN clear(v) ELSE {v})
    BY <2>1 DEF Then
  <2>3. PICK u \in WriteFrameIndex(s, FALSE) : v \in (IF u.ok THEN written(u) ELSE {u})
    BY <2>2 DEF Then
  <2>4. Good(u) /\ Carries(s, u)
    BY <2>3, WriteFrameIndexGood, WriteFrameIndexCarries
  <2>5. CASE ~u.ok
    <3>1. t = u
      BY <2>2, <2>3, <2>5
    <3> QED
      BY <2>4, <3>1
  <2>6. CASE u.ok
    <3>1. v \in Write(u, Cells(Jitmap(u.w.jit)))
      BY <2>3, <2>6
    <3>2. /\ Carries(u, v) \/ v.ok
          /\ v.ok => Carries(u, Cleared(v))
      BY <2>4, <3>1, TableCarries
    <3>3. t = IF v.ok THEN Cleared(v) ELSE v
      BY <2>2 DEF Cleared
    <3>4. Carries(u, t)
      BY <3>2, <3>3
    <3> QED
      BY <2>4, <3>4, CarriesTrans
  <2> QED
    BY <2>5, <2>6
<1> QED
  BY <1>1, <1>2

(* A name is entered, if that worked out.                                   *)
Enters(s, t, name) ==
  t.faults = 0 =>
    /\ s.faults = 0
    /\ Sound(s) => /\ Sound(t) /\ Text(t) = Text(s)
                   /\ Known(t) = IF t.ok THEN Known(s) \cup {<<name, t.w.seq>>} ELSE Known(s)
    /\ Sound(s) /\ Near(s) => Near(t)

LEMMA InsertEnters ==
  ASSUME NEW s, Good(s), NEW name \in Names, NEW t \in InsertJitmap(s, name)
  PROVE  Enters(s, t, name)
<1> DEFINE insert(x) == {[x EXCEPT !.w.seq = @ + 1, !.w.jit = @ \cup {<<name, x.w.seq + 1>>}]}
           flushed == IF Cardinality(s.w.jit) = JitMax THEN FlushJitmap(s) ELSE {s}
<1>1. PICK u \in flushed : t \in (IF u.ok THEN insert(u) ELSE {u})
  BY DEF InsertJitmap, Then
<1>2. Good(u) /\ Carries(s, u) /\ u \in States
  <2>1. CASE u \in FlushJitmap(s)
    BY <2>1, FlushJitmapGood, FlushJitmapCarries DEF Good
  <2>2. CASE u = s
    BY <2>2, CarriesSame DEF Good
  <2> QED
    BY <1>1, <2>1, <2>2
<1>3. CASE ~u.ok
  <2>1. t = u
    BY <1>1, <1>3
  <2> QED
    BY <1>2, <1>3, <2>1 DEF Enters, Carries
<1>4. CASE u.ok
  <2> DEFINE seq == u.w.seq + 1
             jit == u.w.jit \cup {<<name, seq>>}
  <2>1. t = [u EXCEPT !.w.seq = seq, !.w.jit = jit]
    BY <1>1, <1>4
  <2> HIDE DEF seq, jit
  <2>2. /\ t.disk = u.disk /\ t.w.buf = u.w.buf /\ t.w.since = u.w.since /\ t.w.last = u.w.last
        /\ t.w.seq = seq /\ t.w.jit = jit /\ t.ok = u.ok /\ t.faults = u.faults
    BY <1>2, <2>1 DEF States
  <2>3. (Sound(t) <=> Sound(u)) /\ Text(t) = Text(u) /\ (Near(t) <=> Near(u))
    BY <2>2 DEF Sound, Text, Near
  <2>4. Known(t) = Known(u) \cup {<<name, t.w.seq>>}
    BY <2>2 DEF Known, jit
  <2> QED
    BY <1>2, <1>4, <2>2, <2>3, <2>4 DEF Enters, Carries
<1> QED
  BY <1>3, <1>4

LEMMA FlushAllCarries ==
  ASSUME NEW s, Good(s), NEW t \in FlushAll(s)
  PROVE  /\ Carries(s, t)
         /\ t.ok /\ t.faults = 0 => t.w.buf = <<>>
<1>1. PICK u \in FlushJitmap(s) : t \in (IF u.ok THEN FlushData(u) ELSE {u})
  BY DEF FlushAll, Then
<1>2. Good(u) /\ Carries(s, u)
  BY <1>1, FlushJitmapGood, FlushJitmapCarries
<1>3. CASE ~u.ok
  BY <1>1, <1>2, <1>3
<1>4. CASE u.ok
  <2>1. Carries(u, t) /\ (t.faults = 0 => t.w.buf = <<>>)
    BY <1>1, <1>2, <1>4, FlushDataCarries
  <2> QED
    BY <1>2, <2>1, CarriesTrans
<1> QED
  BY <1>3, <1>4

LEMMA CopyCarries ==
  ASSUME NEW s, Good(s), NEW t \in Copy(s)
  PROVE  Carries(s, t) /\ (t.ok => s.ok)
<1>1. s \in States /\ s.disk.cells \in Content
  BY DEF Good, States
<1>2. PICK u \in IF s.ok THEN Write(s, s.disk.cells) ELSE {s} :
        t = [u EXCEPT !.disk = s.disk, !.ok = s.ok /\ u.ok]
  BY DEF Copy
<1>3. u \in States
  BY <1>1, <1>2, WriteFields
<1>4. t.faults = u.faults /\ (t.ok => s.ok)
  BY <1>2, <1>3 DEF States
<1>5. u.faults = 0 => s.faults = 0
  BY <1>1, <1>2, WriteClean
<1>6. t.w = s.w /\ t.disk = s.disk
  BY CopyGood
<1> QED
  BY <1>4, <1>5, <1>6, CarriesSame

(* Another file is copied behind this one, if that worked out.              *)
Takes(s, t, source) ==
  t.faults = 0 /\ (t.ok => Whole(source)) =>
    /\ s.faults = 0
    /\ Sound(s) =>
         /\ Sound(t)
         /\ Text(t) = IF t.ok THEN Text(s) \o Kept(source) ELSE Text(s)
         /\ Known(t) = IF t.ok THEN Known(s) \cup Defined(source) ELSE Known(s)
    /\ Sound(s) /\ Near(s) /\ (t.ok => source = <<>>) => Near(t)

(* The copy itself, with nothing buffered.                                  *)
LEMMA CopiedTakes ==
  ASSUME NEW c, Good(c), c.ok, NEW source \in Content,
         NEW d \in Write(c, source), NEW e \in AfterCopy(d, source),
         c.faults = 0 => c.w.buf = <<>>
  PROVE  Takes(c, e, source)
<1> DEFINE a == c.disk.cells
           F == FramesOf(AnyCell)
<1>1. c \in States /\ a \in Content
  BY DEF Good, States
<1>2. Good(d)
  BY WriteGood
<1>3. /\ e.disk = d.disk /\ e.w.buf = d.w.buf /\ e.w.jit = d.w.jit /\ e.w.last = d.w.last
      /\ e.faults = d.faults /\ e.ok = d.ok
      /\ (e.w.since = d.w.since \/ (d.ok /\ source # <<>>))
  BY <1>2, CopiedGood
<1> SUFFICES ASSUME e.faults = 0, e.ok => Whole(source)
             PROVE  /\ c.faults = 0
                    /\ Sound(c) =>
                         /\ Sound(e)
                         /\ Text(e) = IF e.ok THEN Text(c) \o Kept(source) ELSE Text(c)
                         /\ Known(e) = IF e.ok THEN Known(c) \cup Defined(source) ELSE Known(c)
                    /\ Sound(c) /\ Near(c) /\ (e.ok => source = <<>>) => Near(e)
  BY DEF Takes
<1>4. /\ d.ok /\ c.faults = 0 /\ d.w = c.w /\ d.disk.last_index = c.disk.last_index
      /\ d.disk.cells = a \o source
  BY <1>1, <1>3, WriteClean
<1>5. /\ e.ok /\ e.disk.cells = a \o source /\ e.disk.last_index = c.disk.last_index
      /\ e.w.buf = <<>> /\ c.w.buf = <<>> /\ e.w.jit = c.w.jit /\ e.w.last = c.w.last
  BY <1>3, <1>4
<1> HIDE DEF a, F
<1>6. ASSUME Sound(c)
      PROVE  /\ Sound(e) /\ Text(e) = Text(c) \o Kept(source)
             /\ Known(e) = Known(c) \cup Defined(source)
  <2>1. Combined(a, source) /\ Valid(source) /\ Units(Len(source))
    BY <1>1, <1>5, <1>6, Combine DEF Sound, a, Whole, Valid
  <2>2. Kept(a) \in Seq(F) /\ Kept(source) \in Seq(F)
    BY <1>1, ContentTypes DEF F
  <2>3. Sound(e)
    BY <1>5, <1>6, <2>1 DEF Sound, Combined, a
  <2>4. Kept(a) \o Kept(source) \in Seq(F)
    BY <2>2, ConcatType
  <2>5. /\ Text(e) = (Kept(a) \o Kept(source)) \o <<>>
        /\ Text(c) = Kept(a) \o <<>>
    BY <1>5, <2>1, CombineNothing DEF Text, Combined, a
  <2>6. Text(e) = Text(c) \o Kept(source)
    BY <2>2, <2>4, <2>5, ConcatEmpty
  <2>7. Known(e) = Known(c) \cup Defined(source)
    BY <1>5, <2>1 DEF Known, Combined, a
  <2> QED
    BY <2>3, <2>6, <2>7
<1>7. ASSUME Near(c), source = <<>>
      PROVE  Near(e)
  <2>1. a \o source = a
    BY <1>1, <1>7, ConcatEmpty DEF Content
  <2>2. e.w.since = c.w.since
    BY <1>3, <1>4, <1>7
  <2> QED
    BY <1>5, <1>7, <2>1, <2>2 DEF Near, a
<1> QED
  BY <1>4, <1>5, <1>6, <1>7

LEMMA SpliceTakes ==
  ASSUME NEW s, Good(s), NEW source \in Content, NEW a, NEW b, NEW c, NEW d, NEW e,
         Stages(s, source, a, b, c, d, e)
  PROVE  Takes(s, e, source)
<1>1. Good(a) /\ Good(b) /\ Good(c) /\ Good(d)
  BY SpliceGood
<1>2. /\ Carries(s, a)
      /\ a.ok /\ a.faults = 0 => a.w.buf = <<>>
  BY FlushAllCarries DEF Stages
<1>3. /\ Carries(a, b) /\ b.w = a.w /\ b.faults = a.faults
      /\ b.ok => a.ok
  <2>1. b \in AfterFlush(a, source)
    BY DEF Stages
  <2>2. /\ b.w = a.w /\ b.disk = a.disk /\ b.faults = a.faults
        /\ b.ok => a.ok
    BY <1>1, <2>1, CheckGood
  <2> QED
    BY <2>2, CarriesSame
<1>4. CASE ~b.ok
  <2>1. c = b /\ d = b /\ e = b
    BY <1>4 DEF Stages, AfterCheck, AfterIndex, AfterCopy
  <2>2. Carries(s, e)
    BY <1>2, <1>3, <2>1, CarriesTrans
  <2> QED
    BY <1>4, <2>1, <2>2 DEF Takes, Carries
<1>5. CASE b.ok
  <2>1. c \in WriteFrameIndex(b, TRUE)
    BY <1>5 DEF Stages, AfterCheck
  <2>2. /\ Carries(b, c)
        /\ c.faults = 0 /\ b.w.buf = <<>> => c.w.buf = <<>>
    BY <1>1, <2>1, WriteFrameIndexCarries
  <2>3. a.ok
    BY <1>3, <1>5
  <2>4. Carries(s, c)
    BY <1>2, <1>3, <2>2, CarriesTrans
  <2>5. c.faults = 0 => c.w.buf = <<>>
    BY <1>2, <1>3, <2>2, <2>3 DEF Carries
  <2>6. CASE ~c.ok
    <3>1. d = c /\ e = c
      BY <2>6 DEF Stages, AfterIndex, AfterCopy
    <3> QED
      BY <2>4, <2>6, <3>1 DEF Takes, Carries
  <2>7. CASE c.ok
    <3>1. d \in Write(c, source) /\ e \in AfterCopy(d, source)
      BY <2>7 DEF Stages, AfterIndex
    <3>2. Takes(c, e, source)
      BY <1>1, <2>5, <2>7, <3>1, CopiedTakes
    <3> QED
      BY <2>4, <3>2 DEF Takes, Carries
  <2> QED
    BY <2>6, <2>7
<1> QED
  BY <1>4, <1>5

(* What holds of the outcome holds of the next state.                       *)
LEMMA OutcomeHeld ==
  ASSUME NEW s, Outcome(s)
  PROVE  /\ (faults' = 0 <=> s.faults = 0)
         /\ Sound(Now)' <=> Sound(s)
         /\ Text(Now)' = Text(s) /\ Known(Now)' = Known(s)
         /\ Near(Now)' <=> Near(s)
<1>1. Now'.w = s.w /\ Now'.disk = s.disk /\ faults' = s.faults
  BY DEF Now, Outcome
<1> QED
  BY <1>1 DEF Sound, Text, Known, Near

LEMMA HeldKept ==
  ASSUME Held, NEW s, Outcome(s), Carries(Now, s),
         added' = added, given' = given, spliced' = spliced
  PROVE  Held'
<1>1. Now.faults = faults
  BY DEF Now
<1> QED
  BY <1>1, OutcomeHeld DEF Held, Carries

LEMMA AddHeld ==
  ASSUME IInv, Held, NEW asked \in Lens, NEW len \in Lens, Add(asked, len)
  PROVE  Held'
<1> DEFINE frame == Data(Len(added) + 1, len)
<1>1. len \in Lengths /\ asked \in Nat
  BY WriterAssumption DEF Lengths
<1>2. Len(added) + 1 \in Nat
  BY LenProperties DEF IInv, TypeOK
<1>3. frame \in OwnFrames /\ frame.kind = "data"
  BY <1>1, <1>2 DEF Data, OwnFrames
<1>4. PICK s \in Allocate(Now, asked, frame) :
        Outcome(s) /\ added' = IF s.ok THEN Append(added, frame) ELSE added
  BY DEF Add
<1>5. given' = given /\ spliced' = spliced
  BY DEF Add
<1> HIDE DEF frame
<1>6. Gains(Now, s, frame)
  BY <1>1, <1>3, <1>4, NowGood, AllocateGains
<1>7. Now.faults = faults
  BY DEF Now
<1> QED
  BY <1>4, <1>5, <1>6, <1>7, OutcomeHeld DEF Held, Gains

LEMMA AddJitmapHeld ==
  ASSUME IInv, Held, NEW name \in Names, AddJitmap(name)
  PROVE  Held'
<1>1. PICK s \in InsertJitmap(Now, name) :
        Outcome(s) /\ given' = IF s.ok THEN given \cup {<<name, s.w.seq>>} ELSE given
  BY DEF AddJitmap
<1>2. added' = added /\ spliced' = spliced
  BY DEF AddJitmap
<1>3. Enters(Now, s, name)
  BY <1>1, NowGood, InsertEnters
<1>4. Now.faults = faults
  BY DEF Now
<1> SUFFICES ASSUME faults' = 0, Whole(spliced)
             PROVE  /\ Sound(Now)' /\ Text(Now)' = added
                    /\ Known(Now)' = given' \cup Defined(spliced)
                    /\ spliced = <<>> => Near(Now)'
  BY <1>2 DEF Held
<1>5. /\ Sound(Now) /\ Text(Now) = added /\ Known(Now) = given \cup Defined(spliced)
      /\ spliced = <<>> => Near(Now)
  BY <1>1, <1>3, <1>4, OutcomeHeld DEF Held, Enters
<1>6. /\ Sound(Now)' /\ Text(Now)' = added
      /\ spliced = <<>> => Near(Now)'
  BY <1>1, <1>3, <1>5, OutcomeHeld DEF Enters
<1>7. Known(Now)' = IF s.ok THEN Known(Now) \cup {<<name, s.w.seq>>} ELSE Known(Now)
  BY <1>1, <1>3, <1>5, OutcomeHeld DEF Enters
<1>8. Known(Now)' = given' \cup Defined(spliced)
  BY <1>1, <1>5, <1>7
<1> QED
  BY <1>6, <1>8

LEMMA SpliceHeld ==
  ASSUME IInv, Held, NEW source \in Sources, Splice(source)
  PROVE  Held'
<1>1. spliced = <<>> /\ given' = given
  BY SpliceOutcome
<1>2. PICK a, b, c, d, e :
        /\ Stages(Now, source, a, b, c, d, e) /\ Outcome(e)
        /\ added' = IF e.ok THEN added \o Kept(source) ELSE added
        /\ spliced' = IF e.ok THEN source ELSE spliced
  BY SpliceOutcome
<1>3. Takes(Now, e, source)
  BY <1>2, NowGood, SourceContent, SpliceTakes
<1>4. Now.faults = faults
  BY DEF Now
<1>5. ASSUME e.faults = 0, e.ok => Whole(source)
      PROVE  /\ Sound(Now) /\ Text(Now) = added /\ Known(Now) = given
             /\ Near(Now)
  <2>1. faults = 0
    BY <1>3, <1>4, <1>5 DEF Takes
  <2> QED
    BY <1>1, <2>1, CombineNothing DEF Held
<1>6. CASE e.ok
  BY <1>1, <1>2, <1>3, <1>5, <1>6, OutcomeHeld DEF Held, Takes
<1>7. CASE ~e.ok
  BY <1>1, <1>2, <1>3, <1>5, <1>7, OutcomeHeld, CombineNothing DEF Held, Takes
<1> QED
  BY <1>6, <1>7

LEMMA SaveAsHeld ==
  ASSUME IInv, Held, NEW old \in Saved, SaveAs(old)
  PROVE  Held'
<1>1. PICK s \in UNION {Copy(t) : t \in FlushAll(Now)} : Outcome(s)
  BY DEF SaveAs
<1>2. PICK t \in FlushAll(Now) : s \in Copy(t)
  OBVIOUS
<1>3. Good(t) /\ Carries(Now, t)
  BY <1>2, NowGood, FlushAllGood, FlushAllCarries
<1>4. Carries(Now, s)
  BY <1>2, <1>3, CopyCarries, CarriesTrans
<1> QED
  BY <1>1, <1>4, HeldKept DEF SaveAs

LEMMA InitHeld ==
  ASSUME Init
  PROVE  Held
<1> DEFINE nothing == <<>>
<1>1. /\ w = [buf |-> <<>>, jit |-> {}, seq |-> 0, last |-> 0, since |-> 0]
      /\ disk = [cells |-> <<>>, last_index |-> 0]
      /\ given = {} /\ added = <<>> /\ spliced = <<>>
  BY DEF Init
<1>2. /\ Now.w.buf = nothing /\ Now.w.jit = {} /\ Now.w.last = 0 /\ Now.w.since = 0
      /\ Now.disk.cells = nothing /\ Now.disk.last_index = 0
  BY <1>1 DEF Now
<1>3. /\ nothing \in Content /\ Valid(nothing) /\ Kept(nothing) = <<>>
      /\ Serial(nothing) = <<>> /\ Defined(nothing) = {}
      /\ Units(Len(nothing)) /\ Straight(nothing, 0)
  BY CombineNothing
<1>4. nothing \in Seq(AnyCell) /\ Len(nothing) = 0
  OBVIOUS
<1>6. <<>> \o <<>> = <<>> /\ Len(<<>>) = 0
  OBVIOUS
<1> HIDE DEF nothing
<1>5. Bytes(nothing) = 1 /\ Header = 1
  BY <1>4 DEF Bytes, Header
<1>7. ChainTo(nothing)[0] = <<>>
  <2>1. 0 \in 0 .. Bytes(nothing) - 1
    BY <1>5
  <2>2. ChainTo(nothing)[0] = Link(nothing, ChainTo(nothing), 0)
    BY <1>4, <2>1, ChainDef
  <2> QED
    BY <2>2 DEF Link
<1>8. Spaced(nothing, 0, Interval)
  <2>1. Broken # <<>>
    BY DEF Broken
  <2> QED
    BY <1>5, <1>6, <1>7, <2>1 DEF Spaced
<1>9. Open(nothing, 0) = Scan(nothing, Header, Bytes(nothing))
  BY <1>6, <1>7 DEF Open, Past
<1>10. Open(nothing, 0).valid /\ Open(nothing, 0).frames = <<>>
  BY <1>3, <1>9 DEF Valid, Serial
<1>11. Near(Now)
  BY <1>2, <1>3, <1>6, <1>8, <1>10 DEF Near
<1>12. Sound(Now) /\ Text(Now) = <<>> /\ Known(Now) = {}
  BY <1>2, <1>3, <1>6 DEF Sound, Text, Known
<1> QED
  BY <1>1, <1>3, <1>11, <1>12 DEF Held, nothing

LEMMA HeldStep ==
  ASSUME IInv, Held, [Next]_vars
  PROVE  Held'
<1>1. CASE UNCHANGED vars
  <2>1. /\ Now' = Now /\ added' = added /\ given' = given /\ spliced' = spliced
        /\ faults' = faults
    BY <1>1 DEF vars, Now
  <2> QED
    BY <2>1 DEF Held
<1>2. CASE \E asked, len \in Lens : Add(asked, len)
  BY <1>2, AddHeld
<1>3. CASE \E name \in Names : AddJitmap(name)
  BY <1>3, AddJitmapHeld
<1>4. CASE Flush
  <2>1. PICK s \in FlushAll(Now) : Outcome(s)
    BY <1>4 DEF Flush
  <2>2. Carries(Now, s)
    BY <2>1, NowGood, FlushAllCarries
  <2> QED
    BY <1>4, <2>1, <2>2, HeldKept DEF Flush
<1>5. CASE \E old \in Saved : SaveAs(old)
  BY <1>5, SaveAsHeld
<1>6. CASE \E source \in Sources : Splice(source)
  BY <1>6, SpliceHeld
<1> QED
  BY <1>1, <1>2, <1>3, <1>4, <1>5, <1>6 DEF Next

(* What a document makes of the chain.                                      *)
LEMMA ChainHeld ==
  ASSUME IInv, Held
  PROVE  ChainUnbroken
<1> DEFINE file == disk.cells
           last == disk.last_index
<1>1. /\ file \in Seq(AnyCell) /\ w.since <= Interval /\ w.since \in Nat /\ Interval \in Nat
      /\ w.buf \in Content /\ last <= w.last
  BY WriterAssumption DEF IInv, Good, Now, States, Content
<1>2. PICK places \in SUBSET Nat :
        /\ Linked(file, places)
        /\ w.last \in places \cup {0} /\ last \in places \cup {0}
  BY DEF IInv, Good, Chained, Now
<1> HIDE DEF file, last
<1>3. last \in 0 .. Bytes(file) - 1 /\ ChainTo(file)[last] # Broken
  BY <1>1, <1>2, LinkedChain
<1>4. w.last \in 0 .. Bytes(file) - 1
  BY <1>1, <1>2, LinkedChain
<1>5. w.last <= Bytes(file)
  <2>1. Bytes(file) \in Nat
    BY <1>1, Size
  <2> QED
    BY <1>4, <2>1
<1>7. ASSUME faults = 0, Whole(spliced)
      PROVE  Chain(file, last) # Broken
  <2>1. Straight(file, last)
    BY <1>7 DEF Held, Sound, Now, file, last
  <2>2. PICK even \in SUBSET Nat :
          /\ Linked(file, even) /\ last \in even \cup {0}
          /\ \A pos \in even : Aligned(pos)
    BY <2>1 DEF Straight
  <2>3. \A i \in 1 .. Len(ChainTo(file)[last]) : ChainTo(file)[last][i] \in even
    BY <1>1, <2>2, LinkedOnly
  <2>4. Chain(file, last) = ChainTo(file)[last]
    BY <1>3, <2>2, <2>3 DEF Chain
  <2> QED
    BY <1>3, <2>4
<1>6. ASSUME faults = 0, spliced = <<>>
      PROVE  \A i \in 1 .. Len(Parts(file, last)) :
               Len(Scan(file, Parts(file, last)[i][1], Parts(file, last)[i][2]).frames)
                 <= Interval
  <2> DEFINE n == Len(Open(file, last).frames)
             m == Len(Serial(w.buf))
  <2>1. Sound(Now) /\ Near(Now)
    BY <1>6, CombineNothing DEF Held
  <2>2. last = w.last
    BY <2>1 DEF Sound, Now, last
  <2>3. Spaced(file, last, Interval) /\ n + m <= w.since
    BY <2>1, <2>2 DEF Near, Now, file
  <2>4. n \in Nat /\ m \in Nat
    BY <1>1, <2>3, OpenType, ContentTypes DEF Content
  <2> HIDE DEF n, m
  <2>5. n <= Interval
    BY <1>1, <2>3, <2>4
  <2> QED
    BY <1>1, <2>3, <2>5, SpacedParts DEF n
<1> QED
  BY <1>1, <1>3, <1>5, <1>6, <1>7 DEF ChainUnbroken, file, last

-----------------------------------------------------------------------------
(* Theorems.                                                                *)

(* The inductive invariant: types, the chain of index frames, room in the   *)
(* buffer, and addresses that were not given twice.                         *)
THEOREM Invariance == Spec => []IInv
<1>1. Init => IInv
  BY InitGood
<1>2. IInv /\ [Next]_vars => IInv'
  BY Step
<1> QED
  BY <1>1, <1>2, PTL DEF Spec

(* The writer, its file and what it was given keep their types.             *)
THEOREM TypeCorrect == Spec => []TypeOK
<1>1. IInv => TypeOK
  BY DEF IInv
<1> QED
  BY <1>1, Invariance, PTL

(* Frames never run over the end of the buffer, though room is made before  *)
(* the length that a frame comes out with is known, and flushes may fail.   *)
THEOREM BufferCorrect == Spec => []BufferBounded
<1>1. IInv => BufferBounded
  BY DEF IInv, Good, Now, BufferBounded
<1> QED
  BY <1>1, Invariance, PTL

(* No two names get the same address, however often the table of names is   *)
(* full and written, or cannot be written.                                  *)
THEOREM AddressesCorrect == Spec => []AddressesDiffer
<1>1. IInv => AddressesDiffer
  BY DEF IInv, Given
<1> QED
  BY <1>1, Invariance, PTL

(* From the place in the header of the file, every index frame leads to one *)
(* before it, and the last to none, whatever write failed.                  *)
ChainHolds == Chained(Now) /\ disk.last_index <= w.last
THEOREM ChainCorrect == Spec => []ChainHolds
<1>1. IInv => ChainHolds
  BY DEF IInv, Good, ChainHolds, Now
<1> QED
  BY <1>1, Invariance, PTL

(* There are at most as many frames behind an index frame as the interval   *)
(* says when the next frame comes, which is preceded by an index frame.     *)
IntervalHolds == w.since <= Interval
THEOREM IntervalCorrect == Spec => []IntervalHolds
<1>1. IInv => IntervalHolds
  BY DEF IInv, Good, IntervalHolds, Now
<1> QED
  BY <1>1, Invariance, PTL

(* Every address that was given out has its name in the table or in a       *)
(* jitmap frame of the file, whatever write failed: the table is not given  *)
(* up before it was written as a whole.                                     *)
NamesFound == Found(Now)
THEOREM NamesCorrect == Spec => []NamesFound
<1>1. IInv => NamesFound
  BY DEF IInv, Given, NamesFound
<1> QED
  BY <1>1, Invariance, PTL

(* What is in the file stays there, whichever call is made and whichever    *)
(* write of it fails: somebody who reads it meanwhile, as the symbols bundle *)
(* does, never sees a frame change.                                         *)
FileGrows == Longer(Now, Now')
THEOREM FileGrowsCorrect == Spec => [][FileGrows]_vars
<1>1. IInv /\ [Next]_vars => [FileGrows]_vars
  BY Step DEF FileGrows, Grown
<1> QED
  BY <1>1, Invariance, PTL DEF Spec

(* As long as no write failed, the frames and names in file, buffer and     *)
(* table are those that the calls were given, and every index frame was     *)
(* written in time.                                                         *)
THEOREM ContentsCorrect == Spec => []Held
<1>1. Init => Held
  BY InitHeld
<1>2. IInv /\ Held /\ [Next]_vars => Held'
  BY HeldStep
<1> QED
  BY <1>1, <1>2, Invariance, PTL DEF Spec

(* A document finds the same frames in the same order, whether it loads the *)
(* file in parts or from the start, in every state of the file.             *)
THEOREM LoadCorrect == Spec => []LoadAgrees
<1>1. IInv => LoadAgrees
  <2>1. IInv => disk.cells \in Seq(AnyCell)
    BY DEF IInv, TypeOK, Now, States, Content
  <2> QED
    BY <2>1, LoadIsSerial DEF LoadAgrees
<1> QED
  BY <1>1, Invariance, PTL

(* No frame is lost, doubled or reordered between the calls, the buffer and *)
(* the file.                                                                *)
THEOREM ContentsKept == Spec => []NothingLost
<1>1. IInv /\ Held => NothingLost
  BY DEF IInv, Good, Held, Sound, Text, Valid, Now, NothingLost, BufferBounded, Whole
<1> QED
  BY <1>1, Invariance, ContentsCorrect, PTL

(* Every address given out has its name in the file or in the table, and    *)
(* the file has no names but these and those of a spliced file.             *)
THEOREM NamesKept == Spec => []NamesResolve
<1>1. IInv /\ Held => NamesResolve
  BY DEF IInv, Given, Held, Known, Now, NamesResolve
<1> QED
  BY <1>1, Invariance, ContentsCorrect, PTL

(* The chain of index frames leads on whatever write failed.  As long as no *)
(* write failed and no cut file was spliced a document never finds it       *)
(* broken, and without a splice no part that it loads has more frames than  *)
(* the interval.                                                            *)
THEOREM ChainKeptWhole == Spec => []ChainUnbroken
<1>1. IInv /\ Held => ChainUnbroken
  BY ChainHeld
<1> QED
  BY <1>1, Invariance, ContentsCorrect, PTL

-----------------------------------------------------------------------------
(* Saving.                                                                  *)

(* What fails has met a write that failed.                                  *)
Blamed(s, t) ==
  /\ s.faults \in Nat /\ t.faults \in Nat /\ s.faults <= t.faults
  /\ s.ok /\ ~t.ok => s.faults < t.faults

LEMMA BlamedTrans ==
  ASSUME NEW s, NEW t, NEW u, Blamed(s, t), Blamed(t, u)
  PROVE  Blamed(s, u)
BY DEF Blamed

LEMMA BlamedSame ==
  ASSUME NEW s \in States
  PROVE  Blamed(s, s)
BY DEF Blamed, States

LEMMA WriteBlamed ==
  ASSUME NEW s \in States, NEW cells \in Content, NEW t \in Write(s, cells)
  PROVE  Blamed(s, t)
<1>1. Len(cells) \in Nat /\ Len(cells) \in 0 .. Len(cells) /\ s.faults \in Nat
  BY DEF Content, States
<1>2. PICK n \in 0 .. Len(cells) :
        t = [s EXCEPT !.disk.cells = @ \o SubSeq(cells, 1, n),
                      !.ok = n = Len(cells),
                      !.faults = IF n = Len(cells) THEN @ ELSE @ + 1]
  BY <1>1 DEF Write
<1> DEFINE whole == n = Len(cells)
           part == SubSeq(cells, 1, n)
<1>3. /\ t = [s EXCEPT !.disk.cells = @ \o part, !.ok = whole,
                       !.faults = IF whole THEN @ ELSE @ + 1]
      /\ whole \in BOOLEAN
  BY <1>2
<1> HIDE DEF whole, part
<1>4. t.ok = whole /\ t.faults = IF whole THEN s.faults ELSE s.faults + 1
  BY <1>3 DEF States
<1> QED
  BY <1>1, <1>3, <1>4 DEF Blamed

LEMMA FlushDataBlamed ==
  ASSUME NEW s, Good(s), NEW t \in FlushData(s)
  PROVE  Blamed(s, t)
<1>1. s \in States /\ s.w.buf \in Content
  BY DEF Good, States
<1>2. PICK u \in Write(s, s.w.buf) : t = IF u.ok THEN [u EXCEPT !.w.buf = <<>>] ELSE u
  BY DEF FlushData
<1>3. u \in States /\ Blamed(s, u)
  BY <1>1, <1>2, WriteFields, WriteBlamed
<1>4. t.ok = u.ok /\ t.faults = u.faults
  BY <1>2, <1>3 DEF States
<1> QED
  BY <1>3, <1>4 DEF Blamed

LEMMA UpdateBlamed ==
  ASSUME NEW s \in States, NEW t \in UpdateFrameIndex(s)
  PROVE  Blamed(s, t)
<1>1. t = [s EXCEPT !.disk.last_index = s.w.last] \/ t = [s EXCEPT !.faults = @ + 1]
  BY DEF UpdateFrameIndex
<1>2. t.ok = s.ok /\ (t.faults = s.faults \/ t.faults = s.faults + 1) /\ s.faults \in Nat
  BY <1>1 DEF States
<1> QED
  BY <1>2 DEF Blamed

LEMMA WriteFrameIndexBlamed ==
  ASSUME NEW s, Good(s), NEW force \in BOOLEAN, NEW t \in WriteFrameIndex(s, force)
  PROVE  Blamed(s, t)
<1> DEFINE written(x) == Write(x, Cells(Index(x.w.last)))
           noted(x) == UpdateFrameIndex(
                         [x EXCEPT !.w.last = Bytes(x.disk.cells) - HeadLen, !.w.since = 0])
<1>1. CASE s.w.since = 0 \/ (~force /\ s.w.since < Interval)
  <2>1. t = s
    BY <1>1 DEF WriteFrameIndex
  <2> QED
    BY <2>1, BlamedSame DEF Good
<1>2. CASE ~(s.w.since = 0 \/ (~force /\ s.w.since < Interval))
  <2>1. t \in Then(Then(FlushData(s), written), noted)
    BY <1>2 DEF WriteFrameIndex
  <2>2. PICK v \in Then(FlushData(s), written) : t \in (IF v.ok THEN noted(v) ELSE {v})
    BY <2>1 DEF Then
  <2>3. PICK u \in FlushData(s) : v \in (IF u.ok THEN written(u) ELSE {u})
    BY <2>2 DEF Then
  <2>4. Good(u) /\ Blamed(s, u) /\ u \in States
    BY <2>3, FlushDataGood, FlushDataBlamed DEF Good
  <2>5. Cells(Index(u.w.last)) \in Content
    <3>1. Index(u.w.last) \in OwnFrames
      BY <2>4 DEF Index, OwnFrames, States
    <3> QED
      BY <3>1, CellsType
  <2>6. CASE ~u.ok
    <3>1. v = u /\ t = u
      BY <2>2, <2>3, <2>6
    <3> QED
      BY <2>4, <3>1
  <2>7. CASE u.ok
    <3>1. v \in Write(u, Cells(Index(u.w.last)))
      BY <2>3, <2>7
    <3>2. Blamed(s, v) /\ v \in States
      BY <2>4, <2>5, <3>1, WriteBlamed, WriteFields, BlamedTrans
    <3>3. CASE ~v.ok
      <4>1. t = v
        BY <2>2, <3>3
      <4> QED
        BY <3>2, <4>1
    <3>4. CASE v.ok
      <4>1. t \in UpdateFrameIndex(Indexed(v))
        BY <2>2, <3>4 DEF Indexed
      <4>2. /\ v.disk.cells = u.disk.cells \o Cells(Index(u.w.last))
            /\ v.w = u.w /\ Good(v) /\ v.disk.last_index = u.disk.last_index
        BY <2>4, <2>5, <3>1, <3>4, WriteGood, WriteFields
      <4>3. Indexed(v) \in States
        BY <2>4, <4>2, IndexGood DEF Good
      <4>4. Indexed(v).faults = v.faults /\ Indexed(v).ok = v.ok
        BY <3>2 DEF States, Indexed
      <4>5. Blamed(Indexed(v), t)
        BY <4>1, <4>3, UpdateBlamed
      <4> QED
        BY <3>2, <4>4, <4>5 DEF Blamed
    <3> QED
      BY <3>3, <3>4
  <2> QED
    BY <2>6, <2>7
<1> QED
  BY <1>1, <1>2

LEMMA FlushJitmapBlamed ==
  ASSUME NEW s, Good(s), NEW t \in FlushJitmap(s)
  PROVE  Blamed(s, t)
<1> DEFINE written(x) == Write(x, Cells(Jitmap(x.w.jit)))
           clear(x) == {[x EXCEPT !.w.jit = {}, !.w.since = @ + 1]}
<1>1. CASE s.w.jit = {}
  <2>1. t = s
    BY <1>1 DEF FlushJitmap
  <2> QED
    BY <2>1, BlamedSame DEF Good
<1>2. CASE s.w.jit # {}
  <2>1. t \in Then(Then(WriteFrameIndex(s, FALSE), written), clear)
    BY <1>2 DEF FlushJitmap
  <2>2. PICK v \in Then(WriteFrameIndex(s, FALSE), written) :
          t \in (IF v.ok THEN clear(v) ELSE {v})
    BY <2>1 DEF Then
  <2>3. PICK u \in WriteFrameIndex(s, FALSE) : v \in (IF u.ok THEN written(u) ELSE {u})
    BY <2>2 DEF Then
  <2>4. Good(u) /\ Blamed(s, u) /\ u \in States
    BY <2>3, WriteFrameIndexGood, WriteFrameIndexBlamed DEF Good
  <2>5. Blamed(s, v) /\ v \in States
    <3>1. CASE u.ok
      <4>1. v \in Write(u, Cells(Jitmap(u.w.jit))) /\ Cells(Jitmap(u.w.jit)) \in Content
        BY <2>3, <2>4, <3>1, JitmapFrame
      <4> QED
        BY <2>4, <4>1, WriteBlamed, WriteFields, BlamedTrans
    <3>2. CASE ~u.ok
      BY <2>3, <2>4, <3>2
    <3> QED
      BY <3>1, <3>2
  <2>6. t.ok = v.ok /\ t.faults = v.faults
    <3>1. t = v \/ t = [v EXCEPT !.w.jit = {}, !.w.since = @ + 1]
      BY <2>2
    <3> QED
      BY <2>5, <3>1 DEF States
  <2> QED
    BY <2>5, <2>6 DEF Blamed
<1> QED
  BY <1>1, <1>2

LEMMA FlushAllBlamed ==
  ASSUME NEW s, Good(s), NEW t \in FlushAll(s)
  PROVE  Blamed(s, t)
<1>1. PICK u \in FlushJitmap(s) : t \in (IF u.ok THEN FlushData(u) ELSE {u})
  BY DEF FlushAll, Then
<1>2. Good(u) /\ Blamed(s, u)
  BY <1>1, FlushJitmapGood, FlushJitmapBlamed
<1>3. CASE ~u.ok
  BY <1>1, <1>2, <1>3
<1>4. CASE u.ok
  BY <1>1, <1>2, <1>4, FlushDataBlamed, BlamedTrans
<1> QED
  BY <1>3, <1>4

LEMMA CopyBlamed ==
  ASSUME NEW s, Good(s), NEW t \in Copy(s)
  PROVE  Blamed(s, t)
<1>1. s \in States /\ s.disk.cells \in Content
  BY DEF Good, States
<1>2. PICK u \in IF s.ok THEN Write(s, s.disk.cells) ELSE {s} :
        t = [u EXCEPT !.disk = s.disk, !.ok = s.ok /\ u.ok]
  BY DEF Copy
<1>3. u \in States /\ Blamed(s, u)
  BY <1>1, <1>2, WriteFields, WriteBlamed, BlamedSame
<1>4. t.faults = u.faults /\ (t.ok <=> s.ok /\ u.ok)
  BY <1>2, <1>3 DEF States
<1> QED
  BY <1>3, <1>4 DEF Blamed

LEMMA PrefixJoined ==
  ASSUME NEW T, NEW a \in Seq(T), NEW b \in Seq(T)
  PROVE  IsPrefix(a, a \o b)
<1>1. /\ a \o b \in Seq(T) /\ Len(a) \in Nat /\ Len(b) \in Nat
      /\ Len(a \o b) = Len(a) + Len(b)
      /\ \A i \in 1 .. Len(a) : (a \o b)[i] = a[i]
  BY ConcatProperties, LenProperties
<1> DEFINE c == a \o b
<1>2. /\ c \in Seq(T) /\ Len(a) \in Nat /\ Len(a) <= Len(c) /\ Len(c) \in Nat
      /\ \A i \in 1 .. Len(a) : c[i] = a[i]
  BY <1>1
<1> HIDE DEF c
<1>3. SubSeq(a, 1, Len(a)) = SubSeq(c, 1, Len(a))
  BY <1>2
<1> QED
  BY <1>2, <1>3 DEF IsPrefix, c

(* What is left behind the capture comes behind its frames.                 *)
LEMMA OverKept ==
  ASSUME NEW old \in Saved, NEW cells \in Content
  PROVE  /\ IsPrefix(cells, Over(old, cells))
         /\ Valid(cells) => IsPrefix(Kept(cells), Kept(Over(old, cells)))
         /\ Len(old) <= Len(cells) => Over(old, cells) = cells
<1> DEFINE C == AnyCell \cup CellsIn(Saved)
           rest == SubSeq(old, Len(cells) + 1, Len(old))
           own == {"index", "jitmap"}
<1>1. /\ cells \in Seq(C) /\ rest \in Seq(C) /\ Over(old, cells) = cells \o rest
      /\ Len(old) <= Len(cells) => rest = <<>>
  BY OverType
<1>2. \A file : Kept(file) = Through(file, own).frames
  BY DEF Kept, Through
<1> HIDE DEF C, rest, own
<1>3. IsPrefix(cells, Over(old, cells))
  BY <1>1, PrefixJoined
<1>4. ASSUME Valid(cells)
      PROVE  IsPrefix(Kept(cells), Kept(Over(old, cells)))
  <2>1. Through(cells, own).valid
    BY <1>1, <1>4, ValidThrough
  <2>2. Joined(cells, rest, own)
    BY <1>1, <2>1, WalkJoined
  <2>3. Kept(cells \o rest) = Kept(cells) \o Kept(rest)
    BY <1>2, <2>2 DEF Joined
  <2>4. Kept(cells) \in Seq(FramesOf(C)) /\ Kept(rest) \in Seq(FramesOf(C))
    BY <1>1, KeptType
  <2> QED
    BY <1>1, <2>3, <2>4, PrefixJoined
<1>5. ASSUME Len(old) <= Len(cells)
      PROVE  Over(old, cells) = cells
  BY <1>1, <1>5, ConcatEmpty
<1> QED
  BY <1>3, <1>4, <1>5

(* What a save leaves, and that only a failed write leaves nothing.         *)
LEMMA SaveAsWhole ==
  ASSUME IInv, NEW old \in Saved, SaveAs(old)
  PROVE  \/ saved' = <<>> /\ faults' > faults
         \/ saved' = Over(old, disk'.cells) /\ (faults' = 0 => w'.buf = <<>>)
<1>1. PICK s \in UNION {Copy(t) : t \in FlushAll(Now)} :
        Outcome(s) /\ saved' = IF s.ok THEN Over(old, s.disk.cells) ELSE <<>>
  BY DEF SaveAs
<1>2. PICK t \in FlushAll(Now) : s \in Copy(t)
  OBVIOUS
<1>3. Good(t) /\ Grown(Now, t)
  BY <1>2, NowGood, FlushAllGood
<1>4. s.w = t.w /\ s.disk = t.disk /\ (s.ok => t.ok) /\ Carries(t, s)
  BY <1>2, <1>3, CopyGood, CopyCarries
<1>5. CASE ~s.ok
  <2>1. Blamed(Now, s)
    BY <1>2, <1>3, NowGood, FlushAllBlamed, CopyBlamed, BlamedTrans
  <2>2. Now.ok /\ Now.faults = faults /\ faults' = s.faults
    BY <1>1 DEF Now, Outcome
  <2> QED
    BY <1>1, <1>5, <2>1, <2>2 DEF Blamed
<1>6. CASE s.ok
  <2>1. faults' = 0 => t.faults = 0
    BY <1>1, <1>4 DEF Outcome, Carries
  <2>2. t.ok /\ t.faults = 0 => t.w.buf = <<>>
    BY <1>2, NowGood, FlushAllCarries
  <2> QED
    BY <1>1, <1>4, <1>6, <2>1, <2>2 DEF Outcome
<1> QED
  BY <1>5, <1>6

(* A file that save_as has written begins with all frames of the capture,   *)
(* and has no others if the old one was not longer; it is gone only if a    *)
(* write failed.                                                            *)
THEOREM SavedCorrect == Spec => SavedIsCapture
<1> DEFINE Left(old) ==
             \/ saved' = <<>> /\ faults' > faults
             \/ /\ IsPrefix(disk'.cells, saved')
                /\ faults' = 0 /\ Whole(spliced) =>
                     /\ IsPrefix(added', Kept(saved'))
                     /\ Len(old) <= Len(disk'.cells) => Kept(saved') = added'
<1>1. ASSUME IInv, Held, [Next]_vars, NEW old \in Saved, SaveAs(old)
      PROVE  Left(old)
  <2>1. CASE saved' = <<>> /\ faults' > faults
    BY <2>1
  <2>2. CASE saved' = Over(old, disk'.cells) /\ (faults' = 0 => w'.buf = <<>>)
    <3> DEFINE file == disk'.cells
    <3>1. Held' /\ IInv'
      BY <1>1, HeldStep, Step
    <3>2. file \in Content
      BY <3>1 DEF IInv, TypeOK, Now, States
    <3>3. spliced' = spliced
      BY <1>1 DEF SaveAs
    <3>4. ASSUME faults' = 0, Whole(spliced)
          PROVE  Valid(file) /\ Kept(file) = added'
      <4>1. Sound(Now)' /\ Text(Now)' = added'
        BY <3>1, <3>3, <3>4 DEF Held
      <4>2. Valid(file) /\ Kept(file) \o Kept(<<>>) = added'
        BY <2>2, <3>4, <4>1 DEF Sound, Text, Now
      <4>3. Kept(file) \in Seq(FramesOf(AnyCell))
        BY <3>2, ContentTypes
      <4> QED
        BY <4>2, <4>3, CombineNothing, ConcatEmpty
    <3> HIDE DEF file
    <3>5. saved' = Over(old, file)
      BY <2>2 DEF file
    <3>6. /\ IsPrefix(file, saved')
          /\ Valid(file) => IsPrefix(Kept(file), Kept(saved'))
          /\ Len(old) <= Len(file) => saved' = file
      BY <3>2, <3>5, OverKept
    <3>7. faults' = 0 /\ Whole(spliced) =>
            /\ IsPrefix(added', Kept(saved'))
            /\ Len(old) <= Len(file) => Kept(saved') = added'
      BY <3>4, <3>6
    <3> QED
      BY <3>6, <3>7 DEF file
  <2> QED
    BY <1>1, <2>1, <2>2, SaveAsWhole
<1>2. IInv /\ Held /\ [Next]_vars => [\A old \in Saved : SaveAs(old) => Left(old)]_vars
  BY <1>1
<1> QED
  BY <1>2, Invariance, ContentsCorrect, PTL DEF Spec, SavedIsCapture
=============================================================================
