--------------------------- MODULE CaptureReader ----------------------------
(***************************************************************************)
(* A reader of a capture file (sysprof-capture-reader.c).  It keeps a      *)
(* window of the file: a buffer, a position in it and the offset of the    *)
(* next pread().                                                           *)
(* The file may grow, by parts of frames, while it is read.  In a file of  *)
(* the other byte order the frame headers are swapped in the buffer, where *)
(* a second call meets what a first one that failed has swapped.           *)
(***************************************************************************)
EXTENDS CaptureFile

CONSTANTS BufSz,        \* cells of the buffer, room for two of the largest frames
          Base,         \* a swapped length: its two digits to this base change places
          Captures,     \* files to read, as sequences of frames
          Kinds,        \* types to read a frame as
          MaxCalls      \* bound: calls since the reader was made or reset

VARIABLES file,         \* the cells that are there
          rest,         \* those the writer has yet to write
          foreign,      \* of the other byte order
          rd,           \* the SysprofCaptureReader, or NoReader
          got,          \* history: frames read or skipped, in order
          peeked,       \* history: what the last call was told is next
          ended,        \* history: the last call came to the end
          calls         \* history: calls made

vars == <<file, rest, foreign, rd, got, peeked, ended, calls>>

NoReader == [none |-> TRUE]

Counters == {"ctrdef", "ctrset"}
Basic == {"exit", "fork", "timestamp"}

(* The writer's index frames are timestamps that are longer than one.       *)
IndexLen == 2
IsIndexFrame(f) == f.kind = "timestamp" /\ f.len = IndexLen

(* sizeof the struct a read function wants, in cells.                       *)
MinLen(kind) == IF kind \in Basic THEN 1 ELSE 2

(* Frames as the writer makes them, the largest of which the buffer holds.  *)
Frames == UNION {ToSet(frames) : frames \in Captures}
ASSUME ReaderAssumption ==
  /\ BufSz \in Nat \ {0} /\ Base \in Nat \ {0, 1} /\ MaxCalls \in Nat
  /\ "none" \notin Kinds /\ Captures \subseteq Seq(Frames)
  /\ \A f \in Frames :
       /\ f.kind \notin {"none", "index"} /\ f.len \in MinLen(f.kind) .. BufSz
       /\ f.kind \in Basic => f.len = 1 \/ IsIndexFrame(f)
       /\ f.time \in Nat /\ (f.kind = "mark" => f.dur \in Nat)

Raw(cells) == [c \in DOMAIN cells |-> [frame |-> cells[c].frame, off |-> cells[c].off,
                                       swapped |-> FALSE]]
CellsOf(frames) == Raw(FlattenSeq([i \in DOMAIN frames |-> Cells(frames[i])]))

-----------------------------------------------------------------------------
(* The window.                                                              *)

Fresh == [buf |-> <<>>, pos |-> 0, off |-> 0, end_time |-> 0]

Avail(r) == Len(r.buf) - r.pos

(* Variant: what was not read yet is dropped from the buffer.               *)
EnsureSpaceForDropping(r, len) ==
  IF Avail(r) >= len THEN r
  ELSE LET upto == IF r.off + BufSz < Len(file) THEN r.off + BufSz ELSE Len(file)
       IN  [r EXCEPT !.buf = SubSeq(file, r.off + 1, upto), !.pos = 0, !.off = upto]

(* What is left moves to the front, and pread() fills the room behind it.   *)
EnsureSpaceFor(r, len) ==
  IF Avail(r) >= len THEN r
  ELSE LET kept == SubSeq(r.buf, r.pos + 1, Len(r.buf))
           room == BufSz - Len(kept)
           upto == IF r.off + room < Len(file) THEN r.off + room ELSE Len(file)
       IN  [r EXCEPT !.buf = kept \o SubSeq(file, r.off + 1, upto),
                     !.pos = 0, !.off = upto]

ResetOf(r) == [r EXCEPT !.buf = <<>>, !.pos = 0, !.off = 0]

(* The header at the position, as the machine would read it.                *)
Here(r) == r.buf[r.pos + 1]
Legible(r) == Here(r).swapped = foreign
Exchange(n) == (n % Base) * Base + (n \div Base)
LenHere(r) == IF Here(r).off # 0 THEN 0
              ELSE IF Legible(r) THEN Here(r).frame.len ELSE Exchange(Here(r).frame.len)
KindHere(r) == IF Here(r).off # 0 THEN "none" ELSE Here(r).frame.kind
BswapFrame(r) == [r EXCEPT !.buf[r.pos + 1].swapped = IF foreign THEN ~@ ELSE @]

Raise(r, time) == IF time > r.end_time THEN [r EXCEPT !.end_time = time] ELSE r
Fail(r) == [r |-> r, frame |-> <<>>]
Advance(r) == [r |-> [r EXCEPT !.pos = @ + LenHere(r)], frame |-> <<Here(r).frame>>]

(* The header is copied out and swapped there; what it says of the time is  *)
(* taken for the end if it is later.                                        *)
PeekFrame(r) ==
  LET a == EnsureSpaceFor(r, 1)
      h == BswapFrame(a)
      time == IF Legible(h) THEN Here(h).frame.time ELSE Exchange(Here(h).frame.time)
  IN  IF Avail(a) < 1 THEN [r |-> a, kind |-> "none", len |-> 0]
      ELSE [r |-> IF Here(a).off = 0 THEN Raise(a, time) ELSE a,
            kind |-> KindHere(h), len |-> LenHere(h)]

(* The frame is taken if all of it is in the buffer.                        *)
TakeWhole(r, len) == IF Avail(r) < len THEN Fail(r) ELSE Advance(r)
MakeRoom(r) == TakeWhole(EnsureSpaceFor(r, LenHere(r)), LenHere(r))

Skip(r) ==
  LET a == EnsureSpaceFor(r, 1)
      Here1(h) == IF LenHere(h) < 1 THEN Fail(h) ELSE MakeRoom(h)
  IN  IF Avail(a) < 1 THEN Fail(a) ELSE Here1(BswapFrame(a))

(* sysprof_capture_reader_read_basic(): the whole frame is in the buffer    *)
(* when as much as the struct is.                                           *)
ReadBasic(r, kind) ==
  LET a == EnsureSpaceFor(r, MinLen(kind))
      Basic1(h) == IF LenHere(h) < MinLen(kind) \/ KindHere(h) # kind THEN Fail(h)
                   ELSE TakeWhole(h, LenHere(h))
  IN  IF Avail(a) < MinLen(kind) THEN Fail(a) ELSE Basic1(BswapFrame(a))

(* The rest of a read function: the frame is of the right type, and it is   *)
(* made sure that it is there.                                              *)
Typed(r, kind) ==
  IF KindHere(r) # kind \/ LenHere(r) < MinLen(kind) THEN Fail(r) ELSE MakeRoom(r)

(* Most read functions: the header is swapped in the buffer, before it is   *)
(* known to be of the right type or the frame to be there.                  *)
ReadStruct(r, kind) ==
  LET a == EnsureSpaceFor(r, MinLen(kind))
  IN  IF Avail(a) < MinLen(kind) THEN Fail(a) ELSE Typed(BswapFrame(a), kind)

(* read_counter_define() and read_counter_set() do not swap the header.     *)
ReadCounters(r, kind) ==
  LET a == EnsureSpaceFor(r, MinLen(kind))
  IN  IF Avail(a) < MinLen(kind) THEN Fail(a) ELSE Typed(a, kind)

ReadMark(r) ==
  LET done == ReadStruct(r, "mark")
  IN  IF done.frame = <<>> THEN done
      ELSE [done EXCEPT !.r = Raise(@, done.frame[1].time + done.frame[1].dur)]

(* The entries are counted before their number is swapped.                  *)
ReadJitmap(r) ==
  LET done == ReadStruct(r, "jitmap")
  IN  IF done.frame # <<>> /\ foreign
      THEN Fail([done.r EXCEPT !.pos = @ - done.frame[1].len])
      ELSE done

(* A memory sample is swapped when it is known to be whole.                 *)
ReadMemorySample(r) ==
  LET Room(b, len) == IF Avail(b) < len THEN Fail(b) ELSE Advance(BswapFrame(b))
      Peeked(peek) ==
        IF peek.kind # "memory_sample" \/ peek.len < MinLen("memory_sample") THEN Fail(peek.r)
        ELSE Room(EnsureSpaceFor(peek.r, peek.len), peek.len)
  IN  Peeked(PeekFrame(r))

ReadAs(r, kind) ==
  CASE kind \in Basic -> ReadBasic(r, kind)
    [] kind = "mark" -> ReadMark(r)
    [] kind = "jitmap" -> ReadJitmap(r)
    [] kind \in Counters -> ReadCounters(r, kind)
    [] kind = "memory_sample" -> ReadMemorySample(r)
    [] OTHER -> ReadStruct(r, kind)

-----------------------------------------------------------------------------
(* sysprof_capture_reader_discover_end_time().                              *)

(* A turn of its loop: behind a mark that was read, the frame that is       *)
(* skipped is not looked at.                                                *)
EndTimeTurn(turn) ==
  LET peek == PeekFrame(turn.r)
      next == Skip(IF peek.kind = "mark" THEN ReadMark(peek.r).r ELSE peek.r)
  IN  IF ~turn.more THEN turn
      ELSE IF peek.kind = "none" THEN [r |-> peek.r, more |-> FALSE]
      ELSE [r |-> next.r, more |-> next.frame # <<>>]

(* A turn that is not the last one skips something, so that there are no    *)
(* more turns than cells, and one.                                          *)
DiscoverEndTime(r) ==
  LET turn[n \in 0 .. Len(file) + 1] ==
        IF n = 0 THEN [r |-> r, more |-> TRUE] ELSE EndTimeTurn(turn[n - 1])
  IN  ResetOf(turn[Len(file) + 1].r)

-----------------------------------------------------------------------------
(* The calls.                                                               *)

Init ==
  /\ \E frames \in Captures, all \in BOOLEAN, swap \in BOOLEAN :
       LET cells == CellsOf(frames)
       IN  /\ foreign = swap /\ (swap => all)
           /\ file = IF all THEN cells ELSE <<>>
           /\ rest = IF all THEN <<>> ELSE cells
  /\ rd = NoReader
  /\ got = <<>> /\ peeked = "none" /\ ended = FALSE /\ calls = 0

(* Somebody writes on: what the reader saw may not be the end any more.     *)
Grow ==
  /\ rest # <<>>
  /\ \E n \in 1 .. Len(rest) :
       file' = file \o SubSeq(rest, 1, n) /\ rest' = SubSeq(rest, n + 1, Len(rest))
  /\ ended' = FALSE
  /\ UNCHANGED <<foreign, rd, got, peeked, calls>>

(* new_from_fd(): a header without an end time has it discovered.           *)
New(untimed) ==
  /\ rd = NoReader
  /\ rd' = IF untimed THEN DiscoverEndTime(Fresh) ELSE Fresh
  /\ UNCHANGED <<file, rest, foreign, got, peeked, ended, calls>>

(* A call: nobody goes on in a file of the other byte order after a call    *)
(* that failed.                                                             *)
MayCall == rd # NoReader /\ calls < MaxCalls /\ (foreign => ~ended)
Call(r, frame, told, end) ==
  /\ rd' = r /\ got' = got \o frame
  /\ peeked' = told /\ ended' = end
  /\ calls' = calls + 1
  /\ UNCHANGED <<file, rest, foreign>>

PeekType ==
  /\ MayCall
  /\ LET peek == PeekFrame(rd) IN Call(peek.r, <<>>, peek.kind, peek.kind = "none")

Read(kind) ==
  /\ MayCall /\ (foreign => peeked = kind)
  /\ LET read == ReadAs(rd, kind)
     IN  Call(read.r, read.frame, "none", read.frame = <<>> /\ peeked = kind)

SkipFrame ==
  /\ MayCall
  /\ LET skip == Skip(rd) IN Call(skip.r, skip.frame, "none", skip.frame = <<>>)

Reset ==
  /\ rd # NoReader
  /\ rd' = ResetOf(rd)
  /\ got' = <<>> /\ peeked' = "none" /\ ended' = FALSE /\ calls' = 0
  /\ UNCHANGED <<file, rest, foreign>>

Next == \/ Grow \/ PeekType \/ SkipFrame \/ Reset
        \/ \E untimed \in BOOLEAN : New(untimed)
        \/ \E kind \in Kinds : Read(kind)

Spec == Init /\ [][Next]_vars

-----------------------------------------------------------------------------
(* Properties.                                                              *)

(* The frames in the file up to one that is not whole, and those of them    *)
(* that can be read: in a file of the other byte order the walk ends at     *)
(* counters and names.                                                      *)
Whole == Serial(file)
Unreadable(f) == foreign /\ (f.kind \in Counters \/ f.kind = "jitmap")
AtEnd(frames) == frames = Whole \/ (Len(frames) < Len(Whole) /\ Unreadable(Whole[Len(frames) + 1]))

(* Whatever is called in whatever order, with wrong types, while the file   *)
(* grows and frames straddle the window: the frames read or skipped since   *)
(* the last reset are the first of the file, each once and in order.  A     *)
(* reader that is told that there is no next frame, or cannot read the one  *)
(* it was told of, has had all of them; what it had was not the end is read *)
(* when the file has grown.  Excepted are an index frame that is not whole  *)
(* in the window, and files of the other byte order with a counter whose    *)
(* length, which is not swapped, does not end the walk but leads it astray. *)
CutIndex ==
  /\ Len(got) < Len(Whole) /\ IsIndexFrame(Whole[Len(got) + 1])
  /\ Avail(rd) \in 1 .. IndexLen - 1
Astray ==
  /\ foreign
  /\ \E f \in ToSet(Whole) :
       /\ f.kind \in Counters /\ Exchange(f.len) # f.len
       /\ Exchange(f.len) \in MinLen(f.kind) .. Len(file)
WalkInOrder ==
  \/ Astray
  \/ /\ IsPrefix(got, Whole)
     /\ ended => AtEnd(got) \/ CutIndex

(* "Frame indexes are encoded as extended timestamp frames so that older    *)
(* readers can continue to walk the capture": a walk does not end at one.   *)
IndexesWalked == ended => AtEnd(got)
=============================================================================
