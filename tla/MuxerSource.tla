---------------------------- MODULE MuxerSource -----------------------------
(***************************************************************************)
(* The GSource that reads the capture stream of the live unwinder from a   *)
(* pipe and adds its frames to the recording's capture                     *)
(* (sysprof-muxer-source.c).  A read returns any part of what is in the    *)
(* pipe; frames are cut out of a buffer of fixed size.  Positions count    *)
(* from the start of the stream; what the buffer holds is the part of it   *)
(* between begin and end, so that moving the rest to the head of the       *)
(* buffer changes neither.                                                 *)
(***************************************************************************)
EXTENDS Naturals, Sequences

CONSTANTS Capacity,     \* bytes of the buffer (DEFAULT_BUFFER_SIZE)
          FileHeader,   \* sizeof (SysprofCaptureFileHeader)
          FrameHeader,  \* sizeof (SysprofCaptureFrame)
          Align,        \* sizeof (guint64)
          Lens,         \* the frame->len that occur
          MaxFrames     \* bound: frames of the stream

(* The writer at the other end aligns its frames, and                       *)
(* _sysprof_capture_writer_add_raw() asserts that they are: there is no     *)
(* padding after a frame to skip.                                           *)
ASSUME MuxerAssumption ==
  /\ Capacity \in Nat \ {0} /\ FileHeader \in Nat
  /\ FrameHeader \in Nat \ {0} /\ Align \in Nat \ {0} /\ MaxFrames \in Nat
  /\ \A l \in Lens : l \in FrameHeader .. Capacity /\ l % Align = 0

VARIABLES frames,       \* the frames of the stream, [at, len]
          written,      \* bytes of it written to the pipe
          begin, end,   \* the part of the stream in the buffer
          to_skip,      \* of the file header, still to be dropped
          out           \* frames given to _sysprof_capture_writer_add_raw()

vars == <<frames, written, begin, end, to_skip, out>>

Init == /\ frames = <<>> /\ written = FileHeader
        /\ begin = 0 /\ end = 0 /\ to_skip = FileHeader /\ out = <<>>

Smaller(a, b) == IF a < b THEN a ELSE b

(* Where the stream ends so far.                                            *)
Total == IF frames = <<>> THEN FileHeader
         ELSE frames[Len(frames)].at + frames[Len(frames)].len

(* The live unwinder's writer has one more frame for the pipe, and writes   *)
(* it: as much at a time as there is room for.                              *)
Produce(len) ==
  /\ Len(frames) < MaxFrames /\ written = Total
  /\ frames' = Append(frames, [at |-> written, len |-> len])
  /\ UNCHANGED <<written, begin, end, to_skip, out>>
Write(n) ==
  /\ n <= Total - written
  /\ written' = written + n
  /\ UNCHANGED <<frames, begin, end, to_skip, out>>

(* What the header read at position pos says.  Anywhere but at the start of *)
(* a frame it is garbage.                                                   *)
FrameAt(pos) ==
  IF \E i \in 1 .. Len(frames) : frames[i].at = pos
  THEN CHOOSE f \in {frames[i] : i \in 1 .. Len(frames)} : f.at = pos
  ELSE [at |-> pos, len |-> 0]

(* Variant: a frame that ends where the buffer does is not taken.           *)
TakeShort(pos, last) ==
  IF last - pos >= FrameHeader /\ FrameAt(pos).len < last - pos
  THEN <<FrameAt(pos)>> ELSE <<>>

(* The while loop: the first frame, if all of it is there.  The loop goes   *)
(* on only over padding, so there is at most one.                           *)
Take(pos, last) ==
  IF last - pos >= FrameHeader /\ FrameAt(pos).len <= last - pos
  THEN <<FrameAt(pos)>> ELSE <<>>

(* Variant: what was skipped in this read is all that is ever skipped.      *)
DispatchForgetting(n) ==
  /\ n <= written - end /\ n <= Capacity - (end - begin)
  /\ end' = end + n
  /\ LET skipped == Smaller(to_skip, end' - begin)
         taken == Take(begin + skipped, end')
     IN  /\ to_skip' = 0
         /\ begin' = begin + skipped + IF taken = <<>> THEN 0 ELSE taken[1].len
         /\ out' = out \o taken
  /\ UNCHANGED <<frames, written>>

(* sysprof_muxer_source_dispatch() when the read returned n bytes: drop the *)
(* file header, take a frame, move the rest to the head of the buffer.      *)
Dispatch(n) ==
  /\ n <= written - end /\ n <= Capacity - (end - begin)
  /\ end' = end + n
  /\ LET skipped == Smaller(to_skip, end' - begin)
         taken == Take(begin + skipped, end')
     IN  /\ to_skip' = to_skip - skipped
         /\ begin' = begin + skipped + IF taken = <<>> THEN 0 ELSE taken[1].len
         /\ out' = out \o taken
  /\ UNCHANGED <<frames, written>>

Next == \/ \E len \in Lens : Produce(len)
        \/ \E n \in 1 .. Capacity : Write(n)
        \/ \E n \in 1 .. Capacity : Dispatch(n)

Spec == Init /\ [][Next]_vars

-----------------------------------------------------------------------------
(* Properties.                                                              *)

(* The buffer holds a part of the stream that fits it, and only the file    *)
(* header is skipped across reads.                                          *)
TypeOK ==
  /\ frames \in Seq([at : Nat, len : Lens]) /\ written \in Nat
  /\ end \in 0 .. written /\ begin \in 0 .. end /\ end - begin <= Capacity
  /\ to_skip \in 0 .. FileHeader

(* Wherever the reads split the stream, frames come out whole and in order, *)
(* none twice, and what is left in the buffer starts with the next frame or *)
(* with what remains of the file header in front of it.                     *)
FramesIntact ==
  /\ Len(out) <= Len(frames)
  /\ \A i \in 1 .. Len(out) : out[i] = frames[i]
  /\ Len(out) < Len(frames) => begin + to_skip = frames[Len(out) + 1].at

(* "Move anything left to the head of the buffer so we can fill in the      *)
(* entire next frame of data": the next read always has room for a byte,    *)
(* however many frames earlier reads left in the buffer.  A read of no      *)
(* bytes would take nothing out, and the source would never get on.         *)
RoomToRead == end - begin < Capacity

(* "If there is enough to read the frame header, try to read and dispatch   *)
(* it": when the live unwinder is done and all it wrote was read, no whole  *)
(* frame is in the buffer.  This does not hold (README, Disagreements): a   *)
(* read takes at most one frame out, one at the end of the stream returns 0 *)
(* and sysprof_muxer_source_finalize() frees the buffer.                    *)
NoFrameLeftBehind ==
  Len(frames) = MaxFrames /\ written = Total /\ end = written =>
    (end - begin >= FrameHeader => FrameAt(begin).len > end - begin)
=============================================================================
