----------------------------- MODULE RingBuffer -----------------------------
(***************************************************************************)
(* The shared-memory ring buffer of libsysprof-capture                     *)
(* (mapped-ring-buffer.c) between one writer, a thread of the profiled     *)
(* program (sysprof-collector.c), and one reader, the GSource that drains  *)
(* it in the profiler (mapped-ring-buffer-source.c with the callback of    *)
(* sysprof-controlfd-instrument.c).  The two only share the words of the   *)
(* mapping: head, tail and the body.  Lengths are counted in the 8-byte    *)
(* words every length is a multiple of.                                    *)
(***************************************************************************)
EXTENDS Naturals, Sequences

CONSTANTS Body,         \* words of the body (header->size)
          Lens,         \* worst-case lengths events are allocated with
          FrameSize,    \* words of a bare frame: the final frame, the reserve
          MaxTries,     \* rounds of the allocation loop (1000 in the code)
          MaxEvents     \* bound: events the writer publishes

(* The assertions at the entry of mapped_ring_buffer_allocate_with_reserve. *)
ASSUME RingAssumption ==
  /\ Body \in Nat /\ FrameSize \in Nat \ {0} /\ FrameSize < Body
  /\ MaxTries \in Nat \ {0} /\ MaxEvents \in Nat
  /\ Lens \subseteq Nat \ {0}
  /\ \A l \in Lens : l + FrameSize < Body

VARIABLES head, tail,   \* the positions of MappedRingHeader
          mem,          \* the body, word by word
          wpc,          \* the writer: "idle", "try", "fill", "closed", "dead"
          wframe,       \* the frame it is writing
          wlen,         \* the length it asked for
          woff,         \* words of that length already written
          wtries,       \* completed rounds of the allocation loop
          failed,       \* has_failed of the writer's MappedRingBuffer
          rpc,          \* the reader: "idle", "drain", "copy", "removed"
          rhead, rtail, \* headpos and tailpos of mapped_ring_buffer_drain
          rlen,         \* the length the callback took from the frame header
          rlast,        \* the source is being finalized
          sent, got,    \* history: frames published, frames handed over
          due           \* history: frames published when the removal began

shared == <<head, tail, mem>>
writer == <<wpc, wframe, wlen, woff, wtries, failed>>
reader == <<rpc, rhead, rtail, rlen, rlast>>
vars == <<head, tail, mem, wpc, wframe, wlen, woff, wtries, failed,
          rpc, rhead, rtail, rlen, rlast, sent, got, due>>

-----------------------------------------------------------------------------
(* Frames and words.                                                        *)

Frame == [id : 1 .. MaxEvents + 1, kind : {"event", "final"},
          len : Lens \cup {FrameSize}]
NoFrame == [id |-> 0, kind |-> "event", len |-> 0]     \* a zeroed page
Torn == [id |-> 0, kind |-> "torn", len |-> 0]         \* pieces of several
Word == [frame : Frame \cup {NoFrame}, off : Nat]
Scratch == [frame |-> NoFrame, off |-> 0]  \* allocated, never published

(* The body is mapped twice in a row, so a position up to 2 * Body is a     *)
(* place of the body.                                                       *)
Wrap(p) == IF p >= Body THEN p - Body ELSE p

(* Words from position a forward to position b.                             *)
Dist(a, b) == IF a <= b THEN b - a ELSE b + Body - a

Used == Dist(head, tail)

(* Variant: events leave no room for the final frame.                       *)
ReserveNothing(kind) == 0

ReserveFor(kind) == IF kind = "event" THEN FrameSize ELSE 0

(* Variants: the allocation itself is not counted; tail may catch up.       *)
FitsReserveOnly(length, reserve) ==
  LET headpos == IF head < tail THEN head + Body ELSE head
  IN  tail = head \/ tail + reserve < headpos
FitsCatchingUp(length, reserve) ==
  LET headpos == IF head < tail THEN head + Body ELSE head
  IN  tail = head \/ tail + length + reserve <= headpos

(* The two tests of the allocation loop on the loaded head and tail.        *)
Fits(length, reserve) ==
  LET headpos == IF head < tail THEN head + Body ELSE head
  IN  \/ tail = head /\ length + reserve < Body
      \/ tail + length + reserve < headpos

(* Variant: a tail that has wrapped looks like an empty ring.               *)
IsEmptyUnwrapped == head >= tail

IsEmpty == head = tail

Init ==
  /\ head = 0 /\ tail = 0
  /\ mem = [p \in 0 .. Body - 1 |-> Scratch]
  /\ wpc = "idle" /\ wframe = NoFrame /\ wlen = 0 /\ woff = 0
  /\ wtries = 0 /\ failed = FALSE
  /\ rpc = "idle" /\ rhead = 0 /\ rtail = 0 /\ rlen = 0 /\ rlast = FALSE
  /\ sent = <<>> /\ got = <<>> /\ due = 0

-----------------------------------------------------------------------------
(* The writer.                                                              *)

(* One of the sysprof_collector_*() calls: ask for the worst case length,   *)
(* with room left for the final frame.  The frame turns out no longer.      *)
BeginEvent(length, len) ==
  /\ wpc = "idle" /\ Len(sent) < MaxEvents
  /\ len <= length
  /\ wframe' = [id |-> Len(sent) + 1, kind |-> "event", len |-> len]
  /\ wlen' = length /\ wtries' = 0 /\ wpc' = "try"
  /\ UNCHANGED <<shared, woff, failed, reader, sent, got, due>>

(* sysprof_collector_free(), at the end of the thread: write_final_frame(). *)
BeginFinal ==
  /\ wpc = "idle"
  /\ wframe' = [id |-> Len(sent) + 1, kind |-> "final", len |-> FrameSize]
  /\ wlen' = FrameSize /\ wtries' = 0 /\ wpc' = "try"
  /\ UNCHANGED <<shared, woff, failed, reader, sent, got, due>>

(* A round of the loop that finds the space.                                *)
Allocate ==
  /\ wpc = "try" /\ Fits(wlen, ReserveFor(wframe.kind))
  /\ wpc' = "fill" /\ woff' = 0
  /\ UNCHANGED <<shared, wframe, wlen, wtries, failed, reader, sent, got, due>>

(* Variant: the rounds are not counted.                                     *)
AllocateRetryForever ==
  /\ wpc = "try" /\ ~Fits(wlen, ReserveFor(wframe.kind))
  /\ ~failed /\ UNCHANGED vars

(* A round that does not, and sleeps: only until the first failure.         *)
AllocateRetry ==
  /\ wpc = "try" /\ ~Fits(wlen, ReserveFor(wframe.kind))
  /\ ~failed /\ wtries + 1 < MaxTries
  /\ wtries' = wtries + 1
  /\ UNCHANGED <<shared, wpc, wframe, wlen, woff, failed, reader, sent, got, due>>

(* NULL: the frame is dropped, and later calls will not wait.               *)
AllocateFail ==
  /\ wpc = "try" /\ ~Fits(wlen, ReserveFor(wframe.kind))
  /\ failed \/ wtries + 1 = MaxTries
  /\ failed' = TRUE
  /\ wpc' = IF wframe.kind = "final" THEN "closed" ELSE "idle"
  /\ UNCHANGED <<shared, wframe, wlen, woff, wtries, reader, sent, got, due>>

(* The next word of the allocation, while the reader runs.  What lies       *)
(* behind the frame's own length is scratch space of the backtrace.         *)
Fill ==
  /\ wpc = "fill" /\ woff < wlen
  /\ mem' = [mem EXCEPT ![Wrap(tail + woff)] =
               IF woff < wframe.len THEN [frame |-> wframe, off |-> woff]
                                    ELSE Scratch]
  /\ woff' = woff + 1
  /\ UNCHANGED <<head, tail, wpc, wframe, wlen, wtries, failed, reader,
                 sent, got, due>>

(* mapped_ring_buffer_advance() by the length of the frame.                 *)
Advance ==
  /\ wpc = "fill" /\ woff >= wframe.len
  /\ tail' = Wrap(tail + wframe.len)
  /\ sent' = Append(sent, wframe)
  /\ wpc' = IF wframe.kind = "final" THEN "closed" ELSE "idle"
  /\ UNCHANGED <<head, mem, wframe, wlen, woff, wtries, failed, reader,
                 got, due>>

(* The profiled process is killed between any two of its steps.             *)
Die ==
  /\ wpc \notin {"closed", "dead"}
  /\ wpc' = "dead"
  /\ UNCHANGED <<shared, wframe, wlen, woff, wtries, failed, reader,
                 sent, got, due>>

-----------------------------------------------------------------------------
(* The reader.                                                              *)

(* The positions mapped_ring_buffer_drain() loads at its start.             *)
LoadPositions ==
  /\ rhead' = head
  /\ rtail' = IF tail < head THEN tail + Body ELSE tail

(* prepare or check found the ring non-empty: dispatch drains it.           *)
Dispatch ==
  /\ rpc = "idle" /\ ~IsEmpty
  /\ LoadPositions
  /\ rpc' = "drain"
  /\ UNCHANGED <<shared, writer, rlen, rlast, sent, got, due>>

(* Variant: the source is finalized without a last drain.                   *)
FinalizeUndrained ==
  /\ rpc = "idle"
  /\ due' = Len(sent) /\ rlast' = TRUE /\ rpc' = "removed"
  /\ UNCHANGED <<shared, writer, rhead, rtail, rlen, sent, got>>

(* g_source_remove() when the recording stops: finalize drains once more.   *)
Finalize ==
  /\ rpc = "idle"
  /\ due' = Len(sent) /\ rlast' = TRUE
  /\ LoadPositions
  /\ rpc' = IF IsEmpty THEN "removed" ELSE "drain"
  /\ UNCHANGED <<shared, writer, rlen, sent, got>>

(* The callback reads the frame header and takes the frame ...              *)
ReadHeader ==
  /\ rpc = "drain"
  /\ LET f == mem[Wrap(rhead)].frame
     IN  /\ f.len <= rtail - rhead /\ f.kind # "final"
         /\ rlen' = f.len
  /\ rpc' = "copy"
  /\ UNCHANGED <<shared, writer, rhead, rtail, rlast, sent, got, due>>

(* ... or refuses it, which ends the drain and removes the source (the      *)
(* drain of the finalization that follows stops at the same frame).         *)
Refuse ==
  /\ rpc = "drain"
  /\ LET f == mem[Wrap(rhead)].frame
     IN  f.len > rtail - rhead \/ f.kind = "final"
  /\ rpc' = "removed"
  /\ UNCHANGED <<shared, writer, rhead, rtail, rlen, rlast, sent, got, due>>

(* The rlen words at rhead as the callback copies them.                     *)
Copied ==
  LET f == mem[Wrap(rhead)].frame
  IN  IF /\ f.len = rlen
         /\ \A j \in 0 .. rlen - 1 :
              mem[Wrap(rhead + j)] = [frame |-> f, off |-> j]
      THEN f ELSE Torn

(* The callback returns TRUE: release the frame by storing head.            *)
Deliver ==
  /\ rpc = "copy"
  /\ got' = Append(got, Copied)
  /\ rhead' = rhead + rlen
  /\ head' = Wrap(rhead + rlen)
  /\ rpc' = IF rhead + rlen < rtail THEN "drain"
            ELSE IF rlast THEN "removed" ELSE "idle"
  /\ UNCHANGED <<tail, mem, writer, rtail, rlen, rlast, sent, due>>

-----------------------------------------------------------------------------
(* The program has ended and so has the recording.                          *)
Terminated == /\ wpc \in {"closed", "dead"} /\ rpc = "removed"
              /\ UNCHANGED vars

WriterStep == \/ BeginFinal \/ Allocate \/ AllocateRetry \/ AllocateFail
              \/ Fill \/ Advance \/ Die
              \/ \E length, len \in Lens : BeginEvent(length, len)

ReaderStep == Dispatch \/ Finalize \/ ReadHeader \/ Refuse \/ Deliver

Next == WriterStep \/ ReaderStep \/ Terminated

Spec == Init /\ [][Next]_vars

(* The main loop of the profiler keeps polling the source (every 5 ms) and  *)
(* a drain that has begun goes on; the loop of an allocation is left after  *)
(* MaxTries rounds because the thread keeps running.  Nothing obliges a     *)
(* program to record events, to finish, or to be stopped.                   *)
Fairness ==
  /\ WF_vars(Dispatch) /\ WF_vars(ReadHeader) /\ WF_vars(Refuse)
  /\ WF_vars(Deliver)
  /\ WF_vars(Allocate \/ AllocateRetry \/ AllocateFail)

FairSpec == Spec /\ Fairness

-----------------------------------------------------------------------------
(* Properties.                                                              *)

(* The variables stay in their types; in particular head and tail stay      *)
(* inside the body, which mapped_ring_buffer_drain() asserts.               *)
TypeOK ==
  /\ head \in 0 .. Body - 1 /\ tail \in 0 .. Body - 1
  /\ mem \in [0 .. Body - 1 -> Word]
  /\ wpc \in {"idle", "try", "fill", "closed", "dead"}
  /\ wframe \in Frame \cup {NoFrame}
  /\ wlen \in Nat /\ woff \in Nat /\ wtries \in 0 .. MaxTries - 1
  /\ failed \in BOOLEAN
  /\ rpc \in {"idle", "drain", "copy", "removed"}
  /\ rhead \in 0 .. 2 * Body - 1 /\ rtail \in 0 .. 2 * Body - 1
  /\ rlen \in Nat
  /\ rlast \in BOOLEAN
  /\ sent \in Seq(Frame) /\ got \in Seq(Frame \cup {NoFrame, Torn})
  /\ due \in Nat

(* What the callback has been handed is, frame by frame, what the writer    *)
(* published: nothing torn, lost, repeated or reordered, however the        *)
(* writer's stores interleave with a drain that works on old positions.     *)
FifoIntact ==
  /\ Len(got) <= Len(sent)
  /\ \A i \in 1 .. Len(got) : got[i] = sent[i]

(* The place reserved by every event is there for the final frame: the      *)
(* first look of write_final_frame() at the ring finds it, even when the    *)
(* reader is gone and the ring is as full as events can make it.            *)
FinalFrameFits ==
  wpc = "try" /\ wframe.kind = "final" => Fits(FrameSize, 0)

(* Removing the source loses nothing that was published before it: the      *)
(* drain in finalize hands over every event up to there.                    *)
StopLosesNothing ==
  rpc = "removed" =>
    \A i \in 1 .. due : sent[i].kind = "event" => i <= Len(got)

(* No step changes a word the reader has not released, not even while the   *)
(* writer fills an allocation made against an older head.                   *)
UnreadPlaces == {Wrap(head + o) : o \in 0 .. Used - 1}
UnreadStable == [][\A p \in UnreadPlaces : mem'[p] = mem[p]]_vars

(* A published event is handed over in the end, unless the source was       *)
(* removed before it was published.                                         *)
EventuallyDelivered ==
  \A i \in 1 .. MaxEvents :
    (i <= Len(sent) /\ sent[i].kind = "event")
      ~> (i <= Len(got) \/ (rpc = "removed" /\ due < i))

(* A call into the collector returns: it never waits for the reader for     *)
(* more than the rounds of the loop.                                        *)
AllocateReturns == wpc = "try" ~> wpc # "try"

(* The inductive invariant.  It sees the ring as its unread words in order: *)
(* Unread[o] is the word o words after head; a frame starts at Start(o).    *)
Unread == [o \in 0 .. Used - 1 |-> mem[Wrap(head + o)]]
Start(o) == Unread[o].off = 0

(* The space an allocation claimed, and the space for the final frame, are  *)
(* never given away.                                                        *)
SpaceInv ==
  /\ Used < Body
  /\ wpc = "idle" => Used + FrameSize < Body
  /\ wpc = "try" =>
       /\ wlen + ReserveFor(wframe.kind) < Body
       /\ Used + FrameSize < Body
       /\ wframe.kind = "final" => wlen = FrameSize
  /\ wpc = "fill" => Used + wlen + ReserveFor(wframe.kind) < Body

(* The frame being written is the next one, and its words are in place      *)
(* behind tail.                                                             *)
WriterInv ==
  /\ wpc \in {"try", "fill"} =>
       /\ wframe \in Frame
       /\ wframe.id = Len(sent) + 1
       /\ wframe.kind = "event" => wframe.id <= MaxEvents
       /\ wframe.len <= wlen
  /\ wpc = "fill" =>
       /\ woff <= wlen
       /\ \A j \in 0 .. wframe.len - 1 :
            j < woff => mem[Wrap(tail + j)] = [frame |-> wframe, off |-> j]

(* What has been published: numbered, and nothing after a final frame.      *)
SentInv ==
  /\ Len(got) <= Len(sent)
  /\ Len(sent) <= MaxEvents \/ wpc \in {"closed", "dead"}
  /\ \A i \in 1 .. Len(sent) :
       /\ sent[i].id = i
       /\ sent[i].kind = "final" => i = Len(sent) /\ wpc = "closed"
  /\ \A i \in 1 .. Len(got) : got[i] = sent[i] /\ got[i].kind = "event"

(* The unread words are the published frames that were not handed over, one *)
(* behind the other and each of them whole.                                 *)
FramesInv ==
  /\ Used = 0 <=> Len(got) = Len(sent)
  /\ Used > 0 => Start(0) /\ Unread[0].frame = sent[Len(got) + 1]
  /\ \A o \in 0 .. Used - 1 : Start(o) =>
       LET f == Unread[o].frame
       IN  /\ f.id \in Len(got) + 1 .. Len(sent) /\ f = sent[f.id]
           /\ o + f.len <= Used
           /\ \A j \in 0 .. f.len - 1 : Unread[o + j] = [frame |-> f, off |-> j]
           /\ o + f.len = Used <=> f.id = Len(sent)
           /\ o + f.len < Used =>
                /\ Start(o + f.len)
                /\ Unread[o + f.len].frame = sent[f.id + 1]
  /\ \A o1, o2 \in 0 .. Used - 1 :
       Start(o1) /\ Start(o2) /\ o1 < o2 => Unread[o1].frame.id < Unread[o2].frame.id

(* A drain works on the part of the unread words up to its rtail, which is  *)
(* the end of a frame.                                                      *)
ReaderInv ==
  /\ rpc \in {"drain", "copy"} =>
       /\ Wrap(rhead) = head /\ rhead < rtail /\ rtail - rhead <= Used
       /\ \A o \in 0 .. rtail - rhead - 1 :
            Start(o) => o + Unread[o].frame.len <= rtail - rhead
  /\ rpc = "copy" => rlen = Unread[0].frame.len /\ Unread[0].frame.kind # "final"

IInv == TypeOK /\ SpaceInv /\ WriterInv /\ SentInv /\ FramesInv /\ ReaderInv

(* The ring implements the stream of frames.                                *)
Stream == INSTANCE FrameStream WITH Capacity <- Body, load <- Used
Refinement == Stream!Spec
=============================================================================
