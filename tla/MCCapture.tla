----------------------------- MODULE MCCapture ------------------------------
(* Instances of CaptureCursor and CaptureCat: captures with frames of every *)
(* length, and with names, counters and memory events in common.            *)
EXTENDS CaptureCat

CONSTANTS p1, p2, n1, n2

Plain(kind, len, time) ==
  [kind |-> kind, len |-> len, time |-> time, id |-> 0, addrs |-> <<>>, ids |-> <<>>, event |-> 0]
MarkOf(len, time, dur) ==
  [kind |-> "mark", id |-> 0, len |-> len, time |-> time, dur |-> dur]
Chunk(path, id, last) ==
  [kind |-> "file", len |-> 2, time |-> 0, path |-> path, id |-> id, last |-> last]

(* Frames to walk over, and to look for files in.                           *)
Timeline == <<Plain("sample", 3, 1), MarkOf(2, 1, 1), Plain("timestamp", 2, 1),
              Plain("exit", 1, 3), Plain("memory_sample", 3, 2)>>
Threes == [1 .. 3 -> {Plain("exit", 1, 2), Plain("memory_sample", 3, 3), MarkOf(2, 1, 1)}]
Embedded == <<Chunk(p2, 1, TRUE), Chunk(p1, 2, FALSE), Plain("exit", 1, 1), Chunk(p1, 3, TRUE)>>

(* Frames that refer to each other.                                         *)
Jitmap(defs) == [kind |-> "jitmap", len |-> 2, time |-> 1, defs |-> defs]
Sample(id, addrs) == [Plain("sample", 3, 1) EXCEPT !.id = id, !.addrs = addrs]
Define(id, ids) == [Plain("ctrdef", 3, 1) EXCEPT !.id = id, !.ids = ids]
Set(id, ids) == [Plain("ctrset", 2, 2) EXCEPT !.id = id, !.ids = ids]
Event(id, event) == [Plain("metadata", 2, 1) EXCEPT !.id = id, !.event = event]
Access(id, event, addrs) ==
  [Plain("memory_sample", 3, 2) EXCEPT !.id = id, !.event = event, !.addrs = addrs]

First == <<Sample(1, <<12, 5, 11, 99>>), Plain("timestamp", 2, 1), Jitmap(<<<<n1, 11>>, <<n2, 12>>>>),
           Define(2, <<1, 2>>), Set(3, <<2>>), Event(4, 1), Access(5, 1, <<11>>)>>
Second == <<Jitmap(<<<<n2, 11>>>>), Define(11, <<2>>), Sample(12, <<11>>), Define(13, <<1>>),
            Set(14, <<1, 2>>), Access(15, 2, <<11>>), Event(16, 2), Event(17, 1)>>

TheCaptures == Threes \cup {Timeline, Embedded, First, Second}
TimelineOnly == {Timeline}
TimelineAgain == <<TimelineOnly>>
OneMore == <<{Second}>>
TheWriters ==
  {[names |-> {}, written |-> {}, seq |-> 0, ctr |-> 0, event |-> 0],
   [names |-> {<<n2, 11>>}, written |-> {}, seq |-> 1, ctr |-> 1, event |-> 1]}

TheKinds == {"sample", "mark", "exit", "memory_sample", "ctrdef", "ctrset", "metadata",
             "jitmap", "file", "timestamp"}
Late == [op |-> "time", begin |-> 2, end |-> 3]
Samples == [op |-> "type", in |-> {"sample", "memory_sample"}]
Both == [op |-> "and", left |-> Late, right |-> Samples]
Either == [op |-> "or", left |-> [op |-> "file", path |-> p2], right |-> Both]
TheTerms == {Late, Samples, Both, Either, [op |-> "file", path |-> p1], [op |-> "file", path |-> p2]}
TheConditions == {{}, {[op |-> "file", path |-> p1]}, {Late, Samples}, {Both}, {Either}}
=============================================================================
