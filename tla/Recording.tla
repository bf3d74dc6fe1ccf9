----------------------------- MODULE Recording ------------------------------
(***************************************************************************)
(* A recording: the fiber of sysprof-recording.c that prepares, runs,      *)
(* stops and augments the instruments (sysprof-instrument.c), together     *)
(* with what else writes to the capture: the answers of sysprofd about     *)
(* followed processes and the timer that watches the maps of the spawned   *)
(* one (sysprof-linux-instrument.c), the symbols bundle that loads the     *)
(* capture to augment it (sysprof-symbols-bundle.c), and the window that   *)
(* opens it afterwards (sysprof-recording-pad.c).  Between two awaits the  *)
(* fiber runs alone.  Frames are known by who wrote them.                  *)
(***************************************************************************)
EXTENDS Naturals, FiniteSets

CONSTANTS Instruments,  \* the instruments of the profiler
          Bundle,       \* the one that is a symbols bundle
          Control,      \* the one that serves the control socket
          Spawns,       \* the profiler has a spawnable
          MaxTime,      \* bound: the clock
          MaxFollows,   \* bound: processes followed
          Snapshots     \* how often the maps of the spawned process are read

ASSUME RecordingAssumption ==
  /\ Bundle \in Instruments /\ Control \in Instruments \ {Bundle}
  /\ IsFiniteSet(Instruments) /\ Spawns \in BOOLEAN
  /\ MaxTime \in Nat \ {0} /\ MaxFollows \in Nat /\ Snapshots \in Nat

VARIABLES pc,           \* where the fiber awaits
          inst,         \* what each instrument's future is about, or how it went
          clock, begin_time, end_time,
          stop,         \* a STOP is in the channel
          monitor,      \* the spawned process
          held,         \* it, or a child, has the other end of the control socket
          cancelled,    \* the GCancellable
          calls,        \* calls to sysprofd without an answer
          watches,      \* runs left of the timer
          buffered,     \* who wrote the frames in the writer's buffer
          header,       \* [time, end_time] of the file
          missed,       \* frames the symbols bundle did not find in the file
          rewound,      \* "no", or how things stood when the offset was set to 0
          overwritten,  \* frames were written over the start of the file
          result        \* of the fiber

vars == <<pc, inst, clock, begin_time, end_time, stop, monitor, held, cancelled, calls,
          watches, buffered, header, missed, rewound, overwritten, result>>
fiber == <<pc, begin_time, end_time, cancelled, result>>
file == <<buffered, header, overwritten>>

Init ==
  /\ pc = "prepare" /\ inst = [i \in Instruments |-> "preparing"]
  /\ clock = 1 /\ begin_time = 0 /\ end_time = 0
  /\ stop = FALSE /\ monitor = "none" /\ held = FALSE /\ cancelled = FALSE
  /\ calls = 0 /\ watches = 0 /\ buffered = {} /\ header = [time |-> 1, end_time |-> 0]
  /\ missed = {} /\ rewound = "no" /\ overwritten = FALSE /\ result = "none"

Over(i) == inst[i] \in {"over", "failed"}
AllOver == \A i \in Instruments : Over(i)

(* A frame goes into the buffer, which may have to be written out for it.   *)
Write(who) ==
  /\ \/ buffered' = buffered \cup {who} /\ UNCHANGED overwritten
     \/ /\ buffered # {} /\ buffered' = {who}
        /\ overwritten' = (overwritten \/ rewound # "no")
  /\ UNCHANGED header

-----------------------------------------------------------------------------
(* The fiber.                                                               *)

(* All instruments have prepared: they are told to record, the command is   *)
(* spawned and followed, and the metadata is written.                       *)
Start ==
  /\ pc = "prepare" /\ \A i \in Instruments : inst[i] \in {"ready", "failed"}
  /\ IF \E i \in Instruments : inst[i] = "failed"
     THEN /\ pc' = "ended" /\ result' = "error"
          /\ UNCHANGED <<inst, begin_time, monitor, held, calls, watches, file>>
     ELSE /\ pc' = "setup" /\ result' = result
          /\ inst' = [i \in Instruments |-> "recording"]
          /\ begin_time' = clock
          /\ \/ /\ Spawns /\ monitor' = "running" /\ held' = TRUE
                /\ calls' \in calls .. calls + 1 /\ watches' = Snapshots
             \/ /\ monitor' = IF Spawns THEN "failed" ELSE "none"
                /\ UNCHANGED <<held, calls, watches>>
          /\ Write("setup")
  /\ UNCHANGED <<clock, end_time, stop, cancelled, missed, rewound>>

(* /etc/os-release is in the capture, if it could be read.                  *)
Loop ==
  /\ pc = "setup" /\ pc' = "loop"
  /\ Write("setup") \/ UNCHANGED file
  /\ UNCHANGED <<inst, clock, begin_time, end_time, stop, monitor, held, cancelled,
                 calls,
                 watches, missed, rewound, result>>

Exited == monitor \in {"exited", "failed"}

(* What dex_future_first() may bring: a future that is complete, or the     *)
(* timeout of a second.                                                     *)
First == {"duration"} \cup {f \in {"record"} : AllOver}
         \cup {f \in {"message"} : stop} \cup {f \in {"monitor"} : Exited}
Rejected(f) == \/ f = "record" /\ \E i \in Instruments : inst[i] = "failed"
               \/ f = "monitor" /\ monitor = "failed"

(* Variant: the timeout counts as an error like others.                     *)
StopTimed ==
  /\ pc = "loop"
  /\ pc' = "record" /\ end_time' = clock /\ cancelled' = TRUE
  /\ result' \in {IF Rejected(f) THEN "error" ELSE "ok" : f \in First}
  /\ UNCHANGED <<inst, clock, begin_time, stop, monitor, held, calls, watches,
                 file, missed, rewound>>

(* Variant: the spawned process may be over, the recording goes on.         *)
StopIgnoringExit ==
  /\ pc = "loop"
  /\ AllOver \/ stop
  /\ pc' = "record" /\ end_time' = clock /\ cancelled' = TRUE
  /\ result' = "ok"
  /\ UNCHANGED <<inst, clock, begin_time, stop, monitor, held, calls, watches,
                 file, missed, rewound>>

(* The loop is left if the first future was rejected, if the instruments    *)
(* are through or the process is, or if there is a STOP.                    *)
Stop ==
  /\ pc = "loop"
  /\ \E f \in First :
       /\ Rejected(f) \/ AllOver \/ Exited \/ stop
       /\ result' = IF Rejected(f) THEN "error" ELSE "ok"
  /\ pc' = "record" /\ end_time' = clock /\ cancelled' = TRUE
  /\ UNCHANGED <<inst, clock, begin_time, stop, monitor, held, calls, watches,
                 file, missed, rewound>>

(* Variant: instruments may still be at it.                                 *)
AugmentAtOnce ==
  /\ pc = "record" /\ pc' = "augment"
  /\ inst' = [i \in Instruments |-> IF i = Bundle /\ Over(i) THEN "loading"
                                    ELSE IF Over(i) THEN "augmenting" ELSE inst[i]]
  /\ UNCHANGED <<clock, begin_time, end_time, stop, monitor, held, cancelled,
                 calls, watches,
                 file, missed, rewound, result>>

(* The instruments have responded to the cancellation and augment.          *)
Augment ==
  /\ pc = "record" /\ AllOver /\ pc' = "augment"
  /\ inst' = [i \in Instruments |-> IF i = Bundle THEN "loading" ELSE "augmenting"]
  /\ UNCHANGED <<clock, begin_time, end_time, stop, monitor, held, cancelled,
                 calls, watches,
                 file, missed, rewound, result>>

(* _sysprof_capture_writer_set_time_range(), then                           *)
(* sysprof_capture_writer_flush(), which writes the end time too.           *)
Finish ==
  /\ pc = "augment" /\ \A i \in Instruments : inst[i] \notin {"loading", "augmenting"}
  /\ pc' = "ended"
  /\ buffered' = {} /\ header' = [time |-> begin_time, end_time |-> clock]
  /\ UNCHANGED <<inst, clock, begin_time, end_time, stop, monitor, held, cancelled,
                 calls, watches,
                 missed, rewound, overwritten, result>>

-----------------------------------------------------------------------------
(* The instruments.                                                         *)

(* Preparing may write too: the processes there are, the kernel's symbols.   *)
Prepared(i) ==
  /\ inst[i] = "preparing"
  /\ \E how \in {"ready", "failed"} : inst' = [inst EXCEPT ![i] = how]
  /\ Write("instrument") \/ UNCHANGED file
  /\ UNCHANGED <<fiber, clock, stop, monitor, held, calls, watches, missed, rewound>>

(* The streams of a sampler (module Sampler) run from the end of its        *)
(* preparation on, and if they cannot be disabled until the fiber lets go   *)
(* of the instruments; it does not if the preparation of another failed.    *)
Streaming(i) ==
  /\ pc \in {"prepare", "ended"} => inst[i] = "ready"
  /\ pc = "ended" => header.end_time = 0

(* What record() of the instrument writes, and its streams.                 *)
Record(i) ==
  /\ inst[i] = "recording" \/ Streaming(i)
  /\ Write("instrument")
  /\ UNCHANGED <<fiber, inst, clock, stop, monitor, held, calls, watches, missed,
                 rewound>>

(* _sysprof_recording_follow_process() at a new process: its maps are       *)
(* written, the rest is asked of sysprofd.                                  *)
Follow(i) ==
  /\ inst[i] = "recording" \/ Streaming(i)
  /\ calls < MaxFollows /\ calls' = calls + 1
  /\ Write("instrument")
  /\ UNCHANGED <<fiber, inst, clock, stop, monitor, held, watches, missed, rewound>>

(* The one that serves the control socket waits for any of its read and the *)
(* cancellation to resolve.  A cancellation is a rejection: the end of the  *)
(* stream it has to be.                                                     *)
StillReading(i) == i = Control /\ held

(* An instrument ends by itself or because it is cancelled.                 *)
Complete(i) ==
  /\ inst[i] = "recording" /\ ~StillReading(i)
  /\ \E how \in {"over", "failed"} : inst' = [inst EXCEPT ![i] = how]
  /\ UNCHANGED <<fiber, clock, stop, monitor, held, calls, watches, file, missed,
                 rewound>>

(* The symbols bundle loads the file of the recording ...                   *)
Load ==
  /\ inst[Bundle] = "loading"
  /\ inst' = [inst EXCEPT ![Bundle] = "augmenting"] /\ missed' = buffered
  /\ UNCHANGED <<fiber, clock, stop, monitor, held, calls, watches, file, rewound>>

(* ... and adds its symbols; another instrument adds what it has.           *)
Augmented(i) ==
  /\ inst[i] = "augmenting" /\ inst' = [inst EXCEPT ![i] = "over"]
  /\ Write(IF i = Bundle THEN "symbols" ELSE "instrument") \/ UNCHANGED file
  /\ UNCHANGED <<fiber, clock, stop, monitor, held, calls, watches, missed, rewound>>

-----------------------------------------------------------------------------
(* The others.                                                              *)

(* process_started_cb(): sysprofd answers, with files or without.  Nobody   *)
(* waits for it, and it holds a reference on the recording.                 *)
Answer ==
  /\ calls > 0 /\ calls' = calls - 1
  /\ Write("answer") \/ UNCHANGED file
  /\ UNCHANGED <<fiber, inst, clock, stop, monitor, held, watches, missed, rewound>>

(* Variant: the timer does not ask whether the recording is over.           *)
WatchOn ==
  /\ watches > 0
  /\ \/ watches' = watches - 1 /\ (Write("maps") \/ UNCHANGED file)
     \/ watches' = 0 /\ UNCHANGED file
  /\ UNCHANGED <<fiber, inst, clock, stop, monitor, held, calls, missed, rewound>>

(* process_maps_snapshot_cb(): the maps, if they have changed.              *)
Watch ==
  /\ watches > 0
  /\ \/ /\ end_time = 0
        /\ watches' = watches - 1 /\ (Write("maps") \/ UNCHANGED file)
     \/ watches' = 0 /\ UNCHANGED file
  /\ UNCHANGED <<fiber, inst, clock, stop, monitor, held, calls, missed, rewound>>

(* sysprof_recording_stop_async(): one STOP is as good as more.             *)
RequestStop ==
  /\ ~stop /\ stop' = TRUE
  /\ UNCHANGED <<fiber, inst, clock, monitor, held, calls, watches, file, missed,
                 rewound>>

Exit ==
  /\ monitor = "running" /\ monitor' \in {"exited", "failed"}
  /\ held' \in BOOLEAN
  /\ UNCHANGED <<fiber, inst, clock, stop, calls, watches, file, missed, rewound>>

(* The last child of the spawned process that had the control socket ends.  *)
LastChildExits ==
  /\ Exited /\ held /\ held' = FALSE
  /\ UNCHANGED <<fiber, inst, clock, stop, monitor, calls, watches, file, missed,
                 rewound>>

Tick ==
  /\ clock < MaxTime /\ clock' = clock + 1
  /\ UNCHANGED <<fiber, inst, stop, monitor, held, calls, watches, file, missed,
                 rewound>>

(* The window of a recording that is over: it duplicates the descriptor and *)
(* sets its offset to 0 to have it loaded.  The writer's is the same.       *)
Open ==
  /\ pc = "ended" /\ result = "ok" /\ rewound = "no"
  /\ rewound' = IF calls = 0 /\ buffered = {} THEN "quiet" ELSE "early"
  /\ UNCHANGED <<fiber, inst, clock, stop, monitor, held, calls, watches, file, missed>>

(* The last reference is gone, and sysprof_capture_writer_finalize()        *)
(* flushes what there is.                                                   *)
Finalize ==
  /\ pc = "ended" /\ calls = 0 /\ watches = 0 /\ buffered # {}
  /\ buffered' = {} /\ header' = [header EXCEPT !.end_time = clock]
  /\ overwritten' = (overwritten \/ rewound # "no")
  /\ UNCHANGED <<fiber, inst, clock, stop, monitor, held, calls, watches, missed,
                 rewound>>

Next == \/ Start \/ Loop \/ Stop \/ Augment \/ Finish
        \/ \E i \in Instruments : \/ Prepared(i) \/ Record(i) \/ Follow(i)
                                  \/ Complete(i) \/ Augmented(i)
        \/ Load \/ Answer \/ Watch \/ RequestStop \/ Exit \/ LastChildExits \/ Tick \/ Open \/ Finalize

Spec == Init /\ [][Next]_vars

(* The main loop runs the fiber, instruments prepare, respond to the        *)
(* cancellable and augment.  Neither that sysprofd answers nor that the     *)
(* spawned process ends is assumed.                                         *)
Fairness ==
  /\ WF_vars(Start) /\ WF_vars(Loop) /\ WF_vars(Stop) /\ WF_vars(Augment) /\ WF_vars(Finish)
  /\ WF_vars(Load)
  /\ \A i \in Instruments : /\ WF_vars(Prepared(i)) /\ WF_vars(Augmented(i))
                            /\ WF_vars(cancelled /\ Complete(i))
LiveSpec == Spec /\ Fairness

-----------------------------------------------------------------------------
(* Properties.                                                              *)

Writers == {"setup", "instrument", "answer", "maps", "symbols"}

(* Every variable keeps its type; the times of a recording are ordered, and *)
(* the timer of the maps and the instruments are told of its end at once.   *)
TypeOK ==
  /\ pc \in {"prepare", "setup", "loop", "record", "augment", "ended"}
  /\ inst \in [Instruments -> {"preparing", "ready", "recording", "over", "failed",
                               "loading", "augmenting"}]
  /\ clock \in 1 .. MaxTime /\ begin_time \in 0 .. clock /\ end_time \in 0 .. clock
  /\ end_time = 0 \/ begin_time <= end_time
  /\ cancelled \in BOOLEAN /\ (cancelled <=> end_time # 0)
  /\ calls \in 0 .. MaxFollows + 1 /\ watches \in 0 .. Snapshots
  /\ buffered \subseteq Writers /\ missed \subseteq Writers
  /\ monitor \in {"none", "running", "exited", "failed"}
  /\ result \in {"none", "ok", "error"} /\ held \in BOOLEAN
  /\ rewound \in {"no", "early", "quiet"}

(* When the recording is over, what its instruments, its augmentation and   *)
(* the timer wrote is on disk; nothing of theirs comes later.               *)
RecordedOnDisk == pc = "ended" /\ begin_time # 0 => buffered \subseteq {"answer"}

(* A recording is not stopped without a reason: a STOP, the end of the      *)
(* spawned process, or that of all instruments.                             *)
StopsForAReason ==
  [][pc = "loop" /\ pc' # "loop" => stop \/ Exited \/ AllOver]_vars

(* A recording that is told to stop, and one whose spawned process is over, *)
(* ends, at whatever moment that happens, preparation included: but for     *)
(* processes that hold on to the control socket.                            *)
StopEnds == stop \/ Exited ~> pc = "ended" \/ held

(* Who opens a recording with the duplicated descriptor finds the file as   *)
(* it was written, if by then sysprofd had answered everything and nothing  *)
(* was left in the buffer: what comes later would go over the header.       *)
OpenedIntact == rewound = "quiet" => ~overwritten

(* "Ask instruments to start recording and stop if cancelled": a recording  *)
(* that is told to stop ends, whether its spawned process does or not.      *)
(* This does not hold, and neither do the next two (README, Disagreements). *)
StopIfCancelled == stop ~> pc = "ended"

(* "Update start/end times to be the "running time"": the header of the     *)
(* file says when the recording was started and stopped.                    *)
TimeRangeIsRunningTime ==
  pc = "ended" /\ result = "ok" =>
    header = [time |-> begin_time, end_time |-> end_time]

(* "Some instruments may include extra information about the capture such   *)
(* as symbol names": the capture that the bundle takes the symbols from has *)
(* all that the instruments recorded.                                       *)
BundleSeesRecorded == "instrument" \notin missed

(* The inductive invariant behind RecordedOnDisk and OpenedIntact: what     *)
(* each phase of the fiber finds the instruments at and leaves behind.      *)
AllIn(states) == \A i \in Instruments : inst[i] \in states
Prepare ==
  pc = "prepare" =>
    /\ begin_time = 0 /\ end_time = 0 /\ calls <= MaxFollows
    /\ AllIn({"preparing", "ready", "failed"})
Running ==
  pc \in {"setup", "loop"} =>
    begin_time # 0 /\ end_time = 0 /\ AllIn({"recording", "over", "failed"})
Stopping ==
  /\ pc = "record" =>
       begin_time # 0 /\ end_time # 0 /\ AllIn({"recording", "over", "failed"})
  /\ pc = "augment" =>
       begin_time # 0 /\ end_time # 0 /\ AllIn({"loading", "augmenting", "over"})
Ended ==
  /\ pc = "ended" => (begin_time = 0 => result = "error" /\ AllIn({"ready", "failed"}))
  /\ pc = "ended" => (begin_time # 0 => end_time # 0 /\ AllIn({"over"}))
Opened ==
  /\ rewound = "no" => ~overwritten
  /\ rewound # "no" => pc = "ended" /\ result = "ok"
  /\ rewound = "quiet" => calls = 0 /\ buffered = {}
IInv == /\ TypeOK /\ Prepare /\ Running /\ Stopping /\ Ended
        /\ RecordedOnDisk /\ Opened /\ OpenedIntact
=============================================================================
