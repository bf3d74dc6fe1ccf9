------------------------------ MODULE Sampler -------------------------------
(***************************************************************************)
(* The instrument that samples stacks (sysprof-sampler.c): it opens a      *)
(* stream of perf events for each CPU, in up to four ways, lets the kernel *)
(* record while the other instruments still prepare, and stops the streams *)
(* when the recording is cancelled.  The start of the recording and what   *)
(* becomes of the instrument are those of the fiber of sysprof-recording.c. *)
(***************************************************************************)
EXTENDS PerfStream, FiniteSets, FiniteSetsExt

CONSTANTS SampleSize,   \* words of a PERF_RECORD_SAMPLE
          MaxTime,      \* bound: the clock, in microseconds
          MaxEvents     \* bound: what the kernel has to record

ASSUME SamplerAssumption ==
  /\ Cpus # {} /\ IsFiniteSet(Cpus) /\ MaxTime \in Nat \ {0} /\ MaxEvents \in Nat
  /\ SampleSize \in 1 .. Size

VARIABLES clock, start_time,    \* of the recording
          phase,        \* opening, prepared, recording, stopping, stopped,
                        \* cleared, failed, abandoned
          todo,         \* the streams the fiber has not come to, to disable them
          attempt,      \* hardware or software events, with mmap2 or without
          opened,       \* the future of each CPU: asked, open, refused
          kept,         \* the samples that went into the capture
          lost          \* the counter "Lost Samples", as last written

samplerVars == <<clock, start_time, phase, todo, attempt, opened, kept, lost>>
vars == <<perfVars, samplerVars>>

NSEC_PER_USEC == 1000

SamplerInit ==
  /\ Init
  /\ clock = 1 /\ start_time = 0 /\ phase = "opening" /\ todo = {} /\ attempt = 1
  /\ opened = [c \in Cpus |-> "asked"] /\ kept = [c \in Cpus |-> {}]
  /\ lost = 0

Streams == {c \in Cpus : opened[c] = "open"}
Refused == {c \in Cpus : opened[c] = "refused"}
Answered == \A c \in Cpus : opened[c] # "asked"

(* perf_event_open, by sysprofd or without it, and the mmap.                *)
Answer(c) ==
  /\ phase = "opening" /\ opened[c] = "asked"
  /\ \E a \in {"open", "refused"} : opened' = [opened EXCEPT ![c] = a]
  /\ UNCHANGED <<perfVars, clock, start_time, phase, todo, attempt, kept, lost>>

(* Variant: after software events comes the first attempt again.            *)
TryAgainForever ==
  /\ phase = "opening" /\ Refused = Cpus
  /\ attempt' = IF attempt = 4 THEN 1 ELSE attempt + 1
  /\ opened' = [c \in Cpus |-> "asked"] /\ UNCHANGED phase
  /\ lost' = 0
  /\ UNCHANGED <<perfVars, clock, start_time, todo, kept>>

(* All were refused: the next way, with a counter of its own, or an error.  *)
TryAgain ==
  /\ phase = "opening" /\ Refused = Cpus
  /\ IF attempt < 4
     THEN /\ attempt' = attempt + 1 /\ opened' = [c \in Cpus |-> "asked"] /\ UNCHANGED phase
     ELSE phase' = "failed" /\ UNCHANGED <<attempt, opened>>
  /\ lost' = 0
  /\ UNCHANGED <<perfVars, clock, start_time, todo, kept>>

(* "Start all of the samplers immediately", those that start.               *)
Prepared ==
  /\ phase = "opening" /\ Answered /\ Refused # Cpus
  /\ phase' = "prepared" /\ Enable(Streams)
  /\ UNCHANGED <<clock, start_time, todo, attempt, opened, kept, lost>>

(* Variant: each PERF_RECORD_LOST counts for one.                           *)
CallbackCountsOne(c, i) ==
  LET r == log[c][i]
  IN  /\ kept' = IF r.kind = "sample" /\ start_time # 0 /\ r.time >= start_time
                 THEN [kept EXCEPT ![c] = @ \cup {i}] ELSE kept
      /\ lost' = IF r.kind = "lost" THEN lost + 1 ELSE lost

(* sysprof_sampler_perf_event_stream_cb() for record i of c.  Records about *)
(* processes and maps go into the capture whatever their time.              *)
Callback(c, i) ==
  LET r == log[c][i]
  IN  /\ kept' = IF r.kind = "sample" /\ start_time # 0 /\ r.time >= start_time
                 THEN [kept EXCEPT ![c] = @ \cup {i}] ELSE kept
      /\ lost' = IF r.kind = "lost" THEN lost + r.lost ELSE lost

(* The record at hand goes through the callback.                            *)
SampleFlush ==
  /\ FlushRecord
  /\ LET c == flushing.cpu
         i == RecordAt(c, flushing.tail)
     IN  IF i = 0 THEN UNCHANGED <<kept, lost>> ELSE Callback(c, i)
  /\ UNCHANGED <<clock, start_time, phase, todo, attempt, opened>>

SampleFlushEnd == FlushEnd /\ UNCHANGED samplerVars

(* The main loop runs, and dispatches what is still active; but nothing     *)
(* else runs while the streams are being disabled.                          *)
SampleDispatch(c) ==
  /\ phase # "stopping" /\ Dispatch(c)
  /\ UNCHANGED samplerVars

(* The other instruments have prepared too, and the fiber of the recording  *)
(* takes the time, g_get_monotonic_time().                                  *)
Start ==
  /\ phase = "prepared" /\ flushing = Idle
  /\ phase' = "recording" /\ start_time' = clock
  /\ UNCHANGED <<perfVars, clock, todo, attempt, opened, kept, lost>>

(* Another instrument has failed, and the fiber of the recording returns.   *)
(* It has not cleared the instruments, and the streams hold the recording,  *)
(* which holds them: nobody stops them.                                     *)
Abandon ==
  /\ phase = "prepared" /\ flushing = Idle /\ phase' = "abandoned"
  /\ UNCHANGED <<perfVars, clock, start_time, todo, attempt, opened, kept, lost>>

(* The recording was cancelled, and the fiber of the sampler goes on.       *)
Cancel ==
  /\ phase = "recording" /\ flushing = Idle
  /\ phase' = "stopping" /\ todo' = Streams
  /\ UNCHANGED <<perfVars, clock, start_time, attempt, opened, kept, lost>>

DisableNext(c) ==
  /\ phase = "stopping" /\ c \in todo /\ Disable(c)
  /\ todo' = todo \ {c}
  /\ UNCHANGED <<clock, start_time, phase, attempt, opened, kept, lost>>

(* Every stream was disabled, or could not be.                              *)
Stopped ==
  /\ phase = "stopping" /\ flushing = Idle /\ todo = {} /\ phase' = "stopped"
  /\ UNCHANGED <<perfVars, clock, start_time, todo, attempt, opened, kept, lost>>

(* The other instruments have ended too, and the recording lets go of all.  *)
Clear ==
  /\ phase = "stopped" /\ flushing = Idle /\ phase' = "cleared" /\ Finalize
  /\ UNCHANGED <<clock, start_time, todo, attempt, opened, kept, lost>>

(* The kernel has a sample to record; its clock counts nanoseconds.         *)
Total == MapThenSumSet(LAMBDA c : Len(log[c]) + dropped[c], Cpus)
Happens(c) ==
  /\ Total < MaxEvents
  /\ LET r == [kind |-> "sample", size |-> SampleSize,
               time |-> clock * NSEC_PER_USEC, lost |-> 0]
     IN  KernelPut(c, r) \/ KernelDrop(c, r)
  /\ UNCHANGED samplerVars

Tick ==
  /\ clock < MaxTime /\ clock' = clock + 1
  /\ UNCHANGED <<perfVars, start_time, phase, todo, attempt, opened, kept, lost>>

SamplerNext ==
  \/ TryAgain \/ Prepared \/ SampleFlush \/ SampleFlushEnd \/ Start \/ Abandon
  \/ Cancel \/ Stopped \/ Clear \/ Tick
  \/ \E c \in Cpus : Answer(c) \/ SampleDispatch(c) \/ DisableNext(c) \/ Happens(c)

(* Calls are answered, and the main loop dispatches what is ready.          *)
Fairness ==
  /\ WF_vars(TryAgain) /\ WF_vars(Prepared) /\ WF_vars(SampleFlush) /\ WF_vars(SampleFlushEnd)
  /\ WF_vars(Stopped)
  /\ \A c \in Cpus : WF_vars(Answer(c)) /\ WF_vars(SampleDispatch(c)) /\ WF_vars(DisableNext(c))

SamplerSpec == SamplerInit /\ [][SamplerNext]_vars /\ Fairness

-----------------------------------------------------------------------------
(* Properties.                                                              *)

Record == [kind : {"sample", "lost"}, size : 1 .. Size, time : Nat, lost : Nat]
Words == [0 .. Size - 1 -> Nat \X Nat]
TypeOK ==
  /\ ring \in [Cpus -> Words] /\ log \in [Cpus -> Seq(Record)]
  /\ head \in [Cpus -> Nat] /\ data_tail \in [Cpus -> Nat] /\ tail \in [Cpus -> Nat]
  /\ pending \in [Cpus -> Nat] /\ dropped \in [Cpus -> Nat]
  /\ enabled \in [Cpus -> BOOLEAN] /\ active \in [Cpus -> BOOLEAN]
  /\ flushing = Idle \/ flushing \in [cpu : Cpus, head : Nat, tail : Nat]
  /\ delivered \in [Cpus -> Seq(Nat)]
  /\ clock \in Nat \ {0} /\ start_time \in Nat
  /\ phase \in {"opening", "prepared", "recording", "stopping", "stopped", "cleared",
               "failed", "abandoned"}
  /\ todo \subseteq Cpus /\ attempt \in 1 .. 4 /\ opened \in [Cpus -> {"asked", "open", "refused"}]
  /\ kept \in [Cpus -> SUBSET Nat] /\ lost \in Nat

(* When the sampler has stopped, every record of every stream that could be *)
(* disabled went through the callback, and every sample in it younger than  *)
(* the start of the recording is in the capture: whatever the kernel did    *)
(* meanwhile and whichever other streams go on, nothing was left in a ring. *)
NothingLeftBehind ==
  phase = "stopped" =>
    \A c \in Streams : ~active[c] =>
      /\ Len(delivered[c]) = Len(log[c])
      /\ \A i \in 1 .. Len(log[c]) :
           log[c][i].kind = "sample" /\ log[c][i].time > start_time * NSEC_PER_USEC =>
             i \in kept[c]

(* The counter in the capture never says more than the kernel dropped, on   *)
(* all CPUs together and but for the records it has not told of; and when   *)
(* the sampler has stopped, and no stream goes on, it says just that.       *)
LostCounted ==
  LET told == MapThenSumSet(LAMBDA c : dropped[c] - pending[c], Cpus)
  IN  /\ lost <= told
      /\ phase = "stopped" /\ (\A c \in Cpus : ~active[c]) => lost = told

(* Whichever calls fail, and whichever way of sampling is tried next, the   *)
(* sampler is prepared or says that it cannot be.                           *)
PrepareEnds == phase = "opening" ~> phase # "opening"

(* A ring that is not empty is emptied, by the main loop when the kernel    *)
(* rests, as what it has to record is bounded here, or when the stream is   *)
(* disabled; also of a stream that could not be, and of those nobody stops  *)
(* after a failed start.  Only the end of the recording cuts that short.    *)
RingsDrained ==
  \A c \in Cpus : tail[c] # head[c] ~> (tail[c] = head[c] \/ phase = "cleared")

(* "we will drop events that are incoming before our start time"            *)
(* (sysprof_sampler_prepare_fiber): no sample in the capture is older than  *)
(* the recording.                                                           *)
NoSampleBeforeStart ==
  \A c \in Cpus : \A i \in kept[c] : log[c][i].time >= start_time * NSEC_PER_USEC
=============================================================================
