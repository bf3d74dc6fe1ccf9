---------------------------- MODULE UserSampler -----------------------------
(***************************************************************************)
(* The sampler that has stacks unwound by another process                  *)
(* (sysprof-user-sampler.c): sysprofd starts a live unwinder               *)
(* (sysprof-live-unwinder/main.c), which writes its capture to a pipe; the *)
(* muxer reads the pipe while the recording runs, and an event fd tells    *)
(* the unwinder to exit.  The unwinder writes to the pipe with write()     *)
(* calls that block, and does not look at the event fd meanwhile.          *)
(***************************************************************************)
EXTENDS MuxerSource

CONSTANT PipeSize       \* bytes the pipe holds

ASSUME PipeAssumption == PipeSize \in Nat \ {0} /\ FileHeader <= PipeSize

VARIABLES phase,        \* of the sampler: preparing, prepared, recording,
                        \* stopping, stopped, abandoned
          unwinder,     \* none, running, exited, killed
          exiting,      \* the event fd was written to
          readable      \* the reading end of the pipe is open

samplerVars == <<phase, unwinder, exiting, readable>>
userVars == <<vars, samplerVars>>

UserInit == /\ Init /\ phase = "preparing" /\ unwinder = "none"
            /\ exiting = FALSE /\ readable = TRUE

(* prepare(): sysprofd answers Unwind when the unwinder runs; without one   *)
(* the recording goes on.                                                   *)
Prepare ==
  /\ phase = "preparing" /\ phase' = "prepared"
  /\ unwinder' \in {"none", "running"}
  /\ UNCHANGED <<vars, exiting, readable>>

(* The unwinder: it writes what it found in /proc, and later its samples.   *)
UnwinderProduce(len) == unwinder = "running" /\ Produce(len) /\ UNCHANGED samplerVars

UnwinderWrite(n) ==
  /\ unwinder = "running" /\ readable
  /\ n <= PipeSize - (written - end) /\ Write(n)
  /\ UNCHANGED samplerVars

(* A write() to a pipe that nobody can read, waiting or not.                *)
UnwinderPipe ==
  /\ unwinder = "running" /\ ~readable /\ written < Total
  /\ unwinder' = "killed"
  /\ UNCHANGED <<vars, phase, exiting, readable>>

(* exit_callback(), in the main loop.                                       *)
UnwinderExit ==
  /\ unwinder = "running" /\ exiting /\ written = Total
  /\ unwinder' = "exited"
  /\ UNCHANGED <<vars, phase, exiting, readable>>

UnwinderKilled ==
  /\ unwinder = "running" /\ unwinder' = "killed"
  /\ UNCHANGED <<vars, phase, exiting, readable>>

(* record(): the muxer is attached, and reads what is in the pipe, which    *)
(* never ends, as the sampler keeps a writing end open itself.              *)
RecordBegin ==
  /\ phase = "prepared" /\ phase' = "recording"
  /\ UNCHANGED <<vars, unwinder, exiting, readable>>
MuxerDispatch(n) == phase = "recording" /\ Dispatch(n) /\ UNCHANGED samplerVars

(* The recording is stopped: the event fd, then the muxer with its end of   *)
(* the pipe.                                                                *)
Stop ==
  /\ phase = "recording" /\ phase' = "stopping" /\ exiting' = TRUE
  /\ UNCHANGED <<vars, unwinder, readable>>
(* Variant: the end of the pipe stays open.                                 *)
DestroyMuxerOnly ==
  /\ phase = "stopping" /\ phase' = "stopped"
  /\ UNCHANGED <<vars, unwinder, exiting, readable>>
DestroyMuxer ==
  /\ phase = "stopping" /\ phase' = "stopped" /\ readable' = FALSE
  /\ UNCHANGED <<vars, unwinder, exiting>>

(* Another instrument could not be prepared: the sampler is finalized, and  *)
(* nobody writes to the event fd.                                           *)
Abandon ==
  /\ phase = "prepared" /\ phase' = "abandoned" /\ readable' = FALSE
  /\ UNCHANGED <<vars, unwinder, exiting>>

UserNext ==
  \/ Prepare \/ RecordBegin \/ Stop \/ DestroyMuxer \/ Abandon
  \/ UnwinderPipe \/ UnwinderExit \/ UnwinderKilled
  \/ \E len \in Lens : UnwinderProduce(len)
  \/ \E n \in 1 .. PipeSize : UnwinderWrite(n)
  \/ \E n \in 1 .. Capacity : MuxerDispatch(n)

(* The main loops run, and the fiber of a recording that is stopped.        *)
Fairness ==
  /\ WF_userVars(DestroyMuxer) /\ WF_userVars(UnwinderPipe) /\ WF_userVars(UnwinderExit)
  /\ WF_userVars(\E n \in 1 .. PipeSize : UnwinderWrite(n))
  /\ WF_userVars(\E n \in 1 .. Capacity : MuxerDispatch(n))

UserSpec == UserInit /\ [][UserNext]_userVars /\ Fairness

-----------------------------------------------------------------------------
(* Properties.                                                              *)

(* However the pipe and the buffer fill, and whatever the unwinder is at    *)
(* when the recording stops - in the middle of a write() to a full pipe,    *)
(* where it does not see the event fd - it ends.                            *)
UnwinderEnds == phase = "stopping" ~> unwinder # "running"

(* While the recording runs, the unwinder never waits for good: the muxer   *)
(* makes room, and what the unwinder has to write gets into the pipe.       *)
WritesGoOn ==
  phase = "recording" /\ unwinder = "running" /\ written < Total
    ~> written = Total \/ unwinder # "running" \/ phase # "recording"
=============================================================================
