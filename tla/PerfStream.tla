----------------------------- MODULE PerfStream -----------------------------
(***************************************************************************)
(* The streams of perf events, one for each CPU                            *)
(* (sysprof-perf-event-stream.c): the kernel appends records to a ring in  *)
(* shared memory, and the main loop, when it comes to it, hands what is    *)
(* there to a callback and gives the room back.  The kernel goes on        *)
(* meanwhile, and drops what does not fit.  Sizes are in words of 64 bits. *)
(***************************************************************************)
EXTENDS Naturals, Sequences

CONSTANTS Cpus,         \* the CPUs that are online
          Size,         \* words of the ring (N_PAGES * sysprof_getpagesize ())
          LostSize      \* words of a PERF_RECORD_LOST

ASSUME PerfAssumption ==
  /\ Size \in Nat \ {0} /\ LostSize \in 1 .. Size
  /\ "none" \notin Cpus

VARIABLES ring,         \* [cpu -> [place -> <<record, word of it>>]]
          head, data_tail, \* of the page shared with the kernel
          log,          \* the records the kernel put in the ring, [kind, size, time, lost]
          pending,      \* records it dropped since the last one it put there
          dropped,      \* records it dropped
          enabled,      \* the kernel records
          active, tail, \* of the stream
          flushing,     \* [cpu, head, tail] of the flush that runs
          delivered     \* the records that the callback was given

kernel == <<ring, head, log, pending, dropped>>
perfVars == <<kernel, data_tail, enabled, active, tail, flushing, delivered>>

Idle == [cpu |-> "none", head |-> 0, tail |-> 0]

Init ==
  /\ ring = [c \in Cpus |-> [p \in 0 .. Size - 1 |-> <<0, 0>>]]
  /\ head = [c \in Cpus |-> 0] /\ data_tail = [c \in Cpus |-> 0]
  /\ log = [c \in Cpus |-> <<>>]
  /\ pending = [c \in Cpus |-> 0] /\ dropped = [c \in Cpus |-> 0]
  /\ enabled = [c \in Cpus |-> FALSE] /\ active = [c \in Cpus |-> FALSE]
  /\ tail = [c \in Cpus |-> 0] /\ flushing = Idle
  /\ delivered = [c \in Cpus |-> <<>>]

-----------------------------------------------------------------------------
(* The kernel.                                                              *)

(* Record i is laid out from position at on.                                *)
Lay(words, at, i, size) ==
  [p \in 0 .. Size - 1 |->
     IF \E k \in 1 .. size : (at + k - 1) % Size = p
     THEN <<i, CHOOSE k \in 1 .. size : (at + k - 1) % Size = p>>
     ELSE words[p]]

(* There is something to record: it fits, together with the count of those  *)
(* that did not, or is one more of them.                                    *)
Fits(c, r) ==
  head[c] + r.size + (IF pending[c] > 0 THEN LostSize ELSE 0) - data_tail[c] < Size

KernelPut(c, r) ==
  /\ enabled[c] /\ Fits(c, r)
  /\ LET n == Len(log[c])
         lost == [kind |-> "lost", size |-> LostSize, time |-> r.time, lost |-> pending[c]]
     IN  IF pending[c] > 0
         THEN /\ log' = [log EXCEPT ![c] = @ \o <<lost, r>>]
              /\ head' = [head EXCEPT ![c] = @ + LostSize + r.size]
              /\ ring' = [ring EXCEPT ![c] =
                            Lay(Lay(@, head[c], n + 1, LostSize),
                                head[c] + LostSize, n + 2, r.size)]
         ELSE /\ log' = [log EXCEPT ![c] = Append(@, r)]
              /\ head' = [head EXCEPT ![c] = @ + r.size]
              /\ ring' = [ring EXCEPT ![c] = Lay(@, head[c], n + 1, r.size)]
  /\ pending' = [pending EXCEPT ![c] = 0]
  /\ UNCHANGED <<dropped, data_tail, enabled, active, tail, flushing, delivered>>

KernelDrop(c, r) ==
  /\ enabled[c] /\ ~Fits(c, r)
  /\ pending' = [pending EXCEPT ![c] = @ + 1]
  /\ dropped' = [dropped EXCEPT ![c] = @ + 1]
  /\ UNCHANGED <<ring, head, log, data_tail, enabled, active, tail, flushing, delivered>>

-----------------------------------------------------------------------------
(* The stream.                                                              *)

Lesser(a, b) == IF a < b THEN a ELSE b

(* map_data + (tail & mask)                                                 *)
Place(pos) == pos % Size

(* What is at position pos as the header of a record: its size, or nothing  *)
(* that makes sense.                                                        *)
SizeAt(c, pos) ==
  LET w == ring[c][Place(pos)]
  IN  IF w[2] = 1 THEN log[c][w[1]].size ELSE 0

(* The words from there on, put together if they go around the end: record  *)
(* i, or no record.                                                         *)
RecordAt(c, pos) ==
  LET i == ring[c][Place(pos)][1]
  IN  IF \A k \in 1 .. SizeAt(c, pos) : ring[c][Place(pos + k - 1)] = <<i, k>> THEN i ELSE 0

(* Variant: the kernel has the room back before the records were read.      *)
FlushBeginReleasing(c) ==
  /\ flushing = Idle
  /\ flushing' = [cpu |-> c, head |-> head[c], tail |-> Lesser(tail[c], head[c])]
  /\ data_tail' = [data_tail EXCEPT ![c] = head[c]]

(* sysprof_perf_event_stream_flush(): where the ring begins and ends.       *)
FlushBegin(c) ==
  /\ flushing = Idle
  /\ flushing' = [cpu |-> c, head |-> head[c], tail |-> Lesser(tail[c], head[c])]
  /\ UNCHANGED data_tail

Left == flushing.head - flushing.tail
NextSize == SizeAt(flushing.cpu, flushing.tail)
Corrupt == NextSize < 1 \/ NextSize > Size

(* The next record goes to the callback.                                    *)
FlushRecord ==
  /\ flushing # Idle /\ Left >= 1 /\ ~Corrupt /\ NextSize <= Left
  /\ delivered' = [delivered EXCEPT ![flushing.cpu] =
                     Append(@, RecordAt(flushing.cpu, flushing.tail))]
  /\ flushing' = [flushing EXCEPT !.tail = @ + NextSize]
  /\ UNCHANGED <<kernel, data_tail, enabled, active, tail>>

(* There is no further one, or none that could be read, which ends at what  *)
(* the kernel has written so far; the room is the kernel's again.           *)
FlushEnd ==
  /\ flushing # Idle /\ (Left < 1 \/ Corrupt \/ NextSize > Left)
  /\ LET c == flushing.cpu
         end == IF Left >= 1 /\ Corrupt THEN flushing.head ELSE flushing.tail
     IN  /\ tail' = [tail EXCEPT ![c] = end]
         /\ data_tail' = [data_tail EXCEPT ![c] = end]
  /\ flushing' = Idle
  /\ UNCHANGED <<kernel, enabled, active, delivered>>

(* The source of the stream is dispatched.                                  *)
Dispatch(c) ==
  /\ active[c] /\ tail[c] # head[c] /\ FlushBegin(c)
  /\ UNCHANGED <<kernel, enabled, active, tail, delivered>>

(* sysprof_perf_event_stream_enable(), of each of these streams; the ioctl  *)
(* may fail, and the stream is as it was then.                              *)
Enable(cpus) ==
  \E done \in SUBSET cpus :
    /\ enabled' = [c \in Cpus |-> enabled[c] \/ c \in done]
    /\ active' = [c \in Cpus |-> active[c] \/ c \in done]
    /\ UNCHANGED <<kernel, data_tail, tail, flushing, delivered>>

(* Variants: what is in the ring stays there; the ring is looked at before  *)
(* the kernel stops.                                                        *)
DisableOnly(c) ==
  /\ active[c] /\ flushing = Idle
  /\ enabled' = [enabled EXCEPT ![c] = FALSE] /\ active' = [active EXCEPT ![c] = FALSE]
  /\ UNCHANGED <<kernel, data_tail, tail, flushing, delivered>>
DisableLate(c) ==
  /\ active[c] /\ FlushBegin(c)
  /\ active' = [active EXCEPT ![c] = FALSE]
  /\ UNCHANGED <<kernel, enabled, tail, delivered>>

(* sysprof_perf_event_stream_disable(), up to the flush.  Nothing is done   *)
(* to a stream that is not active, or that the ioctl fails to disable: this *)
(* one goes on, and is not flushed.                                         *)
Disable(c) ==
  \/ /\ active[c] /\ FlushBegin(c)
     /\ enabled' = [enabled EXCEPT ![c] = FALSE] /\ active' = [active EXCEPT ![c] = FALSE]
     /\ UNCHANGED <<kernel, tail, delivered>>
  \/ flushing = Idle /\ UNCHANGED perfVars

(* sysprof_perf_event_stream_finalize(), of all streams.                    *)
Finalize ==
  /\ enabled' = [c \in Cpus |-> FALSE] /\ active' = [c \in Cpus |-> FALSE]
  /\ UNCHANGED <<kernel, data_tail, tail, flushing, delivered>>

-----------------------------------------------------------------------------
(* Properties.                                                              *)

(* Wherever records lie across the end of the ring, and whatever the kernel *)
(* adds or drops while a flush runs, the callback gets every record the     *)
(* kernel put there: whole, once and in order.                              *)
RecordsIntact ==
  \A c \in Cpus :
    /\ Len(delivered[c]) <= Len(log[c])
    /\ \A i \in 1 .. Len(delivered[c]) : delivered[c][i] = i
=============================================================================
