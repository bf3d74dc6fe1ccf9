----------------------------- MODULE Collector ------------------------------
(***************************************************************************)
(* How the threads of the profiled programs come by their ring buffers     *)
(* (sysprof_collector_get() and sysprof_collector_free() of                *)
(* sysprof-collector.c) from the profiler at the other end of the control  *)
(* socket (sysprof-controlfd-instrument.c), which drains the rings into a  *)
(* capture of its own and keeps that when the recording stops.  The socket *)
(* is inherited, so several processes share it.  A ring is a queue here;   *)
(* module RingBuffer looks inside.                                         *)
(***************************************************************************)
EXTENDS Naturals, Sequences, FiniteSets

CONSTANTS Threads, Procs, Proc,   \* Proc[t] is the process of thread t
          Profiled,     \* the processes that may have SYSPROF_CONTROL_FD
          Hooked,       \* those with libsysprof-memory: free() is an event
          Rounds,       \* PTHREAD_DESTRUCTOR_ITERATIONS
          Rings,        \* the rings that can be made
          Slots,        \* events a ring holds; the final frame has its place
          MaxEvents,    \* bound: events a thread records
          NoThread

ASSUME CollectorAssumption ==
  /\ Proc \in [Threads -> Procs] /\ Profiled \subseteq Procs
  /\ Hooked \subseteq Procs /\ Rounds \in Nat \ {0} /\ Slots \in Nat /\ MaxEvents \in Nat
  /\ NoThread \notin Threads
  /\ Rings \cap {"null", "invalid", "silent"} = {}

VARIABLES profiled,     \* the processes that do have it
          lock,         \* control_fd_lock of a process, and its holder
          disabled,     \* collector_disabled of a process
          pc,           \* where a thread is in sysprof_collector_get()
          tls,          \* collector_key: "null", COLLECTOR_INVALID, a
                        \* collector without a buffer ("silent"), or its ring
          hold,         \* the ring whose fd request_writer() received
          rounds,       \* destructor rounds a leaving thread has been through
          asks,         \* history: requests a thread has sent
          made,         \* events a thread has recorded
          requests,     \* CreatRing messages in the socket
          replies,      \* fds in the socket
          fiber,        \* "read", "stopping", "done", "closed"
          rings,        \* rings made so far
          queue,        \* frames in a ring
          attached,     \* rings that have a GSource
          source_ids,   \* the ids the fiber keeps
          captured,     \* frames of a ring in the temporary capture
          due,          \* history: events of a ring when the stop began
          unanswered    \* history: a request was met by no ring

client == <<profiled, lock, disabled, pc, tls, hold, rounds, asks, made>>
server == <<profiled, fiber, rings, attached, source_ids, captured, due, unanswered>>
vars == <<profiled, lock, disabled, pc, tls, hold, rounds, asks, made, requests,
          replies, fiber, rings, queue, attached, source_ids, captured, due,
          unanswered>>

InGet == {"alloc", "lock", "send", "recv", "map"}
Final == <<"final">>            \* write_final_frame()
Event(t) == <<t, made[t] + 1>>

Init ==
  /\ profiled \in SUBSET Profiled
  /\ lock = [p \in Procs |-> NoThread] /\ disabled = [p \in Procs |-> FALSE]
  /\ pc = [t \in Threads |-> "run"] /\ tls = [t \in Threads |-> "null"]
  /\ hold = [t \in Threads |-> "null"]
  /\ rounds = [t \in Threads |-> 0]
  /\ asks = [t \in Threads |-> 0] /\ made = [t \in Threads |-> 0]
  /\ requests = 0 /\ replies = <<>> /\ fiber = "read" /\ rings = {}
  /\ queue = [r \in Rings |-> <<>>]
  /\ attached = {} /\ source_ids = {}
  /\ captured = [r \in Rings |-> <<>>] /\ due = [r \in Rings |-> 0]
  /\ unanswered = FALSE

-----------------------------------------------------------------------------
(* A thread of a profiled program.                                          *)

(* Where a thread can call the collector: in its own code, and under the    *)
(* hooks of libsysprof-memory wherever the collector allocates or frees.    *)
Calls(t) ==
  \/ pc[t] = "run" /\ (rounds[t] = 0 \/ Proc[t] \in Hooked)
  \/ pc[t] \in {"alloc", "map"} /\ Proc[t] \in Hooked

(* Variant: the thread's key stays NULL while its collector is made.        *)
EnterVisibly(t) ==
  /\ Calls(t) /\ tls[t] = "null" /\ ~disabled[Proc[t]]
  /\ pc' = [pc EXCEPT ![t] = "alloc"]
  /\ UNCHANGED <<lock, disabled, tls, hold, rounds, asks, made, requests,
                 replies, queue, server>>

(* sysprof_collector_get() by a thread that has no collector yet: its key   *)
(* becomes COLLECTOR_INVALID first, which the calls made on the way see.    *)
Enter(t) ==
  /\ Calls(t) /\ tls[t] = "null" /\ ~disabled[Proc[t]]
  /\ tls' = [tls EXCEPT ![t] = "invalid"]
  /\ pc' = [pc EXCEPT ![t] = "alloc"]
  /\ UNCHANGED <<lock, disabled, hold, rounds, asks, made, requests, replies,
                 queue, server>>

(* The collector is allocated, or it cannot be and the key stays invalid.   *)
AllocCollector(t) ==
  /\ pc[t] = "alloc"
  /\ \E next \in {"lock", "run"} : pc' = [pc EXCEPT ![t] = next]
  /\ UNCHANGED <<lock, disabled, tls, hold, rounds, asks, made, requests,
                 replies, queue, server>>

(* control_fd_lock is free.  Without the control fd, or if another thread   *)
(* has found out meanwhile, the thread lets go of it at once.               *)
LockDisabled(t) ==
  /\ pc[t] = "lock" /\ lock[Proc[t]] = NoThread
  /\ disabled[Proc[t]] \/ Proc[t] \notin profiled
  /\ disabled' = [disabled EXCEPT ![Proc[t]] = TRUE]
  /\ pc' = [pc EXCEPT ![t] = "run"]
  /\ UNCHANGED <<lock, tls, hold, rounds, asks, made, requests, replies,
                 queue, server>>

Lock(t) ==
  /\ pc[t] = "lock" /\ lock[Proc[t]] = NoThread
  /\ ~disabled[Proc[t]] /\ Proc[t] \in profiled
  /\ lock' = [lock EXCEPT ![Proc[t]] = t]
  /\ pc' = [pc EXCEPT ![t] = "send"]
  /\ UNCHANGED <<disabled, tls, hold, rounds, asks, made, requests, replies,
                 queue, server>>

(* request_writer(): send_all_blocking() ...                                *)
Send(t) ==
  /\ pc[t] = "send" /\ fiber # "closed"
  /\ requests' = requests + 1
  /\ asks' = [asks EXCEPT ![t] = @ + 1]
  /\ pc' = [pc EXCEPT ![t] = "recv"]
  /\ UNCHANGED <<lock, disabled, tls, hold, rounds, made, replies, queue, server>>

(* ... and receive_fd_blocking().  Any process can receive any reply.       *)
Receive(t) ==
  /\ pc[t] = "recv" /\ replies # <<>>
  /\ hold' = [hold EXCEPT ![t] = Head(replies)]
  /\ replies' = Tail(replies)
  /\ pc' = [pc EXCEPT ![t] = "map"]
  /\ UNCHANGED <<lock, disabled, tls, rounds, asks, made, requests, queue, server>>

(* The collector becomes the thread's, with its buffer or with none.        *)
Keep(t, collector) ==
  /\ tls' = [tls EXCEPT ![t] = collector]
  /\ hold' = [hold EXCEPT ![t] = "null"]
  /\ lock' = [lock EXCEPT ![Proc[t]] = NoThread]
  /\ pc' = [pc EXCEPT ![t] = "run"]

(* Variant: a thread that got no ring will ask again.                       *)
MapRetry(t) ==
  /\ pc[t] = "map"
  /\ \E collector \in {hold[t], "null"} : Keep(t, collector)
  /\ UNCHANGED <<disabled, rounds, asks, made, requests, replies, queue, server>>

(* mapped_ring_buffer_new_writer() maps the ring or fails.                  *)
Map(t) ==
  /\ pc[t] = "map"
  /\ \E collector \in {hold[t], "silent"} : Keep(t, collector)
  /\ UNCHANGED <<disabled, rounds, asks, made, requests, replies, queue, server>>

(* The other end is closed: the thread will record nothing.                 *)
Hangup(t) ==
  /\ pc[t] \in {"send", "recv"} /\ fiber = "closed"
  /\ pc[t] = "recv" => replies = <<>>
  /\ Keep(t, "silent")
  /\ UNCHANGED <<disabled, rounds, asks, made, requests, replies, queue, server>>

(* An event.  A full ring drops it.                                         *)
Record(t) ==
  /\ pc[t] = "run" /\ tls[t] \in Rings /\ made[t] < MaxEvents
  /\ made' = [made EXCEPT ![t] = @ + 1]
  /\ queue' = IF Len(queue[tls[t]]) < Slots
              THEN [queue EXCEPT ![tls[t]] = Append(@, Event(t))] ELSE queue
  /\ UNCHANGED <<lock, disabled, pc, tls, hold, rounds, asks, requests,
                 replies, server>>

(* The thread ends: the key is reset to NULL and sysprof_collector_free()   *)
(* publishes the final frame.  Its own free() is an event under the hooks,  *)
(* which makes the thread a collector again, for the next round.            *)
Destroy(t) ==
  /\ pc[t] = "run" /\ tls[t] # "null" /\ rounds[t] < Rounds
  /\ rounds' = [rounds EXCEPT ![t] = @ + 1]
  /\ queue' = IF tls[t] \in Rings
              THEN [queue EXCEPT ![tls[t]] = Append(@, Final)] ELSE queue
  /\ LET again == Proc[t] \in Hooked /\ tls[t] # "invalid" /\ ~disabled[Proc[t]]
     IN  /\ tls' = [tls EXCEPT ![t] = IF again THEN "invalid" ELSE "null"]
         /\ pc' = [pc EXCEPT ![t] = IF again THEN "alloc" ELSE "run"]
  /\ UNCHANGED <<lock, disabled, hold, asks, made, requests, replies, server>>

(* Variant: the thread does not run the destructors of its keys.            *)
LeaveEarly(t) ==
  /\ pc[t] = "run"
  /\ pc' = [pc EXCEPT ![t] = "gone"]
  /\ UNCHANGED <<lock, disabled, tls, hold, rounds, asks, made, requests,
                 replies, queue, server>>

(* The thread is gone once no key is left to destroy, or the last round is  *)
(* over: what the key holds then is never freed.                            *)
Leave(t) ==
  /\ pc[t] = "run" /\ (tls[t] = "null" \/ rounds[t] = Rounds)
  /\ pc' = [pc EXCEPT ![t] = "gone"]
  /\ UNCHANGED <<lock, disabled, tls, hold, rounds, asks, made, requests,
                 replies, queue, server>>

(* exit() or a signal: no destructor runs in any thread of the process.     *)
Kill(p) ==
  /\ \E t \in Threads : Proc[t] = p /\ pc[t] \notin {"gone", "killed"}
  /\ pc' = [t \in Threads |-> IF Proc[t] = p /\ pc[t] # "gone"
                              THEN "killed" ELSE pc[t]]
  /\ UNCHANGED <<lock, disabled, tls, hold, rounds, asks, made, requests,
                 replies, queue, server>>

-----------------------------------------------------------------------------
(* The profiler, on its main thread.                                        *)

(* Frames a drain of ring r hands over: those before its final frame, which *)
(* is the last.                                                             *)
Closed(r) == queue[r] # <<>> /\ queue[r][Len(queue[r])] = Final
Events(r) == IF Closed(r) THEN SubSeq(queue[r], 1, Len(queue[r]) - 1) ELSE queue[r]

(* Variant: the head moves past the first of the frames handed over.        *)
DrainFirst(r) ==
  /\ captured' = [captured EXCEPT ![r] = @ \o Events(r)]
  /\ queue' = [queue EXCEPT ![r] = IF Closed(r) THEN <<Final>> ELSE SubSeq(@, 2, Len(@))]

(* The ring's frames go to the temporary capture.                           *)
Drain(r) ==
  /\ captured' = [captured EXCEPT ![r] = @ \o Events(r)]
  /\ queue' = [queue EXCEPT ![r] = IF Closed(r) THEN <<Final>> ELSE <<>>]

(* Variant: one ring serves all requests.                                   *)
HandleReusing ==
  /\ fiber = "read" /\ requests > 0
  /\ requests' = requests - 1
  /\ \E r \in IF rings = {} THEN Rings ELSE rings :
       /\ rings' = rings \cup {r}
       /\ attached' = attached \cup {r}
       /\ source_ids' = source_ids \cup {r}
       /\ replies' = Append(replies, r)
  /\ UNCHANGED <<client, fiber, queue, captured, due, unanswered>>

(* "CreatRing" was read: make a ring, attach its source, keep the id and    *)
(* send the fd.                                                             *)
Handle ==
  /\ fiber = "read" /\ requests > 0
  /\ requests' = requests - 1
  /\ \E r \in Rings \ rings :
       /\ rings' = rings \cup {r}
       /\ attached' = attached \cup {r}
       /\ source_ids' = source_ids \cup {r}
       /\ replies' = Append(replies, r)
  /\ UNCHANGED <<client, fiber, queue, captured, due, unanswered>>

(* The ring cannot be made: the fiber reads on and sends nothing.           *)
HandleFails ==
  /\ fiber = "read" /\ requests > 0
  /\ requests' = requests - 1 /\ unanswered' = TRUE
  /\ UNCHANGED <<client, replies, fiber, rings, queue, attached, source_ids,
                 captured, due>>

(* Variant: the refusal of the callback does not destroy the source.        *)
DispatchKeeping(r) ==
  /\ r \in attached /\ queue[r] # <<>> /\ fiber # "stopping"
  /\ Drain(r)
  /\ UNCHANGED <<client, requests, replies, fiber, rings, attached,
                 source_ids, due, unanswered>>

(* Variant: the destroy function does not look for its id.                  *)
DispatchForgetful(r) ==
  /\ r \in attached /\ queue[r] # <<>> /\ fiber # "stopping"
  /\ Drain(r)
  /\ attached' = IF Closed(r) THEN attached \ {r} ELSE attached
  /\ UNCHANGED <<client, requests, replies, fiber, rings, source_ids, due,
                 unanswered>>

(* A ring's source is dispatched.  The callback refuses the final frame,    *)
(* which destroys the source; ring_data_free() takes its id out.            *)
Dispatch(r) ==
  /\ r \in attached /\ queue[r] # <<>> /\ fiber # "stopping"
  /\ Drain(r)
  /\ attached' = IF Closed(r) THEN attached \ {r} ELSE attached
  /\ source_ids' = IF Closed(r) THEN source_ids \ {r} ELSE source_ids
  /\ UNCHANGED <<client, requests, replies, fiber, rings, due, unanswered>>

(* The loop ends: the read found the socket closed by every process, or it  *)
(* broke off before, by a message that is none or a read that failed in a   *)
(* recording that was cancelled.  (That a cancellation alone does not end   *)
(* it is the matter of module Recording.)                                   *)
Alive(p) == \E t \in Threads : Proc[t] = p /\ pc[t] \notin {"gone", "killed"}
EndLoop ==
  /\ fiber = "read"
  /\ fiber' = "stopping"
  /\ due' = [r \in Rings |-> Len(captured[r]) + Len(Events(r))]
  /\ UNCHANGED <<client, requests, replies, rings, queue, attached,
                 source_ids, captured, unanswered>>
Eof == requests = 0 /\ (\A p \in profiled : ~Alive(p)) /\ EndLoop
BreakOff == (\E p \in profiled : Alive(p)) /\ EndLoop

(* Variant: the last source of the list is overlooked.                      *)
RemoveSourceButLast(r) ==
  /\ fiber = "stopping" /\ r \in source_ids
  /\ source_ids' = IF Cardinality(source_ids) = 2 THEN {} ELSE source_ids \ {r}
  /\ attached' = attached \ {r}
  /\ Drain(r)
  /\ UNCHANGED <<client, requests, replies, fiber, rings, due, unanswered>>

(* handle_error: g_source_remove() drains the ring a last time, while its   *)
(* thread may go on recording.  Nothing else runs on the main thread.       *)
RemoveSource(r) ==
  /\ fiber = "stopping" /\ r \in source_ids
  /\ source_ids' = source_ids \ {r}
  /\ attached' = attached \ {r}
  /\ Drain(r)
  /\ UNCHANGED <<client, requests, replies, fiber, rings, due, unanswered>>

(* sysprof_capture_writer_cat() into the recording's writer.                *)
Save ==
  /\ fiber = "stopping" /\ source_ids = {}
  /\ fiber' = "done"
  /\ UNCHANGED <<client, requests, replies, rings, queue, attached,
                 source_ids, captured, due, unanswered>>

(* The recording lets go of its instruments, and with them the connection.  *)
Close ==
  /\ fiber = "done"
  /\ fiber' = "closed"
  /\ UNCHANGED <<client, requests, replies, rings, queue, attached,
                 source_ids, captured, due, unanswered>>

-----------------------------------------------------------------------------
Terminated == /\ fiber = "closed" /\ \A p \in Procs : ~Alive(p)
              /\ UNCHANGED vars

(* What a thread does in sysprof_collector_get() once it is in it.          *)
Get(t) == \/ AllocCollector(t) \/ LockDisabled(t) \/ Lock(t) \/ Send(t)
          \/ Receive(t) \/ Map(t) \/ Hangup(t)

ThreadStep(t) == Enter(t) \/ Get(t) \/ Record(t) \/ Destroy(t) \/ Leave(t)

FiberStep == \/ Handle \/ HandleFails \/ Eof \/ BreakOff \/ Save \/ Close
             \/ \E r \in Rings : Dispatch(r) \/ RemoveSource(r)

Next == \/ \E t \in Threads : ThreadStep(t)
        \/ \E p \in Procs : Kill(p)
        \/ FiberStep \/ Terminated

Spec == Init /\ [][Next]_vars

(* A thread inside sysprof_collector_get() goes on while nothing blocks it; *)
(* the main loop serves the socket and the sources; a recording that has    *)
(* stopped reading is finished.  Whether and when it stops, and what the    *)
(* programs do, is up to the user.                                          *)
Fairness ==
  /\ \A t \in Threads : WF_vars(Get(t))
  /\ WF_vars(Handle \/ HandleFails)
  /\ \A r \in Rings : WF_vars(Dispatch(r)) /\ WF_vars(RemoveSource(r))
  /\ WF_vars(Save) /\ WF_vars(Close)

FairSpec == Spec /\ Fairness

-----------------------------------------------------------------------------
(* Properties.                                                              *)

Collectors == {"null", "invalid", "silent"} \cup Rings
Frames == {Final} \cup (Threads \X (1 .. MaxEvents))

(* The variables stay in their types.                                       *)
TypeOK ==
  /\ profiled \subseteq Profiled
  /\ lock \in [Procs -> Threads \cup {NoThread}]
  /\ disabled \in [Procs -> BOOLEAN]
  /\ pc \in [Threads -> InGet \cup {"run", "gone", "killed"}]
  /\ tls \in [Threads -> Collectors]
  /\ hold \in [Threads -> {"null"} \cup Rings]
  /\ rounds \in [Threads -> 0 .. Rounds]
  /\ asks \in [Threads -> Nat] /\ made \in [Threads -> 0 .. MaxEvents]
  /\ requests \in Nat /\ replies \in Seq(Rings)
  /\ fiber \in {"read", "stopping", "done", "closed"}
  /\ rings \subseteq Rings /\ attached \subseteq Rings
  /\ source_ids \subseteq Rings
  /\ queue \in [Rings -> Seq(Frames)] /\ captured \in [Rings -> Seq(Frames)]
  /\ due \in [Rings -> Nat] /\ unanswered \in BOOLEAN

(* A ring has one writer at most, whichever process received whose reply    *)
(* and whoever died in between: it is in the socket once, or received by    *)
(* one thread, or the collector of one thread.                              *)
Place(t) == IF hold[t] # "null" THEN hold[t] ELSE tls[t]
OneWriter ==
  /\ \A i, j \in 1 .. Len(replies) : replies[i] = replies[j] => i = j
  /\ \A t \in Threads : Place(t) \in Rings =>
       /\ Place(t) \in rings /\ \A i \in 1 .. Len(replies) : replies[i] # Place(t)
       /\ \A u \in Threads : Place(u) = Place(t) => u = t

(* Only the holder of control_fd_lock is between lock and unlock, so two    *)
(* threads of a process are never at the socket together; and it holds the  *)
(* lock nowhere else, so no event of the program ever waits under it.       *)
Critical == {"send", "recv", "map"}
LockHeld ==
  \A t \in Threads : pc[t] # "killed" =>
    (pc[t] \in Critical <=> lock[Proc[t]] = t)

(* What a ring holds and has given is one thread's, in the order recorded.  *)
Given(r) == captured[r] \o Events(r)
RingIntact ==
  \A r \in Rings : \A i, j \in 1 .. Len(Given(r)) :
    i < j => Given(r)[i][1] = Given(r)[j][1] /\ Given(r)[i][2] < Given(r)[j][2]

(* The ids the fiber keeps are its sources, all of them and no other: an id *)
(* too many is somebody else's source by the time it is removed, one too    *)
(* few is a ring never drained again, whose writer is gone.                 *)
IdsAreSources ==
  /\ source_ids = attached
  /\ fiber \in {"done", "closed"} => attached = {}

(* Every event that was in its ring when the loop ended is in the capture   *)
(* the recording is given.                                                  *)
StopKeepsAll ==
  fiber \in {"done", "closed"} =>
    \A r \in rings : Len(captured[r]) >= due[r]

(* A thread asks the profiler once in its life, and once more for each      *)
(* destructor round: one that got no ring stays silent.                     *)
AsksOnce == \A t \in Threads : asks[t] <= 1 + rounds[t]

(* Without the hooks, a thread that ended by itself has closed its ring.    *)
LeavesNoRing ==
  \A t \in Threads :
    pc[t] = "gone" /\ Proc[t] \notin Hooked => tls[t] \notin Rings

(* A call for the thread's collector comes back.  It waits for the profiler *)
(* under the lock, but is answered, or the socket is closed; the one way    *)
(* out of that is a ring the profiler could not make.                       *)
GetReturns ==
  \A t \in Threads : pc[t] \in InGet ~> (pc[t] \notin InGet \/ unanswered)

(* A ring that got its final frame gives up its source.                     *)
ClosedRingReleased ==
  \A r \in Rings : Closed(r) ~> r \notin attached

(* The inductive invariant.  Who is where in sysprof_collector_get() has    *)
(* what; a thread asked less often than it was or may yet be told to.       *)
Ownership ==
  /\ \A i \in 1 .. Len(replies) : replies[i] \in rings
  /\ \A t \in Threads :
       /\ pc[t] \in InGet => tls[t] = "invalid"
       /\ pc[t] = "map" => hold[t] \in Rings
       /\ pc[t] \notin {"map", "killed"} => hold[t] = "null"
       /\ hold[t] # "null" => tls[t] = "invalid"
Asking ==
  \A t \in Threads :
    pc[t] # "killed" /\ (tls[t] = "null" \/ pc[t] \in {"alloc", "lock", "send"})
      => asks[t] <= rounds[t]

(* Without the hooks a destroyed key stays NULL.                            *)
Leaving ==
  \A t \in Threads : Proc[t] \notin Hooked /\ rounds[t] > 0 => tls[t] = "null"

(* A ring nobody has yet is empty; the one of a thread is open and has that *)
(* thread's events, which are numbered up to the last it recorded; one that *)
(* gave up its source was closed and drained.                               *)
Empty(r) == queue[r] = <<>> /\ captured[r] = <<>>
RingInv ==
  /\ \A r \in Rings \ rings : Empty(r) /\ r \notin attached
  /\ \A i \in 1 .. Len(replies) : Empty(replies[i])
  /\ \A t \in Threads : hold[t] \in Rings => Empty(hold[t])
  /\ \A t \in Threads : tls[t] \in Rings =>
       /\ ~Closed(tls[t])
       /\ \A i \in 1 .. Len(Given(tls[t])) :
            Given(tls[t])[i] \in {t} \X (1 .. made[t])
  /\ fiber = "read" =>
       \A r \in rings \ attached : Closed(r) /\ Len(Events(r)) = 0

(* What is due at the end is captured, or in a ring still to be drained.    *)
StopInv ==
  fiber = "stopping" =>
    \A r \in Rings :
      due[r] <= Len(captured[r]) + IF r \in source_ids THEN Len(Events(r)) ELSE 0

IInv == /\ TypeOK /\ Ownership /\ OneWriter /\ LockHeld /\ Asking /\ AsksOnce
        /\ Leaving /\ LeavesNoRing /\ IdsAreSources /\ RingInv /\ RingIntact
        /\ StopInv /\ StopKeepsAll
=============================================================================
