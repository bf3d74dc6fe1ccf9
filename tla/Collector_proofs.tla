-------------------------- MODULE Collector_proofs ---------------------------
(***************************************************************************)
(* Proofs about Collector for any threads, processes, hooks, rings, slots  *)
(* and numbers of events: the inductive invariant and the safety           *)
(* properties that are part of it.                                         *)
(***************************************************************************)
EXTENDS Collector, SequenceTheorems, TLAPS

(* The rings as functions: what a drain would hand over, what was handed    *)
(* over with it, and which rings are closed.                                *)
Pending == [r \in Rings |-> Events(r)]
All == [r \in Rings |-> Given(r)]
Shut == {r \in Rings : Closed(r)}

(* All that the invariant says of the fiber depends on.                     *)
draining == <<fiber, rings, queue, attached, source_ids, captured, due>>

(* What speaks of the fiber.                                                *)
OfFiber == IdsAreSources /\ RingIntact /\ StopInv /\ StopKeepsAll

-----------------------------------------------------------------------------
(* Sequences.                                                               *)

(* The final frame is no event.                                             *)
LEMMA EventNotFinal ==
  ASSUME NEW t, NEW n
  PROVE  <<t, n>> # Final
<1>1. Len(<<t, n>>) = 2 /\ Len(Final) = 1
  BY DEF Final
<1> QED
  BY <1>1

(* Appending to a ring that is open.                                        *)
LEMMA FrontOfAppend ==
  ASSUME NEW S, NEW q \in Seq(S), NEW e \in S
  PROVE  /\ Append(q, e) # <<>>
         /\ Append(q, e)[Len(Append(q, e))] = e
         /\ SubSeq(Append(q, e), 1, Len(Append(q, e)) - 1) = q
  OBVIOUS

LEMMA AppendToTail ==
  ASSUME NEW S, NEW c \in Seq(S), NEW q \in Seq(S), NEW e \in S
  PROVE  c \o Append(q, e) = Append(c \o q, e)
  OBVIOUS

(* What is pending is a sequence of frames.                                 *)
LEMMA EventsType ==
  ASSUME TypeOK, NEW r \in Rings
  PROVE  Events(r) \in Seq(Frames) /\ Given(r) \in Seq(Frames)
<1>1. queue[r] \in Seq(Frames) /\ captured[r] \in Seq(Frames)
  BY DEF TypeOK
<1>2. SubSeq(queue[r], 1, Len(queue[r]) - 1) \in Seq(Frames)
  BY <1>1
<1>3. Events(r) \in Seq(Frames)
  BY <1>1, <1>2 DEF Events
<1> QED
  BY <1>1, <1>3 DEF Given

-----------------------------------------------------------------------------
(* Framing: what only depends on variables that do not change.              *)

LEMMA RingsFramed ==
  ASSUME UNCHANGED <<queue, captured>>
  PROVE  Pending' = Pending /\ All' = All /\ Shut' = Shut
  BY DEF Pending, All, Shut, Given, Events, Closed

LEMMA IntactFramed ==
  ASSUME RingIntact, All' = All
  PROVE  RingIntact'
<1>1. \A r \in Rings : Given(r) = All[r]
  BY DEF All
<1>2. \A r \in Rings : Given(r)' = All'[r]
  BY DEF All
<1> QED
  BY <1>1, <1>2 DEF RingIntact

LEMMA RingsBut ==
  ASSUME NEW r, captured' = captured, \A q \in Rings \ {r} : queue'[q] = queue[q]
  PROVE  \A q \in Rings \ {r} :
           (Closed(q)' <=> Closed(q)) /\ Events(q)' = Events(q) /\ Given(q)' = Given(q)
  BY DEF Closed, Events, Given

LEMMA FiberFramed ==
  ASSUME OfFiber, UNCHANGED draining
  PROVE  OfFiber'
<1>1. Pending' = Pending /\ All' = All
  BY RingsFramed DEF draining
<1>2. \A r \in Rings : Events(r) = Pending[r] /\ Given(r) = All[r]
  BY DEF Pending, All
<1>3. \A r \in Rings : Events(r)' = Pending'[r] /\ Given(r)' = All'[r]
  BY DEF Pending, All
<1>4. IdsAreSources' /\ StopKeepsAll'
  BY DEF OfFiber, draining, IdsAreSources, StopKeepsAll
<1>5. StopInv'
  BY <1>1, <1>2, <1>3 DEF OfFiber, draining, StopInv
<1>6. RingIntact'
  BY <1>1, IntactFramed DEF OfFiber
<1> QED
  BY <1>4, <1>5, <1>6 DEF OfFiber

(* The rings of the threads: a thread's ring is the one it had, or one it   *)
(* received; a ring received was in the socket.                             *)
LEMMA RingsKept ==
  ASSUME TypeOK, RingInv, UNCHANGED <<draining, made>>,
         \A i \in 1 .. Len(replies') :
           \E j \in 1 .. Len(replies) : replies'[i] = replies[j],
         \A t \in Threads : tls'[t] \in Rings =>
           tls'[t] = tls[t] \/ tls'[t] = hold[t],
         \A t \in Threads : hold'[t] \in Rings =>
           hold'[t] = hold[t] \/ \E j \in 1 .. Len(replies) : hold'[t] = replies[j]
  PROVE  RingInv'
<1>1. Pending' = Pending /\ All' = All /\ Shut' = Shut
  BY RingsFramed DEF draining
<1>2. /\ \A r \in Rings : Events(r) = Pending[r] /\ Given(r) = All[r]
      /\ \A r \in Rings : Closed(r) <=> r \in Shut
  BY DEF Pending, All, Shut
<1>3. /\ \A r \in Rings : Events(r)' = Pending'[r] /\ Given(r)' = All'[r]
      /\ \A r \in Rings : Closed(r)' <=> r \in Shut'
  BY DEF Pending, All, Shut
<1>4. \A r : Empty(r)' <=> Empty(r)
  BY DEF Empty, draining
<1>5. \A r \in Rings : Empty(r) => ~Closed(r) /\ Len(Given(r)) = 0
  BY DEF Empty, Closed, Given, Events
<1>6. rings \subseteq Rings /\ \A j \in 1 .. Len(replies) : replies[j] \in Rings
  BY DEF TypeOK
<1>7. \A r \in Rings \ rings' : Empty(r)' /\ r \notin attached'
  BY <1>4 DEF RingInv, draining
<1>8. \A i \in 1 .. Len(replies') : Empty(replies[i])'
  BY DEF RingInv, Empty, draining
<1>9. \A t \in Threads : hold'[t] \in Rings => Empty(hold[t])'
  BY DEF RingInv, Empty, draining
<1>10. ASSUME NEW t \in Threads, tls'[t] \in Rings
       PROVE  /\ ~Closed(tls[t])'
              /\ \A i \in 1 .. Len(Given(tls[t])') :
                   Given(tls[t])'[i] \in {t} \X (1 .. made'[t])
  <2> DEFINE r == tls'[t]
  <2>1. ~Closed(r) /\ \A i \in 1 .. Len(Given(r)) :
          Given(r)[i] \in {t} \X (1 .. made[t])
    <3>1. CASE r = tls[t]
      BY <3>1, <1>10 DEF RingInv
    <3>2. CASE r = hold[t]
      <4>1. Empty(r)
        BY <3>2, <1>10 DEF RingInv
      <4>2. ~Closed(r) /\ Len(Given(r)) = 0
        BY <4>1, <1>5, <1>10
      <4> QED
        BY <4>2
    <3> QED
      BY <3>1, <3>2, <1>10
  <2>2. Closed(tls[t])' <=> Closed(r)
    BY <1>10 DEF Closed, draining
  <2>3. Given(tls[t])' = Given(r)
    BY <1>10 DEF Given, Events, Closed, draining
  <2> QED
    BY <2>1, <2>2, <2>3
<1>11. fiber' = "read" =>
         \A r \in rings' \ attached' : Closed(r)' /\ Len(Events(r)') = 0
  BY <1>1, <1>2, <1>3, <1>6 DEF RingInv, draining
<1> QED
  BY <1>7, <1>8, <1>9, <1>10, <1>11 DEF RingInv

(* No thread has another ring than before.                                  *)
LEMMA PlacesKept ==
  ASSUME OneWriter, UNCHANGED <<replies, rings>>,
         \A t \in Threads : Place(t)' \in Rings => Place(t)' = Place(t)
  PROVE  OneWriter'
  BY DEF OneWriter

(* A step of one thread that keeps to what it may do with the rings.        *)
LEMMA ThreadFramed ==
  ASSUME TypeOK, OneWriter, RingInv, OfFiber,
         UNCHANGED <<queue, replies, made, server>>,
         \A t \in Threads : hold'[t] \in Rings => hold'[t] = hold[t],
         \A t \in Threads : tls'[t] \in Rings =>
           tls'[t] = tls[t] \/ tls'[t] = hold[t],
         \A t \in Threads : Place(t)' \in Rings => Place(t)' = Place(t)
  PROVE  OneWriter' /\ RingInv' /\ OfFiber'
<1>1. OneWriter'
  BY PlacesKept DEF server
<1>2. UNCHANGED draining
  BY DEF server, draining
<1>3. OfFiber'
  BY <1>2, FiberFramed
<1>4. RingInv'
  BY <1>2, RingsKept
<1> QED
  BY <1>1, <1>3, <1>4

-----------------------------------------------------------------------------
(* The steps of a thread in sysprof_collector_get().                        *)

(* A thread that leaves the critical section lets go of the lock.           *)
LEMMA LockReleased ==
  ASSUME TypeOK, LockHeld, NEW t \in Threads, pc[t] \in Critical,
         lock' = [lock EXCEPT ![Proc[t]] = NoThread],
         pc' = [pc EXCEPT ![t] = "run"]
  PROVE  LockHeld'
<1>1. Proc[t] \in Procs /\ lock[Proc[t]] = t
  BY CollectorAssumption DEF CollectorAssumption, TypeOK, LockHeld, Critical
<1>2. \A u \in Threads :
        /\ pc'[u] = IF u = t THEN "run" ELSE pc[u]
        /\ lock'[Proc[u]] = IF Proc[u] = Proc[t] THEN NoThread ELSE lock[Proc[u]]
  BY CollectorAssumption DEF CollectorAssumption, TypeOK
<1> QED
  BY <1>1, <1>2, CollectorAssumption DEF CollectorAssumption, LockHeld, Critical

LEMMA EnterIInv ==
  ASSUME IInv, NEW t \in Threads, Enter(t)
  PROVE  IInv'
<1> USE DEF IInv
<1>1. TypeOK'
  BY DEF TypeOK, Enter, server, InGet, Collectors
<1>2. Ownership'
  BY CollectorAssumption DEF CollectorAssumption, TypeOK, Ownership, Calls, Enter, server, InGet
<1>3. LockHeld'
  BY DEF TypeOK, LockHeld, Critical, Ownership, Calls, Enter, InGet
<1>4. Asking' /\ AsksOnce'
  BY DEF TypeOK, Asking, AsksOnce, Calls, Enter, server, InGet
<1>5. Leaving' /\ LeavesNoRing'
  BY CollectorAssumption DEF CollectorAssumption, TypeOK, Leaving, LeavesNoRing, Calls, Enter, InGet
<1>6. OneWriter' /\ RingInv' /\ OfFiber'
  BY ThreadFramed, CollectorAssumption DEF CollectorAssumption, TypeOK, Ownership, Place, Calls, Enter, server, InGet, OfFiber
<1> QED
  BY <1>1, <1>2, <1>3, <1>4, <1>5, <1>6 DEF OfFiber

LEMMA AllocCollectorIInv ==
  ASSUME IInv, NEW t \in Threads, AllocCollector(t)
  PROVE  IInv'
<1> USE CollectorAssumption DEF IInv, CollectorAssumption
<1>1. TypeOK'
  BY DEF TypeOK, AllocCollector, server, InGet, Collectors
<1>2. Ownership'
  BY DEF TypeOK, Ownership, AllocCollector, server, InGet
<1>3. LockHeld'
  BY DEF TypeOK, LockHeld, Critical, Ownership, AllocCollector, InGet
<1>4. Asking' /\ AsksOnce'
  BY DEF TypeOK, Ownership, Asking, AsksOnce, AllocCollector, server, InGet
<1>5. Leaving' /\ LeavesNoRing'
  BY DEF TypeOK, Ownership, Leaving, LeavesNoRing, AllocCollector, InGet
<1>6. OneWriter' /\ RingInv' /\ OfFiber'
  BY ThreadFramed DEF TypeOK, Ownership, Place, AllocCollector, server, InGet, OfFiber
<1> QED
  BY <1>1, <1>2, <1>3, <1>4, <1>5, <1>6 DEF OfFiber

LEMMA LockDisabledIInv ==
  ASSUME IInv, NEW t \in Threads, LockDisabled(t)
  PROVE  IInv'
<1> USE CollectorAssumption DEF IInv, CollectorAssumption
<1>1. TypeOK'
  BY DEF TypeOK, LockDisabled, server, InGet, Collectors
<1>2. Ownership'
  BY DEF TypeOK, Ownership, LockDisabled, server, InGet
<1>3. LockHeld'
  BY DEF TypeOK, LockHeld, Critical, Ownership, LockDisabled, InGet
<1>4. Asking' /\ AsksOnce'
  BY DEF TypeOK, Ownership, Asking, AsksOnce, LockDisabled, server, InGet
<1>5. Leaving' /\ LeavesNoRing'
  BY DEF TypeOK, Ownership, Leaving, LeavesNoRing, LockDisabled, InGet
<1>6. OneWriter' /\ RingInv' /\ OfFiber'
  BY ThreadFramed DEF TypeOK, Ownership, Place, LockDisabled, server, InGet, OfFiber
<1> QED
  BY <1>1, <1>2, <1>3, <1>4, <1>5, <1>6 DEF OfFiber

LEMMA LockIInv ==
  ASSUME IInv, NEW t \in Threads, Lock(t)
  PROVE  IInv'
<1> USE CollectorAssumption DEF IInv, CollectorAssumption
<1>1. TypeOK'
  BY DEF TypeOK, Lock, server, InGet, Collectors
<1>2. Ownership'
  BY DEF TypeOK, Ownership, Lock, server, InGet
<1>3. LockHeld'
  BY DEF TypeOK, LockHeld, Critical, Ownership, Lock, InGet
<1>4. Asking' /\ AsksOnce'
  BY DEF TypeOK, Ownership, Asking, AsksOnce, Lock, server, InGet
<1>5. Leaving' /\ LeavesNoRing'
  BY DEF TypeOK, Ownership, Leaving, LeavesNoRing, Lock, InGet
<1>6. OneWriter' /\ RingInv' /\ OfFiber'
  BY ThreadFramed DEF TypeOK, Ownership, Place, Lock, server, InGet, OfFiber
<1> QED
  BY <1>1, <1>2, <1>3, <1>4, <1>5, <1>6 DEF OfFiber

LEMMA SendIInv ==
  ASSUME IInv, NEW t \in Threads, Send(t)
  PROVE  IInv'
<1> USE CollectorAssumption DEF IInv, CollectorAssumption
<1>1. TypeOK'
  BY DEF TypeOK, Send, server, InGet, Collectors
<1>2. Ownership'
  BY DEF TypeOK, Ownership, Send, server, InGet
<1>3. LockHeld'
  BY DEF TypeOK, LockHeld, Critical, Ownership, Send, InGet
<1>4. Asking' /\ AsksOnce'
  <2>1. asks[t] \in Nat /\ rounds[t] \in Nat /\ asks[t] <= rounds[t]
    BY DEF TypeOK, Asking, Send
  <2>2. /\ \A u \in Threads : asks'[u] = IF u = t THEN asks[t] + 1 ELSE asks[u]
        /\ \A u \in Threads : pc'[u] = IF u = t THEN "recv" ELSE pc[u]
        /\ tls' = tls /\ rounds' = rounds /\ tls[t] = "invalid"
    BY DEF TypeOK, Ownership, Send, InGet
  <2> QED
    BY <2>1, <2>2 DEF Asking, AsksOnce
<1>5. Leaving' /\ LeavesNoRing'
  BY DEF TypeOK, Ownership, Leaving, LeavesNoRing, Send, InGet
<1>6. OneWriter' /\ RingInv' /\ OfFiber'
  BY ThreadFramed DEF TypeOK, Ownership, Place, Send, server, InGet, OfFiber
<1> QED
  BY <1>1, <1>2, <1>3, <1>4, <1>5, <1>6 DEF OfFiber

LEMMA MapIInv ==
  ASSUME IInv, NEW t \in Threads, Map(t)
  PROVE  IInv'
<1> USE CollectorAssumption DEF IInv, CollectorAssumption
<1>1. TypeOK'
  <2>1. hold[t] \in Rings /\ "null" \in {"null"} \cup Rings
    BY DEF Ownership, Map
  <2>2. PICK c \in {hold[t], "silent"} : Keep(t, c)
    BY DEF Map
  <2>3. tls' \in [Threads -> Collectors] /\ hold' \in [Threads -> {"null"} \cup Rings]
    BY <2>1, <2>2 DEF TypeOK, Keep, Collectors
  <2>4. /\ lock' \in [Procs -> Threads \cup {NoThread}]
        /\ pc' \in [Threads -> InGet \cup {"run", "gone", "killed"}]
    BY <2>2 DEF TypeOK, Keep
  <2> QED
    BY <2>3, <2>4 DEF TypeOK, Map, server
<1>2. Ownership'
  BY DEF TypeOK, Ownership, Map, server, InGet, Keep
<1>3. LockHeld'
  BY LockReleased DEF Critical, Map, Keep
<1>4. Asking' /\ AsksOnce'
  BY DEF TypeOK, Ownership, Asking, AsksOnce, Map, server, InGet, Keep
<1>5. Leaving' /\ LeavesNoRing'
  BY DEF TypeOK, Ownership, Leaving, LeavesNoRing, Map, InGet, Keep
<1>6. OneWriter' /\ RingInv' /\ OfFiber'
  BY ThreadFramed, SMTT(30)
  DEF TypeOK, Ownership, Place, Map, server, InGet, OfFiber, Keep
<1> QED
  BY <1>1, <1>2, <1>3, <1>4, <1>5, <1>6 DEF OfFiber

LEMMA HangupIInv ==
  ASSUME IInv, NEW t \in Threads, Hangup(t)
  PROVE  IInv'
<1> USE CollectorAssumption DEF IInv, CollectorAssumption
<1>1. TypeOK'
  BY DEF TypeOK, Hangup, server, InGet, Collectors, Keep
<1>2. Ownership'
  BY DEF TypeOK, Ownership, Hangup, server, InGet, Keep
<1>3. LockHeld'
  BY LockReleased DEF Critical, Hangup, Keep
<1>4. Asking' /\ AsksOnce'
  BY DEF TypeOK, Ownership, Asking, AsksOnce, Hangup, server, InGet, Keep
<1>5. Leaving' /\ LeavesNoRing'
  BY DEF TypeOK, Ownership, Leaving, LeavesNoRing, Hangup, InGet, Keep
<1>6. OneWriter' /\ RingInv' /\ OfFiber'
  BY ThreadFramed DEF TypeOK, Ownership, Place, Hangup, server, InGet, OfFiber, Keep
<1> QED
  BY <1>1, <1>2, <1>3, <1>4, <1>5, <1>6 DEF OfFiber

LEMMA LeaveIInv ==
  ASSUME IInv, NEW t \in Threads, Leave(t)
  PROVE  IInv'
<1> USE CollectorAssumption DEF IInv, CollectorAssumption
<1>1. TypeOK'
  BY DEF TypeOK, Leave, server, InGet, Collectors
<1>2. Ownership'
  BY DEF TypeOK, Ownership, Leave, server, InGet
<1>3. LockHeld'
  BY DEF TypeOK, LockHeld, Critical, Ownership, Leave, InGet
<1>4. Asking' /\ AsksOnce'
  BY DEF TypeOK, Ownership, Asking, AsksOnce, Leave, server, InGet
<1>5. Leaving' /\ LeavesNoRing'
  BY DEF TypeOK, Ownership, Leaving, LeavesNoRing, Leave, InGet
<1>6. OneWriter' /\ RingInv' /\ OfFiber'
  BY ThreadFramed DEF TypeOK, Ownership, Place, Leave, server, InGet, OfFiber
<1> QED
  BY <1>1, <1>2, <1>3, <1>4, <1>5, <1>6 DEF OfFiber

(* The reply of a thread is the next there is: it is no other thread's.     *)
LEMMA ReceiveIInv ==
  ASSUME IInv, NEW t \in Threads, Receive(t)
  PROVE  IInv'
<1> USE CollectorAssumption DEF IInv, CollectorAssumption
<1>1. /\ Head(replies) \in Rings /\ Head(replies) = replies[1] /\ Len(replies) \in Nat \ {0}
      /\ replies' \in Seq(Rings) /\ Len(replies') = Len(replies) - 1
      /\ \A i \in 1 .. Len(replies') : i + 1 \in 1 .. Len(replies) /\ replies'[i] = replies[i + 1]
  BY DEF TypeOK, Receive
<1>2. TypeOK'
  BY <1>1 DEF TypeOK, Receive, server, InGet
<1>3. tls[t] = "invalid" /\ hold[t] = "null"
  BY DEF Ownership, Receive, InGet
<1>4. Ownership'
  BY <1>1, <1>3, SMTT(30) DEF TypeOK, Ownership, Receive, server, InGet
<1>5. LockHeld'
  BY DEF TypeOK, LockHeld, Critical, Receive
<1>6. Asking' /\ AsksOnce'
  BY <1>3 DEF TypeOK, Asking, AsksOnce, Receive
<1>7. Leaving' /\ LeavesNoRing'
  BY DEF TypeOK, Leaving, LeavesNoRing, Receive
<1>8. OneWriter'
  <2>1. \A u \in Threads : Place(u)' = IF u = t THEN replies[1] ELSE Place(u)
    BY <1>1 DEF TypeOK, Place, Receive
  <2>2. 1 \in 1 .. Len(replies) /\ replies[1] \in rings
    BY <1>1 DEF Ownership
  <2>3. \A i, j \in 1 .. Len(replies') : replies'[i] = replies'[j] => i = j
    BY <1>1 DEF OneWriter
  <2>4. \A i \in 1 .. Len(replies') : replies'[i] # replies[1]
    BY <1>1, <2>2 DEF OneWriter
  <2>5. ASSUME NEW u \in Threads, Place(u)' \in Rings
        PROVE  /\ Place(u)' \in rings'
               /\ \A i \in 1 .. Len(replies') : replies'[i] # Place(u)'
               /\ \A v \in Threads : Place(v)' = Place(u)' => v = u
    <3>1. CASE u = t
      <4>1. Place(u)' = replies[1] /\ replies[1] \in Rings
        BY <1>1, <2>1, <3>1
      <4>2. \A v \in Threads : Place(v)' = replies[1] => v = t
        BY <2>1, <2>2, <4>1 DEF OneWriter
      <4> QED
        BY <2>2, <2>4, <3>1, <4>1, <4>2 DEF Receive, server
    <3>2. CASE u # t
      <4>1. /\ Place(u)' = Place(u) /\ Place(u) \in rings
            /\ \A i \in 1 .. Len(replies) : replies[i] # Place(u)
            /\ \A v \in Threads : Place(v) = Place(u) => v = u
        BY <2>1, <2>5, <3>2 DEF OneWriter
      <4>2. \A i \in 1 .. Len(replies') : replies'[i] # Place(u)
        BY <1>1, <4>1
      <4>3. \A v \in Threads : Place(v)' = Place(u) => v = u
        BY <2>1, <2>2, <4>1
      <4> QED
        BY <4>1, <4>2, <4>3 DEF Receive, server
    <3> QED
      BY <3>1, <3>2
  <2> QED
    BY <2>3, <2>5 DEF OneWriter
<1>9. UNCHANGED <<draining, made>>
  BY DEF Receive, server, draining
<1>10. OfFiber'
  BY <1>9, FiberFramed DEF OfFiber
<1>11. RingInv'
  <2>1. \A i \in 1 .. Len(replies') : \E j \in 1 .. Len(replies) : replies'[i] = replies[j]
    BY <1>1
  <2>2. \A u \in Threads : hold'[u] \in Rings =>
          hold'[u] = hold[u] \/ \E j \in 1 .. Len(replies) : hold'[u] = replies[j]
    BY <1>1 DEF TypeOK, Receive
  <2>3. \A u \in Threads : tls'[u] = tls[u]
    BY DEF Receive
  <2> QED
    BY <1>9, <2>1, <2>2, <2>3, RingsKept
<1> QED
  BY <1>2, <1>4, <1>5, <1>6, <1>7, <1>8, <1>10, <1>11 DEF OfFiber

(* A process killed takes its places with it.                               *)
LEMMA KillIInv ==
  ASSUME IInv, NEW p \in Procs, Kill(p)
  PROVE  IInv'
<1> USE CollectorAssumption DEF IInv, CollectorAssumption
<1>1. TypeOK'
  BY DEF TypeOK, Kill, server
<1>2. \A t \in Threads : pc'[t] = pc[t] \/ pc'[t] = "killed"
  BY DEF Kill
<1>3. Ownership' /\ LockHeld' /\ Asking' /\ AsksOnce' /\ Leaving' /\ LeavesNoRing'
  BY <1>2 DEF Ownership, LockHeld, Critical, Asking, AsksOnce, Leaving, LeavesNoRing,
              Kill, server, InGet
<1>4. OneWriter' /\ RingInv' /\ OfFiber'
  BY ThreadFramed DEF Place, Kill, server, OfFiber
<1> QED
  BY <1>1, <1>3, <1>4 DEF OfFiber

-----------------------------------------------------------------------------
(* What a thread does with its ring.                                        *)

(* A frame into an open ring: an event is pending behind the others, the    *)
(* final frame closes the ring; no other ring sees it.                      *)
LEMMA RingGrows ==
  ASSUME TypeOK, NEW r \in Rings, ~Closed(r), NEW e \in Frames, captured' = captured,
         queue' = [queue EXCEPT ![r] = Append(@, e)]
  PROVE  /\ e # Final => /\ Shut' = Shut
                         /\ Pending' = [Pending EXCEPT ![r] = Append(@, e)]
                         /\ All' = [All EXCEPT ![r] = Append(@, e)]
         /\ e = Final => Shut' = Shut \cup {r} /\ Pending' = Pending /\ All' = All
<1>1. /\ queue[r] \in Seq(Frames) /\ captured[r] \in Seq(Frames)
      /\ queue'[r] = Append(queue[r], e) /\ \A q \in Rings \ {r} : queue'[q] = queue[q]
  BY DEF TypeOK
<1>2. Events(r) = queue[r] /\ Given(r) = captured[r] \o queue[r]
  BY DEF Events, Given
<1>3. \A q \in Rings \ {r} :
        (Closed(q)' <=> Closed(q)) /\ Events(q)' = Events(q) /\ Given(q)' = Given(q)
  BY <1>1, RingsBut
<1>4. /\ queue'[r] # <<>> /\ queue'[r][Len(queue'[r])] = e
      /\ SubSeq(queue'[r], 1, Len(queue'[r]) - 1) = queue[r]
  BY <1>1, FrontOfAppend
<1>5. captured[r] \o Append(queue[r], e) = Append(captured[r] \o queue[r], e)
  <2> DEFINE c == captured[r]  q == queue[r]
  <2>1. c \in Seq(Frames) /\ q \in Seq(Frames)
    BY <1>1
  <2> HIDE DEF c, q
  <2>2. c \o Append(q, e) = Append(c \o q, e)
    BY <2>1, AppendToTail
  <2> QED
    BY <2>2 DEF c, q
<1>6. CASE e # Final
  <2>1. ~Closed(r)' /\ Events(r)' = Append(Events(r), e)
    BY <1>1, <1>2, <1>4, <1>6 DEF Closed, Events
  <2>2. Given(r)' = Append(Given(r), e)
    BY <1>2, <1>5, <2>1 DEF Given
  <2> QED
    BY <1>3, <1>6, <2>1, <2>2 DEF Shut, Pending, All
<1>7. CASE e = Final
  <2>1. Closed(r)' /\ Events(r)' = Events(r)
    BY <1>2, <1>4, <1>7 DEF Closed, Events
  <2>2. Given(r)' = Given(r)
    BY <2>1 DEF Given
  <2> QED
    BY <1>3, <1>7, <2>1, <2>2 DEF Shut, Pending, All
<1> QED
  BY <1>6, <1>7

(* The ring of a thread is nobody else's, open, and still drained.          *)
LEMMA OwnRing ==
  ASSUME TypeOK, Ownership, OneWriter, RingInv, IdsAreSources,
         NEW t \in Threads, pc[t] = "run", tls[t] \in Rings
  PROVE  /\ tls[t] \in rings /\ ~Closed(tls[t])
         /\ fiber = "read" => tls[t] \in attached
         /\ \A i \in 1 .. Len(replies) : replies[i] # tls[t]
         /\ \A u \in Threads : hold[u] # tls[t]
         /\ \A u \in Threads \ {t} : tls[u] # tls[t]
<1>1. hold[t] = "null" /\ Place(t) = tls[t]
  BY DEF Ownership, Place
<1>2. /\ tls[t] \in rings /\ \A i \in 1 .. Len(replies) : replies[i] # tls[t]
      /\ \A u \in Threads : Place(u) = tls[t] => u = t
  BY <1>1 DEF OneWriter
<1>3. ~Closed(tls[t])
  BY DEF RingInv
<1>4. tls[t] # "null" /\ tls[t] # "invalid"
  BY CollectorAssumption DEF CollectorAssumption
<1>5. \A u \in Threads : hold[u] # tls[t]
  BY <1>1, <1>2, <1>4 DEF Place
<1>6. \A u \in Threads \ {t} : tls[u] # tls[t]
  BY <1>2, <1>4 DEF Place, Ownership
<1>7. fiber = "read" => tls[t] \in attached
  BY <1>2, <1>3 DEF RingInv
<1> QED
  BY <1>2, <1>3, <1>5, <1>6, <1>7

LEMMA RecordIInv ==
  ASSUME IInv, NEW t \in Threads, Record(t)
  PROVE  IInv'
<1> USE CollectorAssumption DEF IInv, CollectorAssumption
<1> DEFINE r == tls[t]  e == Event(t)
<1>1. /\ r \in Rings /\ made[t] \in Nat /\ made[t] + 1 \in 1 .. MaxEvents
      /\ pc[t] = "run" /\ e = <<t, made[t] + 1>>
      /\ made' = [made EXCEPT ![t] = @ + 1]
      /\ \A u \in Threads : made'[u] = IF u = t THEN made[t] + 1 ELSE made[u]
  BY DEF TypeOK, Record, Event
<1>2. e \in Frames /\ e # Final
  BY <1>1, EventNotFinal DEF Frames
<1>3. /\ r \in rings /\ ~Closed(r)
      /\ fiber = "read" => r \in attached
      /\ \A i \in 1 .. Len(replies) : replies[i] # r
      /\ \A u \in Threads : hold[u] # r
      /\ \A u \in Threads \ {t} : tls[u] # r
  BY <1>1, OwnRing
<1>4. UNCHANGED <<lock, disabled, pc, tls, hold, rounds, asks, requests, replies, server>>
  BY DEF Record
<1>5. queue' = queue \/ queue' = [queue EXCEPT ![r] = Append(@, e)]
  BY DEF Record
<1>6. queue' \in [Rings -> Seq(Frames)]
  <2>1. queue[r] \in Seq(Frames) /\ queue \in [Rings -> Seq(Frames)]
    BY <1>1 DEF TypeOK
  <2>2. Append(queue[r], e) \in Seq(Frames)
    BY <1>2, <2>1
  <2> QED
    BY <1>5, <2>1, <2>2
<1>7. made' \in [Threads -> 0 .. MaxEvents]
  BY <1>1 DEF TypeOK
<1>8. TypeOK'
  BY <1>4, <1>6, <1>7 DEF TypeOK, server
<1>9. Ownership' /\ LockHeld' /\ Asking' /\ AsksOnce' /\ Leaving' /\ LeavesNoRing'
  BY <1>4 DEF Ownership, LockHeld, Critical, Asking, AsksOnce, Leaving, LeavesNoRing, server
<1>10. OneWriter'
  BY <1>4 DEF OneWriter, Place, server
<1> HIDE DEF r, e
<1>11. IdsAreSources' /\ StopKeepsAll'
  BY <1>4 DEF IdsAreSources, StopKeepsAll, server
<1>12. /\ Shut' = Shut
       /\ \/ Pending' = Pending /\ All' = All
          \/ /\ Pending' = [Pending EXCEPT ![r] = Append(@, e)]
             /\ All' = [All EXCEPT ![r] = Append(@, e)]
  <2>1. captured' = captured
    BY <1>4 DEF server
  <2>2. CASE queue' = queue
    BY <2>1, <2>2, RingsFramed
  <2>3. CASE queue' = [queue EXCEPT ![r] = Append(@, e)]
    <3>1. r \in Rings /\ ~Closed(r) /\ e \in Frames /\ e # Final
      BY <1>1, <1>2, <1>3
    <3> QED
      BY <2>1, <2>3, <3>1, RingGrows
  <2> QED
    BY <1>5, <2>2, <2>3
<1>13. \A q \in Rings : /\ Pending[q] \in Seq(Frames) /\ All[q] \in Seq(Frames)
                        /\ Events(q) = Pending[q] /\ Given(q) = All[q]
                        /\ Closed(q) <=> q \in Shut
  BY EventsType DEF Pending, All, Shut
<1>14. \A q \in Rings : /\ Events(q)' = Pending'[q] /\ Given(q)' = All'[q]
                        /\ Closed(q)' <=> q \in Shut'
  BY DEF Pending, All, Shut
<1>15. \A q \in Rings : q # r => Pending'[q] = Pending[q] /\ All'[q] = All[q]
  BY <1>12 DEF Pending, All
<1>16. captured' = captured /\ \A q \in Rings : q # r => queue'[q] = queue[q]
  BY <1>4, <1>5 DEF server, TypeOK
<1>17. \/ Pending'[r] = Pending[r] /\ All'[r] = All[r]
       \/ Pending'[r] = Append(Pending[r], e) /\ All'[r] = Append(All[r], e)
  BY <1>1, <1>12 DEF Pending, All
<1>18. \A i \in 1 .. Len(All[r]) : All[r][i] \in {t} \X (1 .. made[t])
  BY <1>1, <1>13 DEF RingInv, r
<1>19. RingIntact'
  <2>1. \A q \in Rings : \A i, j \in 1 .. Len(All[q]) :
          i < j => All[q][i][1] = All[q][j][1] /\ All[q][i][2] < All[q][j][2]
    BY <1>13 DEF RingIntact
  <2>2. CASE All'[r] = All[r]
    BY <1>14, <1>15, <2>1, <2>2 DEF RingIntact
  <2>3. CASE All'[r] = Append(All[r], e)
    <3> DEFINE s == All[r]
    <3>1. /\ s \in Seq(Frames) /\ e[1] = t /\ e[2] = made[t] + 1
          /\ \A i \in 1 .. Len(s) : s[i][1] = t /\ s[i][2] \in 1 .. made[t]
      BY <1>1, <1>13, <1>18
    <3>2. /\ Len(Append(s, e)) = Len(s) + 1 /\ Len(s) \in Nat
          /\ \A i \in 1 .. Len(s) + 1 :
               Append(s, e)[i] = IF i = Len(s) + 1 THEN e ELSE s[i]
      BY <3>1, <1>2
    <3>3. \A i, j \in 1 .. Len(s) : i < j => s[i][1] = s[j][1] /\ s[i][2] < s[j][2]
      BY <1>1, <2>1
    <3> HIDE DEF s
    <3>4. \A i, j \in 1 .. Len(s) + 1 :
            i < j => LET a == Append(s, e) IN a[i][1] = a[j][1] /\ a[i][2] < a[j][2]
      <4> SUFFICES ASSUME NEW i \in 1 .. Len(s) + 1, NEW j \in 1 .. Len(s) + 1, i < j
                   PROVE  LET a == Append(s, e) IN a[i][1] = a[j][1] /\ a[i][2] < a[j][2]
        OBVIOUS
      <4>1. i \in 1 .. Len(s) /\ Append(s, e)[i] = s[i]
        BY <3>2
      <4>2. CASE j = Len(s) + 1
        <5>1. Append(s, e)[j] = e /\ s[i][1] = t /\ s[i][2] \in 1 .. made[t]
          BY <3>1, <3>2, <4>1, <4>2
        <5> QED
          BY <1>1, <3>1, <4>1, <5>1
      <4>3. CASE j # Len(s) + 1
        <5>1. j \in 1 .. Len(s) /\ Append(s, e)[j] = s[j]
          BY <3>2, <4>3
        <5> QED
          BY <3>3, <4>1, <5>1
      <4> QED
        BY <4>2, <4>3
    <3>5. \A i, j \in 1 .. Len(All'[r]) :
            i < j => All'[r][i][1] = All'[r][j][1] /\ All'[r][i][2] < All'[r][j][2]
      BY <2>3, <3>2, <3>4 DEF s
    <3> QED
      BY <1>14, <1>15, <2>1, <3>5 DEF RingIntact
  <2> QED
    BY <1>17, <2>2, <2>3
<1>20. StopInv'
  <2>1. /\ Len(Pending[r]) \in Nat /\ Len(Pending'[r]) \in Nat
        /\ Len(Pending[r]) <= Len(Pending'[r])
    BY <1>1, <1>13, <1>17, <1>2
  <2>2. /\ fiber' = fiber /\ due' = due /\ captured' = captured /\ source_ids' = source_ids
        /\ \A q \in Rings : due[q] \in Nat /\ Len(captured[q]) \in Nat
    BY <1>4 DEF server, TypeOK
  <2>3. ASSUME fiber = "stopping", NEW q \in Rings
        PROVE  due[q] <= Len(captured[q]) + IF q \in source_ids THEN Len(Pending'[q]) ELSE 0
    <3>1. due[q] <= Len(captured[q]) + IF q \in source_ids THEN Len(Pending[q]) ELSE 0
      BY <1>13, <2>3 DEF StopInv
    <3>2. CASE q = r
      <4> DEFINE d == due[r]  c == Len(captured[r])  n == Len(Pending[r])  m == Len(Pending'[r])
      <4>1. d \in Nat /\ c \in Nat /\ n \in Nat /\ m \in Nat /\ n <= m
        BY <1>1, <2>1, <2>2
      <4>2. d <= c + IF r \in source_ids THEN n ELSE 0
        BY <3>1, <3>2
      <4> HIDE DEF d, c, n, m
      <4>3. d <= c + IF r \in source_ids THEN m ELSE 0
        BY <4>1, <4>2
      <4> QED
        BY <3>2, <4>3 DEF d, c, m
    <3>3. CASE q # r
      <4>1. Pending'[q] = Pending[q]
        BY <1>15, <2>3, <3>3
      <4> QED
        BY <3>1, <4>1
    <3> QED
      BY <3>2, <3>3
  <2> QED
    BY <1>14, <2>2, <2>3 DEF StopInv
<1>21. RingInv'
  <2>1. \A q \in Rings \ rings' : Empty(q)' /\ q \notin attached'
    <3>1. rings' = rings /\ attached' = attached
      BY <1>4 DEF server
    <3>2. ASSUME NEW q \in Rings \ rings
          PROVE  Empty(q) /\ q \notin attached /\ q # r
      BY <1>3 DEF RingInv
    <3> QED
      BY <1>16, <3>1, <3>2 DEF Empty
  <2>2. \A i \in 1 .. Len(replies') : Empty(replies[i])'
    <3>1. replies \in Seq(Rings) /\ \A i \in 1 .. Len(replies) : Empty(replies[i])
      BY DEF RingInv, TypeOK
    <3>2. \A i \in 1 .. Len(replies) : replies[i] \in Rings /\ replies[i] # r
      BY <1>3, <3>1
    <3>3. replies' = replies
      BY <1>4
    <3> QED
      BY <1>16, <3>1, <3>2, <3>3 DEF Empty
  <2>3. \A u \in Threads : hold'[u] \in Rings => Empty(hold[u])'
    <3>1. hold' = hold /\ \A u \in Threads : hold[u] \in Rings => Empty(hold[u])
      BY <1>4 DEF RingInv
    <3> QED
      BY <1>3, <1>16, <3>1 DEF Empty
  <2>4. ASSUME NEW u \in Threads, tls'[u] \in Rings
        PROVE  /\ ~Closed(tls[u])'
               /\ \A i \in 1 .. Len(Given(tls[u])') :
                    Given(tls[u])'[i] \in {u} \X (1 .. made'[u])
    <3>1. tls'[u] = tls[u] /\ made[u] \in Nat /\ made'[u] \in Nat /\ made[u] <= made'[u]
      <4>1. u \in Threads /\ tls' = tls /\ \A v \in Threads : made[v] \in Nat
        BY <1>4, <2>4 DEF TypeOK
      <4>2. made'[u] = IF u = t THEN made[t] + 1 ELSE made[u]
        BY <1>1, <4>1
      <4> QED
        BY <4>1, <4>2
    <3>2. PICK q \in Rings : q = tls[u] /\ q = tls'[u]
      BY <2>4, <3>1
    <3>3. /\ q \notin Shut
          /\ \A i \in 1 .. Len(All[q]) : All[q][i] \in {u} \X (1 .. made[u])
      <4>1. /\ ~Closed(tls[u])
            /\ \A i \in 1 .. Len(Given(tls[u])) : Given(tls[u])[i] \in {u} \X (1 .. made[u])
        <5>1. u \in Threads /\ tls[u] \in Rings
          BY <2>4, <3>1
        <5> QED
          BY <5>1 DEF RingInv
      <4> QED
        BY <1>13, <3>2, <4>1
    <3>4. q \notin Shut' /\ ~Closed(q)' /\ Given(q)' = All'[q]
      BY <1>12, <1>14, <3>3
    <3>5. \A i \in 1 .. Len(All'[q]) : All'[q][i] \in {u} \X (1 .. made'[u])
      <4>1. CASE All'[q] = All[q]
        BY <3>1, <3>3, <4>1
      <4>2. CASE All'[q] # All[q]
        <5>1. q = r /\ All'[q] = Append(All[q], e)
          BY <1>15, <1>17, <4>2
        <5>2. u = t
          BY <1>3, <3>2, <5>1
        <5>4. e \in {u} \X (1 .. made'[u])
          BY <1>1, <5>2
        <5>3. All[q] \in Seq(Frames)
          BY <1>13
        <5> QED
          BY <3>1, <3>3, <5>1, <5>3, <5>4
      <4> QED
        BY <4>1, <4>2
    <3> QED
      BY <3>4, <3>5, <3>2 DEF Closed, Given, Events
  <2>5. fiber' = "read" =>
          \A q \in rings' \ attached' : Closed(q)' /\ Len(Events(q)') = 0
    <3>1. rings' = rings /\ attached' = attached /\ fiber' = fiber /\ rings \subseteq Rings
      BY <1>4 DEF server, TypeOK
    <3>2. ASSUME fiber = "read", NEW q \in rings \ attached
          PROVE  q \in Shut /\ Len(Pending[q]) = 0 /\ q # r
      BY <1>3, <1>13, <3>1, <3>2 DEF RingInv
    <3> QED
      BY <1>12, <1>14, <1>15, <3>1, <3>2
  <2> QED
    BY <2>1, <2>2, <2>3, <2>4, <2>5 DEF RingInv
<1> QED
  BY <1>8, <1>9, <1>10, <1>11, <1>19, <1>20, <1>21

(* The ring closed for good: what it holds is as it was, and it still has   *)
(* its source.                                                              *)
LEMMA DestroyRings ==
  ASSUME TypeOK, Ownership, OneWriter, RingInv, OfFiber, NEW t \in Threads,
         pc[t] = "run", tls[t] \in Rings, tls'[t] \notin Rings,
         \A u \in Threads \ {t} : tls'[u] = tls[u],
         UNCHANGED <<hold, made, replies, server>>,
         queue' = [queue EXCEPT ![tls[t]] = Append(@, Final)]
  PROVE  RingInv' /\ OfFiber'
<1>1. PICK r \in Rings : r = tls[t]
  OBVIOUS
<1>2. /\ r \in rings /\ ~Closed(tls[t])
      /\ fiber = "read" => r \in attached
      /\ \A i \in 1 .. Len(replies) : replies[i] # r
      /\ \A u \in Threads : hold[u] # r
      /\ \A u \in Threads \ {t} : tls[u] # r
  BY <1>1, OwnRing DEF OfFiber
<1>3. /\ captured' = captured /\ Final \in Frames /\ queue' = [queue EXCEPT ![r] = Append(@, Final)]
      /\ \A q \in Rings : q # r => queue'[q] = queue[q]
  BY <1>1 DEF server, Frames, TypeOK
<1>4. ~Closed(r)
  BY <1>1, <1>2
<1>5. Pending' = Pending /\ All' = All /\ Shut' = Shut \cup {r}
  BY <1>3, <1>4, RingGrows
<1>6. \A q \in Rings : /\ Events(q) = Pending[q] /\ Given(q) = All[q]
                       /\ Closed(q) <=> q \in Shut
  BY DEF Pending, All, Shut
<1>7. \A q \in Rings : /\ Events(q)' = Pending'[q] /\ Given(q)' = All'[q]
                       /\ Closed(q)' <=> q \in Shut'
  BY DEF Pending, All, Shut
<1>8. IdsAreSources' /\ StopKeepsAll'
  BY DEF OfFiber, IdsAreSources, StopKeepsAll, server
<1>9. StopInv'
  BY <1>5, <1>6, <1>7 DEF OfFiber, StopInv, server
<1>10. RingIntact'
  BY <1>5, IntactFramed DEF OfFiber
<1>11. rings' = rings /\ attached' = attached /\ fiber' = fiber /\ rings \subseteq Rings
  BY DEF server, TypeOK
<1>12. \A q \in Rings \ rings' : Empty(q)' /\ q \notin attached'
  <2>1. ASSUME NEW q \in Rings \ rings
        PROVE  Empty(q) /\ q \notin attached /\ q # r
    BY <1>2 DEF RingInv
  <2> QED
    BY <1>3, <1>11, <2>1 DEF Empty
<1>13. \A i \in 1 .. Len(replies') : Empty(replies[i])'
  <2>1. replies \in Seq(Rings) /\ replies' = replies
        /\ \A i \in 1 .. Len(replies) : Empty(replies[i])
    BY DEF RingInv, TypeOK
  <2>2. \A i \in 1 .. Len(replies) : replies[i] \in Rings /\ replies[i] # r
    BY <1>2, <2>1
  <2> QED
    BY <1>3, <2>1, <2>2 DEF Empty
<1>14. \A u \in Threads : hold'[u] \in Rings => Empty(hold[u])'
  <2>1. hold' = hold /\ \A u \in Threads : hold[u] \in Rings => Empty(hold[u])
    BY DEF RingInv
  <2> QED
    BY <1>2, <1>3, <2>1 DEF Empty
<1>15. ASSUME NEW u \in Threads, tls'[u] \in Rings
       PROVE  /\ ~Closed(tls[u])'
              /\ \A i \in 1 .. Len(Given(tls[u])') :
                   Given(tls[u])'[i] \in {u} \X (1 .. made'[u])
  <2>1. PICK q \in Rings : q = tls[u] /\ q = tls'[u] /\ q # r
    BY <1>1, <1>2, <1>15
  <2>2. /\ ~Closed(tls[u])
        /\ \A i \in 1 .. Len(Given(tls[u])) : Given(tls[u])[i] \in {u} \X (1 .. made[u])
    <3>1. u \in Threads /\ tls[u] \in Rings
      BY <1>15, <2>1
    <3> QED
      BY <3>1 DEF RingInv
  <2>3. ~Closed(q)' /\ \A i \in 1 .. Len(Given(q)') : Given(q)'[i] \in {u} \X (1 .. made'[u])
    BY <1>5, <1>6, <1>7, <2>1, <2>2
  <2> QED
    BY <2>1, <2>3 DEF Closed, Given, Events
<1>16. fiber' = "read" =>
         \A q \in rings' \ attached' : Closed(q)' /\ Len(Events(q)') = 0
  <2>1. ASSUME fiber = "read", NEW q \in rings \ attached
        PROVE  q \in Shut /\ Len(Pending[q]) = 0
    BY <1>6, <1>11, <2>1 DEF RingInv
  <2> QED
    BY <1>5, <1>7, <1>11, <2>1
<1> QED
  BY <1>8, <1>9, <1>10, <1>12, <1>13, <1>14, <1>15, <1>16 DEF RingInv, OfFiber

LEMMA DestroyIInv ==
  ASSUME IInv, NEW t \in Threads, Destroy(t)
  PROVE  IInv'
<1> USE CollectorAssumption DEF IInv, CollectorAssumption
<1>1. /\ pc[t] = "run" /\ tls[t] # "null" /\ rounds[t] \in Nat /\ rounds[t] + 1 \in 0 .. Rounds
      /\ \A u \in Threads : rounds'[u] = IF u = t THEN rounds[t] + 1 ELSE rounds[u]
      /\ rounds' = [rounds EXCEPT ![t] = @ + 1]
      /\ UNCHANGED <<lock, disabled, hold, asks, made, requests, replies, server>>
  BY DEF TypeOK, Destroy
<1>2. PICK again \in BOOLEAN :
        /\ again = (Proc[t] \in Hooked /\ tls[t] # "invalid" /\ ~disabled[Proc[t]])
        /\ tls' = [tls EXCEPT ![t] = IF again THEN "invalid" ELSE "null"]
        /\ pc' = [pc EXCEPT ![t] = IF again THEN "alloc" ELSE "run"]
  BY DEF Destroy
<1>3. /\ \A u \in Threads : tls'[u] = IF u = t THEN IF again THEN "invalid" ELSE "null" ELSE tls[u]
      /\ \A u \in Threads : pc'[u] = IF u = t THEN IF again THEN "alloc" ELSE "run" ELSE pc[u]
  BY <1>2 DEF TypeOK
<1>4. TypeOK'
  <2>1. queue' \in [Rings -> Seq(Frames)]
    <3>1. queue \in [Rings -> Seq(Frames)] /\ Final \in Frames
      BY DEF TypeOK, Frames
    <3>2. tls[t] \in Rings => Append(queue[tls[t]], Final) \in Seq(Frames)
      BY <3>1
    <3> QED
      BY <3>1, <3>2 DEF Destroy
  <2>2. /\ tls' \in [Threads -> Collectors]
        /\ pc' \in [Threads -> InGet \cup {"run", "gone", "killed"}]
    BY <1>2 DEF TypeOK, Collectors, InGet
  <2>3. rounds' \in [Threads -> 0 .. Rounds]
    BY <1>1 DEF TypeOK
  <2> QED
    BY <1>1, <2>1, <2>2, <2>3 DEF TypeOK, server
<1>5. Ownership'
  BY <1>1, <1>3 DEF Ownership, server, InGet
<1>6. LockHeld'
  BY <1>1, <1>3 DEF LockHeld, Critical
<1>7. Asking' /\ AsksOnce'
  <2>1. asks' = asks /\ \A u \in Threads : asks[u] \in Nat /\ rounds[u] \in Nat
    BY <1>1 DEF TypeOK
  <2> QED
    BY <1>1, <1>3, <2>1 DEF Asking, AsksOnce
<1>8. Leaving' /\ LeavesNoRing'
  BY <1>1, <1>2, <1>3, ZenonT(30) DEF TypeOK, Leaving, LeavesNoRing
<1>9. OneWriter'
  BY <1>1, <1>3, PlacesKept DEF Place, Ownership, server
<1>10. RingInv' /\ OfFiber'
  <2>1. CASE tls[t] \in Rings
    <3>1. tls'[t] \notin Rings /\ \A u \in Threads \ {t} : tls'[u] = tls[u]
      BY <1>3
    <3>2. queue' = [queue EXCEPT ![tls[t]] = Append(@, Final)]
      BY <2>1 DEF Destroy
    <3> QED
      BY <1>1, <2>1, <3>1, <3>2, DestroyRings DEF OfFiber
  <2>2. CASE tls[t] \notin Rings
    <3>1. queue' = queue
      BY <2>2 DEF Destroy
    <3>2. \A u \in Threads : /\ tls'[u] \in Rings => tls'[u] = tls[u]
                             /\ Place(u)' \in Rings => Place(u)' = Place(u)
      BY <1>1, <1>3 DEF Place
    <3> QED
      BY <1>1, <3>1, <3>2, ThreadFramed DEF OfFiber
  <2> QED
    BY <2>1, <2>2
<1> QED
  BY <1>4, <1>5, <1>6, <1>7, <1>8, <1>9, <1>10 DEF OfFiber

-----------------------------------------------------------------------------
(* The steps of the profiler.                                               *)

LEMMA ClientFramed ==
  ASSUME LockHeld, Asking, AsksOnce, Leaving, LeavesNoRing, UNCHANGED client
  PROVE  LockHeld' /\ Asking' /\ AsksOnce' /\ Leaving' /\ LeavesNoRing'
  BY DEF client, LockHeld, Critical, Asking, AsksOnce, Leaving, LeavesNoRing

(* A step that has to do with no ring.                                      *)
LEMMA FiberIdle ==
  ASSUME IInv, UNCHANGED <<client, replies, draining>>
  PROVE  /\ Ownership' /\ OneWriter' /\ LockHeld' /\ Asking' /\ AsksOnce' /\ Leaving'
         /\ LeavesNoRing' /\ RingInv' /\ OfFiber'
<1> USE DEF IInv
<1>1. LockHeld' /\ Asking' /\ AsksOnce' /\ Leaving' /\ LeavesNoRing'
  BY ClientFramed DEF IInv
<1>2. Ownership' /\ OneWriter'
  BY DEF Ownership, OneWriter, Place, client, draining, InGet
<1>3. OfFiber'
  BY FiberFramed DEF OfFiber
<1>4. RingInv'
  BY RingsKept DEF client, draining
<1> QED
  BY <1>1, <1>2, <1>3, <1>4

LEMMA HandleFailsIInv ==
  ASSUME IInv, HandleFails
  PROVE  IInv'
<1>1. UNCHANGED <<client, replies, draining>>
  BY DEF HandleFails, draining
<1>2. TypeOK'
  BY DEF IInv, TypeOK, HandleFails, client
<1> QED
  BY <1>1, <1>2, FiberIdle DEF IInv, OfFiber

(* The recording is given the capture: what was due is in it, since no ring *)
(* is left to be drained.                                                   *)
LEMMA SaveIInv ==
  ASSUME IInv, Save
  PROVE  IInv'
<1> USE DEF IInv
<1>1. TypeOK'
  BY DEF TypeOK, Save, client
<1>2. /\ fiber = "stopping" /\ source_ids = {} /\ fiber' = "done"
      /\ UNCHANGED <<client, requests, replies, rings, queue, attached, source_ids,
                     captured, due, unanswered>>
  BY DEF Save
<1>3. LockHeld' /\ Asking' /\ AsksOnce' /\ Leaving' /\ LeavesNoRing'
  BY <1>2, ClientFramed DEF IInv
<1>4. Ownership' /\ OneWriter'
  BY <1>2 DEF Ownership, OneWriter, Place, client, InGet
<1>5. IdsAreSources'
  BY <1>2 DEF IdsAreSources
<1>6. StopKeepsAll'
  <2>1. rings \subseteq Rings /\ \A r \in Rings : due[r] \in Nat /\ Len(captured[r]) \in Nat
    BY DEF TypeOK
  <2>2. \A r \in Rings : due[r] <= Len(captured[r]) + 0
    BY <1>2 DEF StopInv
  <2> QED
    BY <1>2, <2>1, <2>2 DEF StopKeepsAll
<1>7. StopInv'
  BY <1>2 DEF StopInv
<1>8. Pending' = Pending /\ All' = All /\ Shut' = Shut
  BY <1>2, RingsFramed
<1>9. RingIntact'
  BY <1>8, IntactFramed
<1>10. RingInv'
  BY <1>2 DEF RingInv, Empty, client, Given, Events, Closed
<1> QED
  BY <1>1, <1>3, <1>4, <1>5, <1>6, <1>7, <1>9, <1>10

LEMMA CloseIInv ==
  ASSUME IInv, Close
  PROVE  IInv'
<1> USE DEF IInv
<1>1. TypeOK'
  BY DEF TypeOK, Close, client
<1>2. /\ fiber = "done" /\ fiber' = "closed"
      /\ UNCHANGED <<client, requests, replies, rings, queue, attached, source_ids,
                     captured, due, unanswered>>
  BY DEF Close
<1>3. LockHeld' /\ Asking' /\ AsksOnce' /\ Leaving' /\ LeavesNoRing'
  BY <1>2, ClientFramed DEF IInv
<1>4. Ownership' /\ OneWriter'
  BY <1>2 DEF Ownership, OneWriter, Place, client, InGet
<1>5. IdsAreSources' /\ StopKeepsAll' /\ StopInv'
  BY <1>2 DEF IdsAreSources, StopKeepsAll, StopInv
<1>6. RingIntact'
  BY <1>2, RingsFramed, IntactFramed
<1>7. RingInv'
  BY <1>2 DEF RingInv, Empty, client, Given, Events, Closed
<1> QED
  BY <1>1, <1>3, <1>4, <1>5, <1>6, <1>7

(* The loop ends: what is due then is captured, or in a ring with a source. *)
LEMMA EndLoopIInv ==
  ASSUME IInv, EndLoop
  PROVE  IInv'
<1> USE DEF IInv
<1>1. /\ fiber = "read" /\ fiber' = "stopping"
      /\ due' = [r \in Rings |-> Len(captured[r]) + Len(Events(r))]
      /\ UNCHANGED <<client, requests, replies, rings, queue, attached, source_ids,
                     captured, unanswered>>
  BY DEF EndLoop
<1>2. \A r \in Rings : /\ Events(r) \in Seq(Frames) /\ captured[r] \in Seq(Frames)
                       /\ Len(Events(r)) \in Nat /\ Len(captured[r]) \in Nat
  BY EventsType DEF TypeOK
<1>3. TypeOK'
  <2>1. due' \in [Rings -> Nat]
    BY <1>1, <1>2
  <2> QED
    BY <1>1, <2>1 DEF TypeOK, client
<1>4. LockHeld' /\ Asking' /\ AsksOnce' /\ Leaving' /\ LeavesNoRing'
  BY <1>1, ClientFramed DEF IInv
<1>5. Ownership' /\ OneWriter'
  BY <1>1 DEF Ownership, OneWriter, Place, client, InGet
<1>6. IdsAreSources' /\ StopKeepsAll'
  BY <1>1 DEF IdsAreSources, StopKeepsAll
<1>7. Pending' = Pending /\ All' = All /\ Shut' = Shut
  BY <1>1, RingsFramed
<1>8. StopInv'
  <2>1. ASSUME NEW r \in Rings, r \notin source_ids
        PROVE  Len(Events(r)) = 0
    <3>1. r \notin attached
      BY <2>1 DEF IdsAreSources
    <3>2. CASE r \in rings
      BY <1>1, <3>1, <3>2 DEF RingInv
    <3>3. CASE r \notin rings
      BY <2>1, <3>3 DEF RingInv, Empty, Events, Closed
    <3> QED
      BY <3>2, <3>3
  <2>2. ASSUME NEW r \in Rings
        PROVE  due'[r] <= Len(captured[r]) + IF r \in source_ids THEN Len(Events(r)) ELSE 0
    <3>1. /\ due'[r] = Len(captured[r]) + Len(Events(r))
          /\ Len(captured[r]) \in Nat /\ Len(Events(r)) \in Nat
      BY <1>1, <1>2
    <3>2. CASE r \in source_ids
      BY <3>1, <3>2
    <3>3. CASE r \notin source_ids
      BY <2>1, <3>1, <3>3
    <3> QED
      BY <3>2, <3>3
  <2>3. \A r \in Rings : Events(r)' = Events(r)
    BY <1>1 DEF Events, Closed
  <2> QED
    BY <1>1, <2>2, <2>3 DEF StopInv
<1>9. RingIntact'
  BY <1>7, IntactFramed
<1>10. RingInv'
  BY <1>1 DEF RingInv, Empty, client, Given, Events, Closed
<1> QED
  BY <1>3, <1>4, <1>5, <1>6, <1>8, <1>9, <1>10

(* A ring nobody has is made, and its fd put behind the others.             *)
LEMMA HandleIInv ==
  ASSUME IInv, Handle
  PROVE  IInv'
<1> USE DEF IInv
<1>1. PICK r \in Rings \ rings :
        /\ rings' = rings \cup {r} /\ attached' = attached \cup {r}
        /\ source_ids' = source_ids \cup {r} /\ replies' = Append(replies, r)
  BY DEF Handle
<1>2. /\ fiber = "read" /\ requests' = requests - 1 /\ requests > 0
      /\ UNCHANGED <<client, fiber, queue, captured, due, unanswered>>
  BY DEF Handle
<1>3. /\ replies \in Seq(Rings) /\ replies' \in Seq(Rings) /\ Len(replies) \in Nat
      /\ Len(replies') = Len(replies) + 1
      /\ \A i \in 1 .. Len(replies') :
           replies'[i] = IF i = Len(replies) + 1 THEN r ELSE replies[i]
  BY <1>1 DEF TypeOK
<1>4. Empty(r) /\ r \notin attached
  BY <1>1 DEF RingInv
<1>5. TypeOK'
  <2>1. requests' \in Nat
    BY <1>2 DEF TypeOK
  <2> QED
    BY <1>1, <1>2, <1>3, <2>1 DEF TypeOK, client
<1>6. LockHeld' /\ Asking' /\ AsksOnce' /\ Leaving' /\ LeavesNoRing'
  BY <1>2, ClientFramed
<1>7. Ownership'
  BY <1>1, <1>2, <1>3 DEF Ownership, client, InGet
<1>8. OneWriter'
  <2>1. \A i \in 1 .. Len(replies) : replies[i] # r
    BY <1>1 DEF Ownership
  <2>2. \A i, j \in 1 .. Len(replies') : replies'[i] = replies'[j] => i = j
    BY <1>3, <2>1 DEF OneWriter
  <2>3. \A t \in Threads : Place(t)' = Place(t) /\ Place(t) # r
    BY <1>1, <1>2 DEF OneWriter, Place, client
  <2>4. \A t \in Threads : Place(t) \in Rings =>
          Place(t) \in rings' /\ \A i \in 1 .. Len(replies') : replies'[i] # Place(t)
    BY <1>1, <1>3, <2>3 DEF OneWriter
  <2> QED
    BY <2>2, <2>3, <2>4 DEF OneWriter
<1>9. IdsAreSources' /\ StopInv' /\ StopKeepsAll'
  BY <1>1, <1>2 DEF IdsAreSources, StopInv, StopKeepsAll
<1>10. RingIntact'
  BY <1>2, RingsFramed, IntactFramed
<1>11. RingInv'
  <2>1. \A q : Empty(q)' <=> Empty(q)
    BY <1>2 DEF Empty
  <2>2. \A q \in Rings \ rings' : Empty(q)' /\ q \notin attached'
    BY <1>1, <2>1 DEF RingInv
  <2>3. \A i \in 1 .. Len(replies') : Empty(replies[i])'
    BY <1>2, <1>3, <1>4 DEF RingInv, Empty
  <2>4. \A t \in Threads : hold'[t] \in Rings => Empty(hold[t])'
    BY <1>2 DEF RingInv, Empty, client
  <2>5. \A t \in Threads : tls'[t] \in Rings =>
          /\ ~Closed(tls[t])'
          /\ \A i \in 1 .. Len(Given(tls[t])') :
               Given(tls[t])'[i] \in {t} \X (1 .. made'[t])
    BY <1>2 DEF RingInv, Closed, Given, Events, client
  <2>6. \A q \in rings' \ attached' : Closed(q)' /\ Len(Events(q)') = 0
    BY <1>1, <1>2 DEF RingInv, Closed, Events
  <2> QED
    BY <2>2, <2>3, <2>4, <2>5, <2>6 DEF RingInv
<1> QED
  BY <1>5, <1>6, <1>7, <1>8, <1>9, <1>10, <1>11

(* A drain: what the ring was to hand over is captured, its final frame     *)
(* stays.                                                                   *)
LEMMA DrainRings ==
  ASSUME TypeOK, NEW r \in Rings, Drain(r)
  PROVE  /\ All' = All /\ Shut' = Shut
         /\ Pending' = [Pending EXCEPT ![r] = <<>>]
         /\ captured' \in [Rings -> Seq(Frames)] /\ queue' \in [Rings -> Seq(Frames)]
         /\ \A q \in Rings : q # r => captured'[q] = captured[q] /\ queue'[q] = queue[q]
         /\ Len(captured'[r]) = Len(captured[r]) + Len(Events(r))
<1>1. /\ queue \in [Rings -> Seq(Frames)] /\ captured \in [Rings -> Seq(Frames)]
      /\ Events(r) \in Seq(Frames) /\ Given(r) \in Seq(Frames) /\ Final \in Frames
  BY EventsType DEF TypeOK, Frames
<1>2. /\ captured'[r] = Given(r) /\ queue'[r] = IF Closed(r) THEN <<Final>> ELSE <<>>
      /\ \A q \in Rings : q # r => captured'[q] = captured[q] /\ queue'[q] = queue[q]
  BY <1>1 DEF Drain, Given
<1>3. <<Final>> \in Seq(Frames) /\ <<>> \in Seq(Frames)
  BY <1>1
<1>4. captured' \in [Rings -> Seq(Frames)] /\ queue' \in [Rings -> Seq(Frames)]
  <2>1. captured' = [captured EXCEPT ![r] = Given(r)]
    BY DEF Drain, Given
  <2>2. queue' = [queue EXCEPT ![r] = IF Closed(r) THEN <<Final>> ELSE <<>>]
    BY DEF Drain
  <2>3. (IF Closed(r) THEN <<Final>> ELSE <<>>) \in Seq(Frames)
    BY <1>3
  <2> QED
    BY <1>1, <2>1, <2>2, <2>3
<1>5. (Closed(r)' <=> Closed(r)) /\ Events(r)' = <<>>
  <2>1. CASE Closed(r)
    <3>1. /\ queue'[r] = <<Final>> /\ Len(<<Final>>) = 1 /\ <<Final>>[1] = Final
          /\ <<Final>> # <<>> /\ SubSeq(<<Final>>, 1, 0) = <<>>
      BY <1>2, <2>1
    <3> QED
      BY <2>1, <3>1 DEF Closed, Events
  <2>2. CASE ~Closed(r)
    BY <1>2, <2>2 DEF Closed, Events
  <2> QED
    BY <2>1, <2>2
<1>6. Given(r)' = Given(r)
  <2>1. Given(r) \o <<>> = Given(r)
    BY <1>1
  <2> QED
    BY <1>2, <1>5, <2>1 DEF Given
<1>7. \A q \in Rings : q # r =>
        (Closed(q)' <=> Closed(q)) /\ Events(q)' = Events(q) /\ Given(q)' = Given(q)
  BY <1>2 DEF Closed, Events, Given
<1>8. Len(captured'[r]) = Len(captured[r]) + Len(Events(r))
  BY <1>1, <1>2 DEF Given
<1>9. All' = All
  BY <1>6, <1>7 DEF All
<1>10. Shut' = Shut
  BY <1>5, <1>7 DEF Shut
<1>11. Pending' = [Pending EXCEPT ![r] = <<>>]
  BY <1>5, <1>7 DEF Pending
<1> QED
  BY <1>2, <1>4, <1>8, <1>9, <1>10, <1>11

(* A drain after which the ring may have lost its source: while the fiber   *)
(* reads, only if it is closed.                                             *)
LEMMA DrainIInv ==
  ASSUME IInv, NEW r \in attached, Drain(r),
         source_ids' = attached', attached' \in {attached, attached \ {r}},
         fiber = "read" /\ attached' # attached => Closed(r),
         UNCHANGED <<client, requests, replies, fiber, rings, due, unanswered>>
  PROVE  IInv'
<1> USE DEF IInv
<1>1. r \in Rings /\ r \in rings /\ rings \subseteq Rings /\ source_ids = attached
  BY DEF TypeOK, RingInv, IdsAreSources
<1>2. /\ All' = All /\ Shut' = Shut /\ Pending' = [Pending EXCEPT ![r] = <<>>]
      /\ captured' \in [Rings -> Seq(Frames)] /\ queue' \in [Rings -> Seq(Frames)]
      /\ \A q \in Rings : q # r => captured'[q] = captured[q] /\ queue'[q] = queue[q]
      /\ Len(captured'[r]) = Len(captured[r]) + Len(Events(r))
  BY <1>1, DrainRings
<1>3. \A q \in Rings : /\ Events(q) = Pending[q] /\ Given(q) = All[q]
                       /\ Closed(q) <=> q \in Shut
  BY DEF Pending, All, Shut
<1>4. \A q \in Rings : /\ Events(q)' = Pending'[q] /\ Given(q)' = All'[q]
                       /\ Closed(q)' <=> q \in Shut'
  BY DEF Pending, All, Shut
<1>5. \A q \in Rings : Pending'[q] = IF q = r THEN <<>> ELSE Pending[q]
  BY <1>2 DEF Pending
<1>6. /\ Len(<<>>) = 0
      /\ \A q \in Rings : /\ Len(captured[q]) \in Nat /\ Len(Pending[q]) \in Nat
                          /\ Len(captured'[q]) \in Nat /\ due[q] \in Nat
  <2>1. \A q \in Rings : /\ captured[q] \in Seq(Frames) /\ captured'[q] \in Seq(Frames)
                         /\ Events(q) \in Seq(Frames) /\ due[q] \in Nat
    BY <1>2, EventsType DEF TypeOK
  <2> QED
    BY <1>3, <2>1
<1>7. \A q \in Rings : Empty(q) => Empty(q)'
  <2>1. ASSUME Empty(r)
        PROVE  Empty(r)'
    BY <1>1, <2>1 DEF Empty, Drain, Closed, Events, TypeOK
  <2> QED
    BY <1>2, <2>1 DEF Empty
<1>8. TypeOK'
  BY <1>1, <1>2 DEF TypeOK, client
<1>9. LockHeld' /\ Asking' /\ AsksOnce' /\ Leaving' /\ LeavesNoRing'
  BY ClientFramed
<1>10. Ownership' /\ OneWriter'
  BY DEF Ownership, OneWriter, Place, client, InGet
<1>11. IdsAreSources'
  BY DEF IdsAreSources
<1>12. StopKeepsAll'
  <2>1. \A q \in Rings : Len(captured[q]) <= Len(captured'[q])
    <3>1. ASSUME NEW q \in Rings
          PROVE  Len(captured[q]) <= Len(captured'[q])
      <4>1. CASE q = r
        <5> DEFINE a == Len(captured[r])  b == Len(Pending[r])  c == Len(captured'[r])
        <5>1. a \in Nat /\ b \in Nat
          BY <1>1, <1>6
        <5>2. c = a + b
          BY <1>1, <1>2, <1>3
        <5> HIDE DEF a, b, c
        <5>3. a <= c
          BY <5>1, <5>2
        <5> QED
          BY <4>1, <5>3 DEF a, c
      <4>2. CASE q # r
        <5>1. captured'[q] = captured[q] /\ Len(captured[q]) \in Nat
          BY <1>2, <1>6, <3>1, <4>2
        <5> QED
          BY <5>1
      <4> QED
        BY <4>1, <4>2
    <3> QED
      BY <3>1
  <2> QED
    BY <1>1, <1>6, <2>1 DEF StopKeepsAll
<1>13. StopInv'
  <2>1. ASSUME fiber = "stopping", NEW q \in Rings
        PROVE  due[q] <= Len(captured'[q])
                           + IF q \in source_ids' THEN Len(Pending'[q]) ELSE 0
    <3>1. due[q] <= Len(captured[q]) + IF q \in source_ids THEN Len(Pending[q]) ELSE 0
      BY <1>3, <2>1 DEF StopInv
    <3>2. CASE q = r
      <4>1. /\ due[r] <= Len(captured'[r]) /\ due[r] \in Nat
            /\ Len(captured'[r]) \in Nat /\ Len(Pending'[r]) = 0
        BY <1>1, <1>2, <1>3, <1>5, <1>6, <3>1, <3>2
      <4> QED
        BY <3>2, <4>1
    <3>3. CASE q # r
      <4>1. captured'[q] = captured[q] /\ Pending'[q] = Pending[q]
        BY <1>2, <1>5, <2>1, <3>3
      <4>2. q \in source_ids' <=> q \in source_ids
        BY <1>1, <3>3
      <4> QED
        BY <3>1, <4>1, <4>2
    <3> QED
      BY <3>2, <3>3
  <2> QED
    BY <1>4, <2>1 DEF StopInv
<1>14. RingIntact'
  BY <1>2, IntactFramed
<1>15. RingInv'
  <2>1. \A q \in Rings \ rings' : Empty(q)' /\ q \notin attached'
    BY <1>7 DEF RingInv
  <2>2. \A i \in 1 .. Len(replies') : Empty(replies[i])'
    <3>1. \A i \in 1 .. Len(replies) : replies[i] \in Rings /\ Empty(replies[i])
      BY DEF RingInv, TypeOK
    <3> QED
      BY <1>7, <3>1 DEF Empty
  <2>3. \A t \in Threads : hold'[t] \in Rings => Empty(hold[t])'
    <3>1. hold' = hold /\ \A t \in Threads : hold[t] \in Rings => Empty(hold[t])
      BY DEF RingInv, client
    <3> QED
      BY <1>7, <3>1 DEF Empty
  <2>4. ASSUME NEW t \in Threads, tls'[t] \in Rings
        PROVE  /\ ~Closed(tls[t])'
               /\ \A i \in 1 .. Len(Given(tls[t])') :
                    Given(tls[t])'[i] \in {t} \X (1 .. made'[t])
    <3>1. tls' = tls /\ made' = made
      BY DEF client
    <3>2. PICK q \in Rings : q = tls[t] /\ q = tls'[t]
      BY <2>4, <3>1
    <3>3. /\ ~Closed(tls[t])
          /\ \A i \in 1 .. Len(Given(tls[t])) : Given(tls[t])[i] \in {t} \X (1 .. made[t])
      <4>1. t \in Threads /\ tls[t] \in Rings
        BY <2>4, <3>1
      <4> QED
        BY <4>1 DEF RingInv
    <3>4. ~Closed(q)' /\ Given(q)' = Given(q)
      BY <1>2, <1>3, <1>4, <3>2, <3>3
    <3> QED
      BY <3>1, <3>2, <3>3, <3>4 DEF Closed, Given, Events
  <2>5. fiber' = "read" =>
          \A q \in rings' \ attached' : Closed(q)' /\ Len(Events(q)') = 0
    <3>1. ASSUME fiber = "read", NEW q \in rings \ attached'
          PROVE  q \in Shut' /\ Len(Pending'[q]) = 0
      <4>1. q \in Rings
        BY <1>1, <3>1
      <4>2. CASE q = r
        BY <1>1, <1>2, <1>3, <1>5, <1>6, <3>1, <4>2
      <4>3. CASE q # r
        <5>1. q \in rings \ attached
          BY <3>1, <4>3
        <5>2. Closed(q) /\ Len(Events(q)) = 0
          BY <3>1, <5>1 DEF RingInv
        <5> QED
          BY <1>2, <1>3, <1>5, <4>1, <4>3, <5>2
      <4> QED
        BY <4>2, <4>3
    <3> QED
      BY <1>1, <1>4, <3>1
  <2> QED
    BY <2>1, <2>2, <2>3, <2>4, <2>5 DEF RingInv
<1> QED
  BY <1>8, <1>9, <1>10, <1>11, <1>12, <1>13, <1>14, <1>15

-----------------------------------------------------------------------------
(* The invariant.                                                           *)

LEMMA Unchanged ==
  ASSUME IInv, UNCHANGED vars
  PROVE  IInv'
<1>1. UNCHANGED <<client, replies, draining>>
  BY DEF vars, client, draining
<1>2. TypeOK'
  BY DEF IInv, TypeOK, vars
<1> QED
  BY <1>1, <1>2, FiberIdle DEF IInv, OfFiber

LEMMA InitIInv ==
  ASSUME Init
  PROVE  IInv
<1> USE CollectorAssumption DEF CollectorAssumption
<1>1. /\ <<>> \in Seq(Frames) /\ <<>> \in Seq(Rings) /\ Len(<<>>) = 0
      /\ \A r \in Rings : queue[r] = <<>> /\ captured[r] = <<>>
  BY DEF Init
<1>2. TypeOK
  <2>1. /\ queue \in [Rings -> Seq(Frames)] /\ captured \in [Rings -> Seq(Frames)]
        /\ due \in [Rings -> Nat]
    BY <1>1 DEF Init
  <2>2. /\ lock \in [Procs -> Threads \cup {NoThread}] /\ disabled \in [Procs -> BOOLEAN]
        /\ pc \in [Threads -> InGet \cup {"run", "gone", "killed"}]
        /\ tls \in [Threads -> Collectors] /\ hold \in [Threads -> {"null"} \cup Rings]
    BY DEF Init, Collectors
  <2>3. /\ rounds \in [Threads -> 0 .. Rounds] /\ asks \in [Threads -> Nat]
        /\ made \in [Threads -> 0 .. MaxEvents] /\ requests \in Nat
    BY DEF Init
  <2>4. /\ profiled \subseteq Profiled /\ replies \in Seq(Rings) /\ fiber = "read"
        /\ rings = {} /\ attached = {} /\ source_ids = {} /\ unanswered = FALSE
    BY <1>1 DEF Init
  <2> QED
    BY <2>1, <2>2, <2>3, <2>4 DEF TypeOK
<1>3. \A r \in Rings : ~Closed(r) /\ Events(r) = <<>> /\ Empty(r)
  BY <1>1 DEF Closed, Events, Empty
<1>4. \A r \in Rings : Given(r) = <<>>
  BY <1>1, <1>3 DEF Given
<1>5. Ownership /\ OneWriter /\ LockHeld
  BY DEF Init, Ownership, OneWriter, Place, LockHeld, Critical, InGet
<1>6. Asking /\ AsksOnce /\ Leaving /\ LeavesNoRing
  BY DEF Init, Asking, AsksOnce, Leaving, LeavesNoRing
<1>7. IdsAreSources /\ StopInv /\ StopKeepsAll
  BY DEF Init, IdsAreSources, StopInv, StopKeepsAll
<1>8. RingIntact
  BY <1>1, <1>4 DEF RingIntact
<1>9. RingInv
  BY <1>1, <1>3 DEF Init, RingInv
<1> QED
  BY <1>2, <1>5, <1>6, <1>7, <1>8, <1>9 DEF IInv

LEMMA NextIInv ==
  ASSUME IInv, Next
  PROVE  IInv'
<1>1. ASSUME NEW t \in Threads, ThreadStep(t)
      PROVE  IInv'
  BY <1>1, EnterIInv, AllocCollectorIInv, LockDisabledIInv, LockIInv, SendIInv, ReceiveIInv,
     MapIInv, HangupIInv, RecordIInv, DestroyIInv, LeaveIInv DEF ThreadStep, Get
<1>2. ASSUME NEW r \in Rings, Dispatch(r)
      PROVE  IInv'
  <2>1. source_ids = attached
    BY DEF IInv, IdsAreSources
  <2> QED
    BY <1>2, <2>1, DrainIInv DEF Dispatch
<1>3. ASSUME NEW r \in Rings, RemoveSource(r)
      PROVE  IInv'
  <2>1. source_ids = attached
    BY DEF IInv, IdsAreSources
  <2> QED
    BY <1>3, <2>1, DrainIInv DEF RemoveSource
<1>4. ASSUME FiberStep
      PROVE  IInv'
  BY <1>2, <1>3, <1>4, HandleIInv, HandleFailsIInv, EndLoopIInv, SaveIInv, CloseIInv
     DEF FiberStep, Eof, BreakOff
<1>5. ASSUME NEW p \in Procs, Kill(p)
      PROVE  IInv'
  BY <1>5, KillIInv
<1>6. ASSUME Terminated
      PROVE  IInv'
  BY <1>6, Unchanged DEF Terminated
<1> QED
  BY <1>1, <1>4, <1>5, <1>6 DEF Next

(* The invariant, which says of every state where the rings are, who holds  *)
(* what in sysprof_collector_get(), and what is still to be drained.        *)
THEOREM Invariance == Spec => []IInv
<1>1. Init => IInv
  BY InitIInv
<1>2. IInv /\ [Next]_vars => IInv'
  BY NextIInv, Unchanged
<1> QED
  BY <1>1, <1>2, PTL DEF Spec

(* The variables stay in their types.                                       *)
THEOREM TypeCorrect == Spec => []TypeOK
<1>1. IInv => TypeOK
  BY DEF IInv
<1> QED
  BY <1>1, Invariance, PTL

(* No ring ever has two writers, whoever receives whose reply on the shared *)
(* socket and whoever dies: for any number of processes, threads, rings and *)
(* destructor rounds.                                                       *)
THEOREM WritersCorrect == Spec => []OneWriter
<1>1. IInv => OneWriter
  BY DEF IInv
<1> QED
  BY <1>1, Invariance, PTL

(* What is in a ring, and in the capture from it, is one thread's events in *)
(* the order recorded.                                                      *)
THEOREM RingsCorrect == Spec => []RingIntact
<1>1. IInv => RingIntact
  BY DEF IInv
<1> QED
  BY <1>1, Invariance, PTL

(* control_fd_lock is held exactly from Lock to the end of the request.     *)
THEOREM LockCorrect == Spec => []LockHeld
<1>1. IInv => LockHeld
  BY DEF IInv
<1> QED
  BY <1>1, Invariance, PTL

(* A thread asks once, and once more per round of its destructor.           *)
THEOREM AsksCorrect == Spec => []AsksOnce
<1>1. IInv => AsksOnce
  BY DEF IInv
<1> QED
  BY <1>1, Invariance, PTL

(* Without the hooks a thread that ended by itself has left no ring open.   *)
THEOREM LeavingCorrect == Spec => []LeavesNoRing
<1>1. IInv => LeavesNoRing
  BY DEF IInv
<1> QED
  BY <1>1, Invariance, PTL

(* The ids that are kept are the sources there are: none is removed twice,  *)
(* none is left behind.                                                     *)
THEOREM IdsCorrect == Spec => []IdsAreSources
<1>1. IInv => IdsAreSources
  BY DEF IInv
<1> QED
  BY <1>1, Invariance, PTL

(* A recording that stops has all the events that were in the rings when    *)
(* it did.                                                                  *)
THEOREM StopCorrect == Spec => []StopKeepsAll
<1>1. IInv => StopKeepsAll
  BY DEF IInv
<1> QED
  BY <1>1, Invariance, PTL
=============================================================================
