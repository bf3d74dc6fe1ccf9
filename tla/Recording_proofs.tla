-------------------------- MODULE Recording_proofs ---------------------------
(***************************************************************************)
(* Proofs about Recording for any instruments, any number of calls to      *)
(* sysprofd and any length of time: the inductive invariant, that what was *)
(* recorded is on disk when the recording ends, that a recording opened    *)
(* when all is quiet stays intact, and that none stops without a reason;   *)
(* and about SymbolCache, what the symbols are in that a recording is      *)
(* augmented with, for any symbols and addresses: its tree stays a         *)
(* balanced search tree, in which a lookup finds what it should.           *)
(***************************************************************************)
EXTENDS Recording, SymbolCache, WellFoundedInduction, TLAPS

(* What the invariant says but for its types.                               *)
Phases == Prepare /\ Running /\ Stopping /\ Ended

(* A frame in the buffer changes the buffer and what was overwritten.       *)
LEMMA WriteType ==
  ASSUME TypeOK, NEW who \in Writers, Write(who)
  PROVE  buffered' \subseteq Writers
  BY DEF TypeOK, Write

(* Nothing is overwritten before the offset was set to 0.                   *)
LEMMA WriteIntact ==
  ASSUME NEW who, Write(who), rewound = "no", ~overwritten
  PROVE  ~overwritten'
  BY DEF Write

(* Until it is over a recording is not open.                                *)
LEMMA NotOpen ==
  ASSUME Opened, pc # "ended"
  PROVE  rewound = "no" /\ ~overwritten
  BY DEF Opened

(* A step of the recording before it is over, which may write.              *)
LEMMA OpenedBefore ==
  ASSUME Opened, pc # "ended", UNCHANGED rewound,
         UNCHANGED overwritten \/ \E who : Write(who)
  PROVE  Opened' /\ OpenedIntact'
  BY NotOpen, WriteIntact DEF Opened, OpenedIntact

-----------------------------------------------------------------------------
LEMMA InitIInv == Init => IInv
<1> SUFFICES ASSUME Init PROVE IInv
  OBVIOUS
<1>1. TypeOK
  <2>1. cancelled \in BOOLEAN /\ (cancelled <=> end_time # 0)
    BY DEF Init
  <2>2. held \in BOOLEAN
    BY DEF Init
  <2> QED
    BY <2>1, <2>2, RecordingAssumption DEF Init, TypeOK, RecordingAssumption
<1>2. Prepare /\ Running /\ Stopping /\ Ended
  BY RecordingAssumption
  DEF Init, Prepare, Running, Stopping, Ended, AllIn, RecordingAssumption
<1>3. RecordedOnDisk /\ Opened /\ OpenedIntact
  BY DEF Init, RecordedOnDisk, Opened, OpenedIntact
<1> QED
  BY <1>1, <1>2, <1>3 DEF IInv

-----------------------------------------------------------------------------
(* The fiber.                                                               *)

LEMMA StartStep == ASSUME IInv, Start PROVE IInv'
<1> USE DEF IInv
<1>0. /\ pc = "prepare" /\ AllIn({"preparing", "ready", "failed"})
      /\ begin_time = 0 /\ end_time = 0 /\ calls \in 0 .. MaxFollows
      /\ \A i \in Instruments : inst[i] \in {"ready", "failed"}
  BY RecordingAssumption DEF Start, Prepare, TypeOK, RecordingAssumption
<1>1. TypeOK'
  <2>1. buffered' \subseteq Writers
    BY WriteType DEF Start, TypeOK, file, Writers
  <2>2. /\ inst' \in [Instruments -> {"preparing", "ready", "recording", "over",
                                      "failed", "loading", "augmenting"}]
        /\ pc' \in {"ended", "setup"} /\ result' \in {"none", "ok", "error"}
    BY DEF Start, TypeOK
  <2>3. /\ calls' \in 0 .. MaxFollows + 1 /\ watches' \in 0 .. Snapshots
        /\ monitor' \in {"none", "running", "exited", "failed"}
        /\ held' \in BOOLEAN
    <3>1. held' \in BOOLEAN
      BY DEF Start, TypeOK
    <3>2. monitor' \in {"none", "running", "exited", "failed"}
      BY DEF Start, TypeOK
    <3>3. watches' \in 0 .. Snapshots
      BY RecordingAssumption DEF Start, TypeOK, RecordingAssumption
    <3>4. calls' \in 0 .. MaxFollows + 1
      <4>1. calls' = calls \/ calls' \in calls .. calls + 1
        BY DEF Start
      <4> QED
        BY <4>1, <1>0, RecordingAssumption DEF RecordingAssumption
    <3> QED
      BY <3>1, <3>2, <3>3, <3>4
  <2>4. /\ clock' \in 1 .. MaxTime /\ begin_time' \in 0 .. clock'
        /\ end_time' = 0
    BY <1>0 DEF Start, TypeOK
  <2> QED
    BY <2>1, <2>2, <2>3, <2>4, <1>0 DEF Start, TypeOK
<1>2. Phases'
  BY <1>0 DEF Start, Phases, Prepare, Running, Stopping, Ended, AllIn, TypeOK
<1>3. RecordedOnDisk'
  BY <1>0 DEF Start, RecordedOnDisk
<1>4. Opened' /\ OpenedIntact'
  BY <1>0, OpenedBefore DEF Start, file
<1> QED
  BY <1>1, <1>2, <1>3, <1>4 DEF Phases

LEMMA LoopStep == ASSUME IInv, Loop PROVE IInv'
<1> USE DEF IInv
<1>1. TypeOK'
  <2>1. buffered' \subseteq Writers
    BY WriteType DEF Loop, TypeOK, file, Writers
  <2> QED
    BY <2>1 DEF Loop, TypeOK
<1>2. Phases' /\ RecordedOnDisk'
  BY DEF Loop, Phases, Prepare, Running, Stopping, Ended, AllIn, RecordedOnDisk
<1>3. Opened' /\ OpenedIntact'
  BY OpenedBefore DEF Loop, file
<1> QED
  BY <1>1, <1>2, <1>3 DEF Phases

LEMMA StopStep == ASSUME IInv, Stop PROVE IInv'
<1> USE DEF IInv
<1>0. clock # 0 /\ begin_time # 0 /\ begin_time <= clock
  BY DEF Stop, Running, TypeOK
<1>1. TypeOK'
  <2>1. result' \in {"ok", "error"}
    BY DEF Stop
  <2>2. end_time' = clock /\ cancelled' = TRUE
    BY DEF Stop
  <2> QED
    BY <1>0, <2>1, <2>2 DEF Stop, TypeOK, file
<1>2. Phases' /\ RecordedOnDisk'
  BY <1>0 DEF Stop, Phases, Prepare, Running, Stopping, Ended, AllIn, RecordedOnDisk
<1>3. Opened' /\ OpenedIntact'
  BY OpenedBefore DEF Stop, file
<1> QED
  BY <1>1, <1>2, <1>3 DEF Phases

LEMMA AugmentStep == ASSUME IInv, Augment PROVE IInv'
<1> USE DEF IInv
<1>1. TypeOK'
  BY DEF Augment, TypeOK, file
<1>2. Phases' /\ RecordedOnDisk'
  BY DEF Augment, Phases, Prepare, Running, Stopping, Ended, AllIn, RecordedOnDisk, TypeOK
<1>3. Opened' /\ OpenedIntact'
  BY OpenedBefore DEF Augment, file
<1> QED
  BY <1>1, <1>2, <1>3 DEF Phases

(* The last flush: nothing of the recording is in the buffer after it.      *)
LEMMA FinishStep == ASSUME IInv, Finish PROVE IInv'
<1> USE DEF IInv
<1>1. TypeOK'
  BY DEF Finish, TypeOK
<1>2. Phases' /\ RecordedOnDisk'
  BY DEF Finish, Phases, Prepare, Running, Stopping, Ended, AllIn, RecordedOnDisk
<1>3. Opened' /\ OpenedIntact'
  BY OpenedBefore DEF Finish
<1> QED
  BY <1>1, <1>2, <1>3 DEF Phases

-----------------------------------------------------------------------------
(* The instruments.                                                         *)

LEMMA PreparedStep == ASSUME IInv, NEW i \in Instruments, Prepared(i) PROVE IInv'
<1> USE DEF IInv
<1>0. pc = "prepare"
  BY DEF Prepared, TypeOK, Running, Stopping, Ended, AllIn
<1>1. TypeOK'
  <2>1. buffered' \subseteq Writers
    BY WriteType DEF Prepared, TypeOK, file, Writers
  <2> QED
    BY <2>1 DEF Prepared, TypeOK, fiber
<1>2. Phases' /\ RecordedOnDisk'
  BY <1>0 DEF Prepared, fiber, Phases, Prepare, Running, Stopping, Ended, AllIn,
              RecordedOnDisk, TypeOK
<1>3. Opened' /\ OpenedIntact'
  BY <1>0, OpenedBefore DEF Prepared, file
<1> QED
  BY <1>1, <1>2, <1>3 DEF Phases

(* An instrument that records does so before the recording is over.         *)
LEMMA RecordingPhase ==
  ASSUME IInv, NEW i \in Instruments, inst[i] = "recording"
  PROVE  pc \in {"setup", "loop", "record"}
  BY DEF IInv, TypeOK, Prepare, Stopping, Ended, AllIn

(* Streams that still run when it is over are of a recording that was never *)
(* begun, and is not opened.                                                *)
LEMMA StreamingPhase ==
  ASSUME IInv, NEW i \in Instruments, inst[i] = "recording" \/ Streaming(i)
  PROVE  pc # "ended" \/ (begin_time = 0 /\ rewound = "no" /\ ~overwritten)
<1>1. CASE inst[i] = "recording"
  BY <1>1, RecordingPhase
<1>2. CASE Streaming(i)
  <2> SUFFICES ASSUME pc = "ended" PROVE begin_time = 0 /\ rewound = "no" /\ ~overwritten
    OBVIOUS
  <2>1. inst[i] = "ready"
    BY <1>2 DEF Streaming
  <2>2. begin_time = 0
    BY <2>1 DEF IInv, Ended, AllIn
  <2>3. result = "error"
    BY <2>2 DEF IInv, Ended
  <2> QED
    BY <2>2, <2>3 DEF IInv, Opened
<1> QED
  BY <1>1, <1>2

(* What they write is buffered, and changes nothing in what was opened.     *)
LEMMA StreamingWrites ==
  ASSUME IInv, NEW i \in Instruments, inst[i] = "recording" \/ Streaming(i),
         Write("instrument"), UNCHANGED <<fiber, inst, rewound>>,
         pc = "prepare" => calls' <= MaxFollows
  PROVE  Phases' /\ RecordedOnDisk' /\ Opened' /\ OpenedIntact'
<1> USE DEF IInv
<1>1. pc # "ended" \/ (begin_time = 0 /\ rewound = "no" /\ ~overwritten)
  BY StreamingPhase
<1>2. Phases'
  BY DEF fiber, Phases, Prepare, Running, Stopping, Ended, AllIn
<1>3. RecordedOnDisk'
  BY <1>1 DEF fiber, RecordedOnDisk
<1>4. Opened' /\ OpenedIntact'
  <2>1. CASE pc # "ended"
    BY <2>1, OpenedBefore
  <2>2. CASE rewound = "no" /\ ~overwritten
    <3>1. ~overwritten'
      BY <2>2, WriteIntact
    <3> QED
      BY <2>2, <3>1 DEF Opened, OpenedIntact
  <2> QED
    BY <1>1, <2>1, <2>2
<1> QED
  BY <1>2, <1>3, <1>4

LEMMA RecordStep == ASSUME IInv, NEW i \in Instruments, Record(i) PROVE IInv'
<1> USE DEF IInv
<1>1. TypeOK'
  <2>1. buffered' \subseteq Writers
    BY WriteType DEF Record, Writers
  <2> QED
    BY <2>1 DEF Record, TypeOK, fiber
<1>2. pc = "prepare" => calls' <= MaxFollows
  BY DEF Record, Prepare
<1>3. Phases' /\ RecordedOnDisk' /\ Opened' /\ OpenedIntact'
  BY <1>2, StreamingWrites DEF Record
<1> QED
  BY <1>1, <1>3 DEF Phases

LEMMA FollowStep == ASSUME IInv, NEW i \in Instruments, Follow(i) PROVE IInv'
<1> USE DEF IInv
<1>1. TypeOK'
  <2>1. buffered' \subseteq Writers
    BY WriteType DEF Follow, Writers
  <2>2. calls' \in 0 .. MaxFollows + 1
    BY RecordingAssumption DEF Follow, TypeOK, RecordingAssumption
  <2> QED
    BY <2>1, <2>2 DEF Follow, TypeOK, fiber
<1>2. calls' <= MaxFollows
  BY RecordingAssumption DEF Follow, TypeOK, RecordingAssumption
<1>3. Phases' /\ RecordedOnDisk' /\ Opened' /\ OpenedIntact'
  BY <1>2, StreamingWrites DEF Follow
<1> QED
  BY <1>1, <1>3 DEF Phases

LEMMA CompleteStep == ASSUME IInv, NEW i \in Instruments, Complete(i) PROVE IInv'
<1> USE DEF IInv
<1>0. pc \in {"setup", "loop", "record"}
  BY RecordingPhase DEF Complete
<1>1. TypeOK'
  BY DEF Complete, TypeOK, fiber, file
<1>2. Phases' /\ RecordedOnDisk'
  BY <1>0 DEF Complete, fiber, Phases, Prepare, Running, Stopping, Ended, AllIn,
              RecordedOnDisk, TypeOK
<1>3. Opened' /\ OpenedIntact'
  BY <1>0, OpenedBefore DEF Complete, file
<1> QED
  BY <1>1, <1>2, <1>3 DEF Phases

(* An instrument that augments does so in that phase.                       *)
LEMMA AugmentPhase ==
  ASSUME IInv, NEW i \in Instruments, inst[i] \in {"loading", "augmenting"}
  PROVE  pc = "augment"
  BY DEF IInv, TypeOK, Prepare, Running, Stopping, Ended, AllIn

LEMMA LoadStep == ASSUME IInv, Load PROVE IInv'
<1> USE DEF IInv
<1>0. pc = "augment" /\ Bundle \in Instruments
  BY AugmentPhase, RecordingAssumption DEF Load, RecordingAssumption
<1>1. TypeOK'
  BY ZenonT(30) DEF Load, TypeOK, fiber, file
<1>2. Phases' /\ RecordedOnDisk'
  BY <1>0 DEF Load, fiber, Phases, Prepare, Running, Stopping, Ended, AllIn,
              RecordedOnDisk, TypeOK
<1>3. Opened' /\ OpenedIntact'
  BY <1>0, OpenedBefore DEF Load, file
<1> QED
  BY <1>1, <1>2, <1>3 DEF Phases

LEMMA AugmentedStep == ASSUME IInv, NEW i \in Instruments, Augmented(i) PROVE IInv'
<1> USE DEF IInv
<1>0. pc = "augment"
  BY AugmentPhase DEF Augmented
<1>1. TypeOK'
  <2>1. buffered' \subseteq Writers
    <3>1. (IF i = Bundle THEN "symbols" ELSE "instrument") \in Writers
      BY DEF Writers
    <3> QED
      BY <3>1, WriteType DEF Augmented, TypeOK, file
  <2> QED
    BY <2>1 DEF Augmented, TypeOK, fiber
<1>2. Phases' /\ RecordedOnDisk'
  BY <1>0 DEF Augmented, fiber, Phases, Prepare, Running, Stopping, Ended, AllIn,
              RecordedOnDisk, TypeOK
<1>3. Opened' /\ OpenedIntact'
  BY <1>0, OpenedBefore DEF Augmented, file
<1> QED
  BY <1>1, <1>2, <1>3 DEF Phases

-----------------------------------------------------------------------------
(* The others.                                                              *)

(* An answer may come when all is over; a recording that was opened in      *)
(* quiet has none left to come.                                             *)
LEMMA AnswerStep == ASSUME IInv, Answer PROVE IInv'
<1> USE DEF IInv
<1>1. TypeOK'
  <2>1. buffered' \subseteq Writers
    BY WriteType DEF Answer, TypeOK, file, Writers
  <2>2. calls' \in 0 .. MaxFollows + 1
    BY RecordingAssumption DEF Answer, TypeOK, RecordingAssumption
  <2> QED
    BY <2>1, <2>2 DEF Answer, TypeOK, fiber
<1>2. Phases'
  <2>1. calls' <= calls
    BY DEF Answer, TypeOK
  <2>2. calls <= MaxFollows => calls' <= MaxFollows
    BY <2>1, RecordingAssumption DEF Answer, TypeOK, RecordingAssumption
  <2> QED
    BY <2>2 DEF Answer, fiber, Phases, Prepare, Running, Stopping, Ended, AllIn, TypeOK
<1>3. RecordedOnDisk'
  BY DEF Answer, fiber, file, Write, RecordedOnDisk
<1>4. Opened' /\ OpenedIntact'
  <2>1. CASE rewound = "no"
    BY <2>1, WriteIntact DEF Answer, fiber, file, Opened, OpenedIntact
  <2>2. CASE rewound # "no"
    BY <2>2 DEF Answer, fiber, file, Opened, OpenedIntact
  <2> QED
    BY <2>1, <2>2
<1> QED
  BY <1>1, <1>2, <1>3, <1>4 DEF Phases

(* The timer writes only while the recording has no end time.               *)
LEMMA WatchStep == ASSUME IInv, Watch PROVE IInv'
<1> USE DEF IInv
<1>1. TypeOK'
  <2>1. buffered' \subseteq Writers
    BY WriteType DEF Watch, TypeOK, file, Writers
  <2>2. watches' \in 0 .. Snapshots
    BY RecordingAssumption DEF Watch, TypeOK, RecordingAssumption
  <2> QED
    BY <2>1, <2>2 DEF Watch, TypeOK, fiber
<1>2. Phases'
  BY DEF Watch, fiber, Phases, Prepare, Running, Stopping, Ended, AllIn
<1>3. CASE UNCHANGED file
  BY <1>1, <1>2, <1>3 DEF Watch, fiber, file, Phases, RecordedOnDisk, Opened, OpenedIntact
<1>4. CASE end_time = 0 /\ Write("maps")
  <2>1. pc = "ended" => begin_time = 0 /\ result = "error"
    BY <1>4 DEF Ended
  <2>2. RecordedOnDisk'
    BY <2>1 DEF Watch, fiber, RecordedOnDisk
  <2>3. rewound = "no" /\ ~overwritten
    BY <2>1 DEF Opened
  <2>4. Opened' /\ OpenedIntact'
    BY <2>3, <1>4, WriteIntact DEF Watch, Opened, OpenedIntact
  <2> QED
    BY <1>1, <1>2, <2>2, <2>4 DEF Phases
<1> QED
  BY <1>3, <1>4 DEF Watch

(* The user, the spawned process and its children, and time.                *)
LEMMA OthersStep ==
  ASSUME IInv, RequestStop \/ Exit \/ LastChildExits \/ Tick
  PROVE  IInv'
<1> USE DEF IInv
<1>0. UNCHANGED <<pc, inst, begin_time, end_time, cancelled, result, calls, watches,
                  buffered, overwritten, missed, rewound>>
  BY DEF RequestStop, Exit, LastChildExits, Tick, fiber, file
<1>1. TypeOK'
  <2>1. clock' \in 1 .. MaxTime /\ clock <= clock'
    BY RecordingAssumption
    DEF RequestStop, Exit, LastChildExits, Tick, TypeOK, RecordingAssumption
  <2>2. monitor' \in {"none", "running", "exited", "failed"}
    BY DEF RequestStop, Exit, LastChildExits, Tick, TypeOK
  <2>3. held' \in BOOLEAN
    BY DEF RequestStop, Exit, LastChildExits, Tick, TypeOK
  <2> QED
    BY <1>0, <2>1, <2>2, <2>3 DEF TypeOK
<1>2. Phases' /\ RecordedOnDisk' /\ Opened' /\ OpenedIntact'
  BY <1>0 DEF Phases, Prepare, Running, Stopping, Ended, AllIn, RecordedOnDisk,
              Opened, OpenedIntact
<1> QED
  BY <1>1, <1>2 DEF Phases

LEMMA OpenStep == ASSUME IInv, Open PROVE IInv'
<1> USE DEF IInv
<1>1. TypeOK'
  BY DEF Open, TypeOK, fiber, file
<1>2. Phases' /\ RecordedOnDisk'
  BY DEF Open, fiber, file, Phases, Prepare, Running, Stopping, Ended, AllIn, RecordedOnDisk
<1>3. Opened' /\ OpenedIntact'
  BY DEF Open, fiber, file, Opened, OpenedIntact
<1> QED
  BY <1>1, <1>2, <1>3 DEF Phases

(* What is left in the buffer is written; after a quiet opening there is    *)
(* nothing.                                                                 *)
LEMMA FinalizeStep == ASSUME IInv, Finalize PROVE IInv'
<1> USE DEF IInv
<1>1. TypeOK'
  BY DEF Finalize, TypeOK, fiber
<1>2. Phases' /\ RecordedOnDisk'
  BY DEF Finalize, fiber, Phases, Prepare, Running, Stopping, Ended, AllIn, RecordedOnDisk
<1>3. Opened' /\ OpenedIntact'
  BY DEF Finalize, fiber, Opened, OpenedIntact
<1> QED
  BY <1>1, <1>2, <1>3 DEF Phases

-----------------------------------------------------------------------------
(* The theorems.                                                            *)

LEMMA NextIInv == IInv /\ [Next]_vars => IInv'
<1> SUFFICES ASSUME IInv, [Next]_vars PROVE IInv'
  OBVIOUS
<1>1. CASE UNCHANGED vars
  BY <1>1 DEF vars, IInv, TypeOK, Prepare, Running, Stopping, Ended, AllIn,
              RecordedOnDisk, Opened, OpenedIntact
<1>2. CASE Next
  BY <1>2, StartStep, LoopStep, StopStep, AugmentStep, FinishStep, PreparedStep,
     RecordStep, FollowStep, CompleteStep, LoadStep, AugmentedStep, AnswerStep,
     WatchStep, OthersStep, OpenStep, FinalizeStep
  DEF Next
<1> QED
  BY <1>1, <1>2

(* The inductive invariant holds of every recording.                        *)
THEOREM Invariance == Spec => []IInv
<1>1. Init => IInv
  BY InitIInv
<1>2. IInv /\ [Next]_vars => IInv'
  BY NextIInv
<1> QED
  BY <1>1, <1>2, PTL DEF Spec

(* Types are kept and the times of a recording are in order, whatever the   *)
(* instruments, the spawned process and sysprofd do.                        *)
THEOREM TypeCorrect == Spec => []TypeOK
<1>1. IInv => TypeOK
  BY DEF IInv
<1> QED
  BY <1>1, Invariance, PTL

(* The fiber ends with everything on disk that instruments, augmentation    *)
(* and the timer of the maps wrote.                                         *)
THEOREM OnDiskCorrect == Spec => []RecordedOnDisk
<1>1. IInv => RecordedOnDisk
  BY DEF IInv
<1> QED
  BY <1>1, Invariance, PTL

(* A file opened when sysprofd owes no answer and the buffer is empty is    *)
(* not written over.                                                        *)
THEOREM OpenedCorrect == Spec => []OpenedIntact
<1>1. IInv => OpenedIntact
  BY DEF IInv
<1> QED
  BY <1>1, Invariance, PTL

(* The loop of the fiber is left for a STOP, for the end of the spawned     *)
(* process or for that of all instruments, and never for the timeout.       *)
THEOREM StopsCorrect == Spec => StopsForAReason
<1> DEFINE Reason == pc = "loop" /\ pc' # "loop" => stop \/ Exited \/ AllOver
<1>1. [Next]_vars => [Reason]_vars
  <2> SUFFICES ASSUME Next, pc = "loop", pc' # "loop"
               PROVE  stop \/ Exited \/ AllOver
    OBVIOUS
  <2>1. Stop
    BY DEF Next, Start, Loop, Augment, Finish, Prepared, Record, Follow, Complete,
           Load, Augmented, Answer, Watch, RequestStop, Exit, LastChildExits, Tick,
           Open, Finalize, fiber
  <2>2. \E f \in First : Rejected(f) \/ AllOver \/ Exited \/ stop
    BY <2>1 DEF Stop
  <2> QED
    BY <2>2 DEF First, Rejected, Exited
<1> QED
  BY <1>1, PTL DEF Spec, StopsForAReason

-----------------------------------------------------------------------------
(* Induction.                                                               *)

LEMMA LeastElement ==
  ASSUME NEW T \in SUBSET Nat, T # {}
  PROVE  \E x \in T : \A y \in T : x <= y
<1> DEFINE R == OpToRel(<, Nat)
<1>1. IsWellFoundedOn(R, Nat)
  BY NatLessThanWellFounded
<1>2. \A a, b \in Nat : a < b => <<a, b>> \in R
  BY DEF OpToRel
<1> HIDE DEF R
<1>3. PICK x \in T : \A y \in T : ~ (<<y, x>> \in R)
  BY <1>1, WFMin
<1>4. \A y \in T : x \in Nat /\ y \in Nat /\ ~ (y < x)
  BY <1>2, <1>3
<1>5. \A y \in T : x <= y
  BY <1>4
<1> QED
  BY <1>5

(* From below.                                                              *)
LEMMA Upwards ==
  ASSUME NEW last \in Nat, NEW S, 0 \in S,
         \A n \in 0 .. last - 1 : n \in S => n + 1 \in S
  PROVE  \A n \in 0 .. last : n \in S
<1> DEFINE T == {n \in 0 .. last : n \notin S}
<1> SUFFICES ASSUME T # {} PROVE FALSE
  OBVIOUS
<1>1. PICK x \in T : \A y \in T : x <= y
  <2>1. T \in SUBSET Nat
    OBVIOUS
  <2> HIDE DEF T
  <2> QED
    BY <2>1, LeastElement
<1>2. x \in 0 .. last /\ x # 0
  OBVIOUS
<1>3. x - 1 \in 0 .. last - 1 /\ x - 1 \in S
  BY <1>1, <1>2
<1>4. (x - 1) + 1 \in S
  BY <1>3
<1> QED
  BY <1>2, <1>4

(* The turns of a loop.                                                     *)

CacheTurning(loop, start, last, turn) ==
  turn = [n \in 0 .. last |-> IF n = 0 THEN start ELSE TurnOfLoop(loop, turn[n - 1])]

LoopTurns(loop, t, n, of, turn) ==
  /\ Looped(loop, t, n, of) = turn[Top + 1]
  /\ turn[0] = At(t, n, of)
  /\ \A i \in 0 .. Top : turn[i + 1] = TurnOfLoop(loop, turn[i])

LEMMA CacheLoopExists ==
  ASSUME NEW loop, NEW start, NEW last \in Nat
  PROVE  \E turn : CacheTurning(loop, start, last, turn)
<1> DEFINE D == 0 .. last
           Put(g, i) == IF i = 0 THEN start ELSE TurnOfLoop(loop, g[i - 1])
           Right(g, n) == \A i \in D : i <= n => g[i] = Put(g, i)
           S == {n \in Nat : \E g : Right(g, n)}
<1>2. 0 \in S
  <2> DEFINE g == [i \in D |-> start]
  <2>1. Right(g, 0)
    <3>1. \A i \in D : i <= 0 => i = 0
      OBVIOUS
    <3> QED
      BY <3>1
  <2>2. \E h : Right(h, 0)
    BY <2>1
  <2> QED
    BY <2>2
<1>3. ASSUME NEW n \in 0 .. last - 1, n \in S
      PROVE  n + 1 \in S
  <2>1. PICK g : Right(g, n)
    BY <1>3
  <2> DEFINE m == n + 1
             x == TurnOfLoop(loop, g[n])
             h == [i \in D |-> IF i = m THEN x ELSE g[i]]
  <2>2. m \in D /\ m \in Nat /\ n \in Nat /\ n \in D /\ m - 1 = n /\ m # 0
    OBVIOUS
  <2> HIDE DEF x
  <2>4. h[m] = x /\ \A i \in D : i # m => h[i] = g[i]
    BY <2>2
  <2> HIDE DEF h
  <2>5. ASSUME NEW i \in D, i <= m
        PROVE  h[i] = Put(h, i)
    <3>1. CASE i = m
      <4>1. h[n] = g[n]
        BY <2>2, <2>4
      <4>2. Put(h, m) = TurnOfLoop(loop, h[n])
        BY <2>2
      <4> QED
        BY <2>4, <3>1, <4>1, <4>2 DEF x
    <3>2. CASE i # m /\ i # 0
      <4>1. i <= n /\ i - 1 \in D /\ i - 1 # m
        BY <2>2, <2>5, <3>2
      <4>2. g[i] = TurnOfLoop(loop, g[i - 1]) /\ h[i] = g[i] /\ h[i - 1] = g[i - 1]
        BY <2>1, <2>4, <3>2, <4>1
      <4> QED
        BY <3>2, <4>2
    <3>3. CASE i # m /\ i = 0
      BY <2>1, <2>2, <2>4, <3>3
    <3> QED
      BY <3>1, <3>2, <3>3
  <2>6. Right(h, n + 1)
    BY <2>5
  <2>7. \E k : Right(k, n + 1)
    BY <2>6
  <2> QED
    BY <2>2, <2>7
<1>4. last \in S
  <2> HIDE DEF S
  <2>1. \A n \in 0 .. last : n \in S
    BY <1>2, <1>3, Upwards
  <2> QED
    BY <2>1
<1>5. PICK f : Right(f, last)
  BY <1>4
<1> DEFINE g == [i \in D |-> f[i]]
<1>6. \A i \in D : g[i] = Put(g, i)
  <2>1. ASSUME NEW i \in D PROVE g[i] = Put(g, i)
    <3>1. g[i] = f[i] /\ f[i] = Put(f, i)
      BY <1>5
    <3>2. i # 0 => i - 1 \in D /\ g[i - 1] = f[i - 1]
      OBVIOUS
    <3> HIDE DEF g
    <3> QED
      BY <3>1, <3>2
  <2> QED
    BY <2>1
<1>7. g = [i \in D |-> Put(g, i)]
  <2>1. g = [i \in D |-> g[i]]
    OBVIOUS
  <2> HIDE DEF Put, g
  <2> QED
    BY <1>6, <2>1
<1> HIDE DEF g
<1>8. CacheTurning(loop, start, last, g)
  BY <1>7 DEF CacheTurning
<1> QED
  BY <1>8

LEMMA LoopHasTurns ==
  ASSUME NEW loop, NEW t, NEW node, NEW of
  PROVE  \E turn : LoopTurns(loop, t, node, of, turn)
<1> DEFINE N == Top + 1
           start == At(t, node, of)
           P(turn) == CacheTurning(loop, start, N, turn)
           turn == CHOOSE turn : P(turn)
<1>1. N \in Nat /\ N \in 0 .. N /\ N # 0 /\ Top \in Nat
  BY IntervalAssumption
<1>2. Looped(loop, t, node, of) = turn[N]
  BY DEF Looped, CacheTurning
<1>3. PICK g : P(g)
  <2> HIDE DEF N, start
  <2> QED
    BY <1>1, CacheLoopExists
<1>4. P(turn)
  <2> HIDE DEF P
  <2> QED
    BY <1>3
<1> HIDE DEF turn
<1>5. \A n \in 0 .. N : turn[n] = IF n = 0 THEN start ELSE TurnOfLoop(loop, turn[n - 1])
  BY <1>4 DEF CacheTurning
<1> HIDE DEF start, P
<1>6. turn[0] = start
  <2>1. 0 \in 0 .. N
    BY <1>1
  <2> QED
    BY <1>5, <2>1
<1>7. ASSUME NEW n \in 0 .. Top PROVE turn[n + 1] = TurnOfLoop(loop, turn[n])
  <2>1. n + 1 \in 0 .. N /\ n + 1 # 0 /\ (n + 1) - 1 = n
    BY <1>1
  <2> QED
    BY <1>5, <2>1
<1>8. LoopTurns(loop, t, node, of, turn)
  BY <1>2, <1>6, <1>7 DEF LoopTurns, start
<1> QED
  BY <1>8

-----------------------------------------------------------------------------
(* The tree: its nodes N, and lo and hi, the addresses between which a node *)
(* and those below it are.                                                  *)

Trees == [root : Keys \cup {0}, child : [Sides -> [Keys -> Keys \cup {0}]],
          parent : [Keys -> Keys \cup {0}], red : [Keys -> BOOLEAN],
          high : [Keys -> Nat], max : [Keys -> Nat]]

Span(lo, hi, n, k) == lo[n] < k /\ k < hi[n]

Ranged(N, lo, hi) ==
  /\ N \subseteq Keys /\ lo \in [Keys -> Nat] /\ hi \in [Keys -> Nat]
  /\ \A n \in N : Span(lo, hi, n, n) /\ hi[n] <= Top + 1

(* Of two nodes one is on a side of the other, or both are apart.           *)
Laminar(N, lo, hi) ==
  \A m, n \in N : m < n => \/ hi[m] <= lo[n]
                           \/ lo[n] <= lo[m] /\ hi[m] <= n
                           \/ m <= lo[n] /\ hi[n] <= hi[m]

Rooted(t, N, lo, hi) ==
  IF t.root = 0 THEN N = {}
  ELSE t.root \in N /\ t.parent[t.root] = 0 /\ lo[t.root] = 0 /\ hi[t.root] = Top + 1

(* What is below a node on a side: a node that has all of its range there.  *)
Lower(lo, n, s) == IF s = "left" THEN lo[n] ELSE n
Upper(hi, n, s) == IF s = "left" THEN n ELSE hi[n]

Linked(t, N, lo, hi, n, s) ==
  LET c == t.child[s][n] IN
    IF c = 0 THEN \A k \in N : ~(Lower(lo, n, s) < k /\ k < Upper(hi, n, s))
    ELSE c \in N /\ t.parent[c] = n /\ lo[c] = Lower(lo, n, s) /\ hi[c] = Upper(hi, n, s)

AllLinked(t, N, lo, hi) == \A n \in N, s \in Sides : Linked(t, N, lo, hi, n, s)

Hanging(t, N) ==
  \A n \in N : n # t.root => /\ t.parent[n] \in N
                             /\ t.child[Side(n, t.parent[n])][t.parent[n]] = n

Unlinked(t, N) == \A s \in Sides, k \in Keys \ N : t.child[s][k] = 0

Shape(t, N, lo, hi) ==
  /\ t \in Trees
  /\ Ranged(N, lo, hi) /\ Laminar(N, lo, hi)
  /\ Rooted(t, N, lo, hi) /\ AllLinked(t, N, lo, hi)
  /\ Hanging(t, N) /\ Unlinked(t, N)

(* The greatest address of n is that of a node in its range, and none but   *)
(* key, above which it may not be known yet, has a greater one there.       *)
MaxAt(t, N, lo, hi, key, n) ==
  /\ \A k \in N : Span(lo, hi, n, k) /\ (k # key \/ n = key) => t.high[k] <= t.max[n]
  /\ \E k \in N : Span(lo, hi, n, k) /\ t.high[k] = t.max[n]

MaxAll(t, N, lo, hi, key) == \A n \in N : MaxAt(t, N, lo, hi, key, n)

(* The links, colours and addresses of t.                                   *)
SameLinks(t, u) ==
  u.root = t.root /\ u.child = t.child /\ u.parent = t.parent /\ u.red = t.red /\ u.high = t.high

LEMMA KeysAre == Keys \subseteq 1 .. Top /\ Top \in Nat /\ Keys \subseteq Nat /\ 0 \notin Keys
<1>1. \A k \in Keys : k \in 0 .. Top /\ k # 0
  BY IntervalAssumption DEF Keys
<1> QED
  BY <1>1, IntervalAssumption

LEMMA SidesAre == Sides = {"left", "right"} /\ Other("left") = "right" /\ Other("right") = "left"
  BY DEF Sides, Other

LEMMA TreeIs ==
  ASSUME NEW t \in Trees
  PROVE  /\ t.root \in Keys \cup {0} /\ t.child \in [Sides -> [Keys -> Keys \cup {0}]]
         /\ t.parent \in [Keys -> Keys \cup {0}] /\ t.red \in [Keys -> BOOLEAN]
         /\ t.high \in [Keys -> Nat] /\ t.max \in [Keys -> Nat]
  BY DEF Trees

-----------------------------------------------------------------------------
(* sysprof_symbol_cache_node_augment()                                      *)

NodeAugmented(t, u, n) ==
  /\ u \in Trees /\ SameLinks(t, u)
  /\ \A k \in Keys : k # n => u.max[k] = t.max[k]
  /\ u.max[n] >= t.high[n]
  /\ \A s \in Sides : t.child[s][n] # 0 => u.max[n] >= t.max[t.child[s][n]]
  /\ \/ u.max[n] = t.high[n]
     \/ \E s \in Sides : t.child[s][n] # 0 /\ u.max[n] = t.max[t.child[s][n]]

(* Of a few numbers one is the greatest.                                    *)
LEMMA MaxOfThree ==
  ASSUME NEW S \in SUBSET Nat, NEW a \in Nat, NEW b \in Nat, NEW c \in Nat,
         a \in S, S \subseteq {a, b, c}
  PROVE  Max(S) \in S /\ \A x \in S : x <= Max(S)
<1>1. \E m \in S : \A x \in S : m >= x
  <2>1. \A x \in S : x = a \/ x = b \/ x = c
    OBVIOUS
  <2>2. b \in S \/ b \notin S
    OBVIOUS
  <2>3. c \in S \/ c \notin S
    OBVIOUS
  <2> QED
    BY <2>1, <2>2, <2>3
<1> DEFINE m == CHOOSE m \in S : \A x \in S : m >= x
<1>2. m \in S /\ \A x \in S : m >= x
  BY <1>1
<1>3. Max(S) = m
  BY DEF Max
<1> HIDE DEF m
<1> QED
  BY <1>2, <1>3

LEMMA AugmentIs ==
  ASSUME NEW t \in Trees, NEW n \in Keys
  PROVE  NodeAugmented(t, AugmentNode(t, n), n)
<1> DEFINE l == t.child["left"][n]
           r == t.child["right"][n]
           C == {t.child[s][n] : s \in Sides} \ {0}
           S == {t.high[n]} \cup {t.max[c] : c \in C}
           u == AugmentNode(t, n)
<1>1. l \in Keys \cup {0} /\ r \in Keys \cup {0} /\ t.high[n] \in Nat
      /\ t.max \in [Keys -> Nat]
  BY TreeIs DEF Sides
<1>2. \A c \in C : c \in Keys /\ (c = l \/ c = r)
  BY <1>1 DEF Sides
<1>3. (l # 0 => l \in C) /\ (r # 0 => r \in C)
  BY DEF Sides
<1> HIDE DEF C
<1>4. S \in SUBSET Nat /\ t.high[n] \in S
  BY <1>1, <1>2
<1> DEFINE b == IF l = 0 THEN t.high[n] ELSE t.max[l]
           c == IF r = 0 THEN t.high[n] ELSE t.max[r]
<1>5. b \in Nat /\ c \in Nat
  BY <1>1
<1>6. S \subseteq {t.high[n], b, c}
  BY <1>2, KeysAre
<1> HIDE DEF b, c
<1> DEFINE v == Max(S)
<1>7. v \in S /\ \A x \in S : x <= v
  <2> HIDE DEF S
  <2> QED
    BY <1>1, <1>4, <1>5, <1>6, MaxOfThree
<1>8. u = [t EXCEPT !.max[n] = v]
  BY KeysAre DEF AugmentNode, C
<1>9. v \in Nat /\ v >= t.high[n] /\ (l # 0 => v >= t.max[l]) /\ (r # 0 => v >= t.max[r])
      /\ (v = t.high[n] \/ \E k \in C : v = t.max[k])
  BY <1>3, <1>4, <1>7
<1> HIDE DEF v, u, S
<1>10. u \in Trees /\ SameLinks(t, u) /\ u.max[n] = v /\ \A k \in Keys : k # n => u.max[k] = t.max[k]
  BY <1>8, <1>9 DEF Trees, SameLinks
<1>11. \A s \in Sides : t.child[s][n] = l \/ t.child[s][n] = r
  BY DEF Sides
<1>12. v = t.high[n] \/ \E s \in Sides : t.child[s][n] # 0 /\ v = t.max[t.child[s][n]]
  <2>1. ASSUME NEW k \in C, v = t.max[k] PROVE \E s \in Sides : t.child[s][n] # 0 /\ v = t.max[t.child[s][n]]
    BY <1>2, <2>1, KeysAre DEF Sides
  <2> QED
    BY <1>9, <2>1
<1>13. \A s \in Sides : t.child[s][n] # 0 => v >= t.max[t.child[s][n]]
  BY <1>9, <1>11
<1>14. NodeAugmented(t, u, n)
  BY <1>9, <1>10, <1>12, <1>13 DEF NodeAugmented
<1> QED
  BY <1>14 DEF u

(* Where the children are right, a node is once it was augmented; the others*)
(* stay right.                                                              *)
RightBelow(t, N, lo, hi, key, n) ==
  \A s \in Sides : t.child[s][n] # 0 => MaxAt(t, N, lo, hi, key, t.child[s][n])
RightBut(t, N, lo, hi, key, n, X) ==
  \A k \in X : k \in N /\ (k # n => MaxAt(t, N, lo, hi, key, k))
RightIn(t, N, lo, hi, key, X) ==
  Shape(t, N, lo, hi) /\ \A k \in X : MaxAt(t, N, lo, hi, key, k)

LEMMA AugmentRight ==
  ASSUME NEW t, NEW u, NEW N, NEW lo, NEW hi, NEW key, NEW n \in N, NEW X,
         Shape(t, N, lo, hi), NodeAugmented(t, u, n),
         RightBelow(t, N, lo, hi, key, n), RightBut(t, N, lo, hi, key, n, X)
  PROVE  RightIn(u, N, lo, hi, key, X)
<1>1. t \in Trees /\ u \in Trees /\ N \subseteq Keys /\ N \subseteq Nat
  BY KeysAre DEF Shape, NodeAugmented, Ranged
<1>2. lo \in [Keys -> Nat] /\ hi \in [Keys -> Nat] /\ t.high \in [Keys -> Nat]
      /\ t.max \in [Keys -> Nat] /\ u.max \in [Keys -> Nat]
  BY <1>1, TreeIs DEF Shape, Ranged
<1>3. Shape(u, N, lo, hi)
  BY <1>1 DEF Shape, NodeAugmented, SameLinks, Rooted, AllLinked, Linked, Hanging, Unlinked
<1> DEFINE l == t.child["left"][n]
           r == t.child["right"][n]
<1>4. /\ l # 0 => l \in N /\ lo[l] = lo[n] /\ hi[l] = n /\ MaxAt(t, N, lo, hi, key, l) /\ u.max[n] >= t.max[l]
      /\ r # 0 => r \in N /\ lo[r] = n /\ hi[r] = hi[n] /\ MaxAt(t, N, lo, hi, key, r) /\ u.max[n] >= t.max[r]
  BY SidesAre DEF Shape, AllLinked, Linked, Lower, Upper, NodeAugmented, RightBelow
<1>5. /\ l = 0 => \A k \in N : ~(lo[n] < k /\ k < n)
      /\ r = 0 => \A k \in N : ~(n < k /\ k < hi[n])
  BY SidesAre DEF Shape, AllLinked, Linked, Lower, Upper
<1>6. Span(lo, hi, n, n)
  BY DEF Shape, Ranged
<1>7. u.max[n] >= t.high[n] /\ u.high = t.high /\ \A k \in Keys : k # n => u.max[k] = t.max[k]
  BY DEF NodeAugmented, SameLinks
<1>8. u.max[n] = t.high[n] \/ (l # 0 /\ u.max[n] = t.max[l]) \/ (r # 0 /\ u.max[n] = t.max[r])
  BY DEF NodeAugmented, Sides
<1> HIDE DEF l, r
<1>9. ASSUME NEW k \in N, Span(lo, hi, n, k), k # key \/ n = key PROVE u.high[k] <= u.max[n]
  <2>1. k \in Nat /\ n \in Nat /\ k \in Keys /\ n \in Keys
    BY <1>1
  <2>2. CASE k = n
    BY <1>7, <2>2, <2>1, <1>2
  <2>3. CASE k < n
    <3>1. l # 0 /\ Span(lo, hi, l, k)
      BY <1>4, <1>5, <1>9, <2>3 DEF Span
    <3>0. k # key
      BY <1>9, <2>1, <2>3
    <3>2. t.high[k] <= t.max[l] /\ l \in Keys
      BY <1>1, <1>4, <3>0, <3>1 DEF MaxAt
    <3>3. t.high[k] \in Nat /\ t.max[l] \in Nat /\ u.max[n] \in Nat
      BY <1>2, <2>1, <3>2
    <3> QED
      BY <1>4, <1>7, <3>1, <3>2, <3>3
  <2>4. CASE n < k
    <3>1. r # 0 /\ Span(lo, hi, r, k)
      BY <1>4, <1>5, <1>9, <2>1, <2>4 DEF Span
    <3>0. k # key
      BY <1>9, <2>1, <2>4
    <3>2. t.high[k] <= t.max[r] /\ r \in Keys
      BY <1>1, <1>4, <3>0, <3>1 DEF MaxAt
    <3>3. t.high[k] \in Nat /\ t.max[r] \in Nat /\ u.max[n] \in Nat
      BY <1>2, <2>1, <3>2
    <3> QED
      BY <1>4, <1>7, <3>1, <3>2, <3>3
  <2> QED
    BY <2>1, <2>2, <2>3, <2>4
<1>10. \E k \in N : Span(lo, hi, n, k) /\ u.high[k] = u.max[n]
  <2>1. CASE u.max[n] = t.high[n]
    BY <1>6, <1>7, <2>1
  <2>2. CASE l # 0 /\ u.max[n] = t.max[l]
    <3>1. PICK k \in N : Span(lo, hi, l, k) /\ t.high[k] = t.max[l]
      BY <1>4, <2>2 DEF MaxAt
    <3>2. k \in Nat /\ n \in Nat /\ lo[n] \in Nat /\ hi[n] \in Nat
      BY <1>1, <1>2
    <3>3. Span(lo, hi, n, k)
      BY <1>4, <1>6, <2>2, <3>1, <3>2 DEF Span
    <3> QED
      BY <1>7, <2>2, <3>1, <3>3
  <2>3. CASE r # 0 /\ u.max[n] = t.max[r]
    <3>1. PICK k \in N : Span(lo, hi, r, k) /\ t.high[k] = t.max[r]
      BY <1>4, <2>3 DEF MaxAt
    <3>2. k \in Nat /\ n \in Nat /\ lo[n] \in Nat /\ hi[n] \in Nat
      BY <1>1, <1>2
    <3>3. Span(lo, hi, n, k)
      BY <1>4, <1>6, <2>3, <3>1, <3>2 DEF Span
    <3> QED
      BY <1>7, <2>3, <3>1, <3>3
  <2> QED
    BY <1>8, <2>1, <2>2, <2>3
<1>11. MaxAt(u, N, lo, hi, key, n)
  BY <1>9, <1>10 DEF MaxAt
<1>12. ASSUME NEW k \in X PROVE MaxAt(u, N, lo, hi, key, k)
  <2>1. CASE k = n
    BY <1>11, <2>1
  <2>2. CASE k # n
    <3>1. MaxAt(t, N, lo, hi, key, k) /\ k \in Keys
      BY <1>1, <2>2 DEF RightBut
    <3>2. u.max[k] = t.max[k]
      BY <1>7, <2>2, <3>1
    <3> QED
      BY <1>7, <3>1, <3>2 DEF MaxAt
  <2> QED
    BY <2>1, <2>2
<1> QED
  BY <1>3, <1>12 DEF RightIn

-----------------------------------------------------------------------------
(* RB_ROTATE_LEFT, RB_ROTATE_RIGHT.                                         *)

(* The links after a rotation.                                              *)
Turned(t, u, n, m, inner, side) ==
  /\ u \in Trees /\ u.red = t.red /\ u.high = t.high
  /\ u.root = IF t.parent[n] = 0 THEN m ELSE t.root
  /\ \A k \in Keys : u.parent[k] = IF k = inner THEN n ELSE IF k = n THEN m
                                   ELSE IF k = m THEN t.parent[n] ELSE t.parent[k]
  /\ \A s \in Sides, k \in Keys :
       u.child[s][k] = IF k = m /\ s = side THEN n
                       ELSE IF k = n /\ s = Other(side) THEN inner
                       ELSE IF k = t.parent[n] /\ t.child[s][k] = n THEN m ELSE t.child[s][k]

LoAfter(lo, n, m, side) ==
  IF side = "left" THEN [lo EXCEPT ![m] = lo[n]] ELSE [lo EXCEPT ![n] = m]
HiAfter(hi, n, m, side) ==
  IF side = "left" THEN [hi EXCEPT ![n] = m] ELSE [hi EXCEPT ![m] = hi[n]]

Relinked(t, n, m, inner, side) ==
  LET t1 == [Replace(t, n, m) EXCEPT !.child[Other(side)][n] = inner, !.child[side][m] = n,
                                     !.parent[m] = t.parent[n], !.parent[n] = m]
  IN  IF inner = 0 THEN t1 ELSE [t1 EXCEPT !.parent[inner] = n]

LEMMA ReplaceIs ==
  ASSUME NEW t \in Trees, NEW n \in Keys, NEW m \in Keys
  PROVE  /\ Replace(t, n, m) \in Trees
         /\ Replace(t, n, m).root = IF t.parent[n] = 0 THEN m ELSE t.root
         /\ Replace(t, n, m).parent = t.parent /\ Replace(t, n, m).red = t.red
         /\ Replace(t, n, m).high = t.high /\ Replace(t, n, m).max = t.max
         /\ \A s \in Sides, k \in Keys : Replace(t, n, m).child[s][k] =
              IF k = t.parent[n] /\ t.child[s][k] = n THEN m ELSE t.child[s][k]
<1>1. t.parent[n] \in Keys \cup {0}
  BY TreeIs
<1>2. CASE t.parent[n] = 0
  BY <1>2, KeysAre DEF Replace, Trees
<1>3. CASE t.parent[n] # 0
  <2> DEFINE p == t.parent[n]
             c == [s \in Sides |-> [t.child[s] EXCEPT ![p] = IF @ = n THEN m ELSE @]]
  <2>1. Replace(t, n, m) = [t EXCEPT !.child = c]
    BY <1>3 DEF Replace
  <2>2. c \in [Sides -> [Keys -> Keys \cup {0}]]
    BY <1>1, <1>3, TreeIs
  <2>3. \A s \in Sides, k \in Keys : c[s][k] = IF k = p /\ t.child[s][k] = n THEN m ELSE t.child[s][k]
    BY <1>1, <1>3, TreeIs
  <2> DEFINE r == [t EXCEPT !.child = c]
  <2> HIDE DEF c
  <2>4. r \in Trees /\ r.root = t.root /\ r.parent = t.parent /\ r.red = t.red
        /\ r.high = t.high /\ r.max = t.max /\ r.child = c
    BY <2>2 DEF Trees
  <2> HIDE DEF r
  <2>5. Replace(t, n, m) = r
    BY <2>1 DEF r
  <2> QED
    BY <1>3, <2>3, <2>4, <2>5
<1> QED
  BY <1>2, <1>3

Relinks(t, u, n, m, inner, side) == Turned(t, u, n, m, inner, side) /\ u.max = t.max

LEMMA RelinkedIs ==
  ASSUME NEW t \in Trees, NEW n \in Keys, NEW m \in Keys, NEW inner \in Keys \cup {0},
         NEW side \in Sides, n # m
  PROVE  Relinks(t, Relinked(t, n, m, inner, side), n, m, inner, side)
<1> DEFINE r == Replace(t, n, m)
           c == [[r.child EXCEPT ![Other(side)][n] = inner] EXCEPT ![side][m] = n]
           q == [[r.parent EXCEPT ![m] = t.parent[n]] EXCEPT ![n] = m]
           q2 == IF inner = 0 THEN q ELSE [q EXCEPT ![inner] = n]
           u == Relinked(t, n, m, inner, side)
<1>1. r \in Trees /\ r.root = (IF t.parent[n] = 0 THEN m ELSE t.root) /\ r.parent = t.parent
      /\ r.red = t.red /\ r.high = t.high /\ r.max = t.max
      /\ \A s \in Sides, k \in Keys : r.child[s][k] =
              IF k = t.parent[n] /\ t.child[s][k] = n THEN m ELSE t.child[s][k]
  BY ReplaceIs
<1> DEFINE t1 == [r EXCEPT !.child[Other(side)][n] = inner, !.child[side][m] = n,
                           !.parent[m] = t.parent[n], !.parent[n] = m]
           t2 == IF inner = 0 THEN t1 ELSE [t1 EXCEPT !.parent[inner] = n]
<1>2. u = t2
  BY DEF Relinked
<1> HIDE DEF r
<1>3. Other(side) \in Sides /\ Other(side) # side /\ r.child \in [Sides -> [Keys -> Keys \cup {0}]]
      /\ r.parent \in [Keys -> Keys \cup {0}] /\ t.parent[n] \in Keys \cup {0}
  BY <1>1, TreeIs DEF Sides, Other
<1>4. c \in [Sides -> [Keys -> Keys \cup {0}]]
  BY <1>3
<1>5. \A s \in Sides, k \in Keys :
        c[s][k] = IF k = m /\ s = side THEN n
                  ELSE IF k = n /\ s = Other(side) THEN inner ELSE r.child[s][k]
  BY <1>3
<1>6. q2 \in [Keys -> Keys \cup {0}]
  BY <1>3
<1>7. \A k \in Keys : q2[k] = IF k = inner THEN n ELSE IF k = n THEN m
                              ELSE IF k = m THEN t.parent[n] ELSE t.parent[k]
  BY <1>1, <1>3, KeysAre
<1> HIDE DEF c, q2
<1>8. u \in Trees /\ u.red = r.red /\ u.high = r.high /\ u.max = r.max /\ u.root = r.root
      /\ u.child = c /\ u.parent = q2
  <2>1. t1 = [[r EXCEPT !.child = c] EXCEPT !.parent = q]
    BY <1>1 DEF Trees, c
  <2>2. t2 = [[r EXCEPT !.child = c] EXCEPT !.parent = q2]
    <3>1. inner = 0 => q2 = q
      BY DEF q2
    <3>2. inner # 0 => q2 = [q EXCEPT ![inner] = n]
      BY DEF q2
    <3> DEFINE r1 == [r EXCEPT !.child = c]
    <3>3. r1 = [r EXCEPT !.child = c]
      OBVIOUS
    <3>4. t1 = [r1 EXCEPT !.parent = q]
      BY <2>1
    <3> HIDE DEF q, c, q2, t1, r1
    <3>5. r1 \in [root : Keys \cup {0}, child : [Sides -> [Keys -> Keys \cup {0}]],
                  parent : [Keys -> Keys \cup {0}], red : [Keys -> BOOLEAN],
                  high : [Keys -> Nat], max : [Keys -> Nat]]
      BY <1>1, <1>4, <3>3 DEF Trees
    <3>6. inner # 0 => [t1 EXCEPT !.parent[inner] = n] = [r1 EXCEPT !.parent = q2]
      BY <3>2, <3>4, <3>5
    <3>7. t2 = [r1 EXCEPT !.parent = q2]
      BY <3>1, <3>4, <3>6
    <3> QED
      BY <3>7 DEF r1
  <2> HIDE DEF t2, q, u
  <2> QED
    BY <1>1, <1>2, <1>4, <1>6, <2>2 DEF Trees
<1> HIDE DEF u
<1>9. Turned(t, u, n, m, inner, side)
  BY <1>1, <1>5, <1>7, <1>8 DEF Turned
<1> QED
  BY <1>1, <1>8, <1>9 DEF u, Relinks

LEMMA RotateIs ==
  ASSUME NEW t, NEW n, NEW side, NEW m, NEW inner,
         m = t.child[Other(side)][n], inner = t.child[side][m]
  PROVE  Rotate(t, n, side) =
           AugmentNode(AugmentNode(AugmentNode(Relinked(t, n, m, inner, side), n), m),
                       Relinked(t, n, m, inner, side).parent[m])
  BY DEF Rotate, Relinked

(* A node and its parent.                                                   *)
IsParent(t, N, lo, hi, n, p) ==
  /\ p \in N
  /\ \/ t.child["left"][p] = n /\ n < p /\ lo[n] = lo[p] /\ hi[n] = p
     \/ t.child["right"][p] = n /\ p < n /\ lo[n] = p /\ hi[n] = hi[p]

LEMMA ParentIs ==
  ASSUME NEW t, NEW N, NEW lo, NEW hi, NEW n \in N, NEW p,
         Shape(t, N, lo, hi), n # t.root, p = t.parent[n]
  PROVE  IsParent(t, N, lo, hi, n, p)
<1>1. p \in N /\ t.child[Side(n, p)][p] = n
  BY DEF Shape, Hanging
<1>2. n \in Nat /\ p \in Nat /\ n # 0 /\ Span(lo, hi, n, n)
  BY <1>1, KeysAre DEF Shape, Ranged
<1>3. \/ t.child["left"][p] = n /\ lo[n] = lo[p] /\ hi[n] = p
      \/ t.child["right"][p] = n /\ lo[n] = p /\ hi[n] = hi[p]
  <2>1. t.child["left"][p] = n \/ t.child["right"][p] = n
    BY <1>1 DEF Side
  <2>2. AllLinked(t, N, lo, hi)
    BY DEF Shape
  <2> QED
    BY <1>1, <1>2, <2>1, <2>2, SidesAre DEF AllLinked, Linked, Lower, Upper
<1> QED
  BY <1>1, <1>2, <1>3 DEF Span, IsParent

(* What is known of a node, one of its children and the one below that.     *)
IsChild(t, N, lo, hi, n, s, c) ==
  /\ c \in N /\ t.parent[c] = n
  /\ s = "left" => lo[c] = lo[n] /\ hi[c] = n /\ c < n
  /\ s = "right" => lo[c] = n /\ hi[c] = hi[n] /\ n < c
  /\ c # n /\ c # t.root /\ t.parent[n] # n /\ t.parent[n] # c

LEMMA ChildIs ==
  ASSUME NEW t, NEW N, NEW lo, NEW hi, NEW n \in N, NEW s \in Sides, NEW c,
         Shape(t, N, lo, hi), c = t.child[s][n], c # 0
  PROVE  IsChild(t, N, lo, hi, n, s, c)
<1>0. t.root \in N
  BY DEF Shape, Rooted
<1>1. c \in N /\ t.parent[c] = n
  BY SidesAre DEF Shape, AllLinked, Linked, Lower, Upper
<1>2. c \in Nat /\ n \in Nat /\ Span(lo, hi, c, c) /\ n # 0 /\ lo[n] < n /\ n < hi[n]
  BY <1>1, KeysAre DEF Shape, Ranged, Span
<1>3. /\ s = "left" => lo[c] = lo[n] /\ hi[c] = n
      /\ s = "right" => lo[c] = n /\ hi[c] = hi[n]
  BY SidesAre DEF Shape, AllLinked, Linked, Lower, Upper
<1>4. /\ s = "left" => c < n
      /\ s = "right" => n < c
  BY <1>2, <1>3 DEF Span
<1>5. c # n
  BY <1>2, <1>4, SidesAre
<1>6. c # t.root
  <2>1. t.parent[t.root] = 0
    BY <1>0, KeysAre DEF Shape, Rooted, Ranged
  <2> QED
    BY <1>1, <1>2, <2>1
<1>7. t.parent[n] # n /\ t.parent[n] # c
  <2>1. CASE n = t.root
    BY <1>1, <1>2, <2>1, KeysAre DEF Shape, Rooted, Ranged
  <2>2. CASE n # t.root
    <3> DEFINE p == t.parent[n]
    <3>1. /\ p \in N
          /\ \/ n < p /\ lo[n] = lo[p] /\ hi[n] = p
             \/ p < n /\ lo[n] = p /\ hi[n] = hi[p]
      BY <2>2, ParentIs DEF IsParent
    <3>2. p # n
      BY <1>2, <3>1
    <3>3. p # c
      BY <1>2, <1>3, <1>4, <3>1, SidesAre
    <3> QED
      BY <3>2, <3>3
  <2> QED
    BY <2>1, <2>2
<1> QED
  BY <1>1, <1>3, <1>4, <1>5, <1>6, <1>7 DEF IsChild

(* The ranges after a rotation.                                             *)
LEMMA TurnedRanges ==
  ASSUME NEW t, NEW N, NEW lo, NEW hi, NEW n \in N, NEW side \in Sides, NEW m,
         m = t.child[Other(side)][n], m # 0, Shape(t, N, lo, hi)
  PROVE  Ranged(N, LoAfter(lo, n, m, side), HiAfter(hi, n, m, side))
         /\ Laminar(N, LoAfter(lo, n, m, side), HiAfter(hi, n, m, side))
<1> DEFINE lo2 == LoAfter(lo, n, m, side)
           hi2 == HiAfter(hi, n, m, side)
<1>1. Other(side) \in Sides /\ (side = "left" <=> Other(side) = "right")
      /\ (side = "right" <=> Other(side) = "left") /\ (side = "left" \/ side = "right")
  BY SidesAre
<1>2. /\ m \in N
      /\ side = "right" => lo[m] = lo[n] /\ hi[m] = n /\ m < n
      /\ side = "left" => lo[m] = n /\ hi[m] = hi[n] /\ n < m
      /\ m # n
  <2>1. IsChild(t, N, lo, hi, n, Other(side), m)
    BY <1>1, ChildIs
  <2> QED
    BY <1>1, <2>1 DEF IsChild
<1>3. N \subseteq Keys /\ N \subseteq Nat /\ lo \in [Keys -> Nat] /\ hi \in [Keys -> Nat] /\ Top \in Nat
  BY KeysAre DEF Shape, Ranged
<1>4. \A k \in N : lo[k] < k /\ k < hi[k] /\ hi[k] <= Top + 1 /\ lo[k] \in Nat /\ hi[k] \in Nat
  BY <1>3 DEF Shape, Ranged, Span
<1>5. \A a, b \in N : a < b => \/ hi[a] <= lo[b]
                               \/ lo[b] <= lo[a] /\ hi[a] <= b
                               \/ a <= lo[b] /\ hi[b] <= hi[a]
  BY DEF Shape, Laminar
<1>6. CASE side = "left"
  <2>1. lo2 = [lo EXCEPT ![m] = lo[n]] /\ hi2 = [hi EXCEPT ![n] = m]
    BY <1>6 DEF LoAfter, HiAfter
  <2> HIDE DEF lo2, hi2
  <2>2. lo2 \in [Keys -> Nat] /\ hi2 \in [Keys -> Nat] /\ lo2[m] = lo[n] /\ hi2[n] = m
        /\ (\A k \in N : k # m => lo2[k] = lo[k]) /\ (\A k \in N : k # n => hi2[k] = hi[k])
    BY <1>2, <1>3, <2>1
  <2>3. \A k \in N : lo2[k] < k /\ k < hi2[k] /\ hi2[k] <= Top + 1
    BY <1>2, <1>3, <1>4, <1>6, <2>2
  <2>4. ASSUME NEW a \in N, NEW b \in N, a < b
        PROVE  \/ hi2[a] <= lo2[b]
               \/ lo2[b] <= lo2[a] /\ hi2[a] <= b
               \/ a <= lo2[b] /\ hi2[b] <= hi2[a]
    <3>1. CASE a \notin {n, m} /\ b \notin {n, m}
      BY <1>5, <2>2, <2>4, <3>1
    <3>2. CASE a \in {n, m} /\ b \in {n, m}
      BY <1>2, <1>3, <1>4, <1>6, <2>2, <2>4, <3>2
    <3>3. CASE a \in {n, m} /\ b \notin {n, m}
      BY <1>2, <1>3, <1>4, <1>5, <1>6, <2>2, <2>4, <3>3
    <3>4. CASE a \notin {n, m} /\ b \in {n, m}
      BY <1>2, <1>3, <1>4, <1>5, <1>6, <2>2, <2>4, <3>4
    <3> QED
      BY <3>1, <3>2, <3>3, <3>4
  <2> QED
    BY <1>3, <2>2, <2>3, <2>4 DEF Ranged, Laminar, Span, lo2, hi2
<1>7. CASE side = "right"
  <2>1. lo2 = [lo EXCEPT ![n] = m] /\ hi2 = [hi EXCEPT ![m] = hi[n]]
    BY <1>7 DEF LoAfter, HiAfter
  <2> HIDE DEF lo2, hi2
  <2>2. lo2 \in [Keys -> Nat] /\ hi2 \in [Keys -> Nat] /\ lo2[n] = m /\ hi2[m] = hi[n]
        /\ (\A k \in N : k # n => lo2[k] = lo[k]) /\ (\A k \in N : k # m => hi2[k] = hi[k])
    BY <1>2, <1>3, <2>1
  <2>3. \A k \in N : lo2[k] < k /\ k < hi2[k] /\ hi2[k] <= Top + 1
    BY <1>2, <1>3, <1>4, <1>7, <2>2
  <2>4. ASSUME NEW a \in N, NEW b \in N, a < b
        PROVE  \/ hi2[a] <= lo2[b]
               \/ lo2[b] <= lo2[a] /\ hi2[a] <= b
               \/ a <= lo2[b] /\ hi2[b] <= hi2[a]
    <3>1. CASE a \notin {n, m} /\ b \notin {n, m}
      BY <1>5, <2>2, <2>4, <3>1
    <3>2. CASE a \in {n, m} /\ b \in {n, m}
      BY <1>2, <1>3, <1>4, <1>7, <2>2, <2>4, <3>2
    <3>3. CASE a \in {n, m} /\ b \notin {n, m}
      BY <1>2, <1>3, <1>4, <1>5, <1>7, <2>2, <2>4, <3>3
    <3>4. CASE a \notin {n, m} /\ b \in {n, m}
      BY <1>2, <1>3, <1>4, <1>5, <1>7, <2>2, <2>4, <3>4
    <3> QED
      BY <3>1, <3>2, <3>3, <3>4
  <2> QED
    BY <1>3, <2>2, <2>3, <2>4 DEF Ranged, Laminar, Span, lo2, hi2
<1> QED
  BY <1>1, <1>6, <1>7

(* The tree has its shape after a rotation.                                 *)
LEMMA TurnedShape ==
  ASSUME NEW t, NEW u, NEW N, NEW lo, NEW hi, NEW n \in N, NEW side \in Sides, NEW m, NEW inner,
         m = t.child[Other(side)][n], m # 0, inner = t.child[side][m],
         Shape(t, N, lo, hi), Turned(t, u, n, m, inner, side)
  PROVE  Shape(u, N, LoAfter(lo, n, m, side), HiAfter(hi, n, m, side))
<1> DEFINE lo2 == LoAfter(lo, n, m, side)
           hi2 == HiAfter(hi, n, m, side)
           p == t.parent[n]
<1>1. Other(side) \in Sides /\ (side = "left" <=> Other(side) = "right")
      /\ (side = "right" <=> Other(side) = "left") /\ (side = "left" \/ side = "right")
  BY SidesAre
<1>2. /\ m \in N /\ t.parent[m] = n /\ m # n /\ m # t.root /\ p # n /\ p # m
      /\ side = "right" => lo[m] = lo[n] /\ hi[m] = n /\ m < n
      /\ side = "left" => lo[m] = n /\ hi[m] = hi[n] /\ n < m
  <2>1. IsChild(t, N, lo, hi, n, Other(side), m)
    BY <1>1, ChildIs
  <2> QED
    BY <1>1, <2>1 DEF IsChild
<1>3. inner # 0 => /\ inner \in N /\ t.parent[inner] = m /\ inner # m /\ inner # t.root /\ inner # n
                   /\ side = "left" => lo[inner] = n /\ hi[inner] = m
                   /\ side = "right" => lo[inner] = m /\ hi[inner] = n
  <2> SUFFICES ASSUME inner # 0 PROVE inner \in N /\ t.parent[inner] = m /\ inner # m /\ inner # t.root /\ inner # n
                   /\ (side = "left" => lo[inner] = n /\ hi[inner] = m)
                   /\ (side = "right" => lo[inner] = m /\ hi[inner] = n)
    OBVIOUS
  <2>1. IsChild(t, N, lo, hi, m, side, inner)
    BY <1>2, ChildIs
  <2> QED
    BY <1>2, <2>1 DEF IsChild
<1>4. N \subseteq Keys /\ N \subseteq Nat /\ lo \in [Keys -> Nat] /\ hi \in [Keys -> Nat] /\ Top \in Nat
  BY KeysAre DEF Shape, Ranged
<1>5. \A k \in N : lo[k] < k /\ k < hi[k] /\ lo[k] \in Nat /\ hi[k] \in Nat
  BY <1>4 DEF Shape, Ranged, Span
<1>6. /\ side = "left" => lo2 = [lo EXCEPT ![m] = lo[n]] /\ hi2 = [hi EXCEPT ![n] = m]
      /\ side = "right" => lo2 = [lo EXCEPT ![n] = m] /\ hi2 = [hi EXCEPT ![m] = hi[n]]
  BY DEF LoAfter, HiAfter
<1>7. Ranged(N, lo2, hi2) /\ Laminar(N, lo2, hi2)
  BY TurnedRanges
<1> HIDE DEF lo2, hi2
<1>8. /\ \A k \in N : k # m /\ k # n => lo2[k] = lo[k] /\ hi2[k] = hi[k]
      /\ lo2[m] = lo[n] /\ hi2[m] = hi[n]
      /\ side = "left" => lo2[n] = lo[n] /\ hi2[n] = m
      /\ side = "right" => lo2[n] = m /\ hi2[n] = hi[n]
  BY <1>1, <1>2, <1>4, <1>6
<1>9. n = t.root <=> p = 0
  <2>1. n # t.root => p \in N
    BY DEF Shape, Hanging
  <2>2. n = t.root => p = 0
    BY <1>4, KeysAre DEF Shape, Rooted
  <2> QED
    BY <1>4, <2>1, <2>2, KeysAre
<1>10. /\ u.root = IF n = t.root THEN m ELSE t.root
       /\ u.parent[n] = m /\ u.parent[m] = p /\ (inner # 0 => u.parent[inner] = n)
       /\ \A k \in N : k \notin {n, m, inner} => u.parent[k] = t.parent[k]
  <2>1. \A k \in Keys : u.parent[k] = IF k = inner THEN n ELSE IF k = n THEN m
                                      ELSE IF k = m THEN p ELSE t.parent[k]
    BY DEF Turned
  <2>2. u.root = IF p = 0 THEN m ELSE t.root
    BY DEF Turned
  <2> HIDE DEF p
  <2> QED
    BY <1>2, <1>3, <1>4, <1>9, <2>1, <2>2, KeysAre
<1>11. /\ \A k \in N, s \in Sides : k \notin {n, m, p} => u.child[s][k] = t.child[s][k]
       /\ u.child[side][m] = n /\ u.child[Other(side)][m] = t.child[Other(side)][m]
       /\ u.child[Other(side)][n] = inner /\ u.child[side][n] = t.child[side][n]
       /\ \A s \in Sides : p # 0 => u.child[s][p] = IF t.child[s][p] = n THEN m ELSE t.child[s][p]
  <2>1. \A s \in Sides, k \in Keys : k \in N \/ k = p =>
       u.child[s][k] = IF k = m /\ s = side THEN n
                       ELSE IF k = n /\ s = Other(side) THEN inner
                       ELSE IF k = p /\ t.child[s][k] = n THEN m ELSE t.child[s][k]
    BY DEF Turned
  <2>2. p # 0 => p \in Keys
    BY <1>4, TreeIs DEF Shape
  <2>3. side # Other(side)
    BY <1>1
  <2> HIDE DEF p
  <2> QED
    BY <1>1, <1>2, <1>4, <2>1, <2>2, <2>3
<1>12. \A k \in N, s \in Sides : t.child[s][k] # 0 => t.child[s][k] \in N /\ t.parent[t.child[s][k]] = k
  BY DEF Shape, AllLinked, Linked
<1>13. u \in Trees
  BY DEF Turned
<1>14. Rooted(u, N, lo2, hi2)
  <2>1. t.root \in N /\ t.parent[t.root] = 0 /\ lo[t.root] = 0 /\ hi[t.root] = Top + 1 /\ t.root # 0
    BY <1>4 DEF Shape, Rooted
  <2>2. CASE n = t.root
    BY <1>2, <1>4, <1>8, <1>9, <1>10, <2>1, <2>2, KeysAre DEF Rooted
  <2>3. CASE n # t.root
    BY <1>2, <1>3, <1>8, <1>10, <2>1, <2>3 DEF Rooted
  <2> QED
    BY <2>2, <2>3
<1>15. \A k \in N, s \in Sides : Linked(t, N, lo, hi, k, s)
  BY DEF Shape, AllLinked
<1>16. \A k \in N, s \in Sides : k \notin {n, m} => Lower(lo2, k, s) = Lower(lo, k, s) /\ Upper(hi2, k, s) = Upper(hi, k, s)
  BY <1>8 DEF Lower, Upper
<1>17. \A c \in N : c \notin {n, m, inner} => u.parent[c] = t.parent[c] /\ lo2[c] = lo[c] /\ hi2[c] = hi[c]
  BY <1>8, <1>10
(* A child that n, m and inner are not is linked as it was.                 *)
<1>18. ASSUME NEW k \in N, NEW s \in Sides, u.child[s][k] = t.child[s][k], t.child[s][k] \notin {n, m, inner},
              Lower(lo2, k, s) = Lower(lo, k, s), Upper(hi2, k, s) = Upper(hi, k, s)
       PROVE  Linked(u, N, lo2, hi2, k, s)
  <2> DEFINE c == t.child[s][k]
  <2>1. Linked(t, N, lo, hi, k, s) /\ c = t.child[s][k]
    BY <1>15
  <2>2. u.child[s][k] = c /\ c \notin {n, m, inner}
    BY <1>18
  <2> HIDE DEF c, lo2, hi2
  <2>3. CASE c = 0
    BY <1>18, <2>1, <2>2, <2>3 DEF Linked
  <2>4. CASE c # 0
    <3>1. c \in N /\ t.parent[c] = k /\ lo[c] = Lower(lo, k, s) /\ hi[c] = Upper(hi, k, s)
      BY <2>1, <2>4 DEF Linked
    <3>2. u.parent[c] = t.parent[c] /\ lo2[c] = lo[c] /\ hi2[c] = hi[c]
      BY <1>17, <2>2, <3>1
    <3> QED
      BY <1>18, <2>2, <2>4, <3>1, <3>2 DEF Linked
  <2> QED
    BY <2>3, <2>4
<1>19. Linked(u, N, lo2, hi2, m, side)
  <2>1. lo2[n] = Lower(lo2, m, side) /\ hi2[n] = Upper(hi2, m, side)
    BY <1>1, <1>8 DEF Lower, Upper
  <2> QED
    BY <1>4, <1>10, <1>11, <2>1, KeysAre DEF Linked
<1>20. Linked(u, N, lo2, hi2, m, Other(side))
  <2> DEFINE c == t.child[Other(side)][m]
  <2>1. Lower(lo2, m, Other(side)) = Lower(lo, m, Other(side)) /\ Upper(hi2, m, Other(side)) = Upper(hi, m, Other(side))
    BY <1>1, <1>2, <1>8 DEF Lower, Upper
  <2>2. c # 0 => t.parent[c] = m /\ lo[c] = Lower(lo, m, Other(side)) /\ hi[c] = Upper(hi, m, Other(side))
    BY <1>1, <1>2, <1>15 DEF Linked
  <2>3. c # n /\ c # m /\ n # 0 /\ m # 0
    BY <1>2, <1>4, <2>2, KeysAre
  <2>4. c # inner \/ c = 0
    BY <1>1, <1>2, <1>3, <1>4, <1>5, <2>2, KeysAre DEF Lower, Upper
  <2>5. CASE c # 0
    BY <1>1, <1>2, <1>11, <1>18, <2>1, <2>3, <2>4, <2>5
  <2>6. CASE c = 0
    BY <1>1, <1>2, <1>11, <1>15, <2>1, <2>6 DEF Linked
  <2> QED
    BY <2>5, <2>6
<1>21. Linked(u, N, lo2, hi2, n, side)
  <2> DEFINE c == t.child[side][n]
  <2>1. Lower(lo2, n, side) = Lower(lo, n, side) /\ Upper(hi2, n, side) = Upper(hi, n, side)
    BY <1>1, <1>2, <1>8 DEF Lower, Upper
  <2>2. c # 0 => t.parent[c] = n /\ lo[c] = Lower(lo, n, side) /\ hi[c] = Upper(hi, n, side)
    BY <1>1, <1>2, <1>15 DEF Linked
  <2>3. c # n /\ n # 0 /\ m # 0
    BY <1>2, <1>4, <2>2, KeysAre
  <2>4. c # m
    BY <1>1, <1>2, <1>4, <1>5, <2>2, <2>3 DEF Lower, Upper
  <2>5. c # inner \/ c = 0
    BY <1>2, <1>3, <2>2
  <2>6. CASE c # 0
    BY <1>1, <1>2, <1>11, <1>18, <2>1, <2>3, <2>4, <2>5, <2>6
  <2>7. CASE c = 0
    BY <1>1, <1>2, <1>11, <1>15, <2>1, <2>7 DEF Linked
  <2> QED
    BY <2>6, <2>7
<1>22. Linked(u, N, lo2, hi2, n, Other(side))
  <2>1. Lower(lo2, n, Other(side)) = Lower(lo, m, side) /\ Upper(hi2, n, Other(side)) = Upper(hi, m, side)
    BY <1>1, <1>2, <1>8 DEF Lower, Upper
  <2>2. IF inner = 0 THEN \A k \in N : ~(Lower(lo, m, side) < k /\ k < Upper(hi, m, side))
        ELSE inner \in N /\ lo[inner] = Lower(lo, m, side) /\ hi[inner] = Upper(hi, m, side)
    BY <1>2, <1>15 DEF Linked
  <2>3. inner # 0 => lo2[inner] = lo[inner] /\ hi2[inner] = hi[inner] /\ u.parent[inner] = n
    BY <1>3, <1>8, <1>10
  <2>4. CASE inner = 0
    BY <1>11, <2>1, <2>2, <2>4 DEF Linked
  <2>5. CASE inner # 0
    BY <1>11, <2>1, <2>2, <2>3, <2>5 DEF Linked
  <2> QED
    BY <2>4, <2>5
<1>23. ASSUME NEW s \in Sides, p # 0 PROVE Linked(u, N, lo2, hi2, p, s)
  <2>1. p \in N
    BY <1>9, <1>23 DEF Shape, Hanging
  <2>2. Lower(lo2, p, s) = Lower(lo, p, s) /\ Upper(hi2, p, s) = Upper(hi, p, s)
    BY <1>2, <1>16, <2>1
  <2>3. Linked(t, N, lo, hi, p, s)
    BY <1>15, <2>1
  <2>4. CASE t.child[s][p] = n
    <3>1. n # 0 /\ m # 0
      BY <1>2, <1>4, KeysAre
    <3>2. lo[n] = Lower(lo, p, s) /\ hi[n] = Upper(hi, p, s)
      BY <2>3, <2>4, <3>1 DEF Linked
    <3>3. lo2[m] = Lower(lo2, p, s) /\ hi2[m] = Upper(hi2, p, s)
      BY <1>8, <2>2, <3>2
    <3>4. u.child[s][p] = m /\ u.parent[m] = p
      BY <1>10, <1>11, <1>23, <2>4
    <3> HIDE DEF p
    <3> QED
      BY <1>2, <3>1, <3>3, <3>4 DEF Linked
  <2>5. CASE t.child[s][p] # n /\ t.child[s][p] # 0
    <3> DEFINE c == t.child[s][p]
    <3>1. c \in N /\ t.parent[c] = p
      BY <1>12, <2>1, <2>5
    <3>2. c # n /\ c # m /\ c # inner
      BY <1>2, <1>3, <2>5, <3>1
    <3>3. u.child[s][p] = c
      BY <1>11, <1>23, <2>5
    <3> QED
      BY <1>18, <2>1, <2>2, <3>2, <3>3
  <2>6. CASE t.child[s][p] = 0
    BY <1>4, <1>11, <1>23, <2>2, <2>3, <2>6, KeysAre DEF Linked
  <2> QED
    BY <2>4, <2>5, <2>6
<1>24. ASSUME NEW k \in N, NEW s \in Sides, k \notin {n, m, p} PROVE Linked(u, N, lo2, hi2, k, s)
  <2>1. u.child[s][k] = t.child[s][k] /\ Lower(lo2, k, s) = Lower(lo, k, s) /\ Upper(hi2, k, s) = Upper(hi, k, s)
    BY <1>11, <1>16, <1>24
  <2>2. CASE t.child[s][k] # 0
    <3> DEFINE c == t.child[s][k]
    <3>1. c \in N /\ t.parent[c] = k
      BY <1>12, <2>2
    <3>2. c # n /\ c # m /\ c # inner
      BY <1>2, <1>3, <1>24, <2>2, <3>1
    <3> QED
      BY <1>18, <2>1, <3>2
  <2>3. CASE t.child[s][k] = 0
    BY <1>15, <2>1, <2>3 DEF Linked
  <2> QED
    BY <2>2, <2>3
<1>25. AllLinked(u, N, lo2, hi2)
  <2>1. \A s \in Sides : s = side \/ s = Other(side)
    BY <1>1, SidesAre
  <2>2. ASSUME NEW k \in N, NEW s \in Sides PROVE Linked(u, N, lo2, hi2, k, s)
    <3>1. k # 0
      BY <1>4, KeysAre
    <3> QED
      BY <1>19, <1>20, <1>21, <1>22, <1>23, <1>24, <2>1, <3>1
  <2> QED
    BY <2>2 DEF AllLinked
<1>26. Hanging(u, N)
  <2>1. ASSUME NEW k \in N, k # u.root
        PROVE  u.parent[k] \in N /\ u.child[Side(k, u.parent[k])][u.parent[k]] = k
    <3>1. CASE k = n
      <4>1. Side(n, m) = side
        BY <1>1, <1>2, <1>4 DEF Side
      <4> QED
        BY <1>2, <1>10, <1>11, <3>1, <4>1
    <3>2. CASE k = m
      <4>1. p \in N /\ n # t.root
        BY <1>2, <1>9, <1>10, <2>1, <3>2 DEF Shape, Hanging
      <4>2. p # 0 /\ t.child[Side(n, p)][p] = n
        BY <1>9, <4>1 DEF Shape, Hanging
      <4>3. Side(m, p) = Side(n, p) /\ Side(n, p) \in Sides
        <5>1. \/ n < p /\ hi[n] = p
              \/ p < n /\ lo[n] = p
          BY <4>1, ParentIs DEF IsParent
        <5>2. lo[n] < m /\ m < hi[n]
          BY <1>1, <1>2, <1>4, <1>5
        <5>3. m \in Nat /\ n \in Nat /\ p \in Nat
          BY <1>2, <1>4, <4>1
        <5> HIDE DEF p
        <5> QED
          BY <5>1, <5>2, <5>3 DEF Side, Sides
      <4>4. u.child[Side(n, p)][p] = m /\ u.parent[m] = p
        BY <1>10, <1>11, <4>2, <4>3
      <4> HIDE DEF p
      <4> QED
        BY <3>2, <4>1, <4>3, <4>4
    <3>3. CASE k = inner /\ inner # 0
      <4>1. Side(inner, n) = Other(side)
        <5>1. inner \in N /\ inner \in Nat /\ n \in Nat /\ lo[inner] < inner /\ inner < hi[inner]
          BY <1>3, <1>4, <1>5, <3>3
        <5>2. (side = "left" => n < inner) /\ (side = "right" => inner < n)
          BY <1>3, <3>3, <5>1
        <5>3. CASE side = "left"
          BY <1>1, <5>1, <5>2, <5>3 DEF Side
        <5>4. CASE side = "right"
          BY <1>1, <5>1, <5>2, <5>4 DEF Side
        <5> QED
          BY <1>1, <5>3, <5>4
      <4> QED
        BY <1>10, <1>11, <3>3, <4>1
    <3>4. CASE k \notin {n, m, inner}
      <4>1. k # t.root
        BY <1>10, <2>1, <3>4
      <4> DEFINE q == t.parent[k]
      <4>2. q \in N /\ t.child[Side(k, q)][q] = k /\ u.parent[k] = q /\ Side(k, q) \in Sides
        BY <1>10, <3>4, <4>1 DEF Shape, Hanging, Side, Sides
      <4> HIDE DEF q
      <4>3. CASE q = n
        <5>1. Side(k, n) = side
          BY <1>1, <3>4, <4>2, <4>3, SidesAre
        <5> QED
          BY <1>11, <4>2, <4>3, <5>1
      <4>4. CASE q = m
        <5>1. Side(k, m) = Other(side)
          BY <1>1, <3>4, <4>2, <4>4, SidesAre
        <5>2. t.child[Other(side)][m] = k /\ u.child[Other(side)][m] = t.child[Other(side)][m]
          BY <1>11, <4>2, <4>4, <5>1
        <5> QED
          BY <4>2, <4>4, <5>1, <5>2
      <4>5. CASE q = p
        <5>1. p # 0
          BY <1>4, <4>2, <4>5, KeysAre
        <5>2. u.child[Side(k, p)][p] = IF t.child[Side(k, p)][p] = n THEN m ELSE t.child[Side(k, p)][p]
          BY <1>11, <4>2, <4>5, <5>1
        <5> QED
          BY <3>4, <4>2, <4>5, <5>2
      <4>6. CASE q \notin {n, m, p}
        BY <1>11, <4>2, <4>6
      <4> QED
        BY <4>2, <4>3, <4>4, <4>5, <4>6
    <3> QED
      BY <1>4, <3>1, <3>2, <3>3, <3>4, KeysAre
  <2> QED
    BY <2>1 DEF Hanging
<1>27. Unlinked(u, N)
  <2>1. ASSUME NEW k \in Keys \ N, NEW s \in Sides PROVE u.child[s][k] = 0
    <3>1. t.child[s][k] = 0
      BY DEF Shape, Unlinked
    <3>2. k # n /\ k # m /\ t.child[s][k] # n
      BY <1>2, <1>4, <3>1, KeysAre
    <3> QED
      BY <3>1, <3>2 DEF Turned
  <2> QED
    BY <2>1 DEF Unlinked
<1>28. Shape(u, N, lo2, hi2)
  BY <1>7, <1>13, <1>14, <1>25, <1>26, <1>27 DEF Shape
<1> QED
  BY <1>28 DEF lo2, hi2

(* A rotation keeps the tree and its greatest addresses right.              *)
Rotated(t, u, N, lo, hi, key, n, m, inner, side) ==
  /\ Turned(t, u, n, m, inner, side)
  /\ Shape(u, N, LoAfter(lo, n, m, side), HiAfter(hi, n, m, side))
  /\ MaxAll(u, N, LoAfter(lo, n, m, side), HiAfter(hi, n, m, side), key)

LEMMA TurnedSame ==
  ASSUME NEW t, NEW u, NEW w, NEW n, NEW m, NEW inner, NEW side,
         Turned(t, u, n, m, inner, side), SameLinks(u, w), w \in Trees
  PROVE  Turned(t, w, n, m, inner, side)
  BY DEF Turned, SameLinks

LEMMA RotateRight ==
  ASSUME NEW t, NEW N, NEW lo, NEW hi, NEW key, NEW n \in N, NEW side \in Sides, NEW m, NEW inner,
         m = t.child[Other(side)][n], m # 0, inner = t.child[side][m],
         Shape(t, N, lo, hi), MaxAll(t, N, lo, hi, key)
  PROVE  Rotated(t, Rotate(t, n, side), N, lo, hi, key, n, m, inner, side)
<1> DEFINE lo2 == LoAfter(lo, n, m, side)
           hi2 == HiAfter(hi, n, m, side)
           v == Relinked(t, n, m, inner, side)
           v1 == AugmentNode(v, n)
           v2 == AugmentNode(v1, m)
           p == v.parent[m]
           v3 == AugmentNode(v2, p)
<1>1. IsChild(t, N, lo, hi, n, Other(side), m)
  BY SidesAre, ChildIs
<1>2. m \in N /\ m # n /\ N \subseteq Keys /\ t \in Trees /\ n \in Keys /\ m \in Keys
      /\ lo \in [Keys -> Nat] /\ hi \in [Keys -> Nat]
  BY <1>1 DEF IsChild, Shape, Ranged
<1>3. inner \in Keys \cup {0}
  BY <1>2, TreeIs
<1>4. Turned(t, v, n, m, inner, side) /\ v.max = t.max
  <2>1. Relinks(t, v, n, m, inner, side)
    BY <1>2, <1>3, RelinkedIs
  <2> QED
    BY <2>1 DEF Relinks
<1>5. Rotate(t, n, side) = v3
  BY RotateIs
<1> HIDE DEF v
<1>6. Shape(v, N, lo2, hi2)
  BY <1>4, TurnedShape
<1>7. v \in Trees /\ v.parent[n] = m /\ v.high = t.high
  <2>1. n # inner
    <3>1. inner # 0 => IsChild(t, N, lo, hi, m, side, inner)
      BY <1>2, ChildIs
    <3> QED
      BY <1>1, <1>2, <3>1, KeysAre DEF IsChild
  <2> QED
    BY <1>2, <1>4, <2>1 DEF Turned
<1>8. ASSUME NEW k \in N, k # n, k # m PROVE MaxAt(v, N, lo2, hi2, key, k)
  <2>1. lo2[k] = lo[k] /\ hi2[k] = hi[k]
    BY <1>2, <1>8 DEF LoAfter, HiAfter
  <2>2. MaxAt(t, N, lo, hi, key, k)
    BY DEF MaxAll
  <2> HIDE DEF lo2, hi2
  <2> QED
    BY <1>4, <1>7, <2>1, <2>2 DEF MaxAt, Span
<1> HIDE DEF lo2, hi2
<1>9. NodeAugmented(v, v1, n)
  BY <1>2, <1>7, AugmentIs
<1>10. ASSUME NEW s \in Sides, v.child[s][n] # 0 PROVE MaxAt(v, N, lo2, hi2, key, v.child[s][n])
  <2>1. IsChild(v, N, lo2, hi2, n, s, v.child[s][n])
    BY <1>6, <1>10, ChildIs
  <2> QED
    BY <1>7, <1>8, <2>1 DEF IsChild
<1> HIDE DEF v1
<1>11. Shape(v1, N, lo2, hi2) /\ \A k \in N \ {m} : MaxAt(v1, N, lo2, hi2, key, k)
  <2>1. RightBelow(v, N, lo2, hi2, key, n) /\ RightBut(v, N, lo2, hi2, key, n, N \ {m})
    BY <1>8, <1>10 DEF RightBelow, RightBut
  <2>2. RightIn(v1, N, lo2, hi2, key, N \ {m})
    BY <1>6, <1>9, <2>1, AugmentRight
  <2> QED
    BY <2>2 DEF RightIn
<1>12. v1 \in Trees /\ SameLinks(v, v1)
  BY <1>9 DEF NodeAugmented
<1>13. NodeAugmented(v1, v2, m)
  BY <1>2, <1>12, AugmentIs
<1>14. ASSUME NEW s \in Sides, v1.child[s][m] # 0 PROVE MaxAt(v1, N, lo2, hi2, key, v1.child[s][m])
  <2>1. IsChild(v1, N, lo2, hi2, m, s, v1.child[s][m])
    BY <1>2, <1>11, <1>14, ChildIs
  <2> QED
    BY <1>11, <2>1 DEF IsChild
<1> HIDE DEF v2
<1>15. Shape(v2, N, lo2, hi2) /\ \A k \in N : MaxAt(v2, N, lo2, hi2, key, k)
  <2>1. RightBelow(v1, N, lo2, hi2, key, m) /\ RightBut(v1, N, lo2, hi2, key, m, N)
    BY <1>11, <1>14 DEF RightBelow, RightBut
  <2>2. RightIn(v2, N, lo2, hi2, key, N)
    BY <1>2, <1>11, <1>13, <2>1, AugmentRight
  <2> QED
    BY <2>2 DEF RightIn
<1>16. v2 \in Trees /\ SameLinks(v, v2)
  BY <1>12, <1>13 DEF NodeAugmented, SameLinks
<1>17. Shape(v3, N, lo2, hi2) /\ (\A k \in N : MaxAt(v3, N, lo2, hi2, key, k))
       /\ v3 \in Trees /\ SameLinks(v, v3)
  <2>1. CASE p = 0
    BY <1>15, <1>16, <2>1 DEF AugmentNode
  <2>2. CASE p # 0
    <3>1. m # v.root
      BY <1>6, <2>2 DEF Shape, Rooted
    <3>2. p \in N /\ p \in Keys
      BY <1>2, <1>6, <3>1 DEF Shape, Hanging
    <3> HIDE DEF p
    <3>3. NodeAugmented(v2, v3, p)
      BY <1>16, <3>2, AugmentIs
    <3> HIDE DEF v3
    <3>4. ASSUME NEW s \in Sides, v2.child[s][p] # 0 PROVE MaxAt(v2, N, lo2, hi2, key, v2.child[s][p])
      <4>1. IsChild(v2, N, lo2, hi2, p, s, v2.child[s][p])
        BY <1>15, <3>2, <3>4, ChildIs
      <4> QED
        BY <1>15, <4>1 DEF IsChild
    <3>5. Shape(v3, N, lo2, hi2) /\ \A k \in N : MaxAt(v3, N, lo2, hi2, key, k)
      <4>1. RightBelow(v2, N, lo2, hi2, key, p) /\ RightBut(v2, N, lo2, hi2, key, p, N)
        BY <1>15, <3>4 DEF RightBelow, RightBut
      <4>2. RightIn(v3, N, lo2, hi2, key, N)
        BY <1>15, <3>2, <3>3, <4>1, AugmentRight
      <4> QED
        BY <4>2 DEF RightIn
    <3> QED
      BY <1>16, <3>3, <3>5 DEF NodeAugmented, SameLinks
  <2> QED
    BY <2>1, <2>2
<1> HIDE DEF v3
<1>18. Turned(t, v3, n, m, inner, side)
  BY <1>4, <1>17, TurnedSame
<1>19. Rotated(t, v3, N, lo, hi, key, n, m, inner, side)
  BY <1>17, <1>18 DEF Rotated, MaxAll, lo2, hi2
<1> QED
  BY <1>5, <1>19

-----------------------------------------------------------------------------
(* RB_INSERT_COLOR.  bh are the black nodes on each way down from a node.   *)

Weight(t, n) == IF t.red[n] THEN 0 ELSE 1

Colored(t, N, bh) ==
  /\ bh \in [Keys \cup {0} -> Nat] /\ bh[0] = 0
  /\ \A n \in N, s \in Sides : bh[n] = bh[t.child[s][n]] + Weight(t, n)

(* A red node other than e is below a black one.                            *)
RedsApart(t, N, e) ==
  \A n \in N : n # e /\ t.red[n] => t.parent[n] # 0 /\ ~t.red[t.parent[n]]

Fixed(t, e) == t.parent[e] = 0 \/ ~t.red[t.parent[e]]

Coloring(t, N, key, high, e, lo, hi, bh) ==
  /\ Shape(t, N, lo, hi) /\ MaxAll(t, N, lo, hi, key)
  /\ Colored(t, N, bh) /\ RedsApart(t, N, e) /\ e \in N /\ t.high = high

(* e, its parent, the one above and the other one below that.               *)
Family(t, N, e, p, g, side, uncle) ==
  /\ e \in N /\ p \in N /\ g \in N /\ side \in Sides
  /\ t.parent[e] = p /\ t.parent[p] = g /\ t.red[e] /\ t.red[p] /\ ~t.red[g]
  /\ t.child[side][g] = p /\ uncle = t.child[Other(side)][g]
  /\ (e = t.child[side][p] \/ e = t.child[Other(side)][p])
  /\ e # p /\ e # g /\ p # g /\ uncle # p /\ uncle # e /\ uncle # g

(* The children of a node are two nodes.                                    *)
LEMMA ChildrenApart ==
  ASSUME NEW t, NEW N, NEW lo, NEW hi, NEW n \in N, NEW side \in Sides, NEW c, NEW d,
         Shape(t, N, lo, hi), c = t.child[side][n], d = t.child[Other(side)][n], c # 0
  PROVE  c # d
<1>1. SUFFICES ASSUME c = d PROVE FALSE
  OBVIOUS
<1>2. IsChild(t, N, lo, hi, n, side, c) /\ IsChild(t, N, lo, hi, n, Other(side), d)
  BY <1>1, SidesAre, ChildIs
<1>3. c < n /\ n < c /\ c \in Nat /\ n \in Nat
  BY <1>1, <1>2, SidesAre, KeysAre DEF IsChild, Shape, Ranged
<1> QED
  BY <1>3

LEMMA FamilyIs ==
  ASSUME NEW t, NEW N, NEW key, NEW high, NEW e, NEW lo, NEW hi, NEW bh,
         Coloring(t, N, key, high, e, lo, hi, bh), t.red[e], ~Fixed(t, e),
         NEW p, NEW g, NEW side, NEW uncle,
         p = t.parent[e], g = t.parent[p],
         side = IF p = t.child["left"][g] THEN "left" ELSE "right",
         uncle = t.child[Other(side)][g]
  PROVE  Family(t, N, e, p, g, side, uncle)
<1>1. Shape(t, N, lo, hi) /\ e \in N /\ RedsApart(t, N, e) /\ N \subseteq Keys /\ N \subseteq Nat
  BY KeysAre DEF Coloring, Shape, Ranged
<1>2. p # 0 /\ t.red[p]
  BY DEF Fixed
<1>3. e # t.root
  BY <1>1, <1>2, KeysAre DEF Shape, Rooted
<1>4. /\ p \in N
      /\ \/ t.child["left"][p] = e /\ e < p
         \/ t.child["right"][p] = e /\ p < e
  BY <1>1, <1>3, ParentIs DEF IsParent
<1>5. e # p
  BY <1>1, <1>4
<1>6. g # 0 /\ ~t.red[g]
  BY <1>1, <1>2, <1>4, <1>5 DEF RedsApart
<1>7. p # t.root
  <2>1. 0 \notin N
    BY <1>1, KeysAre
  <2> QED
    BY <1>1, <1>4, <1>6, <2>1 DEF Shape, Rooted
<1>8. /\ g \in N
      /\ \/ t.child["left"][g] = p /\ p < g
         \/ t.child["right"][g] = p /\ g < p
  <2>1. p \in N
    BY <1>4
  <2>2. IsParent(t, N, lo, hi, p, g)
    BY <1>1, <1>7, <2>1, ParentIs
  <2> QED
    BY <2>2 DEF IsParent
<1>9. side \in Sides /\ t.child[side][g] = p /\ Other(side) \in Sides
  BY <1>8, SidesAre
<1>10. p # g
  <2>1. p \in Nat /\ g \in Nat
    BY <1>1, <1>4, <1>8
  <2>2. p < g \/ g < p
    BY <1>8
  <2>3. \A x, y \in Nat : x < y \/ y < x => x # y
    OBVIOUS
  <2> QED
    BY <2>1, <2>2, <2>3
<1>11. e = t.child[side][p] \/ e = t.child[Other(side)][p]
  BY <1>4, <1>9, SidesAre
<1>12. e # g
  <2>1. t.red[e] /\ ~t.red[g]
    BY <1>6
  <2> QED
    BY ONLY <2>1
<1>13. uncle # p
  <2>1. p = t.child[side][g] /\ p # 0 /\ g \in N /\ side \in Sides /\ Shape(t, N, lo, hi)
    BY <1>1, <1>2, <1>8, <1>9
  <2>2. uncle = t.child[Other(side)][g]
    OBVIOUS
  <2> QED
    BY ONLY <2>1, <2>2, ChildrenApart
<1>14. uncle # 0 => IsChild(t, N, lo, hi, g, Other(side), uncle)
  <2>1. Shape(t, N, lo, hi) /\ g \in N /\ Other(side) \in Sides /\ uncle = t.child[Other(side)][g]
    BY <1>1, <1>8, <1>9
  <2> QED
    BY ONLY <2>1, ChildIs
<1>15. uncle # e /\ uncle # g
  BY <1>1, <1>8, <1>10, <1>14, KeysAre DEF IsChild
<1> QED
  BY <1>1, <1>2, <1>4, <1>5, <1>6, <1>8, <1>9, <1>10, <1>11, <1>12, <1>13, <1>15 DEF Family

(* What is below a node has it as its parent, and the other way round.      *)
LEMMA LinksAre ==
  ASSUME NEW t, NEW N, NEW lo, NEW hi, Shape(t, N, lo, hi)
  PROVE  /\ N \subseteq Keys /\ t \in Trees /\ 0 \notin N
         /\ \A n \in N, s \in Sides : t.child[s][n] # 0 => t.child[s][n] \in N /\ t.parent[t.child[s][n]] = n
         /\ \A n \in N : t.parent[n] # 0 =>
              t.parent[n] \in N /\ \E s \in Sides : t.child[s][t.parent[n]] = n
         /\ \A n \in N : t.parent[n] = 0 <=> n = t.root
<1>1. N \subseteq Keys /\ t \in Trees /\ 0 \notin N
  BY KeysAre DEF Shape, Ranged
<1>2. \A n \in N, s \in Sides : t.child[s][n] # 0 => t.child[s][n] \in N /\ t.parent[t.child[s][n]] = n
  BY DEF Shape, AllLinked, Linked
<1>3. ASSUME NEW n \in N, t.parent[n] # 0
      PROVE  t.parent[n] \in N /\ \E s \in Sides : t.child[s][t.parent[n]] = n
  <2>1. n # t.root
    BY <1>1, <1>3 DEF Shape, Rooted
  <2>2. t.parent[n] \in N /\ t.child[Side(n, t.parent[n])][t.parent[n]] = n
    BY <2>1 DEF Shape, Hanging
  <2>3. Side(n, t.parent[n]) \in Sides
    BY DEF Side, Sides
  <2> QED
    BY <2>2, <2>3
<1>4. \A n \in N : t.parent[n] = 0 <=> n = t.root
  BY <1>1 DEF Shape, Rooted, Hanging
<1> QED
  BY <1>1, <1>2, <1>3, <1>4

(* The tree with other colours.                                             *)
LEMMA RecolouredShape ==
  ASSUME NEW t, NEW N, NEW lo, NEW hi, NEW key, NEW u, NEW red \in [Keys -> BOOLEAN],
         Shape(t, N, lo, hi), MaxAll(t, N, lo, hi, key), u = [t EXCEPT !.red = red]
  PROVE  Shape(u, N, lo, hi) /\ MaxAll(u, N, lo, hi, key)
<1>1. t \in Trees
  BY DEF Shape
<1>2. u \in Trees /\ u.root = t.root /\ u.child = t.child /\ u.parent = t.parent
      /\ u.high = t.high /\ u.max = t.max
  BY <1>1 DEF Trees
<1>3. Shape(u, N, lo, hi)
  BY <1>2 DEF Shape, Rooted, AllLinked, Linked, Hanging, Unlinked
<1>4. MaxAll(u, N, lo, hi, key)
  BY <1>2 DEF MaxAll, MaxAt
<1> QED
  BY <1>3, <1>4

(* The red goes up from p and its sibling.                                  *)
RedMoved(t, u, bh, after, p, g, uncle) ==
  /\ u = [t EXCEPT !.red = [t.red EXCEPT ![uncle] = FALSE, ![p] = FALSE, ![g] = TRUE]]
  /\ after = [bh EXCEPT ![p] = bh[p] + 1, ![uncle] = bh[uncle] + 1]

LEMMA RedUp ==
  ASSUME NEW t, NEW N, NEW key, NEW high, NEW e, NEW lo, NEW hi, NEW bh,
         NEW p, NEW g, NEW side, NEW uncle, NEW u, NEW after,
         Coloring(t, N, key, high, e, lo, hi, bh), Family(t, N, e, p, g, side, uncle),
         uncle # 0, t.red[uncle], RedMoved(t, u, bh, after, p, g, uncle)
  PROVE  Coloring(u, N, key, high, g, lo, hi, after)
<1> DEFINE bh2 == [bh EXCEPT ![p] = bh[p] + 1, ![uncle] = bh[uncle] + 1]
           red == [t.red EXCEPT ![uncle] = FALSE, ![p] = FALSE, ![g] = TRUE]
<1>0. u = [t EXCEPT !.red = red] /\ after = bh2
  BY DEF RedMoved
<1>1. Shape(t, N, lo, hi) /\ MaxAll(t, N, lo, hi, key) /\ Colored(t, N, bh) /\ RedsApart(t, N, e)
      /\ e \in N /\ t.high = high
  BY DEF Coloring
<1>2. /\ p \in N /\ g \in N /\ side \in Sides /\ Other(side) \in Sides
      /\ t.parent[e] = p /\ t.parent[p] = g /\ t.red[e] /\ t.red[p] /\ ~t.red[g]
      /\ t.child[side][g] = p /\ uncle = t.child[Other(side)][g]
      /\ e # p /\ e # g /\ p # g /\ uncle # p /\ uncle # e /\ uncle # g
      /\ \A s \in Sides : s = side \/ s = Other(side)
  BY SidesAre DEF Family
<1>3. /\ N \subseteq Keys /\ t \in Trees /\ 0 \notin N
      /\ \A n \in N, s \in Sides : t.child[s][n] # 0 => t.child[s][n] \in N /\ t.parent[t.child[s][n]] = n
      /\ \A n \in N : t.parent[n] # 0 => t.parent[n] \in N /\ \E s \in Sides : t.child[s][t.parent[n]] = n
  BY <1>1, LinksAre
<1>4. uncle \in N /\ t.parent[uncle] = g
  BY <1>2, <1>3
<1>5. red \in [Keys -> BOOLEAN] /\ ~red[uncle] /\ ~red[p] /\ red[g]
      /\ \A n \in N : n \notin {uncle, p, g} => red[n] = t.red[n]
  BY <1>2, <1>3, <1>4, TreeIs
<1>6. bh \in [Keys \cup {0} -> Nat] /\ bh[0] = 0
  BY <1>1 DEF Colored
<1>7. bh2 \in [Keys \cup {0} -> Nat] /\ bh2[0] = 0 /\ bh2[p] = bh[p] + 1 /\ bh2[uncle] = bh[uncle] + 1
      /\ \A n \in N \cup {0} : n # p /\ n # uncle => bh2[n] = bh[n]
  BY <1>2, <1>3, <1>4, <1>6
<1> HIDE DEF red, bh2
<1>8. u \in Trees /\ u.red = red /\ u.child = t.child /\ u.parent = t.parent /\ u.high = t.high
  BY <1>0, <1>3, <1>5 DEF Trees
<1>9. Shape(u, N, lo, hi) /\ MaxAll(u, N, lo, hi, key)
  BY <1>0, <1>1, <1>5, RecolouredShape
<1>10. ASSUME NEW n \in N, NEW s \in Sides PROVE bh2[n] = bh2[u.child[s][n]] + Weight(u, n)
  <2> DEFINE c == t.child[s][n]
  <2>1. bh[n] = bh[c] + Weight(t, n) /\ c \in N \cup {0} /\ bh[n] \in Nat /\ bh[c] \in Nat
    <3>1. c \in N \cup {0}
      BY <1>3
    <3> QED
      BY <1>1, <1>3, <1>6, <3>1 DEF Colored
  <2>2. CASE n = g
    <3>1. c = p \/ c = uncle
      BY <1>2, <2>2
    <3>2. bh2[c] = bh[c] + 1
      BY <1>7, <3>1
    <3> HIDE DEF c
    <3>3. Weight(t, n) = 1 /\ Weight(u, n) = 0
      BY <1>2, <1>5, <1>8, <2>2 DEF Weight
    <3>4. bh2[n] = bh[n]
      BY <1>2, <1>7, <2>2
    <3> QED
      BY <1>8, <2>1, <3>2, <3>3, <3>4 DEF c
  <2>3. CASE n # g
    <3>1. c # p /\ c # uncle
      BY <1>2, <1>3, <1>4, <2>3
    <3>2. bh2[c] = bh[c]
      BY <1>7, <2>1, <3>1
    <3> HIDE DEF c
    <3>3. CASE n = p \/ n = uncle
      <4>1. Weight(t, n) = 0 /\ Weight(u, n) = 1
        BY <1>2, <1>5, <1>8, <3>3 DEF Weight
      <4>2. bh2[n] = bh[n] + 1
        BY <1>7, <3>3
      <4> QED
        BY <1>8, <2>1, <3>2, <4>1, <4>2 DEF c
    <3>4. CASE n # p /\ n # uncle
      <4>1. Weight(t, n) = Weight(u, n)
        BY <1>5, <1>8, <2>3, <3>4 DEF Weight
      <4>2. bh2[n] = bh[n]
        BY <1>7, <3>4
      <4> QED
        BY <1>8, <2>1, <3>2, <4>1, <4>2 DEF c
    <3> QED
      BY <3>3, <3>4
  <2> QED
    BY <2>2, <2>3
<1>11. ASSUME NEW n \in N, n # g, u.red[n]
       PROVE  u.parent[n] # 0 /\ ~u.red[u.parent[n]]
  <2>1. n # p /\ n # uncle /\ t.red[n]
    BY <1>5, <1>8, <1>11
  <2>2. CASE n = e
    BY <1>2, <1>3, <1>5, <1>8, <2>2
  <2>3. CASE n # e
    <3> DEFINE q == t.parent[n]
    <3>1. q # 0 /\ ~t.red[q] /\ q \in N
      BY <1>1, <1>3, <2>1, <2>3 DEF RedsApart
    <3>2. q # g
      BY <1>2, <1>3, <2>1
    <3> HIDE DEF q
    <3>3. ~u.red[q]
      BY <1>5, <1>8, <3>1, <3>2
    <3> QED
      BY <1>8, <3>1, <3>3 DEF q
  <2> QED
    BY <2>2, <2>3
<1>12. Coloring(u, N, key, high, g, lo, hi, bh2)
  <2>1. Colored(u, N, bh2)
    BY <1>7, <1>10 DEF Colored
  <2>2. RedsApart(u, N, g)
    BY <1>11 DEF RedsApart
  <2> QED
    BY <1>1, <1>2, <1>8, <1>9, <2>1, <2>2 DEF Coloring
<1> QED
  BY <1>0, <1>12

(* The red e and p are on the same side once they are straightened.         *)
Straightened(t, u, N, key, high, e, p, g, side, uncle, bh) ==
  \E lo, hi : /\ Coloring(u, N, key, high, e, lo, hi, bh)
              /\ Family(u, N, e, p, g, side, uncle)
              /\ u.child[side][p] = e
              /\ uncle # 0 => u.red[uncle] = t.red[uncle]

LEMMA TurnedLinks ==
  ASSUME NEW t, NEW u, NEW n, NEW m, NEW inner, NEW side, Turned(t, u, n, m, inner, side)
  PROVE  /\ u \in Trees /\ u.red = t.red /\ u.high = t.high
         /\ \A k \in Keys : u.parent[k] = IF k = inner THEN n ELSE IF k = n THEN m
                                   ELSE IF k = m THEN t.parent[n] ELSE t.parent[k]
         /\ \A s \in Sides, k \in Keys :
              u.child[s][k] = IF k = m /\ s = side THEN n
                              ELSE IF k = n /\ s = Other(side) THEN inner
                              ELSE IF k = t.parent[n] /\ t.child[s][k] = n THEN m ELSE t.child[s][k]
  BY DEF Turned

LEMMA Straight ==
  ASSUME NEW t, NEW N, NEW key, NEW high, NEW e, NEW lo, NEW hi, NEW bh,
         NEW p, NEW g, NEW side, NEW uncle, NEW u,
         Coloring(t, N, key, high, e, lo, hi, bh), Family(t, N, e, p, g, side, uncle),
         e = t.child[Other(side)][p], u = Rotate(t, p, side)
  PROVE  Straightened(t, u, N, key, high, p, e, g, side, uncle, bh)
<1> DEFINE inner == t.child[side][e]
           lo2 == LoAfter(lo, p, e, side)
           hi2 == HiAfter(hi, p, e, side)
<1>1. Shape(t, N, lo, hi) /\ MaxAll(t, N, lo, hi, key) /\ Colored(t, N, bh) /\ RedsApart(t, N, e)
      /\ e \in N /\ t.high = high
  BY DEF Coloring
<1>2. /\ p \in N /\ g \in N /\ side \in Sides /\ Other(side) \in Sides /\ side # Other(side)
      /\ t.parent[e] = p /\ t.parent[p] = g /\ t.red[e] /\ t.red[p] /\ ~t.red[g]
      /\ t.child[side][g] = p /\ uncle = t.child[Other(side)][g]
      /\ e # p /\ e # g /\ p # g /\ uncle # p /\ uncle # e /\ uncle # g
      /\ \A s \in Sides : s = side \/ s = Other(side)
  BY SidesAre DEF Family
<1>3. /\ N \subseteq Keys /\ t \in Trees /\ 0 \notin N
      /\ \A n \in N, s \in Sides : t.child[s][n] # 0 => t.child[s][n] \in N /\ t.parent[t.child[s][n]] = n
      /\ \A n \in N : t.parent[n] # 0 => t.parent[n] \in N /\ \E s \in Sides : t.child[s][t.parent[n]] = n
  BY <1>1, LinksAre
<1>4. Rotated(t, u, N, lo, hi, key, p, e, inner, side)
  BY <1>1, <1>2, <1>3, RotateRight
<1>5. Shape(u, N, lo2, hi2) /\ MaxAll(u, N, lo2, hi2, key) /\ Turned(t, u, p, e, inner, side)
  BY <1>4 DEF Rotated
<1>6. inner # 0 => inner \in N /\ t.parent[inner] = e /\ inner # e /\ inner # p
  <2> SUFFICES ASSUME inner # 0 PROVE inner \in N /\ t.parent[inner] = e /\ inner # e /\ inner # p
    OBVIOUS
  <2>1. IsChild(t, N, lo, hi, e, side, inner)
    BY <1>1, <1>2, ChildIs
  <2> QED
    BY <1>2, <2>1 DEF IsChild
<1> HIDE DEF lo2, hi2, inner
<1>7. /\ u \in Trees /\ u.red = t.red /\ u.high = t.high
      /\ \A k \in Keys : u.parent[k] = IF k = inner THEN p ELSE IF k = p THEN e
                                ELSE IF k = e THEN g ELSE t.parent[k]
      /\ \A s \in Sides, k \in Keys :
           u.child[s][k] = IF k = e /\ s = side THEN p
                           ELSE IF k = p /\ s = Other(side) THEN inner
                           ELSE IF k = g /\ t.child[s][k] = p THEN e ELSE t.child[s][k]
  BY <1>2, <1>5, TurnedLinks
<1>8. u.parent[p] = e /\ u.parent[e] = g /\ u.child[side][e] = p /\ u.child[side][g] = e
      /\ u.child[Other(side)][g] = uncle /\ u.child[Other(side)][p] = inner
      /\ \A s \in Sides, k \in N : ~(s = side /\ (k = e \/ k = g)) /\ ~(s = Other(side) /\ k = p)
                                     => u.child[s][k] = t.child[s][k]
  <2>1. e # inner /\ p # inner
    BY <1>1, <1>2, <1>3, <1>6
  <2>2. p \in Keys /\ e \in Keys /\ g \in Keys
    BY <1>1, <1>2, <1>3
  <2>3. u.parent[p] = e /\ u.parent[e] = g
    BY <1>2, <1>7, <2>1, <2>2
  <2>4. u.child[side][e] = p /\ u.child[side][g] = e
        /\ u.child[Other(side)][g] = uncle /\ u.child[Other(side)][p] = inner
    BY <1>2, <1>7, <2>2
  <2>5. \A s \in Sides, k \in N : ~(s = side /\ (k = e \/ k = g)) /\ ~(s = Other(side) /\ k = p)
                                     => u.child[s][k] = t.child[s][k]
    BY <1>2, <1>3, <1>7
  <2> QED
    BY <2>3, <2>4, <2>5
<1>9. bh \in [Keys \cup {0} -> Nat] /\ bh[0] = 0 /\ \A n \in N, s \in Sides : bh[n] = bh[t.child[s][n]] + Weight(t, n)
  BY <1>1 DEF Colored
<1>10. \A n \in N : Weight(u, n) = Weight(t, n)
  BY <1>7 DEF Weight
<1>11. \A c \in N \cup {0} : bh[c] \in Nat
  BY <1>3, <1>9
<1>12. bh[p] = bh[e] /\ bh[e] = bh[inner]
  <2>1. Weight(t, p) = 0 /\ Weight(t, e) = 0
    BY <1>2 DEF Weight
  <2>2. bh[p] = bh[e] + 0
    BY <1>2, <1>9, <2>1
  <2>3. bh[e] = bh[inner] + 0
    BY <1>1, <1>2, <1>9, <2>1 DEF inner
  <2>4. inner \in N \cup {0}
    BY <1>6
  <2> QED
    BY <1>1, <1>2, <1>11, <2>2, <2>3, <2>4
<1>13. ASSUME NEW n \in N, NEW s \in Sides PROVE bh[n] = bh[u.child[s][n]] + Weight(u, n)
  <2>0. Weight(t, e) = 0 /\ Weight(t, p) = 0
    BY <1>2 DEF Weight
  <2>1. bh[n] = bh[t.child[s][n]] + Weight(t, n)
    BY <1>9
  <2>2. CASE s = side /\ n = e
    <3>1. u.child[s][n] = p /\ Weight(u, n) = 0 /\ bh[n] = bh[p]
      BY <1>8, <1>10, <1>12, <2>0, <2>2
    <3>2. bh[p] \in Nat
      BY <1>2, <1>11
    <3> QED
      BY <3>1, <3>2
  <2>3. CASE s = side /\ n = g
    BY <1>2, <1>8, <1>10, <1>12, <2>1, <2>3
  <2>4. CASE s = Other(side) /\ n = p
    <3>1. u.child[s][n] = inner /\ Weight(u, n) = 0 /\ bh[n] = bh[inner]
      BY <1>8, <1>10, <1>12, <2>0, <2>4
    <3>2. bh[n] \in Nat
      BY <1>11
    <3> QED
      BY <3>1, <3>2
  <2>5. CASE ~(s = side /\ (n = e \/ n = g)) /\ ~(s = Other(side) /\ n = p)
    BY <1>8, <1>10, <2>1, <2>5
  <2> QED
    BY <2>2, <2>3, <2>4, <2>5
<1>14. ASSUME NEW n \in N, n # p, u.red[n]
       PROVE  u.parent[n] # 0 /\ ~u.red[u.parent[n]]
  <2>1. CASE n = e
    <3>1. u.parent[n] = g /\ ~u.red[g]
      BY <1>2, <1>7, <1>8, <2>1
    <3>2. g # 0
      BY <1>2, <1>3
    <3> QED
      BY <3>1, <3>2
  <2>2. CASE n # e
    <3> DEFINE q == t.parent[n]
    <3>1. q # 0 /\ ~t.red[q]
      BY <1>1, <1>7, <1>14, <2>2 DEF RedsApart
    <3>2. n # inner
      BY <1>2, <1>3, <1>6, <3>1
    <3>3. u.parent[n] = q
      BY <1>3, <1>7, <1>14, <2>2, <3>2
    <3> HIDE DEF q
    <3> QED
      BY <1>7, <3>1, <3>3
  <2> QED
    BY <2>1, <2>2
<1>15. Coloring(u, N, key, high, p, lo2, hi2, bh)
  <2>1. Colored(u, N, bh)
    BY <1>9, <1>13 DEF Colored
  <2>2. RedsApart(u, N, p)
    BY <1>14 DEF RedsApart
  <2> QED
    BY <1>1, <1>2, <1>5, <1>7, <2>1, <2>2 DEF Coloring
<1>16. Family(u, N, p, e, g, side, uncle)
  BY <1>1, <1>2, <1>7, <1>8 DEF Family
<1> QED
  BY <1>7, <1>8, <1>15, <1>16 DEF Straightened

(* The node above them goes down on the other side, red, below p.           *)
Lifted(u, N, key, high, e) ==
  \E lo, hi, bh : Coloring(u, N, key, high, e, lo, hi, bh) /\ Fixed(u, e)

LEMMA Lift ==
  ASSUME NEW t, NEW N, NEW key, NEW high, NEW e, NEW lo, NEW hi, NEW bh,
         NEW p, NEW g, NEW side, NEW uncle, NEW u, NEW c,
         Coloring(t, N, key, high, e, lo, hi, bh), Family(t, N, e, p, g, side, uncle),
         e = t.child[side][p], uncle # 0 => ~t.red[uncle],
         c = [t EXCEPT !.red[p] = FALSE, !.red[g] = TRUE],
         u = Rotate(c, g, Other(side))
  PROVE  Lifted(u, N, key, high, e)
<1> DEFINE inner == t.child[Other(side)][p]
           lo2 == LoAfter(lo, g, p, Other(side))
           hi2 == HiAfter(hi, g, p, Other(side))
           gg == t.parent[g]
           red == [[t.red EXCEPT ![p] = FALSE] EXCEPT ![g] = TRUE]
           bh2 == [bh EXCEPT ![p] = bh[g], ![g] = bh[p]]
<1>1. Shape(t, N, lo, hi) /\ MaxAll(t, N, lo, hi, key) /\ Colored(t, N, bh) /\ RedsApart(t, N, e)
      /\ e \in N /\ t.high = high
  BY DEF Coloring
<1>2. /\ p \in N /\ g \in N /\ side \in Sides /\ Other(side) \in Sides /\ side # Other(side)
      /\ Other(Other(side)) = side
      /\ t.parent[e] = p /\ t.parent[p] = g /\ t.red[e] /\ t.red[p] /\ ~t.red[g]
      /\ t.child[side][g] = p /\ uncle = t.child[Other(side)][g]
      /\ e # p /\ e # g /\ p # g /\ uncle # p /\ uncle # e /\ uncle # g
      /\ \A s \in Sides : s = side \/ s = Other(side)
  BY SidesAre DEF Family
<1>3. /\ N \subseteq Keys /\ t \in Trees /\ 0 \notin N
      /\ \A n \in N, s \in Sides : t.child[s][n] # 0 => t.child[s][n] \in N /\ t.parent[t.child[s][n]] = n
      /\ \A n \in N : t.parent[n] # 0 => t.parent[n] \in N /\ \E s \in Sides : t.child[s][t.parent[n]] = n
  BY <1>1, LinksAre
<1>4. red \in [Keys -> BOOLEAN] /\ ~red[p] /\ red[g] /\ \A n \in N : n # p /\ n # g => red[n] = t.red[n]
  BY <1>2, <1>3, TreeIs
<1>5. c = [t EXCEPT !.red = red]
  BY <1>3 DEF Trees
<1> HIDE DEF red
<1>6. Shape(c, N, lo, hi) /\ MaxAll(c, N, lo, hi, key)
  BY <1>1, <1>4, <1>5, RecolouredShape
<1>7. c.child = t.child /\ c.parent = t.parent /\ c.red = red /\ c.high = t.high
  BY <1>3, <1>5 DEF Trees
<1>8. Rotated(c, u, N, lo, hi, key, g, p, inner, Other(side))
  <2>1. p = c.child[Other(Other(side))][g] /\ inner = c.child[Other(side)][p] /\ p # 0
    BY <1>2, <1>3, <1>7
  <2> HIDE DEF inner
  <2> QED
    BY <1>2, <1>6, <2>1, RotateRight
<1>9. Shape(u, N, lo2, hi2) /\ MaxAll(u, N, lo2, hi2, key) /\ Turned(c, u, g, p, inner, Other(side))
  BY <1>8 DEF Rotated
<1>10. inner # 0 => inner \in N /\ t.parent[inner] = p /\ inner # p /\ inner # g
  <2> SUFFICES ASSUME inner # 0 PROVE inner \in N /\ t.parent[inner] = p /\ inner # p /\ inner # g
    OBVIOUS
  <2>1. IsChild(t, N, lo, hi, p, Other(side), inner)
    BY <1>1, <1>2, ChildIs
  <2> QED
    BY <1>2, <2>1 DEF IsChild
<1>11. inner # e
  BY <1>1, <1>2, <1>3, ChildrenApart
<1>12. gg # 0 => gg \in N /\ gg # g /\ gg # p
  <2>1. IsChild(t, N, lo, hi, g, side, p)
    BY <1>1, <1>2, <1>3, ChildIs
  <2> QED
    BY <1>2, <1>3, <2>1 DEF IsChild
<1> HIDE DEF lo2, hi2, inner, gg
<1>13. /\ u \in Trees /\ u.red = red /\ u.high = t.high
       /\ \A k \in Keys : u.parent[k] = IF k = inner THEN g ELSE IF k = g THEN p
                                 ELSE IF k = p THEN gg ELSE t.parent[k]
       /\ \A s \in Sides, k \in Keys :
            u.child[s][k] = IF k = p /\ s = Other(side) THEN g
                            ELSE IF k = g /\ s = side THEN inner
                            ELSE IF k = gg /\ t.child[s][k] = g THEN p ELSE t.child[s][k]
  <2>1. /\ u \in Trees /\ u.red = c.red /\ u.high = c.high
        /\ \A k \in Keys : u.parent[k] = IF k = inner THEN g ELSE IF k = g THEN p
                                  ELSE IF k = p THEN c.parent[g] ELSE c.parent[k]
        /\ \A s \in Sides, k \in Keys :
             u.child[s][k] = IF k = p /\ s = Other(side) THEN g
                             ELSE IF k = g /\ s = Other(Other(side)) THEN inner
                             ELSE IF k = c.parent[g] /\ c.child[s][k] = g THEN p ELSE c.child[s][k]
    BY <1>9 DEF Turned
  <2>2. c.parent[g] = gg
    BY <1>7 DEF gg
  <2>3. \A k \in Keys : u.parent[k] = IF k = inner THEN g ELSE IF k = g THEN p
                                  ELSE IF k = p THEN gg ELSE t.parent[k]
    BY <1>7, <2>1, <2>2
  <2>4. \A s \in Sides, k \in Keys :
             u.child[s][k] = IF k = p /\ s = Other(side) THEN g
                             ELSE IF k = g /\ s = side THEN inner
                             ELSE IF k = gg /\ t.child[s][k] = g THEN p ELSE t.child[s][k]
    BY <1>2, <1>7, <2>1, <2>2
  <2> QED
    BY <1>7, <2>1, <2>3, <2>4
<1>14. u.parent[g] = p /\ u.parent[e] = p /\ u.child[Other(side)][p] = g /\ u.child[side][p] = e
       /\ u.child[side][g] = inner /\ u.child[Other(side)][g] = uncle
       /\ \A s \in Sides, k \in N : k # p /\ k # g =>
            u.child[s][k] = IF t.child[s][k] = g THEN p ELSE t.child[s][k]
  <2>1. g # inner /\ p # inner
    BY <1>2, <1>3, <1>10
  <2>2. p \in Keys /\ e \in Keys /\ g \in Keys
    BY <1>1, <1>2, <1>3
  <2>3. u.parent[g] = p /\ u.parent[e] = p
    BY <1>2, <1>11, <1>13, <2>1, <2>2
  <2>4. u.child[Other(side)][p] = g /\ u.child[side][g] = inner
    BY <1>2, <1>13, <2>2
  <2>5. u.child[side][p] = e /\ u.child[Other(side)][g] = uncle
    <3>1. gg # p /\ gg # g
      BY <1>2, <1>3, <1>12
    <3> QED
      BY <1>2, <1>13, <2>2, <3>1
  <2>6. \A s \in Sides, k \in N : t.child[s][k] = g => k = gg
    BY <1>2, <1>3 DEF gg
  <2>7. \A s \in Sides, k \in N : k # p /\ k # g =>
            u.child[s][k] = IF t.child[s][k] = g THEN p ELSE t.child[s][k]
    BY <1>3, <1>13, <2>6
  <2> QED
    BY <2>3, <2>4, <2>5, <2>7
<1>15. bh \in [Keys \cup {0} -> Nat] /\ bh[0] = 0 /\ \A n \in N, s \in Sides : bh[n] = bh[t.child[s][n]] + Weight(t, n)
  BY <1>1 DEF Colored
<1>16. \A n \in N \cup {0} : bh[n] \in Nat
  BY <1>3, <1>15
<1>17. bh[p] = bh[inner] /\ bh[p] = bh[e] /\ bh[g] = bh[p] + 1 /\ bh[g] = bh[uncle] + 1 /\ bh[uncle] = bh[p]
  <2>1. Weight(t, p) = 0 /\ Weight(t, g) = 1
    BY <1>2 DEF Weight
  <2>2. bh[p] = bh[inner] + 0 /\ bh[p] = bh[e] + 0 /\ bh[g] = bh[p] + 1 /\ bh[g] = bh[uncle] + 1
    BY <1>2, <1>15, <2>1 DEF inner
  <2>3. inner \in N \cup {0} /\ uncle \in N \cup {0}
    BY <1>2, <1>3, <1>10
  <2>4. bh[inner] \in Nat /\ bh[uncle] \in Nat /\ bh[e] \in Nat /\ bh[p] \in Nat /\ bh[g] \in Nat
    BY <1>1, <1>2, <1>16, <2>3
  <2> QED
    BY ONLY <2>2, <2>4
<1>18. bh2 \in [Keys \cup {0} -> Nat] /\ bh2[0] = 0 /\ bh2[p] = bh[g] /\ bh2[g] = bh[p]
       /\ \A n \in N \cup {0} : n # p /\ n # g => bh2[n] = bh[n]
  BY <1>2, <1>3, <1>15
<1> HIDE DEF bh2
<1>19. ASSUME NEW n \in N, NEW s \in Sides PROVE bh2[n] = bh2[u.child[s][n]] + Weight(u, n)
  <2>1. bh[n] = bh[t.child[s][n]] + Weight(t, n)
    BY <1>15
  <2>2. CASE n = p
    <3>1. Weight(u, n) = 1
      BY <1>4, <1>13, <2>2 DEF Weight
    <3>2. u.child[s][n] = g \/ u.child[s][n] = e
      BY <1>2, <1>14, <2>2
    <3>3. bh2[u.child[s][n]] = bh[p]
      BY <1>1, <1>2, <1>17, <1>18, <3>2
    <3> QED
      BY <1>17, <1>18, <2>2, <3>1, <3>3
  <2>3. CASE n = g
    <3>1. Weight(u, n) = 0
      BY <1>4, <1>13, <2>3 DEF Weight
    <3>2. u.child[s][n] = inner \/ u.child[s][n] = uncle
      BY <1>2, <1>14, <2>3
    <3>3. inner # p /\ inner # g /\ inner \in N \cup {0} /\ uncle \in N \cup {0}
      BY <1>2, <1>3, <1>10
    <3>4. bh2[u.child[s][n]] = bh[p]
      BY <1>2, <1>17, <1>18, <3>2, <3>3
    <3> QED
      BY <1>2, <1>16, <1>18, <2>3, <3>1, <3>4
  <2>4. CASE n # p /\ n # g
    <3>1. Weight(u, n) = Weight(t, n) /\ bh2[n] = bh[n]
      BY <1>4, <1>13, <1>18, <2>4 DEF Weight
    <3> DEFINE d == t.child[s][n]
    <3>2. u.child[s][n] = IF d = g THEN p ELSE d
      BY <1>14, <2>4
    <3>3. d \in N \cup {0} /\ d # p
      BY <1>2, <1>3, <2>4
    <3>4. bh2[u.child[s][n]] = bh[d]
      BY <1>18, <3>2, <3>3
    <3> QED
      BY <2>1, <3>1, <3>4
  <2> QED
    BY <2>2, <2>3, <2>4
<1>20. ASSUME NEW n \in N, n # e, u.red[n]
       PROVE  u.parent[n] # 0 /\ ~u.red[u.parent[n]]
  <2>1. n # p
    BY <1>4, <1>13, <1>20
  <2>2. CASE n = g
    <3>1. u.parent[n] = p /\ ~u.red[p]
      BY <1>4, <1>13, <1>14, <2>2
    <3>2. p # 0
      BY <1>2, <1>3
    <3> QED
      BY <3>1, <3>2
  <2>3. CASE n # g
    <3> DEFINE q == t.parent[n]
    <3>0. t.red[n]
      BY <1>4, <1>13, <1>20, <2>1, <2>3
    <3>1. q # 0 /\ ~t.red[q] /\ q \in N
      BY <1>1, <1>3, <1>20, <3>0 DEF RedsApart
    <3>2. n # inner
      BY <1>2, <1>3, <1>10, <3>1
    <3>3. u.parent[n] = q
      BY <1>3, <1>13, <2>1, <2>3, <3>2
    <3>4. q # g
      BY <1>2, <1>3, <2>1, <3>0
    <3> HIDE DEF q
    <3>5. ~red[q]
      BY <1>4, <3>1, <3>4
    <3> QED
      BY <1>13, <3>1, <3>3, <3>5
  <2> QED
    BY <2>2, <2>3
<1>21. Coloring(u, N, key, high, e, lo2, hi2, bh2)
  <2>1. Colored(u, N, bh2)
    BY <1>18, <1>19 DEF Colored
  <2>2. RedsApart(u, N, e)
    BY <1>20 DEF RedsApart
  <2> QED
    BY <1>1, <1>9, <1>13, <2>1, <2>2 DEF Coloring
<1>22. Fixed(u, e)
  BY <1>4, <1>13, <1>14 DEF Fixed
<1> QED
  BY <1>21, <1>22 DEF Lifted

(* A turn of it.                                                            *)
States == [tree : Trees, at : Keys \cup {0}, of : Nat]

LEMMA StateIs ==
  ASSUME NEW s \in States
  PROVE  s.tree \in Trees /\ s.at \in Keys \cup {0} /\ s.of \in Nat
  BY DEF States

LEMMA AtIs ==
  ASSUME NEW t \in Trees, NEW n \in Keys \cup {0}, NEW of \in Nat
  PROVE  At(t, n, of) \in States /\ At(t, n, of).tree = t /\ At(t, n, of).at = n /\ At(t, n, of).of = of
  BY DEF States, At

(* After i turns it has ended or come to a node that spans more addresses.  *)
Wide(lo, hi, n, i) == hi[n] >= lo[n] + i + 2

ColorState(s, N, key, high, i) ==
  /\ s \in States
  /\ \E lo, hi, bh :
       /\ Coloring(s.tree, N, key, high, s.at, lo, hi, bh)
       /\ Fixed(s.tree, s.at) \/ (s.tree.red[s.at] /\ Wide(lo, hi, s.at, i))

RootBlack(t) == t.root # 0 => ~t.red[t.root]

LEMMA Blacken ==
  ASSUME NEW t, NEW N, NEW key, NEW high, NEW e, NEW lo, NEW hi, NEW bh, NEW u,
         Coloring(t, N, key, high, e, lo, hi, bh), Fixed(t, e),
         u = [t EXCEPT !.red[t.root] = FALSE]
  PROVE  Lifted(u, N, key, high, e) /\ RootBlack(u)
<1> DEFINE red == [t.red EXCEPT ![t.root] = FALSE]
           bh2 == IF t.red[t.root] THEN [bh EXCEPT ![t.root] = bh[t.root] + 1] ELSE bh
<1>1. Shape(t, N, lo, hi) /\ MaxAll(t, N, lo, hi, key) /\ Colored(t, N, bh) /\ RedsApart(t, N, e)
      /\ e \in N /\ t.high = high
  BY DEF Coloring
<1>2. /\ N \subseteq Keys /\ t \in Trees /\ 0 \notin N
      /\ \A n \in N, s \in Sides : t.child[s][n] # 0 => t.child[s][n] \in N /\ t.parent[t.child[s][n]] = n
      /\ \A n \in N : t.parent[n] # 0 => t.parent[n] \in N /\ \E s \in Sides : t.child[s][t.parent[n]] = n
  BY <1>1, LinksAre
<1>3. t.root \in N /\ t.parent[t.root] = 0
  BY <1>1 DEF Shape, Rooted
<1>4. red \in [Keys -> BOOLEAN] /\ ~red[t.root] /\ \A n \in N : n # t.root => red[n] = t.red[n]
  BY <1>2, <1>3, TreeIs
<1>5. u = [t EXCEPT !.red = red]
  OBVIOUS
<1> HIDE DEF red
<1>6. Shape(u, N, lo, hi) /\ MaxAll(u, N, lo, hi, key)
  BY <1>1, <1>4, <1>5, RecolouredShape
<1>7. u.child = t.child /\ u.parent = t.parent /\ u.red = red /\ u.high = t.high /\ u.root = t.root
  BY <1>2, <1>5 DEF Trees
<1>8. bh \in [Keys \cup {0} -> Nat] /\ bh[0] = 0 /\ \A n \in N, s \in Sides : bh[n] = bh[t.child[s][n]] + Weight(t, n)
  BY <1>1 DEF Colored
<1>9. \A n \in N \cup {0} : bh[n] \in Nat
  BY <1>2, <1>8
<1>10. bh2 \in [Keys \cup {0} -> Nat] /\ bh2[0] = 0
       /\ (\A n \in N \cup {0} : n # t.root => bh2[n] = bh[n])
       /\ (t.red[t.root] => bh2[t.root] = bh[t.root] + 1)
       /\ (~t.red[t.root] => bh2[t.root] = bh[t.root])
  BY <1>2, <1>3, <1>8, <1>9
<1> HIDE DEF bh2
<1>11. ASSUME NEW n \in N, NEW s \in Sides PROVE bh2[n] = bh2[u.child[s][n]] + Weight(u, n)
  <2> DEFINE c == t.child[s][n]
  <2>1. bh[n] = bh[c] + Weight(t, n) /\ c \in N \cup {0} /\ c # t.root
    <3>1. c \in N \cup {0} /\ c # t.root
      BY <1>2, <1>3
    <3> QED
      BY <1>8, <3>1
  <2>2. bh2[c] = bh[c] /\ u.child[s][n] = c
    BY <1>7, <1>10, <2>1
  <2>3. bh[c] \in Nat /\ bh[n] \in Nat
    BY <1>9, <2>1
  <2> HIDE DEF c
  <2>4. CASE n = t.root /\ t.red[t.root]
    <3>1. Weight(t, n) = 0 /\ Weight(u, n) = 1
      BY <1>4, <1>7, <2>4 DEF Weight
    <3> QED
      BY <1>10, <2>1, <2>2, <2>3, <2>4, <3>1
  <2>5. CASE n # t.root \/ ~t.red[t.root]
    <3>1. Weight(t, n) = Weight(u, n) /\ bh2[n] = bh[n]
      BY <1>4, <1>7, <1>10, <2>5 DEF Weight
    <3> QED
      BY <2>1, <2>2, <3>1
  <2> QED
    BY <2>4, <2>5
<1>12. ASSUME NEW n \in N, n # e, u.red[n] PROVE u.parent[n] # 0 /\ ~u.red[u.parent[n]]
  <2>1. t.red[n]
    BY <1>4, <1>7, <1>12
  <2>2. t.parent[n] # 0 /\ ~t.red[t.parent[n]] /\ t.parent[n] \in N
    BY <1>1, <1>2, <1>12, <2>1 DEF RedsApart
  <2> QED
    BY <1>4, <1>7, <2>2
<1>13. Coloring(u, N, key, high, e, lo, hi, bh2)
  <2>1. Colored(u, N, bh2)
    BY <1>10, <1>11 DEF Colored
  <2>2. RedsApart(u, N, e)
    BY <1>12 DEF RedsApart
  <2> QED
    BY <1>1, <1>6, <1>7, <2>1, <2>2 DEF Coloring
<1>14. Fixed(u, e)
  <2>1. t.parent[e] # 0 => t.parent[e] \in N
    BY <1>1, <1>2
  <2> QED
    BY <1>4, <1>7, <2>1 DEF Fixed
<1>15. RootBlack(u)
  BY <1>4, <1>7 DEF RootBlack
<1> QED
  BY <1>13, <1>14, <1>15 DEF Lifted


(* What is above a node has a wider range.                                  *)
LEMMA WiderAbove ==
  ASSUME NEW t, NEW N, NEW lo, NEW hi, NEW n \in N, NEW i \in Nat,
         Shape(t, N, lo, hi), n # t.root, Wide(lo, hi, n, i)
  PROVE  Wide(lo, hi, t.parent[n], i + 1)
<1> DEFINE p == t.parent[n]
<1>1. IsParent(t, N, lo, hi, n, p)
  BY ParentIs
<1> HIDE DEF p
<1>2. p \in N /\ ((lo[n] = lo[p] /\ hi[n] = p) \/ (lo[n] = p /\ hi[n] = hi[p]))
  BY <1>1 DEF IsParent
<1>3. Ranged(N, lo, hi)
  BY DEF Shape
<1>4. lo[p] < p /\ p < hi[p] /\ p \in Nat /\ lo[p] \in Nat /\ hi[p] \in Nat
  BY <1>2, <1>3, KeysAre DEF Ranged, Span
<1>5. Wide(lo, hi, p, i + 1)
  BY <1>2, <1>4 DEF Wide
<1> QED
  BY <1>5 DEF p

LEMMA FixedTurn ==
  ASSUME NEW t, NEW e, NEW of, NEW N, NEW key, NEW high, NEW lo, NEW hi, NEW bh, NEW i \in Nat, NEW of2 \in Nat,
         Coloring(t, N, key, high, e, lo, hi, bh), Fixed(t, e), of = of2
  PROVE  ColorState(At(t, e, of), N, key, high, i)
<1>1. t \in Trees /\ e \in Keys
  BY DEF Coloring, Shape, Ranged
<1>2. At(t, e, of) \in States /\ At(t, e, of).tree = t /\ At(t, e, of).at = e
  BY <1>1, AtIs
<1> DEFINE s == At(t, e, of)
<1> HIDE DEF s
<1>3. s \in States /\ s.tree = t /\ s.at = e
  BY <1>2 DEF s
<1>4. Coloring(s.tree, N, key, high, s.at, lo, hi, bh) /\ Fixed(s.tree, s.at)
  BY <1>3
<1>5. ColorState(s, N, key, high, i)
  BY <1>3, <1>4 DEF ColorState
<1> QED
  BY <1>5 DEF s

LEMMA LiftedTurn ==
  ASSUME NEW u, NEW e, NEW of \in Nat, NEW N, NEW key, NEW high, NEW i \in Nat,
         Lifted(u, N, key, high, e)
  PROVE  ColorState(At(u, e, of), N, key, high, i)
<1>1. PICK lo, hi, bh : Coloring(u, N, key, high, e, lo, hi, bh) /\ Fixed(u, e)
  BY DEF Lifted
<1> QED
  BY <1>1, FixedTurn

LEMMA RedTurn ==
  ASSUME NEW u, NEW e, NEW of \in Nat, NEW N, NEW key, NEW high, NEW lo, NEW hi, NEW bh, NEW i \in Nat,
         Coloring(u, N, key, high, e, lo, hi, bh), u.red[e], Wide(lo, hi, e, i)
  PROVE  ColorState(At(u, e, of), N, key, high, i)
<1>1. u \in Trees /\ e \in Keys
  BY DEF Coloring, Shape, Ranged
<1>2. At(u, e, of) \in States /\ At(u, e, of).tree = u /\ At(u, e, of).at = e
  BY <1>1, AtIs
<1> DEFINE s == At(u, e, of)
<1> HIDE DEF s
<1>3. s \in States /\ s.tree = u /\ s.at = e
  BY <1>2 DEF s
<1>4. Coloring(s.tree, N, key, high, s.at, lo, hi, bh) /\ s.tree.red[s.at] /\ Wide(lo, hi, s.at, i)
  BY <1>3
<1>5. ColorState(s, N, key, high, i)
  BY <1>3, <1>4 DEF ColorState
<1> QED
  BY <1>5 DEF s

(* What a turn does.                                                        *)
ColorFixed(t, e, of, v) == Fixed(t, e) /\ v = At([t EXCEPT !.red[t.root] = FALSE], e, of)
ColorRed(t, e, of, v, p, g, uncle) ==
  /\ uncle # 0 /\ t.red[uncle]
  /\ v = At([t EXCEPT !.red = [t.red EXCEPT ![uncle] = FALSE, ![p] = FALSE, ![g] = TRUE]], g, of)
ColorLift(t, e, of, v, p, g, side, uncle, w) ==
  /\ uncle # 0 => ~t.red[uncle]
  /\ w = Straighten(t, p, e, side)
  /\ v = At(Rotate([w.tree EXCEPT !.red[w.parent] = FALSE, !.red[g] = TRUE], g, Other(side)), w.elm, of)

LEMMA ColorTurnIs ==
  ASSUME NEW s, NEW t, NEW e, NEW of, NEW p, NEW g, NEW side, NEW uncle, NEW v,
         t = s.tree, e = s.at, of = s.of, p = t.parent[e], g = t.parent[p],
         side = IF p = t.child["left"][g] THEN "left" ELSE "right",
         uncle = t.child[Other(side)][g], v = ColorTurn(s)
  PROVE  \/ ColorFixed(t, e, of, v)
         \/ ~Fixed(t, e) /\ ColorRed(t, e, of, v, p, g, uncle)
         \/ ~Fixed(t, e) /\ \E w : ColorLift(t, e, of, v, p, g, side, uncle, w)
<1>1. CASE Fixed(t, e)
  BY <1>1 DEF ColorTurn, ColorFixed, Fixed
<1>2. CASE ~Fixed(t, e) /\ uncle # 0 /\ t.red[uncle]
  BY <1>2 DEF ColorTurn, ColorRed, Fixed
<1>3. CASE ~Fixed(t, e) /\ ~(uncle # 0 /\ t.red[uncle])
  <2> DEFINE w == Straighten(t, p, e, side)
  <2>1. v = At(Rotate([w.tree EXCEPT !.red[w.parent] = FALSE, !.red[g] = TRUE], g, Other(side)), w.elm, of)
    BY <1>3 DEF ColorTurn, Fixed
  <2>2. ColorLift(t, e, of, v, p, g, side, uncle, w)
    BY <1>3, <2>1 DEF ColorLift
  <2> HIDE DEF w
  <2> QED
    BY <1>3, <2>2
<1> QED
  BY <1>1, <1>2, <1>3

ColorTurned(s, v, N, key, high, i) ==
  /\ ColorState(v, N, key, high, i)
  /\ Fixed(s.tree, s.at) => Lifted(v.tree, N, key, high, v.at) /\ RootBlack(v.tree)

LEMMA ColorStep ==
  ASSUME NEW s, NEW N, NEW key, NEW high, NEW i \in Nat, ColorState(s, N, key, high, i), NEW v, v = ColorTurn(s)
  PROVE  ColorTurned(s, v, N, key, high, i + 1)
<1> DEFINE t == s.tree
           e == s.at
           of == s.of
           p == t.parent[e]
           g == t.parent[p]
           side == IF p = t.child["left"][g] THEN "left" ELSE "right"
           uncle == t.child[Other(side)][g]
<1>1. s \in States /\ t \in Trees /\ of \in Nat /\ i + 1 \in Nat
  BY StateIs DEF ColorState
<1>2. PICK lo, hi, bh :
        /\ Coloring(t, N, key, high, e, lo, hi, bh)
        /\ Fixed(t, e) \/ (t.red[e] /\ Wide(lo, hi, e, i))
  BY DEF ColorState
<1>3. \/ ColorFixed(t, e, of, v)
      \/ ~Fixed(t, e) /\ ColorRed(t, e, of, v, p, g, uncle)
      \/ ~Fixed(t, e) /\ \E w : ColorLift(t, e, of, v, p, g, side, uncle, w)
  BY ColorTurnIs
<1>4. ~Fixed(t, e) => Family(t, N, e, p, g, side, uncle) /\ Wide(lo, hi, e, i)
  BY <1>2, FamilyIs
<1>5. Shape(t, N, lo, hi) /\ N \subseteq Keys /\ e \in N
  BY <1>2 DEF Coloring, Shape, Ranged
<1> HIDE DEF uncle, side, g, p, e, t, of
<1>6. CASE ColorFixed(t, e, of, v)
  <2> DEFINE u == [t EXCEPT !.red[t.root] = FALSE]
  <2>1. Fixed(t, e) /\ v = At(u, e, of)
    BY <1>6 DEF ColorFixed
  <2>2. Lifted(u, N, key, high, e) /\ RootBlack(u)
    BY <1>2, <2>1, Blacken
  <2> HIDE DEF u
  <2>3. u \in Trees
    BY <2>2 DEF Lifted, Coloring, Shape
  <2>4. v.tree = u /\ v.at = e
    BY <1>1, <1>5, <2>1, <2>3, AtIs
  <2>5. ColorState(At(u, e, of), N, key, high, i + 1)
    BY <1>1, <2>2, LiftedTurn
  <2> QED
    BY <2>1, <2>2, <2>4, <2>5 DEF ColorTurned
<1>7. CASE ~Fixed(t, e) /\ ColorRed(t, e, of, v, p, g, uncle)
  <2> DEFINE u == [t EXCEPT !.red = [t.red EXCEPT ![uncle] = FALSE, ![p] = FALSE, ![g] = TRUE]]
             bh2 == [bh EXCEPT ![p] = bh[p] + 1, ![uncle] = bh[uncle] + 1]
  <2>1. uncle # 0 /\ t.red[uncle] /\ v = At(u, g, of)
    BY <1>7 DEF ColorRed
  <2>2. Coloring(u, N, key, high, g, lo, hi, bh2)
    <3>1. RedMoved(t, u, bh, bh2, p, g, uncle)
      BY DEF RedMoved
    <3> HIDE DEF u, bh2
    <3>2. Coloring(t, N, key, high, e, lo, hi, bh) /\ Family(t, N, e, p, g, side, uncle)
      BY <1>2, <1>4, <1>7
    <3>3. uncle # 0 /\ t.red[uncle]
      BY <2>1
    <3> QED
      BY ONLY <3>1, <3>2, <3>3, RedUp
  <2>3. t.parent[e] = p /\ t.parent[p] = g /\ e \in N /\ p \in N /\ g \in N
    BY <1>4, <1>7 DEF Family
  <2>4. e # t.root /\ p # t.root
    BY <1>5, <2>3, LinksAre
  <2>5. Wide(lo, hi, p, i + 1)
    BY <1>4, <1>5, <1>7, <2>3, <2>4, WiderAbove
  <2>6. Wide(lo, hi, g, (i + 1) + 1)
    BY <1>1, <1>5, <2>3, <2>4, <2>5, WiderAbove
  <2>7. Wide(lo, hi, g, i + 1)
    <3>1. lo[g] \in Nat /\ hi[g] \in Nat
      BY <1>5, <2>3 DEF Shape, Ranged
    <3> QED
      BY <2>6, <3>1 DEF Wide
  <2>8. u.red[g]
    <3>1. g \in Keys /\ t.red \in [Keys -> BOOLEAN]
      BY <1>1, <1>5, <2>3, TreeIs
    <3>2. [t.red EXCEPT ![uncle] = FALSE, ![p] = FALSE, ![g] = TRUE][g] = TRUE
      BY <3>1
    <3>3. u.red = [t.red EXCEPT ![uncle] = FALSE, ![p] = FALSE, ![g] = TRUE]
      BY <1>1 DEF Trees
    <3> QED
      BY <3>2, <3>3
  <2> HIDE DEF u, bh2
  <2>9. ColorState(At(u, g, of), N, key, high, i + 1)
    BY <1>1, <2>2, <2>7, <2>8, RedTurn
  <2> QED
    BY <1>7, <2>1, <2>9 DEF ColorTurned, t, e
<1>8. CASE ~Fixed(t, e) /\ \E w : ColorLift(t, e, of, v, p, g, side, uncle, w)
  <2>1. PICK w : ColorLift(t, e, of, v, p, g, side, uncle, w)
    BY <1>8
  <2> DEFINE c == [w.tree EXCEPT !.red[w.parent] = FALSE, !.red[g] = TRUE]
             u == Rotate(c, g, Other(side))
  <2>2. (uncle # 0 => ~t.red[uncle]) /\ v = At(u, w.elm, of) /\ w = Straighten(t, p, e, side)
    BY <2>1 DEF ColorLift
  <2>3. Family(t, N, e, p, g, side, uncle)
    BY <1>4, <1>8
  <2>4. Lifted(u, N, key, high, w.elm)
    <3>1. CASE t.child[Other(side)][p] = e
      <4> DEFINE tt == Rotate(t, p, side)
      <4>1. w.tree = tt /\ w.parent = e /\ w.elm = p
        BY <2>2, <3>1 DEF Straighten
      <4>2. Straightened(t, tt, N, key, high, p, e, g, side, uncle, bh)
        BY <1>2, <2>3, <3>1, Straight
      <4>3. c = [tt EXCEPT !.red[e] = FALSE, !.red[g] = TRUE]
        BY <4>1
      <4> HIDE DEF tt, c
      <4>4. PICK lo2, hi2 : /\ Coloring(tt, N, key, high, p, lo2, hi2, bh)
                            /\ Family(tt, N, p, e, g, side, uncle)
                            /\ tt.child[side][e] = p
                            /\ uncle # 0 => tt.red[uncle] = t.red[uncle]
        BY <4>2 DEF Straightened
      <4>5. uncle # 0 => ~tt.red[uncle]
        BY <2>2, <4>4
      <4>6. Lifted(u, N, key, high, p)
        BY <4>3, <4>4, <4>5, Lift
      <4> QED
        BY <4>1, <4>6
    <3>2. CASE t.child[Other(side)][p] # e
      <4>1. w.tree = t /\ w.parent = p /\ w.elm = e
        BY <2>2, <3>2 DEF Straighten
      <4>2. e = t.child[side][p]
        BY <2>3, <3>2 DEF Family
      <4>3. c = [t EXCEPT !.red[p] = FALSE, !.red[g] = TRUE]
        BY <4>1
      <4> HIDE DEF c
      <4>4. Lifted(u, N, key, high, e)
        BY <1>2, <2>2, <2>3, <4>2, <4>3, Lift
      <4> QED
        BY <4>1, <4>4
    <3> QED
      BY <3>1, <3>2
  <2> HIDE DEF u
  <2>5. ColorState(At(u, w.elm, of), N, key, high, i + 1)
    BY <1>1, <2>4, LiftedTurn
  <2> QED
    BY <1>8, <2>2, <2>5 DEF ColorTurned, t, e
<1> QED
  BY <1>3, <1>6, <1>7, <1>8

(* All its turns.                                                           *)
Settled(u, N, key, high) ==
  \E lo, hi, bh : /\ Shape(u, N, lo, hi) /\ MaxAll(u, N, lo, hi, key)
                  /\ Colored(u, N, bh) /\ RedsApart(u, N, 0) /\ u.high = high

LEMMA SettledIs ==
  ASSUME NEW u, NEW N, NEW key, NEW high, NEW e, Lifted(u, N, key, high, e), RootBlack(u)
  PROVE  Settled(u, N, key, high)
<1>1. PICK lo, hi, bh : Coloring(u, N, key, high, e, lo, hi, bh) /\ Fixed(u, e)
  BY DEF Lifted
<1>2. /\ Shape(u, N, lo, hi) /\ MaxAll(u, N, lo, hi, key) /\ e \in N /\ u.high = high
      /\ Colored(u, N, bh) /\ RedsApart(u, N, e)
  BY <1>1 DEF Coloring
<1>3. 0 \notin N /\ \A n \in N : u.parent[n] = 0 <=> n = u.root
  BY <1>2, LinksAre
<1>4. ASSUME NEW n \in N, u.red[n] PROVE u.parent[n] # 0 /\ ~u.red[u.parent[n]]
  <2>1. CASE n = e
    <3>1. u.parent[e] # 0
      BY <1>2, <1>3, <1>4, <2>1 DEF RootBlack
    <3> QED
      BY <1>1, <2>1, <3>1 DEF Fixed
  <2>2. CASE n # e
    BY <1>2, <1>4, <2>2 DEF RedsApart
  <2> QED
    BY <2>1, <2>2
<1>5. RedsApart(u, N, 0)
  BY <1>4 DEF RedsApart
<1> QED
  BY <1>2, <1>5 DEF Settled

LEMMA TurnOfColor ==
  ASSUME NEW s
  PROVE  TurnOfLoop("color", s) = ColorTurn(s)
  BY DEF TurnOfLoop

LEMMA ColorRight ==
  ASSUME NEW t, NEW N, NEW key, NEW high, NEW lo, NEW hi, NEW bh,
         Coloring(t, N, key, high, key, lo, hi, bh), t.red[key]
  PROVE  Settled(Looped("color", t, key, 0).tree, N, key, high)
<1>0. Top \in Nat
  BY IntervalAssumption
<1>1. PICK turn : LoopTurns("color", t, key, 0, turn)
  BY LoopHasTurns
<1>2. /\ Looped("color", t, key, 0) = turn[Top + 1] /\ turn[0] = At(t, key, 0)
      /\ \A i \in 0 .. Top : turn[i + 1] = ColorTurn(turn[i])
  BY <1>1, TurnOfColor DEF LoopTurns
<1> DEFINE S == {i \in Nat : ColorState(turn[i], N, key, high, i)}
<1>3. 0 \in S
  <2>1. Shape(t, N, lo, hi) /\ key \in N
    BY DEF Coloring
  <2>2. Wide(lo, hi, key, 0)
    <3>1. Ranged(N, lo, hi)
      BY <2>1 DEF Shape
    <3>2. lo[key] < key /\ key < hi[key] /\ key \in Nat /\ lo[key] \in Nat /\ hi[key] \in Nat
      BY <2>1, <3>1, KeysAre DEF Ranged, Span
    <3> QED
      BY <3>2 DEF Wide
  <2>3. ColorState(At(t, key, 0), N, key, high, 0)
    BY <2>2, RedTurn
  <2> QED
    BY <1>2, <2>3
<1>4. ASSUME NEW i \in 0 .. Top, ColorState(turn[i], N, key, high, i)
      PROVE  ColorTurned(turn[i], turn[i + 1], N, key, high, i + 1)
  <2>1. turn[i + 1] = ColorTurn(turn[i]) /\ i \in Nat
    BY <1>2
  <2> QED
    BY <1>4, <2>1, ColorStep
<1>5. ASSUME NEW i \in 0 .. Top - 1, i \in S PROVE i + 1 \in S
  <2>1. i \in 0 .. Top /\ i + 1 \in Nat
    BY <1>0
  <2>2. ColorState(turn[i + 1], N, key, high, i + 1)
    BY <1>4, <1>5, <2>1 DEF ColorTurned
  <2> QED
    BY <2>1, <2>2
<1>6. Top \in S
  <2> HIDE DEF S
  <2>1. \A i \in 0 .. Top : i \in S
    BY <1>0, <1>3, <1>5, Upwards
  <2> QED
    BY <1>0, <2>1
<1>7. ColorState(turn[Top], N, key, high, Top)
  BY <1>6
<1> DEFINE s == turn[Top]
           u == turn[Top + 1].tree
<1>8. Fixed(s.tree, s.at)
  <2>1. PICK lo2, hi2, bh2 :
           /\ Coloring(s.tree, N, key, high, s.at, lo2, hi2, bh2)
           /\ Fixed(s.tree, s.at) \/ (s.tree.red[s.at] /\ Wide(lo2, hi2, s.at, Top))
    BY <1>7 DEF ColorState
  <2>2. s.at \in N /\ Ranged(N, lo2, hi2)
    BY <2>1 DEF Coloring, Shape
  <2>3. hi2[s.at] <= Top + 1 /\ hi2[s.at] \in Nat /\ lo2[s.at] \in Nat
    BY <2>2 DEF Ranged
  <2>4. ~Wide(lo2, hi2, s.at, Top)
    BY <1>0, <2>3 DEF Wide
  <2> QED
    BY <2>1, <2>4
<1>9. ColorTurned(s, turn[Top + 1], N, key, high, Top + 1)
  BY <1>0, <1>4, <1>7
<1>10. Lifted(u, N, key, high, turn[Top + 1].at) /\ RootBlack(u)
  BY <1>8, <1>9 DEF ColorTurned
<1>11. Settled(u, N, key, high)
  BY <1>10, SettledIs
<1> QED
  BY <1>2, <1>11

-----------------------------------------------------------------------------
(* RB_INSERT of a node that is not there.                                   *)
Hangs(t, N, lo, hi, key, p) ==
  /\ key \in Keys /\ key \notin N
  /\ IF p = 0 THEN N = {} /\ t.root = 0
     ELSE p \in N /\ Span(lo, hi, p, key) /\ t.child[Side(key, p)][p] = 0

HungLow(lo, key, p) == [lo EXCEPT ![key] = IF p = 0 THEN 0 ELSE Lower(lo, p, Side(key, p))]
HungHigh(hi, key, p) == [hi EXCEPT ![key] = IF p = 0 THEN Top + 1 ELSE Upper(hi, p, Side(key, p))]

(* The tree before p is augmented.                                          *)
HungLinks(t, u, p, key, high) ==
  /\ u \in Trees
  /\ u.root = IF p = 0 THEN key ELSE t.root
  /\ \A k \in Keys, s \in Sides :
       u.child[s][k] = IF p # 0 /\ k = p /\ s = Side(key, p) THEN key ELSE t.child[s][k]
  /\ \A k \in Keys : k # key => /\ u.parent[k] = t.parent[k] /\ u.red[k] = t.red[k]
                                /\ u.high[k] = t.high[k] /\ u.max[k] = t.max[k]
  /\ u.parent[key] = p /\ u.red[key] /\ u.high[key] = high /\ u.max[key] = high

HungFrom(t, p, key, high) ==
  LET node == [t EXCEPT !.parent[key] = p, !.red[key] = TRUE,
                        !.high[key] = high, !.max[key] = high]
  IN  IF p = 0 THEN [node EXCEPT !.root = key]
      ELSE [node EXCEPT !.child[Side(key, p)][p] = key]

LEMMA HungIs ==
  ASSUME NEW t, NEW p, NEW key, NEW high
  PROVE  Hung(t, p, key, high) = IF p = 0 THEN HungFrom(t, p, key, high)
                                 ELSE AugmentNode(HungFrom(t, p, key, high), p)
  BY DEF Hung, HungFrom

LEMMA HungFromIs ==
  ASSUME NEW t \in Trees, NEW key \in Keys, NEW p \in Keys \cup {0}, NEW high \in Nat
  PROVE  HungLinks(t, HungFrom(t, p, key, high), p, key, high)
<1> DEFINE pa == [t.parent EXCEPT ![key] = p]
           re == [t.red EXCEPT ![key] = TRUE]
           hg == [t.high EXCEPT ![key] = high]
           mx == [t.max EXCEPT ![key] = high]
           s == Side(key, p)
           row == [t.child[s] EXCEPT ![p] = key]
           ch == [t.child EXCEPT ![s] = row]
           node == [t EXCEPT !.parent = pa, !.red = re, !.high = hg, !.max = mx]
           u == HungFrom(t, p, key, high)
<1>1. /\ t.root \in Keys \cup {0} /\ t.child \in [Sides -> [Keys -> Keys \cup {0}]]
      /\ t.parent \in [Keys -> Keys \cup {0}] /\ t.red \in [Keys -> BOOLEAN]
      /\ t.high \in [Keys -> Nat] /\ t.max \in [Keys -> Nat]
  BY TreeIs
<1>2. pa \in [Keys -> Keys \cup {0}] /\ pa[key] = p /\ \A k \in Keys : k # key => pa[k] = t.parent[k]
  BY <1>1
<1>3. re \in [Keys -> BOOLEAN] /\ re[key] = TRUE /\ \A k \in Keys : k # key => re[k] = t.red[k]
  BY <1>1
<1>4. hg \in [Keys -> Nat] /\ hg[key] = high /\ \A k \in Keys : k # key => hg[k] = t.high[k]
  BY <1>1
<1>5. mx \in [Keys -> Nat] /\ mx[key] = high /\ \A k \in Keys : k # key => mx[k] = t.max[k]
  BY <1>1
<1>6. s \in Sides
  BY DEF Side, Sides
<1>7. p # 0 => /\ ch \in [Sides -> [Keys -> Keys \cup {0}]]
               /\ \A k \in Keys, x \in Sides : ch[x][k] = IF k = p /\ x = s THEN key ELSE t.child[x][k]
  <2> HAVE p # 0
  <2>1. row \in [Keys -> Keys \cup {0}] /\ \A k \in Keys : row[k] = IF k = p THEN key ELSE t.child[s][k]
    BY <1>1, <1>6
  <2>2. \A x \in Sides : ch[x] = IF x = s THEN row ELSE t.child[x]
    BY <1>1, <1>6
  <2>3. ch \in [Sides -> [Keys -> Keys \cup {0}]]
    <3> HIDE DEF row
    <3> QED
      BY <1>1, <1>6, <2>1
  <2> HIDE DEF row, ch
  <2> QED
    BY <2>1, <2>2, <2>3
<1>8. p = 0 => u = [node EXCEPT !.root = key]
  BY DEF HungFrom
<1>9. p # 0 => u = [node EXCEPT !.child = ch]
  BY DEF HungFrom
<1> HIDE DEF pa, re, hg, mx
<1>10. node \in Trees /\ node.root = t.root /\ node.child = t.child /\ node.parent = pa
       /\ node.red = re /\ node.high = hg /\ node.max = mx
  BY <1>2, <1>3, <1>4, <1>5 DEF Trees
<1> HIDE DEF node, ch, u, s
<1>11. CASE p = 0
  <2>1. u \in Trees /\ u.root = key /\ u.child = t.child /\ u.parent = pa
       /\ u.red = re /\ u.high = hg /\ u.max = mx
    BY <1>8, <1>10, <1>11 DEF Trees
  <2>2. HungLinks(t, u, p, key, high)
    BY <1>2, <1>3, <1>4, <1>5, <1>11, <2>1 DEF HungLinks
  <2> QED
    BY <2>2 DEF u
<1>12. CASE p # 0
  <2>1. u \in Trees /\ u.root = t.root /\ u.child = ch /\ u.parent = pa
       /\ u.red = re /\ u.high = hg /\ u.max = mx
    BY <1>7, <1>9, <1>10, <1>12 DEF Trees
  <2>2. \A k \in Keys, x \in Sides : u.child[x][k] = IF p # 0 /\ k = p /\ x = Side(key, p) THEN key ELSE t.child[x][k]
    BY <1>7, <1>12, <2>1 DEF s
  <2>3. HungLinks(t, u, p, key, high)
    BY <1>2, <1>3, <1>4, <1>5, <1>12, <2>1, <2>2 DEF HungLinks
  <2> QED
    BY <2>3 DEF u
<1> QED
  BY <1>11, <1>12

(* The range of the new node: it is between those of two others.            *)
Between(N, lo, hi, key, p, l, h) ==
  /\ l \in Nat /\ h \in Nat /\ l < key /\ key < h /\ h <= Top + 1
  /\ \A n \in N : ~(l < n /\ n < h)
  /\ p = 0 => N = {} /\ l = 0 /\ h = Top + 1
  /\ p # 0 => /\ p \in N /\ p # key
              /\ \/ key < p /\ l = lo[p] /\ h = p /\ Side(key, p) = "left"
                 \/ p < key /\ l = p /\ h = hi[p] /\ Side(key, p) = "right"

LEMMA BetweenIs ==
  ASSUME NEW t, NEW N, NEW lo, NEW hi, NEW key, NEW p, NEW l, NEW h,
         Shape(t, N, lo, hi), Hangs(t, N, lo, hi, key, p),
         l = HungLow(lo, key, p)[key], h = HungHigh(hi, key, p)[key]
  PROVE  Between(N, lo, hi, key, p, l, h)
<1>1. key \in Keys /\ key \notin N /\ key \in 1 .. Top /\ Top \in Nat /\ key \in Nat
  BY KeysAre DEF Hangs
<1>2. Ranged(N, lo, hi) /\ lo \in [Keys -> Nat] /\ hi \in [Keys -> Nat] /\ N \subseteq Keys
  BY DEF Shape, Ranged
<1>3. l = (IF p = 0 THEN 0 ELSE Lower(lo, p, Side(key, p))) /\ h = (IF p = 0 THEN Top + 1 ELSE Upper(hi, p, Side(key, p)))
  BY <1>1, <1>2 DEF HungLow, HungHigh
<1>4. CASE p = 0
  <2>1. l = 0 /\ h = Top + 1 /\ N = {}
    BY <1>3, <1>4 DEF Hangs
  <2> QED
    BY <1>1, <1>4, <2>1 DEF Between
<1>5. CASE p # 0
  <2>1. p \in N /\ lo[p] < key /\ key < hi[p] /\ t.child[Side(key, p)][p] = 0
    BY <1>5 DEF Hangs, Span
  <2>2. lo[p] < p /\ p < hi[p] /\ hi[p] <= Top + 1 /\ p \in Nat /\ lo[p] \in Nat /\ hi[p] \in Nat
    BY <1>2, <2>1, KeysAre DEF Ranged, Span
  <2>3. p # key
    BY <1>1, <2>1
  <2>4. \/ key < p /\ l = lo[p] /\ h = p /\ Side(key, p) = "left"
        \/ p < key /\ l = p /\ h = hi[p] /\ Side(key, p) = "right"
    BY <1>1, <1>3, <1>5, <2>2, <2>3 DEF Side, Lower, Upper
  <2>5. l = Lower(lo, p, Side(key, p)) /\ h = Upper(hi, p, Side(key, p)) /\ Side(key, p) \in Sides
    BY <1>3, <1>5, <2>4 DEF Sides
  <2>6. \A n \in N : ~(l < n /\ n < h)
    BY <2>1, <2>5 DEF Shape, AllLinked, Linked
  <2> QED
    BY <1>1, <1>5, <2>1, <2>2, <2>3, <2>4, <2>6 DEF Between
<1> QED
  BY <1>4, <1>5

LEMMA HungRanges ==
  ASSUME NEW t, NEW N, NEW lo, NEW hi, NEW key, NEW p, NEW M, NEW l, NEW h, NEW lo2, NEW hi2,
         Shape(t, N, lo, hi), Hangs(t, N, lo, hi, key, p), Between(N, lo, hi, key, p, l, h),
         M = N \cup {key}, lo2 = [lo EXCEPT ![key] = l], hi2 = [hi EXCEPT ![key] = h]
  PROVE  Ranged(M, lo2, hi2) /\ Laminar(M, lo2, hi2)
<1>1. key \in Keys /\ key \notin N /\ key \in 1 .. Top /\ Top \in Nat /\ key \in Nat
  BY KeysAre DEF Hangs
<1>2. Ranged(N, lo, hi) /\ Laminar(N, lo, hi) /\ lo \in [Keys -> Nat] /\ hi \in [Keys -> Nat] /\ N \subseteq Keys
  BY DEF Shape, Ranged
<1>3. /\ lo2 \in [Keys -> Nat] /\ hi2 \in [Keys -> Nat] /\ lo2[key] = l /\ hi2[key] = h
      /\ \A n \in N : lo2[n] = lo[n] /\ hi2[n] = hi[n]
  BY <1>1, <1>2 DEF Between
<1>4. /\ l \in Nat /\ h \in Nat /\ l < key /\ key < h /\ h <= Top + 1
      /\ \A n \in N : ~(l < n /\ n < h)
      /\ p = 0 => N = {}
      /\ p # 0 => /\ p \in N /\ p # key
                  /\ \/ key < p /\ l = lo[p] /\ h = p
                     \/ p < key /\ l = p /\ h = hi[p]
  BY DEF Between
<1>5. \A n \in N : lo[n] < n /\ n < hi[n] /\ hi[n] <= Top + 1 /\ n \in Nat /\ lo[n] \in Nat /\ hi[n] \in Nat
  BY <1>2, KeysAre DEF Ranged, Span
<1>6. Ranged(M, lo2, hi2)
  <2>1. M \subseteq Keys
    BY <1>1, <1>2
  <2>2. ASSUME NEW n \in M PROVE lo2[n] < n /\ n < hi2[n] /\ hi2[n] <= Top + 1
    BY <1>3, <1>4, <1>5
  <2> QED
    BY <1>3, <2>1, <2>2 DEF Ranged, Span
<1>7. ASSUME NEW n \in N, key < n
      PROVE  h <= lo[n] \/ (lo[n] <= l /\ h <= n) \/ (key <= lo[n] /\ hi[n] <= h)
  <2>1. p # 0 /\ p \in N
    BY <1>4
  <2>2. n >= h /\ n \in Nat /\ lo[n] < n /\ n < hi[n] /\ lo[n] \in Nat /\ hi[n] \in Nat
    BY <1>1, <1>4, <1>5, <1>7
  <2>3. p \in Nat /\ lo[p] < p /\ p < hi[p] /\ lo[p] \in Nat /\ hi[p] \in Nat
    BY <1>5, <2>1
  <2>4. p < n => hi[p] <= lo[n] \/ (lo[n] <= lo[p] /\ hi[p] <= n) \/ (p <= lo[n] /\ hi[n] <= hi[p])
    BY <1>2, <2>1 DEF Laminar
  <2>5. p <= n
    BY <1>1, <1>4, <1>7, <2>1, <2>2, <2>3
  <2>6. p = n => (lo[n] <= l /\ h <= n)
    BY <1>1, <1>4, <1>7, <2>1, <2>2, <2>3
  <2>7. CASE key < p /\ l = lo[p] /\ h = p
    BY <2>2, <2>3, <2>4, <2>5, <2>6, <2>7
  <2>8. CASE p < key /\ l = p /\ h = hi[p]
    BY <2>2, <2>3, <2>4, <2>5, <2>6, <2>8
  <2> QED
    BY <1>4, <2>1, <2>7, <2>8
<1>8. ASSUME NEW m \in N, m < key
      PROVE  hi[m] <= l \/ (l <= lo[m] /\ hi[m] <= key) \/ (m <= l /\ h <= hi[m])
  <2>1. p # 0 /\ p \in N
    BY <1>4
  <2>2. m <= l /\ m \in Nat /\ lo[m] < m /\ m < hi[m] /\ lo[m] \in Nat /\ hi[m] \in Nat
    BY <1>1, <1>4, <1>5, <1>8
  <2>3. p \in Nat /\ lo[p] < p /\ p < hi[p] /\ lo[p] \in Nat /\ hi[p] \in Nat
    BY <1>5, <2>1
  <2>4. m < p => hi[m] <= lo[p] \/ (lo[p] <= lo[m] /\ hi[m] <= p) \/ (m <= lo[p] /\ hi[p] <= hi[m])
    BY <1>2, <2>1 DEF Laminar
  <2>5. m <= p
    BY <1>1, <1>4, <1>8, <2>1, <2>2, <2>3
  <2>6. p = m => (m <= l /\ h <= hi[m])
    BY <1>1, <1>4, <1>8, <2>1, <2>2, <2>3
  <2>7. CASE key < p /\ l = lo[p] /\ h = p
    BY <2>2, <2>3, <2>4, <2>5, <2>6, <2>7
  <2>8. CASE p < key /\ l = p /\ h = hi[p]
    BY <2>2, <2>3, <2>4, <2>5, <2>6, <2>8
  <2> QED
    BY <1>4, <2>1, <2>7, <2>8
<1>9. ASSUME NEW m \in M, NEW n \in M, m < n
      PROVE  \/ hi2[m] <= lo2[n]
             \/ lo2[n] <= lo2[m] /\ hi2[m] <= n
             \/ m <= lo2[n] /\ hi2[n] <= hi2[m]
  <2>1. CASE m \in N /\ n \in N
    <3>1. hi[m] <= lo[n] \/ (lo[n] <= lo[m] /\ hi[m] <= n) \/ (m <= lo[n] /\ hi[n] <= hi[m])
      BY <1>2, <1>9, <2>1 DEF Laminar
    <3> QED
      BY <1>3, <2>1, <3>1
  <2>2. CASE m = key /\ n \in N
    BY <1>3, <1>7, <1>9, <2>2
  <2>3. CASE m \in N /\ n = key
    BY <1>3, <1>8, <1>9, <2>3
  <2>4. ~(m = key /\ n = key)
    BY <1>1, <1>9
  <2> QED
    BY <2>1, <2>2, <2>3, <2>4
<1>10. Laminar(M, lo2, hi2)
  BY <1>9 DEF Laminar
<1> QED
  BY <1>6, <1>10

(* No key on a side below which nothing is, but the one that hangs there.   *)
LEMMA HungApart ==
  ASSUME NEW t, NEW N, NEW lo, NEW hi, NEW key, NEW p, NEW l, NEW h, NEW n \in N, NEW s \in Sides,
         Shape(t, N, lo, hi), Hangs(t, N, lo, hi, key, p), Between(N, lo, hi, key, p, l, h),
         t.child[s][n] = 0, ~(n = p /\ s = Side(key, p))
  PROVE  ~(Lower(lo, n, s) < key /\ key < Upper(hi, n, s))
<1> SUFFICES ASSUME Lower(lo, n, s) < key, key < Upper(hi, n, s) PROVE FALSE
  OBVIOUS
<1>1. key \in Keys /\ key \notin N /\ key \in Nat /\ Ranged(N, lo, hi) /\ Laminar(N, lo, hi) /\ AllLinked(t, N, lo, hi)
  BY KeysAre DEF Hangs, Shape
<1>2. \A x \in N : lo[x] < x /\ x < hi[x] /\ x \in Nat /\ lo[x] \in Nat /\ hi[x] \in Nat
  BY <1>1, KeysAre DEF Ranged, Span
<1>3. /\ p \in N /\ p # key
      /\ \/ key < p /\ l = lo[p] /\ h = p /\ Side(key, p) = "left"
         \/ p < key /\ l = p /\ h = hi[p] /\ Side(key, p) = "right"
      /\ \A x \in N : ~(l < x /\ x < h)
  BY DEF Between
<1>4. \A x \in N : ~(Lower(lo, n, s) < x /\ x < Upper(hi, n, s))
  BY <1>1 DEF AllLinked, Linked
<1>5. lo[p] < key /\ key < hi[p]
  BY <1>1, <1>2, <1>3 DEF Hangs, Span
<1>6. s = "left" \/ s = "right"
  BY DEF Sides
<1>7. CASE s = "left"
  <2>1. lo[n] < key /\ key < n /\ \A x \in N : ~(lo[n] < x /\ x < n)
    BY <1>4, <1>7 DEF Lower, Upper
  <2>2. n # p
    BY <1>1, <1>2, <1>3, <1>7, <2>1
  <2>3. CASE p < n
    <3>1. hi[p] <= lo[n] \/ (lo[n] <= lo[p] /\ hi[p] <= n) \/ (p <= lo[n] /\ hi[n] <= hi[p])
      BY <1>1, <1>3, <2>3 DEF Laminar
    <3>2. lo[n] < p => FALSE
      BY <1>3, <2>1, <2>3
    <3>3. p <= lo[n] /\ p < key
      BY <1>1, <1>2, <1>3, <2>1, <3>2
    <3>4. n < hi[p]
      BY <1>1, <1>2, <1>3, <1>5, <2>1, <3>1, <3>3
    <3>5. l = p /\ h = hi[p]
      BY <1>1, <1>2, <1>3, <3>3
    <3> QED
      BY <1>3, <2>3, <3>4, <3>5
  <2>4. CASE n < p
    <3>1. hi[n] <= lo[p] \/ (lo[p] <= lo[n] /\ hi[n] <= p) \/ (n <= lo[p] /\ hi[p] <= hi[n])
      BY <1>1, <1>3, <2>4 DEF Laminar
    <3>2. key < p
      BY <1>1, <1>2, <1>3, <2>1, <2>4
    <3>3. l = lo[p] /\ h = p
      BY <1>1, <1>2, <1>3, <3>2
    <3>4. lo[p] < n
      BY <1>1, <1>2, <1>3, <1>5, <2>1
    <3> QED
      BY <1>3, <2>4, <3>3, <3>4
  <2> QED
    BY <1>2, <1>3, <2>2, <2>3, <2>4
<1>8. CASE s = "right"
  <2>1. n < key /\ key < hi[n] /\ \A x \in N : ~(n < x /\ x < hi[n])
    BY <1>4, <1>8 DEF Lower, Upper
  <2>2. n # p
    BY <1>1, <1>2, <1>3, <1>8, <2>1
  <2>3. CASE p < n
    <3>1. hi[p] <= lo[n] \/ (lo[n] <= lo[p] /\ hi[p] <= n) \/ (p <= lo[n] /\ hi[n] <= hi[p])
      BY <1>1, <1>3, <2>3 DEF Laminar
    <3>2. p < key
      BY <1>1, <1>2, <1>3, <2>1, <2>3
    <3>3. l = p /\ h = hi[p]
      BY <1>1, <1>2, <1>3, <3>2
    <3>4. n < hi[p]
      BY <1>1, <1>2, <1>3, <1>5, <2>1
    <3> QED
      BY <1>3, <2>3, <3>3, <3>4
  <2>4. CASE n < p
    <3>1. hi[n] <= lo[p] \/ (lo[p] <= lo[n] /\ hi[n] <= p) \/ (n <= lo[p] /\ hi[p] <= hi[n])
      BY <1>1, <1>3, <2>4 DEF Laminar
    <3>2. hi[n] <= p
      BY <1>2, <1>3, <2>1, <2>4
    <3>3. key < p
      BY <1>1, <1>2, <1>3, <2>1, <3>2
    <3>4. l = lo[p] /\ h = p
      BY <1>1, <1>2, <1>3, <3>3
    <3>5. lo[p] < n
      BY <1>1, <1>2, <1>3, <1>5, <2>1, <3>1, <3>2
    <3> QED
      BY <1>3, <2>4, <3>4, <3>5
  <2> QED
    BY <1>2, <1>3, <2>2, <2>3, <2>4
<1> QED
  BY <1>6, <1>7, <1>8

LEMMA HungShape ==
  ASSUME NEW t, NEW u, NEW N, NEW lo, NEW hi, NEW key, NEW p, NEW M, NEW l, NEW h, NEW lo2, NEW hi2, NEW high,
         Shape(t, N, lo, hi), Hangs(t, N, lo, hi, key, p), Between(N, lo, hi, key, p, l, h),
         M = N \cup {key}, lo2 = [lo EXCEPT ![key] = l], hi2 = [hi EXCEPT ![key] = h],
         HungLinks(t, u, p, key, high)
  PROVE  Shape(u, M, lo2, hi2)
<1>1. key \in Keys /\ key \notin N /\ key \in Nat /\ t \in Trees /\ N \subseteq Keys /\ 0 \notin Keys
      /\ lo \in [Keys -> Nat] /\ hi \in [Keys -> Nat]
  BY KeysAre DEF Hangs, Shape, Ranged
<1>2. Ranged(M, lo2, hi2) /\ Laminar(M, lo2, hi2)
  BY HungRanges
<1>3. lo2[key] = l /\ hi2[key] = h /\ \A n \in N : lo2[n] = lo[n] /\ hi2[n] = hi[n]
  BY <1>1
<1> DEFINE sd == Side(key, p)
<1>4. /\ u \in Trees /\ u.root = IF p = 0 THEN key ELSE t.root
      /\ \A k \in Keys, s \in Sides :
           u.child[s][k] = IF p # 0 /\ k = p /\ s = sd THEN key ELSE t.child[s][k]
      /\ \A k \in Keys : k # key => u.parent[k] = t.parent[k]
      /\ u.parent[key] = p
  BY DEF HungLinks
<1>5. sd \in Sides
  BY DEF Side, Sides
<1>6. p # 0 => p \in N /\ t.child[sd][p] = 0 /\ l = Lower(lo, p, sd) /\ h = Upper(hi, p, sd)
  BY DEF Between, Hangs, Lower, Upper
<1>7. p = 0 => N = {} /\ t.root = 0 /\ l = 0 /\ h = Top + 1
  BY DEF Hangs, Between
<1> HIDE DEF sd
<1>8. Rooted(u, M, lo2, hi2)
  <2>1. CASE p = 0
    BY <1>1, <1>3, <1>4, <1>7, <2>1 DEF Rooted
  <2>2. CASE p # 0
    <3>1. t.root # 0 /\ t.root \in N /\ t.parent[t.root] = 0 /\ lo[t.root] = 0 /\ hi[t.root] = Top + 1
      BY <1>1, <1>6, <2>2 DEF Shape, Rooted
    <3>2. u.root = t.root /\ t.root # key /\ t.root \in Keys
      BY <1>1, <1>4, <2>2, <3>1
    <3> QED
      BY <1>3, <1>4, <3>1, <3>2 DEF Rooted
  <2> QED
    BY <2>1, <2>2
<1>9. ASSUME NEW n \in N, NEW s \in Sides PROVE Linked(u, M, lo2, hi2, n, s)
  <2>1. p # 0 /\ n \in Keys /\ n # key
    BY <1>1, <1>7, <1>9
  <2>2. Lower(lo2, n, s) = Lower(lo, n, s) /\ Upper(hi2, n, s) = Upper(hi, n, s)
    BY <1>3 DEF Lower, Upper
  <2>3. Linked(t, N, lo, hi, n, s)
    BY DEF Shape, AllLinked
  <2>4. CASE n = p /\ s = sd
    <3>1. u.child[s][n] = key /\ key # 0
      BY <1>1, <1>4, <2>1, <2>4
    <3>2. key \in M /\ u.parent[key] = n /\ lo2[key] = Lower(lo2, n, s) /\ hi2[key] = Upper(hi2, n, s)
      BY <1>3, <1>4, <1>6, <2>1, <2>2, <2>4
    <3> QED
      BY <3>1, <3>2 DEF Linked
  <2>5. CASE ~(n = p /\ s = sd) /\ t.child[s][n] = 0
    <3>1. u.child[s][n] = 0
      BY <1>4, <2>1, <2>5
    <3>2. ~(Lower(lo, n, s) < key /\ key < Upper(hi, n, s))
      BY <2>5, HungApart DEF sd
    <3>3. \A k \in N : ~(Lower(lo, n, s) < k /\ k < Upper(hi, n, s))
      BY <2>3, <2>5 DEF Linked
    <3> QED
      BY <2>2, <3>1, <3>2, <3>3 DEF Linked
  <2>6. CASE ~(n = p /\ s = sd) /\ t.child[s][n] # 0
    <3> DEFINE c == t.child[s][n]
    <3>1. u.child[s][n] = c
      BY <1>4, <2>1, <2>6
    <3>2. c \in N /\ t.parent[c] = n /\ lo[c] = Lower(lo, n, s) /\ hi[c] = Upper(hi, n, s)
      BY <2>3, <2>6 DEF Linked
    <3> HIDE DEF c
    <3>3. c # key /\ c \in Keys /\ c # 0
      BY <1>1, <3>2
    <3>4. u.parent[c] = n /\ lo2[c] = lo[c] /\ hi2[c] = hi[c]
      BY <1>3, <1>4, <3>2, <3>3
    <3> QED
      BY <2>2, <3>1, <3>2, <3>3, <3>4 DEF Linked
  <2> QED
    BY <2>4, <2>5, <2>6
<1>10. ASSUME NEW s \in Sides PROVE Linked(u, M, lo2, hi2, key, s)
  <2>1. t.child[s][key] = 0
    BY <1>1 DEF Shape, Unlinked
  <2>2. key # p
    BY <1>1, <1>6
  <2>3. u.child[s][key] = 0
    BY <1>1, <1>4, <2>1, <2>2
  <2>4. ASSUME NEW k \in M PROVE ~(Lower(lo2, key, s) < k /\ k < Upper(hi2, key, s))
    <3>1. l \in Nat /\ h \in Nat /\ l < key /\ key < h /\ \A n \in N : ~(l < n /\ n < h)
      BY DEF Between
    <3>2. k \in Nat
      BY <1>1, KeysAre
    <3> QED
      BY <1>1, <1>3, <3>1, <3>2 DEF Lower, Upper
  <2> QED
    BY <2>3, <2>4 DEF Linked
<1>11. AllLinked(u, M, lo2, hi2)
  BY <1>9, <1>10 DEF AllLinked
<1>12. ASSUME NEW n \in M, n # u.root
       PROVE  u.parent[n] \in M /\ u.child[Side(n, u.parent[n])][u.parent[n]] = n
  <2>1. p # 0 /\ u.root = t.root
    BY <1>4, <1>7, <1>12
  <2>2. CASE n = key
    <3>1. u.child[sd][p] = key
      BY <1>1, <1>4, <1>5, <1>6, <2>1
    <3> QED
      BY <1>4, <1>6, <2>1, <2>2, <3>1 DEF sd
  <2>3. CASE n # key
    <3> DEFINE q == t.parent[n]
               x == Side(n, q)
    <3>1. n \in N /\ n # t.root /\ n \in Keys /\ n # 0
      BY <1>1, <1>12, <2>1, <2>3
    <3>2. q \in N /\ t.child[x][q] = n
      BY <3>1 DEF Shape, Hanging
    <3>3. u.parent[n] = q /\ x \in Sides
      BY <1>4, <2>3, <3>1 DEF Side, Sides
    <3> HIDE DEF q
    <3>4. ~(q = p /\ x = sd)
      BY <1>6, <2>1, <3>1, <3>2
    <3> HIDE DEF x
    <3>5. u.child[x][q] = n
      BY <1>1, <1>4, <3>2, <3>3, <3>4
    <3> QED
      BY <3>2, <3>3, <3>5 DEF x
  <2> QED
    BY <2>2, <2>3
<1>13. Hanging(u, M)
  BY <1>12 DEF Hanging
<1>14. Unlinked(u, M)
  <2>1. ASSUME NEW s \in Sides, NEW k \in Keys \ M PROVE u.child[s][k] = 0
    <3>1. t.child[s][k] = 0 /\ k # p
      BY <1>1, <1>6 DEF Shape, Unlinked
    <3> QED
      BY <1>4, <3>1
  <2> QED
    BY <2>1 DEF Unlinked
<1> QED
  BY <1>2, <1>4, <1>8, <1>11, <1>13, <1>14 DEF Shape

LEMMA HungColored ==
  ASSUME NEW t, NEW u, NEW N, NEW lo, NEW hi, NEW key, NEW p, NEW M, NEW bh, NEW bh2, NEW high,
         Shape(t, N, lo, hi), Hangs(t, N, lo, hi, key, p), Colored(t, N, bh), RedsApart(t, N, 0),
         M = N \cup {key}, bh2 = [bh EXCEPT ![key] = 0], HungLinks(t, u, p, key, high)
  PROVE  Colored(u, M, bh2) /\ RedsApart(u, M, key)
<1>1. key \in Keys /\ key \notin N /\ t \in Trees /\ N \subseteq Keys /\ 0 \notin Keys
  BY KeysAre DEF Hangs, Shape, Ranged
<1>2. bh \in [Keys \cup {0} -> Nat] /\ bh[0] = 0 /\ \A n \in N, s \in Sides : bh[n] = bh[t.child[s][n]] + Weight(t, n)
  BY DEF Colored
<1>3. bh2 \in [Keys \cup {0} -> Nat] /\ bh2[0] = 0 /\ bh2[key] = 0 /\ \A n \in Keys \cup {0} : n # key => bh2[n] = bh[n]
  BY <1>1, <1>2
<1>4. \A n \in N, s \in Sides : t.child[s][n] \in N \cup {0}
  BY LinksAre
<1> DEFINE sd == Side(key, p)
<1>5. /\ \A k \in Keys, s \in Sides :
           u.child[s][k] = IF p # 0 /\ k = p /\ s = sd THEN key ELSE t.child[s][k]
      /\ \A k \in Keys : k # key => u.parent[k] = t.parent[k] /\ u.red[k] = t.red[k]
      /\ u.red[key]
  BY DEF HungLinks
<1>6. p # 0 => p \in N /\ t.child[sd][p] = 0
  BY DEF Hangs
<1> HIDE DEF sd
<1>7. ASSUME NEW n \in N, NEW s \in Sides PROVE bh2[n] = bh2[u.child[s][n]] + Weight(u, n)
  <2> DEFINE c == t.child[s][n]
  <2>1. n \in Keys /\ n # key /\ c \in N \cup {0} /\ bh[n] = bh[c] + Weight(t, n) /\ bh2[n] = bh[n]
    <3>1. n \in Keys /\ n # key /\ c \in N \cup {0}
      BY <1>1, <1>4
    <3> QED
      BY <1>2, <1>3, <3>1
  <2>2. Weight(u, n) = Weight(t, n)
    BY <1>5, <2>1 DEF Weight
  <2>3. c # key /\ c \in Keys \cup {0} /\ bh2[c] = bh[c]
    BY <1>1, <1>3, <2>1
  <2>4. bh2[u.child[s][n]] = bh[c]
    <3>1. CASE p # 0 /\ n = p /\ s = sd
      <4>1. u.child[s][n] = key /\ c = 0
        BY <1>5, <1>6, <2>1, <3>1
      <4> HIDE DEF c
      <4> QED
        BY <1>2, <1>3, <4>1
    <3>2. CASE ~(p # 0 /\ n = p /\ s = sd)
      <4>1. u.child[s][n] = c
        BY <1>5, <2>1, <3>2
      <4> HIDE DEF c
      <4> QED
        BY <2>3, <4>1
    <3> QED
      BY <3>1, <3>2
  <2> HIDE DEF c
  <2> QED
    BY <2>1, <2>2, <2>4
<1>8. ASSUME NEW s \in Sides PROVE bh2[key] = bh2[u.child[s][key]] + Weight(u, key)
  <2>1. t.child[s][key] = 0
    BY <1>1 DEF Shape, Unlinked
  <2>2. u.child[s][key] = 0
    BY <1>1, <1>5, <1>6, <2>1
  <2> QED
    BY <1>3, <1>5, <2>2 DEF Weight
<1>9. Colored(u, M, bh2)
  BY <1>3, <1>7, <1>8 DEF Colored
<1>10. ASSUME NEW n \in M, n # key, u.red[n] PROVE u.parent[n] # 0 /\ ~u.red[u.parent[n]]
  <2>1. n \in N /\ n # 0 /\ t.red[n] /\ u.parent[n] = t.parent[n]
    BY <1>1, <1>5, <1>10
  <2>2. t.parent[n] # 0 /\ ~t.red[t.parent[n]]
    BY <2>1 DEF RedsApart
  <2>3. t.parent[n] \in N
    BY <2>1, <2>2, LinksAre
  <2> QED
    BY <1>1, <1>5, <2>1, <2>2, <2>3
<1>11. RedsApart(u, M, key)
  BY <1>10 DEF RedsApart
<1> QED
  BY <1>9, <1>11

LEMMA HungMax ==
  ASSUME NEW t, NEW u, NEW N, NEW lo, NEW hi, NEW key, NEW p, NEW M, NEW l, NEW h, NEW lo2, NEW hi2, NEW high \in Nat,
         Shape(t, N, lo, hi), Hangs(t, N, lo, hi, key, p), Between(N, lo, hi, key, p, l, h), MaxAll(t, N, lo, hi, 0),
         M = N \cup {key}, lo2 = [lo EXCEPT ![key] = l], hi2 = [hi EXCEPT ![key] = h],
         HungLinks(t, u, p, key, high)
  PROVE  MaxAll(u, M, lo2, hi2, key)
<1>1. key \in Keys /\ key \notin N /\ N \subseteq Keys /\ lo \in [Keys -> Nat] /\ hi \in [Keys -> Nat]
      /\ 0 \notin Keys /\ Keys \subseteq Nat
  BY KeysAre DEF Hangs, Shape, Ranged
<1>2. lo2[key] = l /\ hi2[key] = h /\ \A n \in N : lo2[n] = lo[n] /\ hi2[n] = hi[n]
  BY <1>1
<1>3. u.high[key] = high /\ u.max[key] = high /\ \A n \in N : u.high[n] = t.high[n] /\ u.max[n] = t.max[n]
  BY <1>1 DEF HungLinks
<1>4. ASSUME NEW n \in N PROVE MaxAt(u, M, lo2, hi2, key, n)
  <2>1. MaxAt(t, N, lo, hi, 0, n)
    BY DEF MaxAll
  <2>2. ASSUME NEW k \in M, Span(lo2, hi2, n, k), k # key \/ n = key PROVE u.high[k] <= u.max[n]
    <3>1. k \in N /\ k # 0 /\ Span(lo, hi, n, k)
      BY <1>1, <1>2, <2>2 DEF Span
    <3> QED
      BY <1>3, <2>1, <3>1 DEF MaxAt
  <2>3. \E k \in M : Span(lo2, hi2, n, k) /\ u.high[k] = u.max[n]
    <3>1. PICK k \in N : Span(lo, hi, n, k) /\ t.high[k] = t.max[n]
      BY <2>1 DEF MaxAt
    <3>2. Span(lo2, hi2, n, k)
      BY <1>2, <3>1 DEF Span
    <3> QED
      BY <1>3, <3>1, <3>2
  <2> QED
    BY <2>2, <2>3 DEF MaxAt
<1>5. MaxAt(u, M, lo2, hi2, key, key)
  <2>1. l < key /\ key < h /\ \A n \in N : ~(l < n /\ n < h)
    BY DEF Between
  <2>2. ASSUME NEW k \in M, Span(lo2, hi2, key, k) PROVE k = key
    BY <1>2, <2>1, <2>2 DEF Span
  <2>3. Span(lo2, hi2, key, key)
    BY <1>2, <2>1 DEF Span
  <2>4. u.high[key] <= u.max[key] /\ u.high[key] = u.max[key] /\ key \in M
    BY <1>3
  <2>5. \A k \in M : Span(lo2, hi2, key, k) => u.high[k] <= u.max[key]
    BY <2>2, <2>4
  <2>6. \E k \in M : Span(lo2, hi2, key, k) /\ u.high[k] = u.max[key]
    BY <2>3, <2>4
  <2> QED
    BY <2>5, <2>6 DEF MaxAt
<1> QED
  BY <1>4, <1>5 DEF MaxAll

Reddened(u, M, key, high) ==
  u.red[key] /\ \E lo, hi, bh : Coloring(u, M, key, high, key, lo, hi, bh)

LEMMA HungRight ==
  ASSUME NEW t, NEW N, NEW lo, NEW hi, NEW bh, NEW key, NEW p, NEW M, NEW high \in Nat, NEW highs, NEW u,
         Shape(t, N, lo, hi), Colored(t, N, bh), RedsApart(t, N, 0), MaxAll(t, N, lo, hi, 0),
         Hangs(t, N, lo, hi, key, p), M = N \cup {key}, highs = [t.high EXCEPT ![key] = high],
         u = Hung(t, p, key, high)
  PROVE  Reddened(u, M, key, highs)
<1> DEFINE l == HungLow(lo, key, p)[key]
           h == HungHigh(hi, key, p)[key]
           lo2 == [lo EXCEPT ![key] = l]
           hi2 == [hi EXCEPT ![key] = h]
           bh2 == [bh EXCEPT ![key] = 0]
           v == HungFrom(t, p, key, high)
<1>1. key \in Keys /\ key \notin N /\ p \in Keys \cup {0} /\ t \in Trees /\ N \subseteq Keys
  BY DEF Hangs, Shape, Ranged
<1>2. Between(N, lo, hi, key, p, l, h)
  BY BetweenIs
<1>3. HungLinks(t, v, p, key, high)
  BY <1>1, HungFromIs
<1> HIDE DEF v, l, h
<1>4. Shape(v, M, lo2, hi2)
  BY <1>2, <1>3, HungShape
<1>5. MaxAll(v, M, lo2, hi2, key)
  BY <1>2, <1>3, HungMax
<1>6. Colored(v, M, bh2) /\ RedsApart(v, M, key)
  BY <1>3, HungColored
<1>7. v.high = highs /\ v.red[key]
  <2>1. v.high \in [Keys -> Nat] /\ t.high \in [Keys -> Nat] /\ v.high[key] = high
        /\ \A k \in Keys : k # key => v.high[k] = t.high[k]
    BY <1>1, <1>3, TreeIs DEF HungLinks
  <2>2. \A k \in Keys : v.high[k] = highs[k]
    BY <1>1, <2>1
  <2>3. highs \in [Keys -> Nat]
    BY <1>1, <2>1
  <2>4. v.red[key]
    BY <1>3 DEF HungLinks
  <2> QED
    BY <2>1, <2>2, <2>3, <2>4
<1> HIDE DEF lo2, hi2, bh2
<1>8. CASE p = 0
  <2>1. u = v
    BY <1>8, HungIs DEF v
  <2>2. Coloring(u, M, key, highs, key, lo2, hi2, bh2)
    BY <1>4, <1>5, <1>6, <1>7, <2>1 DEF Coloring
  <2> QED
    BY <1>7, <2>1, <2>2 DEF Reddened
<1>9. CASE p # 0
  <2>1. u = AugmentNode(v, p)
    BY <1>9, HungIs DEF v
  <2>2. p \in N /\ p \in M /\ p \in Keys /\ v \in Trees
    BY <1>1, <1>4, <1>9 DEF Hangs, Shape
  <2>3. NodeAugmented(v, u, p)
    BY <2>1, <2>2, AugmentIs
  <2>4. RightBelow(v, M, lo2, hi2, key, p)
    <3>1. \A s \in Sides : v.child[s][p] # 0 => v.child[s][p] \in M
      BY <1>4, <2>2, LinksAre
    <3> QED
      BY <1>5, <3>1 DEF RightBelow, MaxAll
  <2>5. RightBut(v, M, lo2, hi2, key, p, M)
    BY <1>5 DEF RightBut, MaxAll
  <2>6. RightIn(u, M, lo2, hi2, key, M)
    BY <1>4, <2>2, <2>3, <2>4, <2>5, AugmentRight
  <2>7. Shape(u, M, lo2, hi2) /\ MaxAll(u, M, lo2, hi2, key)
    BY <2>6 DEF RightIn, MaxAll
  <2>8. u.red = v.red /\ u.child = v.child /\ u.parent = v.parent /\ u.high = v.high
    BY <2>3 DEF NodeAugmented, SameLinks
  <2>9. Colored(u, M, bh2) /\ RedsApart(u, M, key)
    BY <1>6, <2>8 DEF Colored, RedsApart, Weight
  <2>10. Coloring(u, M, key, highs, key, lo2, hi2, bh2)
    BY <1>7, <2>7, <2>8, <2>9 DEF Coloring
  <2> QED
    BY <1>7, <2>8, <2>10 DEF Reddened
<1> QED
  BY <1>8, <1>9

-----------------------------------------------------------------------------
(* RB_INSERT, down to where a node is or would hang.                        *)
Narrow(lo, hi, n, i) == hi[n] + i <= lo[n] + Top + 1

DownEnd(t, n, key) == key = n \/ t.child[Side(key, n)][n] = 0

DownState(s, t, N, lo, hi, key, i) ==
  /\ s.tree = t /\ s.of = key /\ s.at \in N /\ Span(lo, hi, s.at, key)
  /\ DownEnd(t, s.at, key) \/ Narrow(lo, hi, s.at, i)

LEMMA Fields ==
  ASSUME NEW t, NEW n, NEW of
  PROVE  At(t, n, of).tree = t /\ At(t, n, of).at = n /\ At(t, n, of).of = of
  BY DEF At

LEMMA DownStep ==
  ASSUME NEW s, NEW t, NEW N, NEW lo, NEW hi, NEW key \in Keys, NEW i \in Nat, NEW v,
         Shape(t, N, lo, hi), DownState(s, t, N, lo, hi, key, i), v = DownTurn(s)
  PROVE  DownState(v, t, N, lo, hi, key, i + 1) /\ (DownEnd(t, s.at, key) => v = s)
<1> DEFINE n == s.at
           sd == Side(key, n)
           c == t.child[sd][n]
<1>1. /\ s.tree = t /\ s.of = key /\ n \in N /\ Span(lo, hi, n, key)
      /\ DownEnd(t, n, key) \/ Narrow(lo, hi, n, i)
  BY DEF DownState
<1>2. v = IF c = 0 \/ key = n THEN s ELSE At(t, c, key)
  BY <1>1 DEF DownTurn
<1>3. CASE DownEnd(t, n, key)
  <2>1. v = s
    BY <1>2, <1>3 DEF DownEnd
  <2> QED
    BY <1>1, <1>3, <2>1 DEF DownState
<1>4. CASE ~DownEnd(t, n, key)
  <2>1. c # 0 /\ key # n /\ v = At(t, c, key) /\ Narrow(lo, hi, n, i)
    BY <1>1, <1>2, <1>4 DEF DownEnd
  <2>2. sd \in Sides
    BY DEF Side, Sides
  <2>3. c \in N /\ lo[c] = Lower(lo, n, sd) /\ hi[c] = Upper(hi, n, sd)
    BY <1>1, <2>1, <2>2 DEF Shape, AllLinked, Linked
  <2> HIDE DEF c
  <2>4. lo[n] < n /\ n < hi[n] /\ n \in Nat /\ lo[n] \in Nat /\ hi[n] \in Nat /\ key \in Nat /\ Top \in Nat
    BY <1>1, KeysAre DEF Shape, Ranged, Span
  <2>5. /\ lo[n] < key /\ key < hi[n]
        /\ \/ key < n /\ lo[c] = lo[n] /\ hi[c] = n
           \/ n < key /\ lo[c] = n /\ hi[c] = hi[n]
    BY <1>1, <2>1, <2>3, <2>4 DEF Span, Side, Lower, Upper
  <2>6. Span(lo, hi, c, key) /\ Narrow(lo, hi, c, i + 1)
    BY <2>1, <2>4, <2>5 DEF Span, Narrow
  <2>7. v.tree = t /\ v.at = c /\ v.of = key
    BY <2>1, Fields
  <2>8. DownState(v, t, N, lo, hi, key, i + 1)
    BY <2>3, <2>6, <2>7 DEF DownState
  <2> QED
    BY <1>4, <2>8
<1> QED
  BY <1>3, <1>4

Descended(t, N, lo, hi, key, p) ==
  IF key \in N THEN p = key ELSE p # key /\ Hangs(t, N, lo, hi, key, p)

LEMMA TurnOfDown ==
  ASSUME NEW s
  PROVE  TurnOfLoop("down", s) = DownTurn(s)
  BY DEF TurnOfLoop

LEMMA DownRight ==
  ASSUME NEW t, NEW N, NEW lo, NEW hi, NEW key \in Keys, Shape(t, N, lo, hi)
  PROVE  Descended(t, N, lo, hi, key, Down(t, key))
<1> DEFINE p == Down(t, key)
<1>0. Top \in Nat /\ key \in 1 .. Top /\ 0 \notin Keys
  BY KeysAre
<1>1. CASE t.root = 0
  <2>1. N = {} /\ p = 0
    BY <1>1 DEF Shape, Rooted, Down
  <2> QED
    BY <1>0, <1>1, <2>1 DEF Descended, Hangs
<1>2. CASE t.root # 0
  <2>1. PICK turn : LoopTurns("down", t, t.root, key, turn)
    BY LoopHasTurns
  <2>2. /\ Looped("down", t, t.root, key) = turn[Top + 1] /\ turn[0] = At(t, t.root, key)
        /\ \A i \in 0 .. Top : turn[i + 1] = DownTurn(turn[i])
    BY <2>1, TurnOfDown DEF LoopTurns
  <2> DEFINE S == {i \in Nat : DownState(turn[i], t, N, lo, hi, key, i)}
  <2>3. 0 \in S
    <3>1. t.root \in N /\ lo[t.root] = 0 /\ hi[t.root] = Top + 1
      BY <1>2 DEF Shape, Rooted
    <3>2. Span(lo, hi, t.root, key) /\ Narrow(lo, hi, t.root, 0)
      BY <1>0, <3>1 DEF Span, Narrow
    <3>3. DownState(At(t, t.root, key), t, N, lo, hi, key, 0)
      BY <3>1, <3>2, Fields DEF DownState
    <3> QED
      BY <2>2, <3>3
  <2>4. ASSUME NEW i \in 0 .. Top, DownState(turn[i], t, N, lo, hi, key, i)
        PROVE  DownState(turn[i + 1], t, N, lo, hi, key, i + 1)
               /\ (DownEnd(t, turn[i].at, key) => turn[i + 1] = turn[i])
    <3>1. turn[i + 1] = DownTurn(turn[i]) /\ i \in Nat
      BY <2>2
    <3> QED
      BY <2>4, <3>1, DownStep
  <2>5. ASSUME NEW i \in 0 .. Top - 1, i \in S PROVE i + 1 \in S
    <3>1. i \in 0 .. Top /\ i + 1 \in Nat
      BY <1>0
    <3> QED
      BY <2>4, <2>5, <3>1
  <2>6. Top \in S
    <3> HIDE DEF S
    <3>1. \A i \in 0 .. Top : i \in S
      BY <1>0, <2>3, <2>5, Upwards
    <3> QED
      BY <1>0, <3>1
  <2> DEFINE n == turn[Top].at
  <2>7. n \in N /\ Span(lo, hi, n, key) /\ (DownEnd(t, n, key) \/ Narrow(lo, hi, n, Top))
    BY <2>6 DEF DownState
  <2>8. lo[n] < n /\ n < hi[n] /\ n \in Nat /\ lo[n] \in Nat /\ hi[n] \in Nat /\ key \in Nat
    BY <2>7, KeysAre DEF Shape, Ranged, Span
  <2>9. DownEnd(t, n, key)
    BY <1>0, <2>7, <2>8 DEF Span, Narrow
  <2>10. p = n
    <3>1. turn[Top + 1] = turn[Top]
      BY <1>0, <2>4, <2>6, <2>9
    <3> QED
      BY <1>2, <2>2, <3>1 DEF Down
  <2> HIDE DEF n, p
  <2>11. CASE n = key
    BY <2>7, <2>10, <2>11 DEF Descended, p
  <2>12. CASE n # key
    <3> DEFINE sd == Side(key, n)
    <3>1. t.child[sd][n] = 0
      BY <2>9, <2>12 DEF DownEnd
    <3>2. sd \in Sides /\ Lower(lo, n, sd) < key /\ key < Upper(hi, n, sd)
      BY <2>7, <2>8, <2>12 DEF Side, Sides, Lower, Upper, Span
    <3>3. key \notin N
      BY <2>7, <3>1, <3>2 DEF Shape, AllLinked, Linked
    <3>4. n # 0
      BY <1>0, <2>7 DEF Shape, Ranged
    <3>5. Hangs(t, N, lo, hi, key, n)
      BY <2>7, <3>1, <3>3, <3>4 DEF Hangs
    <3> QED
      BY <2>10, <2>12, <3>3, <3>5 DEF Descended, p
  <2> QED
    BY <2>11, <2>12
<1> QED
  BY <1>1, <1>2

-----------------------------------------------------------------------------
(* sysprof_symbol_cache_take(), the nodes above hear of the new one: those  *)
(* in the range of at have.                                                 *)
ToldAt(u, M, lo, hi, key, at, n) ==
  /\ \A k \in M : Span(lo, hi, n, k) /\ (k # key \/ Span(lo, hi, at, n)) => u.high[k] <= u.max[n]
  /\ \E k \in M : Span(lo, hi, n, k) /\ u.high[k] = u.max[n]

Told(u, M, lo, hi, key, at) == \A n \in M : ToldAt(u, M, lo, hi, key, at, n)

RaiseState(s, t, M, lo, hi, key, i) ==
  /\ s.tree \in Trees /\ SameLinks(t, s.tree)
  /\ s.at \in M /\ Span(lo, hi, s.at, key)
  /\ Told(s.tree, M, lo, hi, key, s.at)
  /\ s.at = t.root \/ Wide(lo, hi, s.at, i)

(* A node below another, that has key in its range, is at the child that has*)
(* it or below that.                                                        *)
LEMMA BelowOne ==
  ASSUME NEW t, NEW M, NEW lo, NEW hi, NEW key \in Nat, NEW n \in M, NEW p \in M, NEW c \in M,
         Shape(t, M, lo, hi), IsParent(t, M, lo, hi, c, p), Span(lo, hi, c, key),
         Span(lo, hi, p, n), n # p, Span(lo, hi, n, key)
  PROVE  Span(lo, hi, c, n)
<1>1. Ranged(M, lo, hi) /\ Laminar(M, lo, hi)
  BY DEF Shape
<1>2. \A x \in M : lo[x] < x /\ x < hi[x] /\ x \in Nat /\ lo[x] \in Nat /\ hi[x] \in Nat
  BY <1>1, KeysAre DEF Ranged, Span
<1>3. lo[c] < key /\ key < hi[c] /\ lo[p] < n /\ n < hi[p] /\ lo[n] < key /\ key < hi[n]
  BY DEF Span
<1>4. \/ c < p /\ lo[c] = lo[p] /\ hi[c] = p
      \/ p < c /\ lo[c] = p /\ hi[c] = hi[p]
  BY DEF IsParent
<1>5. CASE n < p
  <2>1. hi[n] <= lo[p] \/ (lo[p] <= lo[n] /\ hi[n] <= p) \/ (n <= lo[p] /\ hi[p] <= hi[n])
    BY <1>1, <1>5 DEF Laminar
  <2>2. hi[n] <= p
    BY <1>2, <1>3, <2>1
  <2>3. lo[c] = lo[p] /\ hi[c] = p
    BY <1>2, <1>3, <1>4, <2>2
  <2> QED
    BY <1>3, <1>5, <2>3 DEF Span
<1>6. CASE p < n
  <2>1. hi[p] <= lo[n] \/ (lo[n] <= lo[p] /\ hi[p] <= n) \/ (p <= lo[n] /\ hi[n] <= hi[p])
    BY <1>1, <1>6 DEF Laminar
  <2>2. p <= lo[n]
    BY <1>2, <1>3, <2>1
  <2>3. lo[c] = p /\ hi[c] = hi[p]
    BY <1>2, <1>3, <1>4, <2>2
  <2> QED
    BY <1>3, <1>6, <2>3 DEF Span
<1> QED
  BY <1>2, <1>5, <1>6

LEMMA NoneBelow ==
  ASSUME NEW t, NEW M, NEW lo, NEW hi, NEW key \in M, NEW n \in M,
         Shape(t, M, lo, hi), Span(lo, hi, key, n), Span(lo, hi, n, key)
  PROVE  n = key
<1>1. Ranged(M, lo, hi) /\ Laminar(M, lo, hi)
  BY DEF Shape
<1>2. \A x \in M : lo[x] < x /\ x < hi[x] /\ x \in Nat /\ lo[x] \in Nat /\ hi[x] \in Nat
  BY <1>1, KeysAre DEF Ranged, Span
<1>3. lo[key] < n /\ n < hi[key] /\ lo[n] < key /\ key < hi[n]
  BY DEF Span
<1>4. ~(n < key)
  <2> SUFFICES ASSUME n < key PROVE FALSE
    OBVIOUS
  <2>1. hi[n] <= lo[key] \/ (lo[key] <= lo[n] /\ hi[n] <= key) \/ (n <= lo[key] /\ hi[key] <= hi[n])
    BY <1>1 DEF Laminar
  <2> QED
    BY <1>2, <1>3, <2>1
<1>5. ~(key < n)
  <2> SUFFICES ASSUME key < n PROVE FALSE
    OBVIOUS
  <2>1. hi[key] <= lo[n] \/ (lo[n] <= lo[key] /\ hi[key] <= n) \/ (key <= lo[n] /\ hi[n] <= hi[key])
    BY <1>1 DEF Laminar
  <2> QED
    BY <1>2, <1>3, <2>1
<1> QED
  BY <1>2, <1>4, <1>5

(* A turn at a node that is not the root.                                   *)
Raised(t, u, n, p) ==
  /\ u \in Trees /\ SameLinks(t, u)
  /\ \A k \in Keys : k # p => u.max[k] = t.max[k]
  /\ u.max[p] >= t.max[p] /\ u.max[p] >= t.max[n]
  /\ u.max[p] = t.max[p] \/ u.max[p] = t.max[n]

LEMMA RaiseTurnIs ==
  ASSUME NEW s, NEW t \in Trees, NEW n \in Keys, NEW p, s.tree = t, s.at = n, p = t.parent[n]
  PROVE  IF p = 0 THEN RaiseTurn(s) = s
         ELSE RaiseTurn(s).at = p /\ Raised(t, RaiseTurn(s).tree, n, p)
<1>1. p = 0 => RaiseTurn(s) = s
  BY DEF RaiseTurn
<1>2. ASSUME p # 0 PROVE RaiseTurn(s).at = p /\ Raised(t, RaiseTurn(s).tree, n, p)
  <2> DEFINE m == IF t.max[n] > t.max[p] THEN t.max[n] ELSE t.max[p]
             mx == [t.max EXCEPT ![p] = m]
             u == [t EXCEPT !.max = mx]
  <2>1. RaiseTurn(s) = At(u, p, s.of)
    BY <1>2 DEF RaiseTurn
  <2>2. p \in Keys /\ t.max \in [Keys -> Nat]
    BY <1>2, TreeIs
  <2>3. m \in Nat /\ m >= t.max[p] /\ m >= t.max[n] /\ (m = t.max[p] \/ m = t.max[n])
    <3>1. t.max[p] \in Nat /\ t.max[n] \in Nat
      BY <2>2
    <3> QED
      BY <3>1
  <2> HIDE DEF m
  <2>4. mx \in [Keys -> Nat] /\ mx[p] = m /\ \A k \in Keys : k # p => mx[k] = t.max[k]
    BY <2>2, <2>3
  <2> HIDE DEF mx
  <2>5. u \in Trees /\ SameLinks(t, u) /\ u.max = mx
    BY <2>4 DEF Trees, SameLinks
  <2> HIDE DEF u
  <2>6. Raised(t, u, n, p)
    BY <2>3, <2>4, <2>5 DEF Raised
  <2> QED
    BY <2>1, <2>6, Fields
<1> QED
  BY <1>1, <1>2

LEMMA RaiseStep ==
  ASSUME NEW s, NEW t, NEW M, NEW lo, NEW hi, NEW key \in M, NEW i \in Nat, NEW v,
         Shape(t, M, lo, hi), RaiseState(s, t, M, lo, hi, key, i), v = RaiseTurn(s)
  PROVE  RaiseState(v, t, M, lo, hi, key, i + 1) /\ (s.at = t.root => v = s)
<1> DEFINE w == s.tree
           n == s.at
           p == t.parent[n]
           u == v.tree
<1>1. /\ w \in Trees /\ SameLinks(t, w) /\ n \in M /\ Span(lo, hi, n, key)
      /\ Told(w, M, lo, hi, key, n) /\ (n = t.root \/ Wide(lo, hi, n, i))
  BY DEF RaiseState
<1>2. M \subseteq Keys /\ 0 \notin M /\ \A x \in M : t.parent[x] = 0 <=> x = t.root
  BY LinksAre
<1>3. w.parent[n] = p
  BY <1>1 DEF SameLinks
<1>4. IF p = 0 THEN v = s ELSE v.at = p /\ Raised(w, u, n, p)
  <2>1. n \in Keys
    BY <1>1, <1>2
  <2> QED
    BY <1>1, <1>3, <2>1, RaiseTurnIs
<1> HIDE DEF w, n, p, u
<1>5. CASE n = t.root
  <2>1. v = s
    BY <1>1, <1>2, <1>4, <1>5 DEF p
  <2> QED
    BY <1>5, <2>1 DEF RaiseState, n
<1>6. CASE n # t.root
  <2>1. v.at = p /\ Raised(w, u, n, p) /\ p # 0
    BY <1>1, <1>2, <1>4, <1>6 DEF p
  <2>2. IsParent(t, M, lo, hi, n, p)
    BY <1>1, <1>6, ParentIs DEF p
  <2>3. p \in M /\ Wide(lo, hi, p, i + 1)
    BY <1>1, <1>6, <2>2, WiderAbove DEF IsParent, p
  <2>4. \A x \in M : lo[x] < x /\ x < hi[x] /\ x \in Nat /\ lo[x] \in Nat /\ hi[x] \in Nat
    BY KeysAre DEF Shape, Ranged, Span
  <2>5. ASSUME NEW k \in M, Span(lo, hi, n, k) PROVE Span(lo, hi, p, k)
    <3>1. (lo[n] = lo[p] /\ hi[n] = p) \/ (lo[n] = p /\ hi[n] = hi[p])
      BY <2>2 DEF IsParent
    <3> QED
      BY <1>1, <2>3, <2>4, <2>5, <3>1 DEF Span
  <2>6. SameLinks(t, u) /\ u \in Trees /\ u.high = w.high
    BY <1>1, <2>1 DEF Raised, SameLinks
  <2>7. \A k \in M : w.high[k] \in Nat /\ w.max[k] \in Nat /\ u.max[k] \in Nat
    BY <1>1, <1>2, <2>6, TreeIs
  <2>8. \A k \in M : u.max[k] >= w.max[k]
    BY <1>2, <2>1, <2>7 DEF Raised
  <2>9. ASSUME NEW x \in M PROVE ToldAt(u, M, lo, hi, key, p, x)
    <3>1. ToldAt(w, M, lo, hi, key, n, x)
      BY <1>1 DEF Told
    <3>2. ASSUME NEW k \in M, Span(lo, hi, x, k), k # key \/ Span(lo, hi, p, x) PROVE u.high[k] <= u.max[x]
      <4>1. CASE k # key \/ Span(lo, hi, n, x)
        <5>1. w.high[k] <= w.max[x]
          BY <3>1, <3>2, <4>1 DEF ToldAt
        <5> QED
          BY <2>6, <2>7, <2>8, <5>1
      <4>2. CASE k = key /\ ~Span(lo, hi, n, x)
        <5>1. x = p
          <6>1. key \in Nat
            BY <2>4
          <6> QED
            BY <1>1, <2>2, <2>3, <3>2, <4>2, <6>1, BelowOne
        <5>2. w.high[key] <= w.max[n]
          <6>1. ToldAt(w, M, lo, hi, key, n, n) /\ Span(lo, hi, n, n)
            BY <1>1, <2>4 DEF Told, Span
          <6> QED
            BY <1>1, <6>1 DEF ToldAt
        <5>3. u.max[p] >= w.max[n]
          BY <2>1 DEF Raised
        <5> QED
          BY <1>1, <2>6, <2>7, <4>2, <5>1, <5>2, <5>3
      <4> QED
        BY <4>1, <4>2
    <3>3. \E k \in M : Span(lo, hi, x, k) /\ u.high[k] = u.max[x]
      <4>1. CASE u.max[x] = w.max[x]
        BY <2>6, <3>1, <4>1 DEF ToldAt
      <4>2. CASE u.max[x] # w.max[x]
        <5>1. x = p /\ u.max[p] = w.max[n]
          BY <1>2, <2>1, <4>2 DEF Raised
        <5>2. ToldAt(w, M, lo, hi, key, n, n)
          BY <1>1 DEF Told
        <5>3. PICK k \in M : Span(lo, hi, n, k) /\ w.high[k] = w.max[n]
          BY <5>2 DEF ToldAt
        <5> QED
          BY <2>5, <2>6, <5>1, <5>3
      <4> QED
        BY <4>1, <4>2
    <3> QED
      BY <3>2, <3>3 DEF ToldAt
  <2>10. Told(u, M, lo, hi, key, p)
    BY <2>9 DEF Told
  <2>11. Span(lo, hi, p, key)
    BY <1>1, <2>5
  <2>12. RaiseState(v, t, M, lo, hi, key, i + 1)
    BY <2>1, <2>3, <2>6, <2>10, <2>11 DEF RaiseState, u
  <2> QED
    BY <1>6, <2>12 DEF n
<1> QED
  BY <1>5, <1>6

(* A tree that no operation is under way on.                                *)
Sound(t, N, lo, hi, bh) ==
  Shape(t, N, lo, hi) /\ MaxAll(t, N, lo, hi, 0) /\ Colored(t, N, bh) /\ RedsApart(t, N, 0)

Grown(u, M, high) == (\E lo, hi, bh : Sound(u, M, lo, hi, bh)) /\ u.high = high

LEMMA TurnOfRaise ==
  ASSUME NEW s
  PROVE  TurnOfLoop("raise", s) = RaiseTurn(s)
  BY DEF TurnOfLoop

LEMMA RaiseRight ==
  ASSUME NEW t, NEW M, NEW key \in M, NEW high, Settled(t, M, key, high)
  PROVE  Grown(Looped("raise", t, key, 0).tree, M, high)
<1>0. Top \in Nat /\ Keys \subseteq 1 .. Top /\ 0 \notin Keys
  BY KeysAre
<1>1. PICK lo, hi, bh : /\ Shape(t, M, lo, hi) /\ MaxAll(t, M, lo, hi, key)
                        /\ Colored(t, M, bh) /\ RedsApart(t, M, 0) /\ t.high = high
  BY DEF Settled
<1>2. PICK turn : LoopTurns("raise", t, key, 0, turn)
  BY LoopHasTurns
<1>3. /\ Looped("raise", t, key, 0) = turn[Top + 1] /\ turn[0] = At(t, key, 0)
      /\ \A i \in 0 .. Top : turn[i + 1] = RaiseTurn(turn[i])
  BY <1>2, TurnOfRaise DEF LoopTurns
<1>4. /\ M \subseteq Keys /\ t \in Trees
      /\ \A x \in M : lo[x] < x /\ x < hi[x] /\ hi[x] <= Top + 1 /\ x \in Nat /\ lo[x] \in Nat /\ hi[x] \in Nat
  BY <1>1, KeysAre DEF Shape, Ranged, Span
<1> DEFINE S == {i \in Nat : RaiseState(turn[i], t, M, lo, hi, key, i)}
<1>5. 0 \in S
  <2>1. ASSUME NEW n \in M PROVE ToldAt(t, M, lo, hi, key, key, n)
    <3>1. MaxAt(t, M, lo, hi, key, n)
      BY <1>1 DEF MaxAll
    <3>2. ASSUME NEW k \in M, Span(lo, hi, n, k), k # key \/ Span(lo, hi, key, n) PROVE t.high[k] <= t.max[n]
      <4>1. k # key \/ n = key
        BY <1>1, <3>2, NoneBelow
      <4> QED
        BY <3>1, <3>2, <4>1 DEF MaxAt
    <3> QED
      BY <3>1, <3>2 DEF MaxAt, ToldAt
  <2>2. Told(t, M, lo, hi, key, key)
    BY <2>1 DEF Told
  <2>3. Span(lo, hi, key, key) /\ Wide(lo, hi, key, 0)
    BY <1>4 DEF Span, Wide
  <2>4. SameLinks(t, t)
    BY DEF SameLinks
  <2>5. RaiseState(At(t, key, 0), t, M, lo, hi, key, 0)
    BY <1>4, <2>2, <2>3, <2>4, Fields DEF RaiseState
  <2> QED
    BY <1>3, <2>5
<1>6. ASSUME NEW i \in 0 .. Top, RaiseState(turn[i], t, M, lo, hi, key, i)
      PROVE  RaiseState(turn[i + 1], t, M, lo, hi, key, i + 1) /\ (turn[i].at = t.root => turn[i + 1] = turn[i])
  <2>1. turn[i + 1] = RaiseTurn(turn[i]) /\ i \in Nat
    BY <1>3
  <2> QED
    BY <1>1, <1>6, <2>1, RaiseStep
<1>7. ASSUME NEW i \in 0 .. Top - 1, i \in S PROVE i + 1 \in S
  <2>1. i \in 0 .. Top /\ i + 1 \in Nat
    BY <1>0
  <2> QED
    BY <1>6, <1>7, <2>1
<1>8. Top \in S
  <2> HIDE DEF S
  <2>1. \A i \in 0 .. Top : i \in S
    BY <1>0, <1>5, <1>7, Upwards
  <2> QED
    BY <1>0, <2>1
<1> DEFINE u == turn[Top].tree
           n == turn[Top].at
<1>9. /\ u \in Trees /\ SameLinks(t, u) /\ n \in M /\ Told(u, M, lo, hi, key, n)
      /\ n = t.root \/ Wide(lo, hi, n, Top)
  BY <1>8 DEF RaiseState
<1>10. n = t.root
  BY <1>0, <1>4, <1>9 DEF Wide
<1>11. turn[Top + 1] = turn[Top]
  BY <1>0, <1>6, <1>8, <1>10
<1> HIDE DEF u, n
<1>12. ASSUME NEW x \in M PROVE MaxAt(u, M, lo, hi, 0, x)
  <2>1. ToldAt(u, M, lo, hi, key, n, x)
    BY <1>9 DEF Told
  <2>2. Span(lo, hi, n, x)
    <3>1. lo[n] = 0 /\ hi[n] = Top + 1
      BY <1>0, <1>1, <1>4, <1>9, <1>10 DEF Shape, Rooted
    <3>2. x \in 1 .. Top
      BY <1>0, <1>4
    <3> QED
      BY <1>0, <3>1, <3>2 DEF Span
  <2> QED
    BY <2>1, <2>2 DEF ToldAt, MaxAt
<1>13. MaxAll(u, M, lo, hi, 0)
  BY <1>12 DEF MaxAll
<1>14. Shape(u, M, lo, hi)
  BY <1>1, <1>9 DEF Shape, SameLinks, Rooted, AllLinked, Linked, Hanging, Unlinked
<1>15. Colored(u, M, bh) /\ RedsApart(u, M, 0) /\ u.high = high
  BY <1>1, <1>9 DEF SameLinks, Colored, RedsApart, Weight
<1>16. Sound(u, M, lo, hi, bh)
  BY <1>13, <1>14, <1>15 DEF Sound
<1>17. Grown(u, M, high)
  BY <1>15, <1>16 DEF Grown
<1> QED
  BY <1>3, <1>11, <1>17 DEF u

-----------------------------------------------------------------------------
(* sysprof_symbol_cache_lookup()                                            *)
Spans(t, k, a) == k <= a /\ a <= t.high[k]

SeekState(s, t, N, lo, hi, a, i) ==
  /\ s.tree = t /\ s.of = a /\ s.at \in N \cup {0}
  /\ (\E k \in N : Spans(t, k, a)) =>
       s.at # 0 /\ \E k \in N : Spans(t, k, a) /\ Span(lo, hi, s.at, k)
  /\ s.at = 0 \/ Spans(t, s.at, a) \/ Narrow(lo, hi, s.at, i)

Found(t, n, a) == n = 0 \/ Spans(t, n, a)

LEMMA SeekStep ==
  ASSUME NEW s, NEW t, NEW N, NEW lo, NEW hi, NEW a \in Nat, NEW i \in Nat, NEW v,
         Shape(t, N, lo, hi), MaxAll(t, N, lo, hi, 0), SeekState(s, t, N, lo, hi, a, i), v = SeekTurn(s)
  PROVE  SeekState(v, t, N, lo, hi, a, i + 1) /\ (Found(t, s.at, a) => v = s)
<1> DEFINE n == s.at
           l == t.child["left"][n]
           r == t.child["right"][n]
           c == IF l # 0 /\ t.max[l] >= a THEN l ELSE r
<1>1. /\ s.tree = t /\ s.of = a /\ n \in N \cup {0}
      /\ (\E k \in N : Spans(t, k, a)) => n # 0 /\ \E k \in N : Spans(t, k, a) /\ Span(lo, hi, n, k)
      /\ n = 0 \/ Spans(t, n, a) \/ Narrow(lo, hi, n, i)
  BY DEF SeekState
<1>2. N \subseteq Keys /\ N \subseteq Nat /\ t \in Trees /\ Top \in Nat /\ 0 \notin N
  BY KeysAre DEF Shape, Ranged
<1>3. \A x \in N : t.high[x] \in Nat /\ t.max[x] \in Nat /\ lo[x] \in Nat /\ hi[x] \in Nat /\ lo[x] < x /\ x < hi[x]
  <2>1. Ranged(N, lo, hi)
    BY DEF Shape
  <2> QED
    BY <1>2, <2>1, TreeIs DEF Ranged, Span
<1>4. n # 0 => (a \in n .. t.high[n] <=> Spans(t, n, a))
  <2> HAVE n # 0
  <2>1. n \in Nat /\ t.high[n] \in Nat
    BY <1>1, <1>2, <1>3
  <2> HIDE DEF n
  <2> QED
    BY <2>1 DEF Spans
<1>5. v = IF n = 0 THEN s ELSE IF Spans(t, n, a) THEN s ELSE At(t, c, a)
  <2>1. v = IF n = 0 THEN s ELSE IF a \in n .. t.high[n] THEN s ELSE At(t, c, a)
    BY <1>1 DEF SeekTurn
  <2> HIDE DEF c
  <2> QED
    BY <1>4, <2>1
<1> HIDE DEF n
<1>6. CASE Found(t, n, a)
  <2>1. v = s
    BY <1>5, <1>6 DEF Found
  <2>2. SeekState(v, t, N, lo, hi, a, i + 1)
    BY <1>1, <1>6, <2>1 DEF SeekState, Found, n
  <2> QED
    BY <2>1, <2>2
<1>7. CASE ~Found(t, n, a)
  <2>1. n \in N /\ n # 0 /\ ~Spans(t, n, a) /\ Narrow(lo, hi, n, i) /\ v = At(t, c, a)
    BY <1>1, <1>5, <1>7 DEF Found
  <2>2. /\ l # 0 => l \in N /\ lo[l] = lo[n] /\ hi[l] = n
        /\ l = 0 => \A k \in N : ~(lo[n] < k /\ k < n)
        /\ r # 0 => r \in N /\ lo[r] = n /\ hi[r] = hi[n]
        /\ r = 0 => \A k \in N : ~(n < k /\ k < hi[n])
    BY <2>1, SidesAre DEF Shape, AllLinked, Linked, Lower, Upper
  <2>3. c \in N \cup {0} /\ (c # 0 => Narrow(lo, hi, c, i + 1))
    <3>1. lo[n] \in Nat /\ hi[n] \in Nat /\ lo[n] < n /\ n < hi[n] /\ n \in Nat
      BY <1>2, <1>3, <2>1
    <3>2. c # 0 => c \in N /\ ((lo[c] = lo[n] /\ hi[c] = n) \/ (lo[c] = n /\ hi[c] = hi[n]))
      BY <2>2
    <3> HIDE DEF c
    <3> QED
      BY <1>2, <2>1, <3>1, <3>2 DEF Narrow
  <2>4. ASSUME NEW k \in N, Spans(t, k, a), Span(lo, hi, n, k)
        PROVE  c # 0 /\ \E x \in N : Spans(t, x, a) /\ Span(lo, hi, c, x)
    <3>1. k \in Nat /\ n \in Nat /\ k <= a /\ a <= t.high[k] /\ lo[n] < k /\ k < hi[n] /\ k # n
      BY <1>2, <2>1, <2>4 DEF Spans, Span
    <3>2. CASE l # 0 /\ t.max[l] >= a
      <4>1. c = l /\ l \in N /\ lo[l] = lo[n] /\ hi[l] = n
        BY <2>2, <3>2
      <4> HIDE DEF l, c
      <4>2. PICK x \in N : Span(lo, hi, l, x) /\ t.high[x] = t.max[l]
        BY <4>1 DEF MaxAll, MaxAt
      <4>3. CASE x <= a
        BY <3>2, <4>1, <4>2, <4>3 DEF Spans
      <4>4. CASE ~(x <= a)
        <5>1. k < n
          BY <1>2, <3>1, <4>1, <4>2, <4>4 DEF Span
        <5>2. Span(lo, hi, l, k)
          BY <3>1, <4>1, <5>1 DEF Span
        <5> QED
          BY <2>4, <3>2, <4>1, <5>2
      <4> QED
        BY <4>3, <4>4
    <3>3. CASE ~(l # 0 /\ t.max[l] >= a)
      <4>1. c = r
        BY <3>3
      <4>2. ~(k < n)
        <5> SUFFICES ASSUME k < n PROVE FALSE
          OBVIOUS
        <5>1. l # 0 /\ l \in N /\ Span(lo, hi, l, k)
          BY <2>2, <3>1 DEF Span
        <5>2. MaxAt(t, N, lo, hi, 0, l) /\ k # 0
          BY <1>2, <5>1 DEF MaxAll
        <5>3. t.high[k] <= t.max[l]
          BY <5>1, <5>2 DEF MaxAt
        <5>4. t.high[k] \in Nat /\ t.max[l] \in Nat
          BY <1>3, <5>1
        <5> QED
          BY <3>1, <3>3, <5>1, <5>3, <5>4
      <4>3. n < k
        BY <3>1, <4>2
      <4>4. r # 0 /\ Span(lo, hi, r, k)
        BY <2>2, <3>1, <4>3 DEF Span
      <4> HIDE DEF c, r
      <4> QED
        BY <2>4, <4>1, <4>4
    <3> QED
      BY <3>2, <3>3
  <2> HIDE DEF c
  <2>5. (\E k \in N : Spans(t, k, a)) => c # 0 /\ \E k \in N : Spans(t, k, a) /\ Span(lo, hi, c, k)
    BY <1>1, <2>4
  <2>6. v.tree = t /\ v.at = c /\ v.of = a
    BY <2>1, Fields
  <2>7. SeekState(v, t, N, lo, hi, a, i + 1)
    BY <2>3, <2>5, <2>6 DEF SeekState
  <2> QED
    BY <1>7, <2>7 DEF n
<1> QED
  BY <1>6, <1>7 DEF n

LEMMA TurnOfSeek ==
  ASSUME NEW s
  PROVE  TurnOfLoop("seek", s) = SeekTurn(s)
  BY DEF TurnOfLoop

Finds(t, N, a, n) ==
  IF \E k \in N : Spans(t, k, a) THEN n \in N /\ Spans(t, n, a) ELSE n = 0

LEMMA LookupFinds ==
  ASSUME NEW t, NEW N, NEW lo, NEW hi, NEW a \in 0 .. Top,
         Shape(t, N, lo, hi), MaxAll(t, N, lo, hi, 0)
  PROVE  Finds(t, N, a, Lookup(t, a))
<1>0. Top \in Nat /\ Keys \subseteq 1 .. Top /\ 0 \notin Keys /\ N \subseteq Keys /\ a \in Nat /\ t \in Trees
  BY KeysAre DEF Shape, Ranged
<1>1. \A x \in N : x \in 1 .. Top /\ t.high[x] \in Nat /\ t.max[x] \in Nat /\ lo[x] \in Nat /\ hi[x] \in Nat /\ lo[x] < x /\ x < hi[x]
  <2>1. Ranged(N, lo, hi)
    BY DEF Shape
  <2> QED
    BY <1>0, <2>1, TreeIs DEF Ranged, Span
<1>2. CASE a = 0
  <2>1. Lookup(t, a) = 0
    BY <1>2 DEF Lookup
  <2>2. \A k \in N : ~Spans(t, k, a)
    BY <1>1, <1>2 DEF Spans
  <2> QED
    BY <2>1, <2>2 DEF Finds
<1>3. CASE t.root = 0
  <2>1. Lookup(t, a) = 0 /\ N = {}
    BY <1>3 DEF Lookup, Shape, Rooted
  <2> QED
    BY <2>1 DEF Finds
<1>4. CASE a # 0 /\ t.root # 0
  <2>1. t.root \in N /\ lo[t.root] = 0 /\ hi[t.root] = Top + 1
    BY <1>4 DEF Shape, Rooted
  <2>2. \A k \in N : Span(lo, hi, t.root, k)
    BY <1>0, <1>1, <2>1 DEF Span
  <2>3. CASE t.max[t.root] < a
    <3>1. Lookup(t, a) = 0
      BY <1>4, <2>3 DEF Lookup
    <3>2. ASSUME NEW k \in N PROVE ~Spans(t, k, a)
      <4>1. t.high[k] <= t.max[t.root]
        <5>1. MaxAt(t, N, lo, hi, 0, t.root) /\ k # 0
          BY <1>0, <2>1 DEF MaxAll
        <5> QED
          BY <2>2, <5>1 DEF MaxAt
      <4>2. t.high[k] \in Nat /\ t.max[t.root] \in Nat
        BY <1>1, <2>1
      <4>3. ~(a <= t.high[k])
        BY <1>0, <2>3, <4>1, <4>2
      <4> QED
        BY <4>3 DEF Spans
    <3> QED
      BY <3>1, <3>2 DEF Finds
  <2>4. CASE ~(t.max[t.root] < a)
    <3>1. PICK turn : LoopTurns("seek", t, t.root, a, turn)
      BY LoopHasTurns
    <3>2. /\ Looped("seek", t, t.root, a) = turn[Top + 1] /\ turn[0] = At(t, t.root, a)
          /\ \A i \in 0 .. Top : turn[i + 1] = SeekTurn(turn[i])
      BY <3>1, TurnOfSeek DEF LoopTurns
    <3> DEFINE S == {i \in Nat : SeekState(turn[i], t, N, lo, hi, a, i)}
    <3>3. 0 \in S
      <4>1. Narrow(lo, hi, t.root, 0)
        BY <1>0, <2>1 DEF Narrow
      <4>2. SeekState(At(t, t.root, a), t, N, lo, hi, a, 0)
        BY <1>4, <2>1, <2>2, <4>1, Fields DEF SeekState
      <4> QED
        BY <3>2, <4>2
    <3>4. ASSUME NEW i \in 0 .. Top, SeekState(turn[i], t, N, lo, hi, a, i)
          PROVE  SeekState(turn[i + 1], t, N, lo, hi, a, i + 1) /\ (Found(t, turn[i].at, a) => turn[i + 1] = turn[i])
      <4>1. turn[i + 1] = SeekTurn(turn[i]) /\ i \in Nat
        BY <3>2
      <4> QED
        BY <1>0, <3>4, <4>1, SeekStep
    <3>5. ASSUME NEW i \in 0 .. Top - 1, i \in S PROVE i + 1 \in S
      <4>1. i \in 0 .. Top /\ i + 1 \in Nat
        BY <1>0
      <4> QED
        BY <3>4, <3>5, <4>1
    <3>6. Top \in S
      <4> HIDE DEF S
      <4>1. \A i \in 0 .. Top : i \in S
        BY <1>0, <3>3, <3>5, Upwards
      <4> QED
        BY <1>0, <4>1
    <3> DEFINE n == turn[Top].at
    <3>7. /\ n \in N \cup {0}
          /\ (\E k \in N : Spans(t, k, a)) => n # 0
          /\ n = 0 \/ Spans(t, n, a) \/ Narrow(lo, hi, n, Top)
      BY <3>6 DEF SeekState
    <3>8. Found(t, n, a)
      <4> HIDE DEF n
      <4>1. ASSUME n # 0 PROVE ~Narrow(lo, hi, n, Top)
        <5>1. n \in Nat /\ lo[n] \in Nat /\ hi[n] \in Nat /\ lo[n] < n /\ n < hi[n]
          BY <1>1, <3>7, <4>1
        <5> QED
          BY <1>0, <5>1 DEF Narrow
      <4> QED
        BY <3>7, <4>1 DEF Found
    <3>9. Lookup(t, a) = n
      <4>1. turn[Top + 1] = turn[Top]
        BY <1>0, <3>4, <3>6, <3>8
      <4> QED
        BY <1>4, <2>4, <3>2, <4>1 DEF Lookup
    <3> HIDE DEF n
    <3> QED
      BY <3>7, <3>8, <3>9 DEF Finds, Found
  <2> QED
    BY <2>3, <2>4
<1> QED
  BY <1>2, <1>3, <1>4

-----------------------------------------------------------------------------
(* The black nodes on the way from a node to the root.                      *)
BlackState(s, t, N, lo, hi, bh, i) ==
  /\ s.tree = t /\ s.at \in N \cup {0} /\ s.of \in Nat
  /\ s.at = 0 => s.of = bh[t.root]
  /\ s.at # 0 => s.of + Weight(t, s.at) = bh[s.at] /\ Wide(lo, hi, s.at, i)

LEMMA BlackStep ==
  ASSUME NEW s, NEW t, NEW N, NEW lo, NEW hi, NEW bh, NEW i \in Nat, NEW v,
         Shape(t, N, lo, hi), Colored(t, N, bh), BlackState(s, t, N, lo, hi, bh, i), v = BlackTurn(s)
  PROVE  BlackState(v, t, N, lo, hi, bh, i + 1) /\ (s.at = 0 => v = s)
<1> DEFINE n == s.at
           p == t.parent[n]
           b == IF t.red[n] THEN s.of ELSE s.of + 1
<1>1. /\ s.tree = t /\ n \in N \cup {0} /\ s.of \in Nat
      /\ n = 0 => s.of = bh[t.root]
      /\ n # 0 => s.of + Weight(t, n) = bh[n] /\ Wide(lo, hi, n, i)
  BY DEF BlackState
<1>2. CASE n = 0
  <2>1. v = s
    BY <1>2 DEF BlackTurn
  <2>2. BlackState(v, t, N, lo, hi, bh, i + 1)
    BY <1>1, <1>2, <2>1 DEF BlackState, n
  <2> QED
    BY <2>1, <2>2
<1>3. CASE n # 0
  <2>1. v = At(t, p, b) /\ n \in N /\ b \in Nat /\ n = s.at
    BY <1>1, <1>3 DEF BlackTurn
  <2>2. b = bh[n]
    BY <1>1, <1>3 DEF Weight
  <2> HIDE DEF n, b
  <2>3. v.tree = t /\ v.at = p /\ v.of = b
    BY <2>1, Fields
  <2>4. p = 0 <=> n = t.root
    BY <2>1, LinksAre
  <2>5. CASE p = 0
    <3>1. v.at = 0 /\ v.of = bh[t.root]
      BY <2>2, <2>3, <2>4, <2>5
    <3>2. BlackState(v, t, N, lo, hi, bh, i + 1)
      BY <2>1, <2>3, <3>1 DEF BlackState
    <3> QED
      BY <1>3, <2>1, <3>2
  <2>6. CASE p # 0
    <3>1. p \in N /\ \E x \in Sides : t.child[x][p] = n
      BY <2>1, <2>6, LinksAre
    <3>2. Wide(lo, hi, p, i + 1)
      BY <1>1, <1>3, <2>1, <2>4, <2>6, WiderAbove
    <3> HIDE DEF p
    <3>3. bh[p] = bh[n] + Weight(t, p)
      BY <3>1 DEF Colored
    <3>4. BlackState(v, t, N, lo, hi, bh, i + 1)
      BY <2>1, <2>2, <2>3, <2>6, <3>1, <3>2, <3>3 DEF BlackState
    <3> QED
      BY <1>3, <2>1, <3>4
  <2> QED
    BY <1>3, <2>5, <2>6 DEF n
<1> QED
  BY <1>2, <1>3 DEF n

LEMMA TurnOfBlack ==
  ASSUME NEW s
  PROVE  TurnOfLoop("black", s) = BlackTurn(s)
  BY DEF TurnOfLoop

(* From a node with a side below which nothing is, as many as there are on  *)
(* each way down from the root.                                             *)
LEMMA BlacksAre ==
  ASSUME NEW t, NEW N, NEW lo, NEW hi, NEW bh, NEW n \in N, NEW side \in Sides,
         Shape(t, N, lo, hi), Colored(t, N, bh), t.child[side][n] = 0
  PROVE  Looped("black", t, n, 0).of = bh[t.root]
<1>0. Top \in Nat /\ 0 \notin N
  BY KeysAre DEF Shape, Ranged
<1>1. \A x \in N : lo[x] < x /\ x < hi[x] /\ hi[x] <= Top + 1 /\ x \in Nat /\ lo[x] \in Nat /\ hi[x] \in Nat
  BY KeysAre DEF Shape, Ranged, Span
<1>2. PICK turn : LoopTurns("black", t, n, 0, turn)
  BY LoopHasTurns
<1>3. /\ Looped("black", t, n, 0) = turn[Top + 1] /\ turn[0] = At(t, n, 0)
      /\ \A i \in 0 .. Top : turn[i + 1] = BlackTurn(turn[i])
  BY <1>2, TurnOfBlack DEF LoopTurns
<1> DEFINE S == {i \in Nat : BlackState(turn[i], t, N, lo, hi, bh, i)}
<1>4. 0 \in S
  <2>1. bh[n] = bh[0] + Weight(t, n) /\ bh[0] = 0
    BY DEF Colored
  <2>2. Weight(t, n) \in Nat
    BY DEF Weight
  <2>3. 0 + Weight(t, n) = bh[n]
    BY <2>1, <2>2
  <2>4. Wide(lo, hi, n, 0)
    BY <1>1 DEF Wide
  <2>5. BlackState(At(t, n, 0), t, N, lo, hi, bh, 0)
    BY <1>0, <2>3, <2>4, Fields DEF BlackState
  <2> QED
    BY <1>3, <2>5
<1>5. ASSUME NEW i \in 0 .. Top, BlackState(turn[i], t, N, lo, hi, bh, i)
      PROVE  BlackState(turn[i + 1], t, N, lo, hi, bh, i + 1) /\ (turn[i].at = 0 => turn[i + 1] = turn[i])
  <2>1. turn[i + 1] = BlackTurn(turn[i]) /\ i \in Nat
    BY <1>3
  <2> QED
    BY <1>5, <2>1, BlackStep
<1>6. ASSUME NEW i \in 0 .. Top - 1, i \in S PROVE i + 1 \in S
  <2>1. i \in 0 .. Top /\ i + 1 \in Nat
    BY <1>0
  <2> QED
    BY <1>5, <1>6, <2>1
<1>7. Top \in S
  <2> HIDE DEF S
  <2>1. \A i \in 0 .. Top : i \in S
    BY <1>0, <1>4, <1>6, Upwards
  <2> QED
    BY <1>0, <2>1
<1> DEFINE m == turn[Top].at
<1>8. m \in N \cup {0} /\ (m = 0 => turn[Top].of = bh[t.root]) /\ (m # 0 => Wide(lo, hi, m, Top))
  BY <1>7 DEF BlackState
<1>9. m = 0
  <2> HIDE DEF m
  <2>1. ASSUME m # 0 PROVE ~Wide(lo, hi, m, Top)
    <3>1. hi[m] <= Top + 1 /\ lo[m] \in Nat /\ hi[m] \in Nat
      BY <1>1, <1>8, <2>1
    <3> QED
      BY <1>0, <3>1 DEF Wide
  <2> QED
    BY <1>8, <2>1
<1>10. turn[Top + 1] = turn[Top]
  BY <1>0, <1>5, <1>7, <1>9
<1> QED
  BY <1>3, <1>8, <1>9, <1>10

-----------------------------------------------------------------------------
(* The invariant of the cache.                                              *)
Begins == {i.begin : i \in known}

KnownRight ==
  \A i \in known : /\ i \in Intervals /\ i.begin \in Keys /\ i.end \in Nat /\ i.begin < i.end
                   /\ tree.high[i.begin] = i.end - 1

TreeSound == \E lo, hi, bh : Sound(tree, Begins, lo, hi, bh)

CacheIInv == KnownRight /\ TreeSound

LEMMA InitCacheIInv == CacheInit => CacheIInv
<1> SUFFICES ASSUME CacheInit PROVE CacheIInv
  OBVIOUS
<1> DEFINE lo == [k \in Keys |-> 0]
           hi == [k \in Keys |-> 0]
           bh == [k \in Keys \cup {0} |-> 0]
           no == [k \in Keys |-> 0]
           red == [k \in Keys |-> FALSE]
           ch == [s \in Sides |-> no]
<1>1. known = {} /\ Begins = {}
  BY DEF CacheInit, Begins
<1>2. tree = [root |-> 0, child |-> ch, parent |-> no, red |-> red, high |-> no, max |-> no]
  BY DEF CacheInit
<1>3. no \in [Keys -> Keys \cup {0}] /\ no \in [Keys -> Nat] /\ red \in [Keys -> BOOLEAN]
      /\ \A k \in Keys : no[k] = 0
  OBVIOUS
<1> HIDE DEF no, red
<1>4. ch \in [Sides -> [Keys -> Keys \cup {0}]] /\ \A s \in Sides : ch[s] = no
  BY <1>3
<1> HIDE DEF ch
<1>5. tree \in Trees /\ tree.root = 0 /\ tree.child = ch
  BY <1>2, <1>3, <1>4 DEF Trees
<1>6. Shape(tree, {}, lo, hi)
  <2>1. Ranged({}, lo, hi) /\ Laminar({}, lo, hi)
    BY DEF Ranged, Laminar
  <2>2. Rooted(tree, {}, lo, hi) /\ AllLinked(tree, {}, lo, hi) /\ Hanging(tree, {})
    BY <1>5 DEF Rooted, AllLinked, Hanging
  <2>3. Unlinked(tree, {})
    BY <1>3, <1>4, <1>5 DEF Unlinked
  <2> QED
    BY <1>5, <2>1, <2>2, <2>3 DEF Shape
<1>7. MaxAll(tree, {}, lo, hi, 0) /\ Colored(tree, {}, bh) /\ RedsApart(tree, {}, 0)
  BY DEF MaxAll, Colored, RedsApart
<1>8. Sound(tree, {}, lo, hi, bh)
  BY <1>6, <1>7 DEF Sound
<1> HIDE DEF lo, hi, bh
<1>9. TreeSound
  BY <1>1, <1>8 DEF TreeSound
<1> QED
  BY <1>1, <1>9 DEF CacheIInv, KnownRight

LEMMA InsertIs ==
  ASSUME NEW t, NEW p, NEW key, NEW high, NEW u, u = Hung(t, p, key, high)
  PROVE  Insert(t, p, key, high) = Looped("color", u, key, 0).tree
  BY DEF Insert

(* A node that was not there has come to the tree.                          *)
LEMMA TakeRight ==
  ASSUME NEW t, NEW N, NEW lo, NEW hi, NEW bh, NEW key \in Keys, NEW high \in Nat, NEW M, NEW p, NEW highs,
         Sound(t, N, lo, hi, bh), p = Down(t, key), p # key,
         M = N \cup {key}, highs = [t.high EXCEPT ![key] = high]
  PROVE  Grown(Looped("raise", Insert(t, p, key, high), key, 0).tree, M, highs)
<1> DEFINE u == Hung(t, p, key, high)
           w == Insert(t, p, key, high)
<1>1. Shape(t, N, lo, hi) /\ MaxAll(t, N, lo, hi, 0) /\ Colored(t, N, bh) /\ RedsApart(t, N, 0)
  BY DEF Sound
<1>2. Hangs(t, N, lo, hi, key, p)
  <2>1. Descended(t, N, lo, hi, key, p)
    BY <1>1, DownRight
  <2> QED
    BY <2>1 DEF Descended
<1>3. Reddened(u, M, key, highs)
  BY <1>1, <1>2, HungRight
<1>4. w = Looped("color", u, key, 0).tree
  BY InsertIs
<1> HIDE DEF u, w
<1>5. PICK lo2, hi2, bh2 : u.red[key] /\ Coloring(u, M, key, highs, key, lo2, hi2, bh2)
  BY <1>3 DEF Reddened
<1>6. Settled(Looped("color", u, key, 0).tree, M, key, highs)
  BY <1>5, ColorRight
<1>7. Settled(w, M, key, highs) /\ key \in M
  BY <1>4, <1>6
<1>8. Grown(Looped("raise", w, key, 0).tree, M, highs)
  BY <1>7, RaiseRight
<1> QED
  BY <1>8 DEF w

LEMMA NextCacheIInv == CacheIInv /\ [CacheNext]_cacheVars => CacheIInv'
<1> SUFFICES ASSUME CacheIInv, [CacheNext]_cacheVars PROVE CacheIInv'
  OBVIOUS
<1>1. CASE UNCHANGED cacheVars
  <2>1. tree' = tree /\ known' = known
    BY <1>1 DEF cacheVars
  <2>2. KnownRight'
    BY <2>1 DEF CacheIInv, KnownRight
  <2>3. TreeSound'
    BY <2>1 DEF CacheIInv, TreeSound, Begins
  <2> QED
    BY <2>2, <2>3 DEF CacheIInv
<1>2. ASSUME NEW i \in Intervals, Take(i) PROVE CacheIInv'
  <2> DEFINE key == i.begin
             high == i.end - 1
             p == Down(tree, key)
             w == Insert(tree, p, key, high)
             highs == [tree.high EXCEPT ![key] = high]
             M == Begins \cup {key}
  <2>1. CASE key = 0 \/ i.end <= key \/ p = key
    <3>1. UNCHANGED cacheVars
      BY <1>2, <2>1 DEF Take
    <3> QED
      BY <1>1, <3>1
  <2>2. CASE ~(key = 0 \/ i.end <= key \/ p = key)
    <3>1. tree' = Looped("raise", w, key, 0).tree /\ known' = known \cup {i}
      BY <1>2, <2>2 DEF Take
    <3>2. key \in Keys /\ i.end \in Nat /\ key \in Nat /\ key < i.end /\ high \in Nat /\ p # key
      <4>1. i.begin \in 0 .. Top /\ i.end \in 0 .. Top /\ Top \in Nat
        BY IntervalAssumption
      <4>2. i.begin # 0 /\ ~(i.end <= i.begin)
        BY <2>2
      <4>3. i.begin \in Keys
        BY <4>2 DEF Keys
      <4>4. i.begin \in Nat /\ i.end \in Nat /\ i.begin < i.end /\ i.end - 1 \in Nat
        BY <4>1, <4>2
      <4> QED
        BY <2>2, <4>3, <4>4
    <3>3. PICK lo, hi, bh : Sound(tree, Begins, lo, hi, bh)
      BY DEF CacheIInv, TreeSound
    <3> HIDE DEF key, high
    <3>4. Grown(Looped("raise", Insert(tree, p, key, high), key, 0).tree, M, highs)
      <4> DEFINE P == p
                 MM == M
                 HH == highs
      <4>1. P = Down(tree, key) /\ P # key /\ MM = Begins \cup {key} /\ HH = [tree.high EXCEPT ![key] = high]
        BY <3>2
      <4> HIDE DEF P, MM, HH
      <4>2. Grown(Looped("raise", Insert(tree, P, key, high), key, 0).tree, MM, HH)
        BY <3>2, <3>3, <4>1, TakeRight
      <4> QED
        BY <4>2 DEF P, MM, HH
    <3>5. Grown(tree', M, highs)
      BY <3>1, <3>4
    <3>6. Begins' = M
      BY <3>1 DEF Begins, key
    <3>7. TreeSound' /\ tree'.high = highs
      BY <3>5, <3>6 DEF Grown, TreeSound
    <3>8. tree.high \in [Keys -> Nat] /\ \A j \in known : j.begin \in Keys
      BY <3>3, TreeIs DEF Sound, Shape, CacheIInv, KnownRight
    <3>9. key \notin Begins
      <4>1. Descended(tree, Begins, lo, hi, key, p)
        BY <3>2, <3>3, DownRight DEF Sound
      <4> QED
        BY <3>2, <4>1 DEF Descended
    <3>10. ASSUME NEW j \in known'
           PROVE  /\ j \in Intervals /\ j.begin \in Keys /\ j.end \in Nat /\ j.begin < j.end
                  /\ tree'.high[j.begin] = j.end - 1
      <4>1. CASE j \in known
        <5>1. j.begin # key
          BY <3>9, <4>1 DEF Begins
        <5>2. tree'.high[j.begin] = tree.high[j.begin]
          BY <3>2, <3>7, <3>8, <4>1, <5>1
        <5> QED
          BY <4>1, <5>2 DEF CacheIInv, KnownRight
      <4>2. CASE j = i
        <5>1. tree'.high[key] = high
          BY <3>2, <3>7, <3>8
        <5> QED
          BY <3>2, <4>2, <5>1 DEF key, high
      <4> QED
        BY <3>1, <4>1, <4>2
    <3>11. KnownRight'
      BY <3>10 DEF KnownRight
    <3> QED
      BY <3>7, <3>11 DEF CacheIInv
  <2> QED
    BY <2>1, <2>2
<1> QED
  BY <1>1, <1>2 DEF CacheNext

(* What is below a node does not have a greater address.                    *)
LEMMA MaxAbove ==
  ASSUME NEW t, NEW N, NEW lo, NEW hi, NEW n \in N, NEW s \in Sides, NEW c,
         Shape(t, N, lo, hi), MaxAll(t, N, lo, hi, 0), c = t.child[s][n], c # 0
  PROVE  t.max[n] >= t.max[c]
<1>1. c \in N /\ ((lo[c] = lo[n] /\ hi[c] = n) \/ (lo[c] = n /\ hi[c] = hi[n]))
  <2>1. IsChild(t, N, lo, hi, n, s, c)
    BY ChildIs
  <2> QED
    BY <2>1 DEF IsChild, Sides
<1>2. MaxAt(t, N, lo, hi, 0, c) /\ MaxAt(t, N, lo, hi, 0, n)
  BY <1>1 DEF MaxAll
<1>3. PICK k \in N : Span(lo, hi, c, k) /\ t.high[k] = t.max[c]
  BY <1>2 DEF MaxAt
<1>4. Ranged(N, lo, hi) /\ t \in Trees /\ N \subseteq Keys /\ Keys \subseteq Nat /\ 0 \notin Keys
  BY KeysAre DEF Shape, Ranged
<1>5. lo[n] < n /\ n < hi[n] /\ lo[n] \in Nat /\ hi[n] \in Nat /\ n \in Nat /\ k \in Nat /\ k # 0
      /\ t.max[n] \in Nat /\ t.max[c] \in Nat
  BY <1>1, <1>4, TreeIs DEF Ranged, Span
<1>6. Span(lo, hi, n, k)
  BY <1>1, <1>3, <1>5 DEF Span
<1>7. t.high[k] <= t.max[n]
  BY <1>2, <1>5, <1>6 DEF MaxAt
<1> QED
  BY <1>3, <1>5, <1>7

LEMMA LookupRightHere == CacheIInv => LookupRight
<1> SUFFICES ASSUME CacheIInv PROVE LookupRight
  OBVIOUS
<1>1. PICK lo, hi, bh : Sound(tree, Begins, lo, hi, bh)
  BY DEF CacheIInv, TreeSound
<1>2. Shape(tree, Begins, lo, hi) /\ MaxAll(tree, Begins, lo, hi, 0)
  BY <1>1 DEF Sound
<1>3. \A i \in known : /\ i.begin \in Begins /\ i.begin \in Nat /\ i.end \in Nat /\ i.begin < i.end
                       /\ tree.high[i.begin] = i.end - 1
  BY KeysAre DEF CacheIInv, KnownRight, Begins
<1>4. ASSUME NEW i \in known, NEW s \in Sides
      PROVE  LET c == tree.child[s][i.begin] IN c # 0 => tree.max[i.begin] >= tree.max[c]
  <2> DEFINE n == i.begin
             c == tree.child[s][n]
  <2>1. n \in Begins
    BY <1>3
  <2> HIDE DEF n
  <2>2. c # 0 => tree.max[n] >= tree.max[c]
    BY <1>2, <2>1, MaxAbove
  <2> QED
    BY <2>2 DEF n
<1>5. ASSUME NEW a \in 0 .. Top
      PROVE  LET spans == {i.begin : i \in {j \in known : a \in j.begin .. j.end - 1}}
                 found == Lookup(tree, a)
             IN  IF spans = {} THEN found = 0 ELSE found \in spans
  <2> DEFINE spans == {i.begin : i \in {j \in known : a \in j.begin .. j.end - 1}}
             found == Lookup(tree, a)
  <2>1. Finds(tree, Begins, a, found)
    BY <1>2, LookupFinds
  <2>2. a \in Nat
    BY KeysAre
  <2>3. ASSUME NEW j \in known PROVE a \in j.begin .. j.end - 1 <=> Spans(tree, j.begin, a)
    BY <1>3, <2>2 DEF Spans
  <2>4. \A k \in Begins : Spans(tree, k, a) <=> k \in spans
    <3>1. ASSUME NEW k \in Begins, Spans(tree, k, a) PROVE k \in spans
      <4>1. PICK j \in known : k = j.begin
        BY DEF Begins
      <4>2. a \in j.begin .. j.end - 1
        BY <2>3, <3>1, <4>1
      <4> QED
        BY <4>1, <4>2
    <3>2. ASSUME NEW k \in spans PROVE Spans(tree, k, a)
      BY <2>3
    <3> QED
      BY <3>1, <3>2
  <2>5. \A k \in spans : k \in Begins
    BY DEF Begins
  <2> HIDE DEF spans, found
  <2>6. IF spans = {} THEN found = 0 ELSE found \in spans
    BY <2>1, <2>4, <2>5 DEF Finds
  <2> QED
    BY <2>6 DEF spans, found
<1> QED
  BY <1>4, <1>5 DEF LookupRight

LEMMA BalancedHere == CacheIInv => Balanced
<1> SUFFICES ASSUME CacheIInv PROVE Balanced
  OBVIOUS
<1>1. PICK lo, hi, bh : Sound(tree, Begins, lo, hi, bh)
  BY DEF CacheIInv, TreeSound
<1>2. Shape(tree, Begins, lo, hi) /\ Colored(tree, Begins, bh) /\ RedsApart(tree, Begins, 0)
  BY <1>1 DEF Sound
<1>3. ASSUME NEW n \in Ends PROVE Blacks(n) = bh[tree.root]
  <2>1. PICK i \in known : n = i.begin /\ \E s \in Sides : tree.child[s][i.begin] = 0
    BY DEF Ends
  <2>2. PICK s \in Sides : tree.child[s][n] = 0
    BY <2>1
  <2>3. n \in Begins
    BY <2>1 DEF Begins
  <2> QED
    BY <1>2, <2>2, <2>3, BlacksAre DEF Blacks
<1>4. ASSUME NEW i \in known, tree.red[i.begin], NEW s \in Sides, tree.child[s][i.begin] # 0
      PROVE  ~tree.red[tree.child[s][i.begin]]
  <2> DEFINE n == i.begin
             c == tree.child[s][n]
  <2>1. n \in Begins
    BY DEF Begins
  <2>2. c \in Begins /\ tree.parent[c] = n /\ c # 0
    BY <1>2, <1>4, <2>1, LinksAre
  <2> HIDE DEF n, c
  <2>3. tree.red[c] => ~tree.red[n]
    BY <1>2, <2>2 DEF RedsApart
  <2> QED
    BY <1>4, <2>3 DEF n, c
<1> QED
  BY <1>3, <1>4 DEF Balanced

(* The inductive invariant of the cache.                                    *)
LEMMA CacheInvariance == CacheSpec => []CacheIInv
<1>1. CacheInit => CacheIInv
  BY InitCacheIInv
<1>2. CacheIInv /\ [CacheNext]_cacheVars => CacheIInv'
  BY NextCacheIInv
<1> QED
  BY <1>1, <1>2, PTL DEF CacheSpec

(* However the tree was turned while it grew and however symbols overlap, a *)
(* lookup finds a symbol that spans the address, if there is one, and none  *)
(* otherwise; no node knows a lesser address than those below it.           *)
THEOREM CacheFindsRight == CacheSpec => []LookupRight
<1>1. CacheIInv => LookupRight
  BY LookupRightHere
<1> QED
  BY <1>1, CacheInvariance, PTL

(* Each way down to where nothing is has as many black nodes, and no red    *)
(* node is below a red one.                                                 *)
THEOREM CacheStaysBalanced == CacheSpec => []Balanced
<1>1. CacheIInv => Balanced
  BY BalancedHere
<1> QED
  BY <1>1, CacheInvariance, PTL
=============================================================================
