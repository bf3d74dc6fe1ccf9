---------------------------- MODULE LeakDetector ----------------------------
(***************************************************************************)
(* The leak detector (sysprof-leak-detector.c): of the allocations of a    *)
(* document, in the order they were recorded, those that are never freed.  *)
(* A program allocates and frees addresses, which may be given out again;  *)
(* then the document is looked at.  The red-black tree of allocations by   *)
(* address is a function; what a position stands for is its place in the   *)
(* list of allocation frames.                                              *)
(***************************************************************************)
EXTENDS Naturals, Sequences, FiniteSets, SequencesExt, TLC

CONSTANTS Addresses, NONE,
          MaxRecords    \* bound: the allocation frames of a document

VARIABLES records,      \* what was recorded: an address, and whether it is freed
          pos,          \* the record the iterator is at, 0 before it is started
          frame,        \* the record the shared frame object looks at
          allocs,       \* [address -> position]
          leaks         \* the result

vars == <<records, pos, frame, allocs, leaks>>

Init ==
  /\ records = <<>>
  /\ pos = 0 /\ frame = 0
  /\ allocs = [a \in {} |-> 0]
  /\ leaks = NONE

Allocated(a) ==
  \E i \in DOMAIN records :
    /\ records[i] = [address |-> a, free |-> FALSE]
    /\ \A j \in i + 1 .. Len(records) : records[j].address # a

(* The program: it frees what it has, and what is free it may be given.     *)
Record(a) ==
  /\ pos = 0 /\ leaks = NONE
  /\ Len(records) < MaxRecords
  /\ records' = Append(records, [address |-> a, free |-> Allocated(a)])
  /\ UNCHANGED <<pos, frame, allocs, leaks>>

(* sysprof_leak_detector_detect(), before its loop.                         *)
Start ==
  /\ pos = 0 /\ leaks = NONE
  /\ IF records = <<>>
     THEN leaks' = {} /\ UNCHANGED <<pos, frame>>
     ELSE pos' = 1 /\ frame' = 1 /\ UNCHANGED leaks
  /\ UNCHANGED <<records, allocs>>

(* A turn of the loop: the frame object is looked at, and made to look at   *)
(* the record that pos stood for before the iterator went on.  A node at an *)
(* address that is there already is not put into the tree.                  *)
Turn ==
  /\ pos > 0 /\ leaks = NONE
  /\ LET r == records[frame]
     IN  allocs' = IF r.free
                   THEN [a \in DOMAIN allocs \ {r.address} |-> allocs[a]]
                   ELSE allocs @@ (r.address :> pos)
  /\ IF pos < Len(records)
     THEN pos' = pos + 1 /\ frame' = pos /\ UNCHANGED leaks
     ELSE leaks' = Range(allocs') /\ UNCHANGED <<pos, frame>>
  /\ UNCHANGED records

Next == Start \/ Turn \/ \E a \in Addresses : Record(a)

Spec == Init /\ [][Next]_vars

(* What is told to have leaked are the allocations that no later record     *)
(* frees.                                                                   *)
LeaksAreUnfreed ==
  leaks # NONE =>
    leaks = {i \in DOMAIN records :
               /\ ~records[i].free
               /\ \A j \in i + 1 .. Len(records) : records[j].address # records[i].address}
=============================================================================
