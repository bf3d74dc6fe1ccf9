---------------------------- MODULE CaptureWriter ---------------------------
(***************************************************************************)
(* The writer of capture files (sysprof-capture-writer.c): frames go into  *)
(* a buffer, the names of addresses into a table that is written around    *)
(* the buffer, and an index frame is written every so many frames.  Any    *)
(* write may fail, having written a part.  A program that dies leaves the  *)
(* file of one of these states, with or without a failed write.            *)
(***************************************************************************)
EXTENDS CaptureFile

CONSTANTS HeadLen,      \* cells of a frame header, which an index frame is here
          BufLen,       \* cells of the buffer
          MaxLen,       \* the largest frame (USHRT_MAX)
          Lens,         \* lengths of frames
          Interval,     \* FRAME_INDEX_INTERVAL
          Names, JitMax,        \* names of addresses, entries of the table
          Sources,      \* files to splice
          Saved,        \* what is in a file given to save_as
          MaxAdds, MaxNames, MaxFaults  \* bounds: frames, addresses, failed writes

CellsIn(files) == UNION {ToSet(file) : file \in files}
FramesIn(files) == {c.frame : c \in CellsIn(files)}
ASSUME WriterAssumption ==
  /\ Sources \subseteq Seq(CellsIn(Sources))
  /\ Saved \subseteq Seq(CellsIn(Saved))
  /\ MaxLen \in Nat /\ BufLen \in Nat /\ BufLen >= MaxLen
  /\ HeadLen \in Nat \ {0} /\ Units(HeadLen)
  /\ \A len \in Lens : len \in Nat \ {0} /\ Units(len)
  /\ Interval \in Nat \ {0} /\ JitMax \in Nat \ {0}
  /\ MaxAdds \in Nat /\ MaxNames \in Nat /\ MaxFaults \in Nat

VARIABLES w,            \* the SysprofCaptureWriter: [buf, jit, seq, last, since]
          disk,         \* the file: [cells, last_index of its header]
          saved,        \* the file that save_as has just written
          added,        \* history: the frames added and spliced, in order
          given,        \* history: <<name, address>> returned by add_jitmap
          faults, spliced       \* history: writes that failed; the file spliced

vars == <<w, disk, saved, added, given, faults, spliced>>

Data(n, len) == [kind |-> "data", id |-> n, len |-> len]
Index(prev) == [kind |-> "index", prev |-> prev, len |-> HeadLen]
Jitmap(jit) ==
  [kind |-> "jitmap", defs |-> jit, len |-> HeadLen + Cardinality(jit) * Align]

Init ==
  /\ w = [buf |-> <<>>, jit |-> {}, seq |-> 0, last |-> 0, since |-> 0]
  /\ disk = [cells |-> <<>>, last_index |-> 0]
  /\ saved = <<>> /\ added = <<>> /\ given = {} /\ faults = 0 /\ spliced = <<>>

-----------------------------------------------------------------------------
(* The functions of the writer, as the outcomes they can have: the writer,  *)
(* the disk, the faults met, and whether TRUE is returned.                  *)

Now == [w |-> w, disk |-> disk, faults |-> faults, ok |-> TRUE]

(* g after f, unless f failed.                                              *)
Then(outcomes, G(_)) == UNION {IF s.ok THEN G(s) ELSE {s} : s \in outcomes}

(* write(): everything, or less and an error.  What it leaves then need not *)
(* end with a frame, nor at an aligned place.                               *)
Write(s, cells) ==
  {[s EXCEPT !.disk.cells = @ \o SubSeq(cells, 1, n),
             !.ok = n = Len(cells),
             !.faults = IF n = Len(cells) THEN @ ELSE @ + 1] :
     n \in IF s.faults < MaxFaults THEN 0 .. Len(cells) ELSE {Len(cells)}}

(* Variant: what a failed flush has written stays counted as unwritten, and *)
(* so does what a successful one has.                                       *)
FlushDataKeeping(s) == Write(s, s.w.buf)

FlushData(s) ==
  {IF t.ok THEN [t EXCEPT !.w.buf = <<>>] ELSE t : t \in Write(s, s.w.buf)}

(* The header of the file gets the place of the last index frame; that the  *)
(* write may fail is not looked at.                                         *)
UpdateFrameIndex(s) ==
  {[s EXCEPT !.disk.last_index = s.w.last]} \cup
  (IF s.faults < MaxFaults THEN {[s EXCEPT !.faults = @ + 1]} ELSE {})

(* Variant: the place of the index frame is taken before the flush.         *)
WriteFrameIndexEarly(s, force) ==
  IF s.w.since = 0 \/ (~force /\ s.w.since < Interval) THEN {s}
  ELSE LET written(t) == Write(t, Cells(Index(t.w.last)))
           noted(t) == UpdateFrameIndex(
                         [t EXCEPT !.w.last = Bytes(s.disk.cells), !.w.since = 0])
       IN  Then(Then(FlushData(s), written), noted)

WriteFrameIndex(s, force) ==
  IF s.w.since = 0 \/ (~force /\ s.w.since < Interval) THEN {s}
  ELSE LET written(t) == Write(t, Cells(Index(t.w.last)))
           noted(t) == UpdateFrameIndex(
                         [t EXCEPT !.w.last = Bytes(t.disk.cells) - HeadLen, !.w.since = 0])
       IN  Then(Then(FlushData(s), written), noted)

EnsureSpaceFor(s, len) ==
  IF len > MaxLen THEN {[s EXCEPT !.ok = FALSE]}
  ELSE IF BufLen < Len(s.w.buf) + len THEN FlushData(s) ELSE {s}

(* Space for a frame that may come out longer than it is in the end.        *)
Allocate(s, len, frame) ==
  LET fits(t) == EnsureSpaceFor(t, len)
      place(t) == {[t EXCEPT !.w.buf = @ \o Cells(frame), !.w.since = @ + 1]}
  IN  Then(Then(WriteFrameIndex(s, FALSE), fits), place)

(* The names go into the file in front of what is in the buffer.            *)
FlushJitmap(s) ==
  IF s.w.jit = {} THEN {s}
  ELSE LET written(t) == Write(t, Cells(Jitmap(t.w.jit)))
           clear(t) == {[t EXCEPT !.w.jit = {}, !.w.since = @ + 1]}
       IN  Then(Then(WriteFrameIndex(s, FALSE), written), clear)

(* Variant: the sequence starts again with each table.                      *)
InsertJitmapAnew(s, name) ==
  LET insert(t) == {[t EXCEPT !.w.seq = Cardinality(t.w.jit) + 1,
                              !.w.jit = @ \cup {<<name, Cardinality(t.w.jit) + 1>>}]}
  IN  Then(IF Cardinality(s.w.jit) = JitMax THEN FlushJitmap(s) ELSE {s}, insert)

InsertJitmap(s, name) ==
  LET insert(t) == {[t EXCEPT !.w.seq = @ + 1,
                              !.w.jit = @ \cup {<<name, t.w.seq + 1>>}]}
  IN  Then(IF Cardinality(s.w.jit) = JitMax THEN FlushJitmap(s) ELSE {s}, insert)

(* The end time in the header, which flush writes too, is of the recording  *)
(* (module Recording).                                                      *)
FlushAll(s) == Then(FlushJitmap(s), FlushData)

-----------------------------------------------------------------------------
(* The calls.                                                               *)

(* The frames of a file that are not the writer's own.                      *)
Kept(file) == Walk(file, Bytes(file), {"index", "jitmap"})[Header].frames

Outcome(s) == w' = s.w /\ disk' = s.disk /\ faults' = s.faults

(* The sysprof_capture_writer_add_*() calls.  add_allocation asks for room  *)
(* for the deepest backtrace and gives back what it did not need.           *)
Add(asked, len) ==
  /\ Len(added) < MaxAdds /\ len <= asked
  /\ LET frame == Data(Len(added) + 1, len)
     IN  \E s \in Allocate(Now, asked, frame) :
           /\ Outcome(s)
           /\ added' = IF s.ok THEN Append(added, frame) ELSE added
  /\ saved' = <<>> /\ UNCHANGED <<given, spliced>>

(* sysprof_capture_writer_add_jitmap(): a name in the table has its address.*)
AddJitmap(name) ==
  /\ \A entry \in w.jit : entry[1] # name
  /\ Cardinality(given) < MaxNames
  /\ \E s \in InsertJitmap(Now, name) :
       /\ Outcome(s)
       /\ given' = IF s.ok THEN given \cup {<<name, s.w.seq>>} ELSE given
  /\ saved' = <<>> /\ UNCHANGED <<added, spliced>>

Flush ==
  /\ \E s \in FlushAll(Now) : Outcome(s)
  /\ saved' = <<>> /\ UNCHANGED <<added, given, spliced>>

(* What the walk of a file to be spliced may come to, from each offset: it  *)
(* ends well where no frame header is left to read and at one of a type     *)
(* that it does not know, and refuses the file at a frame that is not whole.*)
(* Where no frame begins it reads whatever is there.                        *)
PassesFrom(file) ==
  LET passes[pos \in Header .. Bytes(file)] ==
        IF Bytes(file) - pos < HeadLen THEN {TRUE}
        ELSE IF At(file, pos).off # 0 THEN BOOLEAN
        ELSE IF At(file, pos).frame.kind = "unknown" THEN {TRUE}
        ELSE IF ~FrameAt(file, pos, Bytes(file)) THEN {FALSE}
        ELSE passes[pos + At(file, pos).frame.len]
  IN  passes
Passes(file) == PassesFrom(file)[Header]

(* sysprof_capture_writer_splice() into this writer: both are flushed, the  *)
(* other file is walked, then it is copied as it is, with what is behind    *)
(* the end of that walk.  One with memory samples is not copied, but joined *)
(* frame by frame (module CaptureCat).                                      *)
Splice(source) ==
  /\ spliced = <<>>
  /\ LET checked(s) == {t \in {s, [s EXCEPT !.ok = FALSE]} : t.ok \in Passes(source)}
         index(s) == WriteFrameIndex(s, TRUE)
         copy(s) == Write(s, source)
         due(s) == {IF source = <<>> THEN s ELSE [s EXCEPT !.w.since = Interval]}
     IN  \E s \in Then(Then(Then(Then(FlushAll(Now), checked), index), copy), due) :
           /\ Outcome(s)
           /\ added' = IF s.ok THEN added \o Kept(source) ELSE added
           /\ spliced' = IF s.ok THEN source ELSE spliced
  /\ saved' = <<>> /\ UNCHANGED given

(* What is copied: all of it, or less and an error, met with an unlink().    *)
Copy(s) == {[t EXCEPT !.disk = s.disk, !.ok = s.ok /\ t.ok] :
              t \in IF s.ok THEN Write(s, s.disk.cells) ELSE {s}}

(* A file with something written over its beginning.                        *)
Over(old, cells) == cells \o SubSeq(old, Len(cells) + 1, Len(old))

(* Variant: what is in the buffer is not saved.                             *)
SaveAsUnflushed(old) ==
  /\ \E s \in Copy(Now) :
       Outcome(s) /\ saved' = IF s.ok THEN Over(old, s.disk.cells) ELSE <<>>
  /\ UNCHANGED <<added, given, spliced>>

(* sysprof_capture_writer_save_as(): the capture is written over what is in *)
(* the file, and the file unlinked if that fails.  One that cannot be       *)
(* opened changes nothing.                                                  *)
SaveAs(old) ==
  /\ \E s \in UNION {Copy(t) : t \in FlushAll(Now)} :
       Outcome(s) /\ saved' = IF s.ok THEN Over(old, s.disk.cells) ELSE <<>>
  /\ UNCHANGED <<added, given, spliced>>

Next == \/ \E asked, len \in Lens : Add(asked, len)
        \/ \E name \in Names : AddJitmap(name)
        \/ Flush
        \/ \E old \in Saved : SaveAs(old)
        \/ \E source \in Sources : Splice(source)

Spec == Init /\ [][Next]_vars

-----------------------------------------------------------------------------
(* Properties.                                                              *)

(* A file that ends with a frame: what is added behind it can be read.      *)
Whole(file) == Scan(file, Header, Bytes(file)).valid /\ Units(Len(file))

Defined(file) ==
  UNION {f.defs : f \in {g \in ToSet(Serial(file)) : g.kind = "jitmap"}}

(* A document that loads the file in parts finds the same frames in the     *)
(* same order as one that walks it, at any moment, after any failed write   *)
(* and with another capture spliced into it.                                *)
LoadAgrees == Load(disk.cells, disk.last_index) = Serial(disk.cells)

(* The buffer is not overrun, and as long as no write failed and no file    *)
(* was spliced that does not end with a frame, nothing is lost, doubled or  *)
(* reordered: the file ends with a frame, and its frames and the buffered   *)
(* ones are those added and spliced.                                        *)
BufferBounded == Len(w.buf) <= BufLen
NothingLost ==
  /\ BufferBounded
  /\ faults = 0 /\ Whole(spliced) =>
    /\ Whole(disk.cells)
    /\ Kept(disk.cells) \o Kept(w.buf) = added

(* Every address returned has its name in the file or in the table, no two  *)
(* names have one address, and the only other names in the file are those   *)
(* that a spliced file brought along, as long as no write failed and that   *)
(* file ends with a frame.                                                  *)
AddressesDiffer == \A a, b \in given : a[2] = b[2] => a = b
NamesResolve ==
  /\ AddressesDiffer
  /\ faults = 0 /\ Whole(spliced) =>
       given \cup Defined(spliced) = Defined(disk.cells) \cup w.jit

(* The index chain leads from index frame to index frame whatever write     *)
(* failed, and the header knows of none that the writer does not.  As long  *)
(* as no write failed and no file was spliced that does not end with a      *)
(* frame, every one of them is aligned, so that a document never finds the  *)
(* chain broken; and without a splice there are no more frames between two  *)
(* of them than the interval: what a document loads at once is small.       *)
ChainUnbroken ==
  /\ ChainTo(disk.cells)[disk.last_index] # Broken
  /\ faults = 0 /\ Whole(spliced) => Chain(disk.cells, disk.last_index) # Broken
  /\ disk.last_index <= w.last /\ w.last <= Bytes(disk.cells)
  /\ faults = 0 /\ spliced = <<>> =>
       LET parts == Parts(disk.cells, disk.last_index)
       IN  \A i \in 1 .. Len(parts) :
             Len(Scan(disk.cells, parts[i][1], parts[i][2]).frames) <= Interval

(* "Saves the captured data as the file": a file that save_as has written   *)
(* begins with all frames of the capture, and has no others if the old file *)
(* was not longer (a longer one keeps its end); it is gone only if a write  *)
(* failed.                                                                  *)
SavedIsCapture ==
  [][\A old \in Saved : SaveAs(old) =>
       \/ saved' = <<>> /\ faults' > faults
       \/ /\ IsPrefix(disk'.cells, saved')
          /\ faults' = 0 /\ Whole(spliced) =>
               /\ IsPrefix(added', Kept(saved'))
               /\ Len(old) <= Len(disk'.cells) => Kept(saved') = added']_vars
=============================================================================
