---------------------------- MODULE CaptureFile -----------------------------
(***************************************************************************)
(* A capture file behind its header, and how a document finds the frames   *)
(* in it (sysprof-document.c): one walk from the start, or one walk for    *)
(* each part that the chain of index frames cuts the file into.  The file  *)
(* is a sequence of cells; every frame is some cells long and its first    *)
(* one is the frame header.  Offsets count the cells in front of a place,  *)
(* the header of the file, which is aligned as frames are, being one.      *)
(***************************************************************************)
EXTENDS Integers, FiniteSets, Sequences, SequencesExt

CONSTANT Align          \* cells of an aligned unit (SYSPROF_CAPTURE_ALIGN)
ASSUME AlignAssumption == Align \in Nat \ {0}

Cells(frame) == [i \in 1 .. frame.len |-> [frame |-> frame, off |-> i - 1]]
Header == 1                     \* offset of the first frame
Bytes(file) == Header + Len(file)
At(file, pos) == file[pos - Header + 1]
Units(n) == \E k \in 0 .. n : n = k * Align
Aligned(pos) == Units(pos - Header)

(* A frame header is read at pos, and the frame ends at last or before.     *)
(* Other cells do not look like a frame header.                             *)
FrameAt(file, pos, last) ==
  /\ pos < last /\ At(file, pos).off = 0
  /\ At(file, pos).frame.len \in 1 .. last - pos

(* frame_scan_run() up to the offset last, from every offset that it may    *)
(* begin at: the frames but those of the skipped kinds, and whether the     *)
(* walk comes out at last.                                                  *)
Walk(file, last, skipped) ==
  LET walk[pos \in Header .. last] ==
        IF ~FrameAt(file, pos, last)
        THEN [frames |-> <<>>, valid |-> pos = last]
        ELSE LET f == At(file, pos).frame
                 rest == walk[pos + f.len]
             IN  [frames |-> IF f.kind \in skipped THEN rest.frames
                             ELSE <<f>> \o rest.frames,
                  valid |-> rest.valid]
  IN  walk

Scan(file, first, last) == Walk(file, last, {"index"})[first]
Serial(file) == Scan(file, Header, Bytes(file)).frames

IsIndex(file, pos) ==
  /\ pos \in Header .. Bytes(file) - 1
  /\ FrameAt(file, pos, Bytes(file)) /\ At(file, pos).frame.kind = "index"

(* The offsets along the chain of index frames that ends at each offset,    *)
(* first to last; the chain is broken where something else is found, or it  *)
(* does not lead backwards.                                                 *)
Broken == <<0>>
ChainTo(file) ==
  LET chain[pos \in 0 .. Bytes(file) - 1] ==
        IF pos = 0 THEN <<>>
        ELSE IF IsIndex(file, pos) /\ At(file, pos).frame.prev \in 0 .. pos - 1
             THEN LET before == chain[At(file, pos).frame.prev]
                  IN  IF before = Broken THEN Broken ELSE Append(before, pos)
             ELSE Broken
  IN  chain

(* The chain as a document follows it: a write that was cut leaves whatever *)
(* comes behind it, index frames too, at places that need not be aligned,   *)
(* and the document does not follow the chain there.                        *)
Chain(file, last_index) ==
  LET at == ChainTo(file)[last_index]
  IN  IF last_index \in 0 .. Bytes(file) - 1 /\ \A i \in 1 .. Len(at) : Aligned(at[i])
      THEN at ELSE Broken

(* sysprof_document_create_frame_scans(): the parts between index frames,   *)
(* those with nothing in them included, and none if the chain is broken or  *)
(* the index frames overlap.                                                *)
Past(file, at, i) == IF i = 0 THEN Header ELSE at[i] + At(file, at[i]).frame.len
Until(file, at, i) == IF i > Len(at) THEN Bytes(file) ELSE at[i]
Parts(file, last_index) ==
  LET at == Chain(file, last_index)
  IN  IF at = Broken \/ \E i \in 1 .. Len(at) : at[i] < Past(file, at, i - 1)
      THEN <<>>
      ELSE [i \in 1 .. Len(at) + 1 |-> <<Past(file, at, i - 1), Until(file, at, i)>>]

(* A scan is made for each part that has something in it.                   *)
Several(parts) == Cardinality({i \in DOMAIN parts : parts[i][1] < parts[i][2]}) >= 2

(* Variant: parts are taken for what they say, valid or not.                *)
LoadTrusting(file, last_index) ==
  LET parts == Parts(file, last_index)
  IN  IF last_index # 0 /\ Several(parts)
      THEN FlattenSeq([i \in 1 .. Len(parts) |->
                         Scan(file, parts[i][1], parts[i][2]).frames])
      ELSE Serial(file)

(* sysprof_document_scan_frames(): in parts if that works out for each of   *)
(* them, else from the start.                                               *)
Load(file, last_index) ==
  LET parts == Parts(file, last_index)
      scans == [i \in 1 .. Len(parts) |-> Scan(file, parts[i][1], parts[i][2])]
  IN  IF /\ last_index # 0 /\ Several(parts)
         /\ \A i \in 1 .. Len(parts) : scans[i].valid
      THEN FlattenSeq([i \in 1 .. Len(parts) |-> scans[i].frames])
      ELSE Serial(file)
=============================================================================
