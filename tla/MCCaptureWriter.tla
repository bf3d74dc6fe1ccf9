-------------------------- MODULE MCCaptureWriter ---------------------------
(* Instances of CaptureWriter: the files it is spliced with and saved over. *)
EXTENDS CaptureWriter

CONSTANTS n1, n2

Other(n, kind) == [kind |-> kind, id |-> n, len |-> HeadLen + Align]
Cut(frame, n) == SubSeq(Cells(frame), 1, n)

(* Captures of another writer.  The first has an index frame that points to *)
(* a place of its own file and a name for an address that this writer gives *)
(* too.  The others were cut: within a frame header and behind one, and     *)
(* with a frame of a type that is not known here.                           *)
WholeCapture ==
  Cells(Jitmap({<<n1, 2>>})) \o Cells(Index(0)) \o Cells(Other(2, "other"))
CutHeader == Cells(Other(1, "other")) \o Cut(Jitmap({<<n2, 1>>}), HeadLen - 1)
CutFrame == Cells(Other(1, "other")) \o Cut(Jitmap({<<n2, 1>>}), HeadLen)
CutUnknown == Cut(Other(1, "unknown"), HeadLen)
TheSources == {WholeCapture, CutHeader, CutFrame, CutUnknown}

(* Nothing, and a file that is longer than some captures.                   *)
TheFiles == {<<>>, Cells(Other(1, "other")) \o Cells(Other(2, "other"))}
=============================================================================
