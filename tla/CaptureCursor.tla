--------------------------- MODULE CaptureCursor ----------------------------
(***************************************************************************)
(* What is asked of a reader of a capture file: where the embedded files   *)
(* are and what is in them (sysprof-capture-reader.c), and which frames    *)
(* meet a condition (sysprof-capture-cursor.c, sysprof-capture-condition.c)*)
(***************************************************************************)
EXTENDS CaptureReader

CONSTANTS Paths,        \* embedded files to look for
          Terms,        \* conditions, with those they are made of
          Conditions    \* sets of conditions of a cursor

ASSUME CursorAssumption ==
  /\ \A f \in Frames : f.kind = "file" => f.path \in Paths /\ f.last \in BOOLEAN
  /\ \A c \in Terms : c.op \in {"and", "or"} => c.left \in Terms /\ c.right \in Terms
  /\ Conditions \subseteq SUBSET Terms

VARIABLES listed,       \* the reader's list of embedded files (list_files), or
                        \* NoList; history: the files there were when it was made
          answer        \* history: the last answer

readVars == <<vars, listed, answer>>

NoAnswer == [none |-> TRUE]
NoList == [none |-> TRUE]

-----------------------------------------------------------------------------
(* A turn of each loop: the reader then, and what was found so far; the     *)
(* last one says whether it was found.                                      *)
Goes(r, found) == [r |-> r, more |-> TRUE, ok |-> FALSE, out |-> found]
Ends(r, ok, found) == [r |-> r, more |-> FALSE, ok |-> ok, out |-> found]

(* A chunk of a file is read, any other frame skipped.                      *)
ReadChunk(peek) == IF peek.kind = "file" THEN ReadStruct(peek.r, "file") ELSE Skip(peek.r)

(* sysprof_capture_reader_find_file(): the first chunk of path from here.   *)
FindFile(turn, path) ==
  LET peek == PeekFrame(turn.r)
      next == ReadChunk(peek)
  IN  IF peek.kind = "none" THEN Ends(peek.r, FALSE, <<>>)
      ELSE IF next.frame = <<>> THEN Ends(next.r, FALSE, <<>>)
      ELSE IF peek.kind = "file" /\ next.frame[1].path = path
      THEN Ends(next.r, TRUE, next.frame)
      ELSE Goes(next.r, <<>>)

(* Variant: the frame behind a chunk that was read is skipped.              *)
ListFilesSkipping(turn) ==
  LET peek == PeekFrame(turn.r)
      read == IF peek.kind = "file" THEN ReadStruct(peek.r, "file") ELSE Fail(peek.r)
      next == Skip(read.r)
      found == turn.out \cup {f.path : f \in ToSet(read.frame)}
  IN  IF peek.kind = "none" THEN Ends(peek.r, TRUE, turn.out)
      ELSE IF next.frame = <<>> THEN Ends(next.r, TRUE, found)
      ELSE Goes(next.r, found)

(* sysprof_capture_reader_list_files(), the first time it is asked.  That a *)
(* skip may fail is not looked at: the next turn is at the same frame again.*)
ListFiles(turn) ==
  LET peek == PeekFrame(turn.r)
      next == ReadChunk(peek)
  IN  IF peek.kind = "none" THEN Ends(peek.r, TRUE, turn.out)
      ELSE IF peek.kind # "file" THEN Goes(next.r, turn.out)
      ELSE IF next.frame = <<>> THEN Ends(next.r, TRUE, turn.out)
      ELSE Goes(next.r, turn.out \cup {next.frame[1].path})

(* sysprof_capture_reader_read_file_fd(): the chunks of path are written    *)
(* until the last.  A chunk of another file is read, and then what is next  *)
(* is skipped.                                                              *)
ReadFileFd(turn, path) ==
  LET peek == PeekFrame(turn.r)
      read == IF peek.kind = "file" THEN ReadStruct(peek.r, "file") ELSE Fail(peek.r)
      next == Skip(read.r)
      chunk == read.frame[1]
  IN  IF peek.kind = "none" \/ (peek.kind = "file" /\ read.frame = <<>>)
      THEN Ends(read.r, FALSE, turn.out)
      ELSE IF peek.kind = "file" /\ chunk.path = path
      THEN IF chunk.last THEN Ends(read.r, TRUE, Append(turn.out, chunk.id))
           ELSE Goes(read.r, Append(turn.out, chunk.id))
      ELSE IF next.frame = <<>> THEN Ends(next.r, FALSE, turn.out)
      ELSE Goes(next.r, turn.out)

(* sysprof_capture_condition_match(), and sysprof_capture_cursor_foreach()  *)
(* with a callback that goes on: a frame is given if there are no           *)
(* conditions or one of them matches.                                       *)
Match(condition, f) ==
  LET match[c \in Terms] ==
        CASE c.op = "and" -> match[c.left] /\ match[c.right]
          [] c.op = "or" -> match[c.left] \/ match[c.right]
          [] c.op = "type" -> f.kind \in c.in
          [] c.op = "time" -> f.time \in c.begin .. c.end
          [] c.op = "file" -> f.kind = "file" /\ f.path = c.path
  IN  match[condition]

Given(conditions, f) == conditions = {} \/ \E c \in conditions : Match(c, f)

Foreach(turn, conditions) ==
  LET peek == PeekFrame(turn.r)
      next == ReadAs(peek.r, peek.kind)
      f == next.frame[1]
  IN  IF peek.kind = "none" \/ next.frame = <<>> THEN Ends(turn.r, TRUE, turn.out)
      ELSE Goes(next.r, IF Given(conditions, f) THEN Append(turn.out, f) ELSE turn.out)

TurnOf(op, of, turn) ==
  CASE ~turn.more -> turn
    [] turn.more /\ op = "find" -> FindFile(turn, of)
    [] turn.more /\ op = "list" -> ListFiles(turn)
    [] turn.more /\ op = "write" -> ReadFileFd(turn, of)
    [] turn.more /\ op = "cursor" -> Foreach(turn, of)

(* A turn that is not the last takes a frame, so that there are no more of  *)
(* them than cells, and one; but one of list_files() at a frame that is not *)
(* whole, which is followed by others like it until the file has grown.     *)
Loop(op, of, r) ==
  LET turn[n \in 0 .. Len(file) + 1] ==
        IF n = 0 THEN Goes(r, IF op = "list" THEN {} ELSE <<>>)
        ELSE TurnOf(op, of, turn[n - 1])
  IN  turn[Len(file) + 1]

-----------------------------------------------------------------------------
(* The questions.                                                           *)

(* The paths of the embedded files in these frames.                         *)
PathsIn(frames) == {frames[n].path : n \in {k \in 1 .. Len(frames) : frames[k].kind = "file"}}

ReadInit == Init /\ listed = NoList /\ answer = NoAnswer

(* Another call of the reader.                                              *)
Reading == Next /\ answer' = NoAnswer /\ UNCHANGED listed

(* A reader is reset, asked about an embedded file, and reset again.        *)
Ask(op, path) ==
  /\ rd # NoReader /\ calls = 0
  /\ LET Answered(done) ==
           /\ rd' = ResetOf(done.r)
           /\ answer' = [op |-> op, path |-> path, ok |-> done.ok, out |-> done.out]
     IN  Answered(Loop(op, path, ResetOf(rd)))
  /\ UNCHANGED <<file, rest, foreign, got, peeked, ended, calls, listed>>

(* It is reset, asked for the embedded files, and reset again.  The list is *)
(* made once and kept.  A call that does not end in this file has its end   *)
(* when the file has grown, and nobody else has the reader until then.      *)
List ==
  /\ rd # NoReader /\ calls = 0
  /\ LET Listed(done) == /\ ~done.more /\ rd' = ResetOf(done.r)
                         /\ listed' = [paths |-> done.out, there |-> PathsIn(Whole)]
     IN  IF listed = NoList THEN Listed(Loop("list", "", ResetOf(rd)))
         ELSE rd' = ResetOf(rd) /\ UNCHANGED listed
  /\ answer' = [op |-> "list", out |-> listed'.paths]
  /\ UNCHANGED <<file, rest, foreign, got, peeked, ended, calls>>

(* A cursor is a copy of the reader, reset; the reader stays where it is.   *)
(* The copy of one with a list has the same list, and both free it: nothing *)
(* is said of a program that makes one.                                     *)
Cursor(conditions) ==
  /\ rd # NoReader /\ calls = 0 /\ listed = NoList
  /\ answer' = [op |-> "cursor", conditions |-> conditions,
                out |-> Loop("cursor", conditions, ResetOf(rd)).out]
  /\ UNCHANGED <<file, rest, foreign, rd, got, peeked, ended, calls, listed>>

ReadNext == \/ Reading \/ List
            \/ \E op \in {"find", "write"}, path \in Paths : Ask(op, path)
            \/ \E conditions \in Conditions : Cursor(conditions)

ReadSpec == ReadInit /\ [][ReadNext]_readVars

-----------------------------------------------------------------------------
(* Properties.                                                              *)

Only(frames, these) ==
  FlattenSeq([n \in DOMAIN frames |-> IF frames[n] \in these THEN <<frames[n]>> ELSE <<>>])

(* The chunks of an embedded file up to its last are read back.             *)
ChunksOf(path) == Only(Whole, {f \in Frames : f.kind = "file" /\ f.path = path})
ReadBack ==
  LET chunks == ChunksOf(answer.path)
      lasts == {n \in DOMAIN chunks : chunks[n].last}
      last == CHOOSE n \in lasts : \A k \in lasts : n <= k
  IN  lasts # {} => answer.ok /\ answer.out = [n \in 1 .. last |-> chunks[n].id]
AloneUpToLast(path) ==
  \E n \in DOMAIN Whole :
    /\ Whole[n].kind = "file" /\ Whole[n].last
    /\ \A k \in 1 .. n : Whole[k].kind = "file" => Whole[k].path = path

(* Embedded files are found, listed, read back if none is in front of them, *)
(* and picked by a cursor as a walk over the file would: the first chunk of *)
(* a path, every path that there was when the list of them was made, every  *)
(* chunk to the last, and every frame that meets a condition, up to an      *)
(* index frame if the cursor stops at one.                                  *)
AnswersAsWalk ==
  \/ answer = NoAnswer
  \/ foreign
  \/ /\ answer.op = "find"
     /\ answer.out = IF ChunksOf(answer.path) = <<>> THEN <<>> ELSE <<Head(ChunksOf(answer.path))>>
  \/ answer.op = "list" /\ answer.out = listed.there
  \/ /\ answer.op = "cursor"
     /\ \E n \in 0 .. Len(Whole) :
          /\ n = Len(Whole) \/ IsIndexFrame(Whole[n + 1])
          /\ answer.out = Only(SubSeq(Whole, 1, n), {f \in Frames : Given(answer.conditions, f)})
  \/ answer.op = "write" /\ (AloneUpToLast(answer.path) => ReadBack)
=============================================================================
