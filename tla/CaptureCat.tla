----------------------------- MODULE CaptureCat -----------------------------
(***************************************************************************)
(* Captures joined frame by frame (sysprof-capture-writer-cat.c): a writer *)
(* reads one capture after the other through a reader, which others have   *)
(* used before, and gives names, counters and memory events identifiers of *)
(* its own.                                                                *)
(***************************************************************************)
EXTENDS CaptureCursor

CONSTANTS Later,        \* captures to join after the first one, as sets of choices
          Mark,         \* addresses from here on are names (JITMAP_MARK)
          JitMax,       \* entries of the table of names
          MaxSeq,       \* bound: addresses of names
          Writers       \* states of the writer when the first capture comes

VARIABLES cat,          \* what sysprof_capture_writer_cat() is at
          dest,         \* the writer: its identifiers and its table of names
          added,          \* the frames added to it
          want,         \* history: the meaning of the frames of the captures joined
          joined        \* history: captures joined

catVars == <<cat, dest, added, want, joined>>
allVars == <<readVars, catVars>>

Addressed == {"sample", "memory_sample"}
Evented == {"metadata", "memory_sample"}
Copied == {f \in Frames : f.kind # "jitmap" /\ ~IsIndexFrame(f)}
Names(frames) == UNION {ToSet(f.defs) : f \in {g \in ToSet(frames) : g.kind = "jitmap"}}
DefinedIn(frames) == UNION {ToSet(f.ids) : f \in {g \in ToSet(frames) : g.kind = "ctrdef"}}

(* A writer: an address has one name.                                       *)
WriterMade(w) ==
  /\ w = [names |-> w.names, written |-> w.written, seq |-> w.seq, ctr |-> w.ctr, event |-> w.event]
  /\ w.seq \in 0 .. MaxSeq /\ w.ctr \in Nat /\ w.event \in Nat
  /\ \A d, e \in w.names \cup w.written :
       d[2] \in Mark + 1 .. Mark + w.seq /\ (d[2] = e[2] => d[1] = e[1])

(* What the frames of a capture have, by their kind.                        *)
FrameMade(f) ==
  /\ f.kind \in Addressed => {"kind", "id", "addrs"} \subseteq DOMAIN f /\ f.addrs \in Seq(Nat)
  /\ f.kind \in Counters => {"kind", "id", "ids"} \subseteq DOMAIN f /\ f.ids \in Seq(Nat)
  /\ f.kind \in Evented => {"kind", "id", "event"} \subseteq DOMAIN f /\ f.event \in Nat
  /\ f.kind = "jitmap" => f.defs \in Seq(ToSet(f.defs))

(* Captures as sources write them: a counter is defined once, before it is  *)
(* set, an address has one name, and one without a name is not between the  *)
(* addresses that names get, but of a program or of the kernel.             *)
CaptureMade(frames) ==
  /\ \A m, n \in DOMAIN frames :
       frames[m].kind = "ctrdef" /\ frames[n].kind = "ctrdef" =>
         \A j \in DOMAIN frames[m].ids, k \in DOMAIN frames[n].ids :
           frames[m].ids[j] = frames[n].ids[k] => m = n /\ j = k
  /\ \A n \in DOMAIN frames :
       frames[n].kind = "ctrset" =>
         ToSet(frames[n].ids) \subseteq DefinedIn(SubSeq(frames, 1, n - 1))
  /\ \A d, e \in Names(frames) : d[2] = e[2] => d[1] = e[1]
  /\ \A f \in ToSet(frames) :
       f.kind \in Addressed =>
         \A a \in ToSet(f.addrs) :
           a \notin Mark .. Mark + MaxSeq \/ \E d \in Names(frames) : d[2] = a

ASSUME CatAssumption ==
  /\ Mark \in Nat /\ MaxSeq \in Nat
  /\ Later \in Seq(SUBSET Captures)
  /\ \A f \in Frames : FrameMade(f)
  /\ \A frames \in Captures : CaptureMade(frames)
  /\ \A w \in Writers : WriterMade(w)

Tables == [addr |-> {}, ctr |-> {}, event |-> {}]
Idle == [phase |-> "idle", table |-> Tables]
CatInit ==
  /\ ReadInit /\ cat = Idle /\ dest \in Writers
  /\ added = <<>> /\ want = <<>> /\ joined = 0

(* translate_table_translate(): what is not in the table stays as it is, as *)
(* does what is no name.                                                    *)
Translate(table, src) ==
  LET found == {item \in table : item[1] = src}
  IN  IF found = {} THEN src ELSE (CHOOSE item \in found : TRUE)[2]
TranslateAddr(src) == IF src < Mark THEN src ELSE Translate(cat.table.addr, src)

(* sysprof_capture_writer_add_jitmap(), as the writer promises it           *)
(* (NamesResolve of CaptureWriter).                                         *)
AddName(d, name) ==
  IF \E e \in d.names : e[1] = name THEN d
  ELSE LET entry == <<name, Mark + d.seq + 1>>
           full == Cardinality(d.names) = JitMax
       IN  [d EXCEPT !.seq = @ + 1,
                     !.written = IF full THEN @ \cup d.names ELSE @,
                     !.names = IF full THEN {entry} ELSE @ \cup {entry}]
AddressOf(d, name) == (CHOOSE e \in d.names : e[1] = name)[2]

(* The entries of a jitmap frame, one after the other: a turn of the loop   *)
(* ...                                                                      *)
RenameTurn(at, def) ==
  LET d == AddName(at.dest, def[1])
  IN  [dest |-> d, addr |-> at.addr \cup {<<def[2], AddressOf(d, def[1])>>}]

(* ... and the loop.                                                        *)
Renamed(defs) ==
  LET at[n \in 0 .. Len(defs)] ==
        IF n = 0 THEN [dest |-> dest, addr |-> cat.table.addr]
        ELSE RenameTurn(at[n - 1], defs[n])
  IN  at[Len(defs)]

(* Variant: a reader somebody used goes on where it is.                     *)
CatStartAnywhere ==
  /\ rd # NoReader /\ cat.phase = "idle" /\ rest = <<>>
  /\ joined <= Len(Later)
  /\ cat' = [phase |-> "names", table |-> Tables]
  /\ got' = <<>> /\ peeked' = "none" /\ ended' = FALSE /\ calls' = 0 /\ answer' = NoAnswer
  /\ UNCHANGED <<file, rest, foreign, listed, rd, dest, added, want, joined>>

(* The function begins by rewinding the reader.                             *)
CatStart ==
  /\ rd # NoReader /\ cat.phase = "idle" /\ rest = <<>>
  /\ joined <= Len(Later)
  /\ cat' = [phase |-> "names", table |-> Tables]
  /\ rd' = ResetOf(rd)
  /\ got' = <<>> /\ peeked' = "none" /\ ended' = FALSE /\ calls' = 0 /\ answer' = NoAnswer
  /\ UNCHANGED <<file, rest, foreign, listed, dest, added, want, joined>>

Quiet ==
  UNCHANGED <<file, rest, foreign, got, peeked, ended, calls, listed, answer, joined>>
Panic(r) == rd' = r /\ cat' = [cat EXCEPT !.phase = "panic"] /\ UNCHANGED <<dest, added, want>>

(* First walk: the names.                                                   *)
CatNames ==
  /\ cat.phase = "names"
  /\ LET Keep == [dest |-> dest, addr |-> cat.table.addr]
         Named(more) == /\ more.dest.seq <= MaxSeq
                        /\ dest' = more.dest /\ cat' = [cat EXCEPT !.table.addr = more.addr]
         Walked(next, jit) ==
           IF next.frame = <<>> THEN Panic(next.r)
           ELSE /\ rd' = next.r /\ Named(IF jit THEN Renamed(next.frame[1].defs) ELSE Keep)
                /\ UNCHANGED <<added, want>>
         Peeked(peek) ==
           IF peek.kind = "none"
           THEN /\ rd' = ResetOf(peek.r) /\ cat' = [cat EXCEPT !.phase = "frames"]
                /\ UNCHANGED <<dest, added, want>>
           ELSE IF peek.kind = "jitmap" THEN Walked(ReadJitmap(peek.r), TRUE)
           ELSE Walked(Skip(peek.r), FALSE)
     IN  Peeked(PeekFrame(rd))
  /\ Quiet

(* The frame as it is added, with the writer and the tables then: a counter *)
(* or an event that is defined gets the next identifier of the writer.      *)
AddCounters(f) ==
  LET ids == [n \in DOMAIN f.ids |-> dest.ctr + n]
      changed == {<<f.ids[n], ids[n]>> : n \in {k \in DOMAIN f.ids : f.ids[k] # ids[k]}}
  IN  [frame |-> [f EXCEPT !.ids = ids],
       dest |-> [dest EXCEPT !.ctr = @ + Len(f.ids)],
       table |-> [cat.table EXCEPT !.ctr = @ \cup changed]]

(* translate_memory_event(): an event gets its identifier when it is met.   *)
AddEvent(f, event) ==
  IF event = 0 \/ \E item \in cat.table.event : item[1] = event
  THEN [frame |-> [f EXCEPT !.event = Translate(cat.table.event, event)],
        dest |-> dest, table |-> cat.table]
  ELSE [frame |-> [f EXCEPT !.event = dest.event + 1],
        dest |-> [dest EXCEPT !.event = @ + 1],
        table |-> [cat.table EXCEPT !.event = @ \cup {<<event, dest.event + 1>>}]]

Added(f) ==
  LET addrs == [f EXCEPT !.addrs = [n \in DOMAIN @ |-> TranslateAddr(@[n])]]
      same(g) == [frame |-> g, dest |-> dest, table |-> cat.table]
  IN  CASE f.kind = "sample" -> same(addrs)
        [] f.kind = "memory_sample" -> AddEvent(addrs, f.event)
        [] f.kind = "metadata" -> AddEvent(f, f.event)
        [] f.kind = "ctrdef" -> AddCounters(f)
        [] f.kind = "ctrset" ->
             same([f EXCEPT !.ids = [n \in DOMAIN @ |-> Translate(cat.table.ctr, @[n])]])
        [] OTHER -> same(f)

(* What identifiers stand for in a capture with these frames and names.     *)
NameOf(a, names) == IF a < Mark THEN {a} ELSE {e[1] : e \in {d \in names : d[2] = a}}
CounterOf(id, frames) ==
  UNION {{<<d.id, n>> : n \in {k \in DOMAIN d.ids : d.ids[k] = id}} :
           d \in {g \in ToSet(frames) : g.kind = "ctrdef"}}
EventOf(e, frames) ==
  IF e = 0 THEN {} ELSE {d.id : d \in {g \in ToSet(frames) : g.kind = "metadata" /\ g.event = e}}

Meaning(f, frames, names) ==
  LET addrs == [n \in DOMAIN f.addrs |-> NameOf(f.addrs[n], names)]
  IN  CASE f.kind = "sample" -> <<f.id, addrs>>
        [] f.kind = "memory_sample" -> <<f.id, EventOf(f.event, frames), addrs>>
        [] f.kind \in Counters -> <<f.id, [n \in DOMAIN f.ids |-> CounterOf(f.ids[n], frames)]>>
        [] f.kind = "metadata" -> <<f.id, EventOf(f.event, frames)>>
        [] OTHER -> <<f.id>>
Meanings(copied, frames, names) ==
  [n \in DOMAIN copied |-> Meaning(copied[n], frames, names)]

(* Second walk: all other frames but the index frames, which the writer     *)
(* makes anew.  At the end the writer is flushed.                           *)
CatFrames ==
  /\ cat.phase = "frames"
  /\ LET Add(add) == /\ added' = Append(added, add.frame) /\ dest' = add.dest
                     /\ cat' = [cat EXCEPT !.table = add.table]
         Walked(next, jit) ==
           IF next.frame = <<>> THEN Panic(next.r)
           ELSE /\ rd' = next.r /\ UNCHANGED want
                /\ IF jit \/ IsIndexFrame(next.frame[1]) THEN UNCHANGED <<cat, dest, added>>
                   ELSE Add(Added(next.frame[1]))
         Peeked(peek) ==
           IF peek.kind = "none"
           THEN /\ rd' = peek.r /\ cat' = [cat EXCEPT !.phase = "done"]
                /\ dest' = [dest EXCEPT !.written = @ \cup dest.names, !.names = {}]
                /\ want' = want \o Meanings(Only(Whole, Copied), Whole, Names(Whole))
                /\ UNCHANGED added
           ELSE IF peek.kind = "jitmap" THEN Walked(Skip(peek.r), TRUE)
           ELSE Walked(ReadAs(peek.r, peek.kind), FALSE)
     IN  Peeked(PeekFrame(rd))
  /\ Quiet

(* The reader of the next capture.                                          *)
NextInput ==
  /\ cat.phase = "done" /\ cat' = Idle /\ joined' = joined + 1
  /\ IF joined' > Len(Later)
     THEN UNCHANGED <<file, rd, listed>>
     ELSE /\ \E frames \in Later[joined'] : file' = CellsOf(frames)
          /\ rd' = Fresh /\ listed' = NoList
  /\ UNCHANGED <<rest, foreign, got, peeked, ended, calls, answer, dest, added, want>>

CatNext == CatStart \/ CatNames \/ CatFrames \/ NextInput
(* Somebody uses the reader until its capture is joined.                    *)
UsedBefore == cat = Idle /\ joined = 0 /\ ReadNext /\ UNCHANGED catVars

CatSpec == CatInit /\ [][UsedBefore \/ CatNext]_allVars

(* The frames of the joined capture mean what they meant in the captures    *)
(* they are from, in the same order: addresses have their names, values go  *)
(* to their counters and samples to their events, and nothing that was      *)
(* apart became one, whatever the captures and the writer had in common.    *)
Led == foreign /\ \E f \in Frames : f.kind \in Counters /\ Exchange(f.len) \notin {1, f.len}
SameMeaning ==
  cat.phase = "done" => Led \/ Meanings(added, added, dest.written) = want
=============================================================================
