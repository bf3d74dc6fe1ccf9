-------------------------- MODULE RingBuffer_proofs --------------------------
(***************************************************************************)
(* Proofs about RingBuffer for every size of the body, every set of frame  *)
(* lengths and every number of events: the inductive invariant, the        *)
(* safety properties that follow from it, and the refinement of            *)
(* FrameStream.                                                            *)
(***************************************************************************)
EXTENDS RingBuffer, SequenceTheorems, TLAPS

-----------------------------------------------------------------------------
(* Arithmetic of positions.                                                 *)

Pos == 0 .. Body - 1

(* A position up to twice the body wraps to a position of the body.         *)
LEMMA WrapType ==
  ASSUME NEW p \in Nat, p < 2 * Body
  PROVE  Wrap(p) \in Pos
  BY RingAssumption DEF Wrap, Pos, RingAssumption

(* The distance between two positions is less than the body.                *)
LEMMA DistType ==
  ASSUME NEW a \in Pos, NEW b \in Pos
  PROVE  Dist(a, b) \in Pos /\ (Dist(a, b) = 0 <=> a = b)
  BY RingAssumption DEF Dist, Pos, RingAssumption

(* Moving the far end of a distance forward, short of a whole turn, adds to *)
(* it, and the place behind the far end is found from either end.           *)
LEMMA DistForward ==
  ASSUME NEW a \in Pos, NEW b \in Pos, NEW l \in Nat,
         Dist(a, b) + l < Body
  PROVE  /\ Wrap(b + l) \in Pos
         /\ Dist(a, Wrap(b + l)) = Dist(a, b) + l
         /\ Wrap(a + (Dist(a, b) + l)) = Wrap(b + l)
  BY RingAssumption DEF Dist, Wrap, Pos, RingAssumption

(* Moving the near end forward by no more than the distance shortens it.    *)
LEMMA DistConsume ==
  ASSUME NEW a \in Pos, NEW b \in Pos, NEW l \in Nat, l <= Dist(a, b)
  PROVE  /\ Wrap(a + l) \in Pos
         /\ Dist(Wrap(a + l), b) = Dist(a, b) - l
  BY RingAssumption DEF Dist, Wrap, Pos, RingAssumption

(* Two short moves forward are one.                                         *)
LEMMA WrapWrap ==
  ASSUME NEW a \in Pos, NEW l \in Nat, NEW o \in Nat, l + o < Body
  PROVE  Wrap(Wrap(a + l) + o) = Wrap(a + (l + o))
  BY RingAssumption DEF Wrap, Pos, RingAssumption

(* Different offsets below the body are different places.                   *)
LEMMA WrapInjective ==
  ASSUME NEW a \in Pos, NEW o1 \in Pos, NEW o2 \in Pos,
         Wrap(a + o1) = Wrap(a + o2)
  PROVE  o1 = o2
  BY RingAssumption DEF Wrap, Pos, RingAssumption

(* The test of the allocation loop is what it is meant to be: the words in  *)
(* flight, the allocation and the reserve stay short of the body.           *)
LEMMA FitsMeaning ==
  ASSUME head \in Pos, tail \in Pos, NEW l \in Nat, NEW r \in Nat,
         l + r < Body
  PROVE  Fits(l, r) <=> Used + l + r < Body
  BY RingAssumption DEF Fits, Used, Dist, Pos, RingAssumption

-----------------------------------------------------------------------------
(* Steps that leave the unread words and the histories alone keep the       *)
(* conjuncts about them.                                                    *)

LEMMA FramesSame ==
  ASSUME FramesInv, Used' = Used, Unread' = Unread, UNCHANGED <<sent, got>>
  PROVE  FramesInv'
  BY DEF FramesInv, Start

LEMMA FramesFramed ==
  ASSUME FramesInv, UNCHANGED <<head, tail, mem, sent, got>>
  PROVE  FramesInv'
<1>1. Used' = Used /\ Unread' = Unread
  BY DEF Unread, Used, Dist, Wrap
<1> QED
  BY <1>1, FramesSame

LEMMA ReaderFramed ==
  ASSUME ReaderInv, UNCHANGED <<head, tail, mem, reader>>
  PROVE  ReaderInv'
<1>1. Used' = Used /\ Unread' = Unread
  BY DEF Unread, Used, Dist, Wrap
<1> QED
  BY <1>1 DEF ReaderInv, Start, Wrap, reader

LEMMA WriterFramed ==
  ASSUME WriterInv, UNCHANGED <<tail, mem, sent, writer>>
  PROVE  WriterInv'
  BY DEF WriterInv, Wrap, writer

(* The reserve is a number, and with any event length it is below the body. *)
LEMMA ReserveType ==
  ASSUME NEW kind
  PROVE  ReserveFor(kind) \in Nat
  BY RingAssumption DEF ReserveFor, RingAssumption

-----------------------------------------------------------------------------
(* The initial states.                                                      *)

LEMMA InitIInv == Init => IInv
<1> SUFFICES ASSUME Init PROVE IInv
  OBVIOUS
<1> USE RingAssumption DEF RingAssumption, Init
<1>1. TypeOK
  <2>1. Scratch \in Word
    BY DEF Scratch, Word
  <2> QED
    BY <2>1 DEF TypeOK
<1>2. SpaceInv
  BY DEF SpaceInv, Used, Dist
<1>3. WriterInv
  BY DEF WriterInv
<1>4. SentInv
  BY DEF SentInv
<1>5. FramesInv
  BY DEF FramesInv, Used, Dist
<1>6. ReaderInv
  BY DEF ReaderInv
<1> QED
  BY <1>1, <1>2, <1>3, <1>4, <1>5, <1>6 DEF IInv

-----------------------------------------------------------------------------
(* The writer's steps.                                                      *)

LEMMA BeginEventStep ==
  ASSUME IInv, NEW length \in Lens, NEW len \in Lens, BeginEvent(length, len)
  PROVE  IInv'
<1> USE DEF BeginEvent, shared, reader
<1>1. TypeOK'
  BY RingAssumption DEF IInv, TypeOK, Frame, RingAssumption
<1>2. SpaceInv'
  BY RingAssumption DEF IInv, SpaceInv, Used, Dist, ReserveFor, RingAssumption
<1>3. WriterInv'
  BY RingAssumption DEF IInv, TypeOK, WriterInv, Frame, RingAssumption
<1>4. SentInv'
  BY DEF IInv, SentInv
<1>5. FramesInv'
  BY FramesFramed DEF IInv
<1>6. ReaderInv'
  BY ReaderFramed DEF IInv
<1> QED
  BY <1>1, <1>2, <1>3, <1>4, <1>5, <1>6 DEF IInv

LEMMA BeginFinalStep == ASSUME IInv, BeginFinal PROVE IInv'
<1> USE DEF BeginFinal, shared, reader
<1>1. TypeOK'
  BY RingAssumption DEF IInv, TypeOK, SentInv, Frame, RingAssumption
<1>2. SpaceInv'
  BY RingAssumption DEF IInv, TypeOK, SpaceInv, Used, Dist, ReserveFor, RingAssumption
<1>3. WriterInv'
  BY RingAssumption DEF IInv, TypeOK, SentInv, WriterInv, Frame, RingAssumption
<1>4. SentInv'
  BY DEF IInv, SentInv
<1>5. FramesInv'
  BY FramesFramed DEF IInv
<1>6. ReaderInv'
  BY ReaderFramed DEF IInv
<1> QED
  BY <1>1, <1>2, <1>3, <1>4, <1>5, <1>6 DEF IInv

LEMMA AllocateStep == ASSUME IInv, Allocate PROVE IInv'
<1> USE DEF Allocate, shared, reader
<1>1. TypeOK'
  BY DEF IInv, TypeOK
<1>2. SpaceInv'
  <2>1. /\ wlen \in Nat /\ ReserveFor(wframe.kind) \in Nat
        /\ wlen + ReserveFor(wframe.kind) < Body
    BY RingAssumption DEF IInv, TypeOK, SpaceInv, ReserveFor, RingAssumption
  <2>2. Used + wlen + ReserveFor(wframe.kind) < Body
    BY <2>1, FitsMeaning DEF IInv, TypeOK, Pos
  <2> QED
    BY <2>1, <2>2 DEF IInv, SpaceInv, Used, Dist, ReserveFor
<1>3. WriterInv'
  BY RingAssumption DEF IInv, TypeOK, WriterInv, Frame, RingAssumption
<1>4. SentInv'
  BY DEF IInv, SentInv
<1>5. FramesInv'
  BY FramesFramed DEF IInv
<1>6. ReaderInv'
  BY ReaderFramed DEF IInv
<1> QED
  BY <1>1, <1>2, <1>3, <1>4, <1>5, <1>6 DEF IInv

LEMMA AllocateRetryStep == ASSUME IInv, AllocateRetry PROVE IInv'
<1> USE DEF AllocateRetry, shared, reader
<1>1. TypeOK'
  BY RingAssumption DEF IInv, TypeOK, RingAssumption
<1>2. SpaceInv'
  BY DEF IInv, SpaceInv, Used, Dist, ReserveFor
<1>3. WriterInv'
  BY DEF IInv, WriterInv
<1>4. SentInv'
  BY DEF IInv, SentInv
<1>5. FramesInv'
  BY FramesFramed DEF IInv
<1>6. ReaderInv'
  BY ReaderFramed DEF IInv
<1> QED
  BY <1>1, <1>2, <1>3, <1>4, <1>5, <1>6 DEF IInv

LEMMA AllocateFailStep == ASSUME IInv, AllocateFail PROVE IInv'
<1> USE DEF AllocateFail, shared, reader
<1>1. TypeOK'
  BY DEF IInv, TypeOK
<1>2. SpaceInv'
  BY DEF IInv, SpaceInv, Used, Dist, ReserveFor
<1>3. WriterInv'
  BY DEF IInv, WriterInv
<1>4. SentInv'
  BY DEF IInv, SentInv, WriterInv
<1>5. FramesInv'
  BY FramesFramed DEF IInv
<1>6. ReaderInv'
  BY ReaderFramed DEF IInv
<1> QED
  BY <1>1, <1>2, <1>3, <1>4, <1>5, <1>6 DEF IInv

LEMMA DieStep == ASSUME IInv, Die PROVE IInv'
<1> USE DEF Die, shared, reader
<1>1. TypeOK'
  BY DEF IInv, TypeOK
<1>2. SpaceInv'
  BY DEF IInv, SpaceInv, Used, Dist
<1>3. WriterInv'
  BY DEF IInv, WriterInv
<1>4. SentInv'
  BY DEF IInv, SentInv
<1>5. FramesInv'
  BY FramesFramed DEF IInv
<1>6. ReaderInv'
  BY ReaderFramed DEF IInv
<1> QED
  BY <1>1, <1>2, <1>3, <1>4, <1>5, <1>6 DEF IInv

(* The writer's words lie behind tail, outside the unread part.             *)
LEMMA FillOutside ==
  ASSUME IInv, Fill
  PROVE  /\ \A o \in 0 .. Used - 1 : Wrap(head + o) # Wrap(tail + woff)
         /\ Used' = Used /\ Unread' = Unread
<1>1. /\ head \in Pos /\ tail \in Pos /\ woff \in Nat /\ wlen \in Nat
      /\ Body \in Nat /\ Used \in Nat /\ Used + woff < Body
  <2>1. Used \in Pos
    BY DistType DEF IInv, TypeOK, Used, Pos
  <2> QED
    BY <2>1, ReserveType, RingAssumption
    DEF IInv, TypeOK, SpaceInv, Fill, Pos, RingAssumption
<1>2. Wrap(head + (Used + woff)) = Wrap(tail + woff)
  BY <1>1, DistForward DEF Used, Pos
<1>3. ASSUME NEW o \in 0 .. Used - 1
      PROVE  Wrap(head + o) # Wrap(tail + woff)
  <2>1. o \in Pos /\ Used + woff \in Pos /\ o # Used + woff
    BY <1>1 DEF Pos
  <2> QED
    BY <1>1, <1>2, <2>1, WrapInjective
<1>4. Used' = Used
  BY DEF Used, Dist, Fill
<1>5. ASSUME NEW o \in 0 .. Used - 1
      PROVE  mem'[Wrap(head + o)] = mem[Wrap(head + o)]
  <2>1. Wrap(head + o) \in Pos
    BY <1>1, WrapType, RingAssumption DEF Pos, RingAssumption
  <2> QED
    BY <1>3, <2>1 DEF IInv, TypeOK, Fill, Pos
<1>6. Unread' = Unread
  BY <1>4, <1>5 DEF Unread, Fill, Wrap
<1> QED
  BY <1>3, <1>4, <1>6

LEMMA FillStep == ASSUME IInv, Fill PROVE IInv'
<1> USE DEF Fill, reader
<1>a. /\ Body \in Nat /\ tail \in Pos /\ woff \in Nat /\ wlen \in Nat
      /\ woff < wlen /\ wlen < Body /\ mem \in [Pos -> Word]
  <2>1. Used \in Pos
    BY DistType DEF IInv, TypeOK, Used, Pos
  <2> QED
    BY <2>1, ReserveType, RingAssumption
    DEF IInv, TypeOK, SpaceInv, Fill, Pos, RingAssumption
<1>b. Wrap(tail + woff) \in Pos
  BY <1>a, WrapType DEF Pos
<1>1. TypeOK'
  <2>1. wframe \in Frame \cup {NoFrame}
    BY DEF IInv, TypeOK
  <2>2. (IF woff < wframe.len THEN [frame |-> wframe, off |-> woff]
                              ELSE Scratch) \in Word
    BY <1>a, <2>1 DEF Scratch, Word
  <2>3. mem' \in [0 .. Body - 1 -> Word]
    BY <1>a, <2>2 DEF Pos
  <2> QED
    BY <1>a, <2>3 DEF IInv, TypeOK
<1>2. SpaceInv'
  BY DEF IInv, SpaceInv, Used, Dist, ReserveFor
<1>3. WriterInv'
  <2>1. wframe \in Frame /\ wframe.len <= wlen /\ wframe.len \in Nat
    BY RingAssumption DEF IInv, WriterInv, Frame, RingAssumption
  <2>3. ASSUME NEW j \in 0 .. wframe.len - 1, j < woff'
        PROVE  mem'[Wrap(tail + j)] = [frame |-> wframe, off |-> j]
    <3>0. j \in Nat /\ j < Body
      BY <1>a, <2>1
    <3>1. Wrap(tail + j) \in Pos
      BY <1>a, <3>0, WrapType DEF Pos
    <3>2. CASE j = woff
      BY <1>a, <1>b, <2>1, <3>1, <3>2
    <3>3. CASE j < woff
      <4>1. Wrap(tail + j) # Wrap(tail + woff)
        <5>1. j \in Pos /\ woff \in Pos /\ j # woff
          BY <1>a, <3>0, <3>3 DEF Pos
        <5> QED
          BY <1>a, <5>1, WrapInjective
      <4>2. mem[Wrap(tail + j)] = [frame |-> wframe, off |-> j]
        BY <2>1, <3>3 DEF IInv, WriterInv
      <4> QED
        BY <1>a, <3>1, <4>1, <4>2
    <3> QED
      BY <1>a, <2>1, <2>3, <3>0, <3>2, <3>3
  <2> QED
    BY <1>a, <2>1, <2>3 DEF IInv, WriterInv, Wrap
<1>4. SentInv'
  BY DEF IInv, SentInv
<1>5. FramesInv'
  BY FillOutside, FramesSame DEF IInv
<1>6. ReaderInv'
  BY FillOutside DEF IInv, ReaderInv, Start, Wrap
<1> QED
  BY <1>1, <1>2, <1>3, <1>4, <1>5, <1>6 DEF IInv

(* The words of the new frame follow the unread words.                      *)
LEMMA AdvanceUnread ==
  ASSUME IInv, Advance
  PROVE  /\ Used \in Nat /\ Used' = Used + wframe.len
         /\ tail' \in Pos
         /\ \A o \in 0 .. Used - 1 : Unread'[o] = Unread[o]
         /\ \A j \in 0 .. wframe.len - 1 :
              Unread'[Used + j] = [frame |-> wframe, off |-> j]
<1>1. /\ head \in Pos /\ tail \in Pos /\ Used \in Pos /\ Body \in Nat
      /\ wframe \in Frame /\ wframe.len \in Nat
      /\ wframe.len <= woff /\ wframe.len <= wlen /\ wlen \in Nat /\ woff \in Nat
  <2>1. /\ head \in Pos /\ tail \in Pos /\ wframe \in Frame /\ wlen \in Nat /\ woff \in Nat
        /\ Body \in Nat /\ Lens \subseteq Nat /\ FrameSize \in Nat
    <3>1. Body \in Nat /\ Lens \subseteq Nat /\ FrameSize \in Nat
      BY RingAssumption DEF RingAssumption
    <3>2. head \in Pos /\ tail \in Pos /\ wlen \in Nat /\ woff \in Nat
      BY DEF IInv, TypeOK, Pos
    <3>3. wframe \in Frame
      BY DEF IInv, WriterInv, Advance
    <3> QED
      BY <3>1, <3>2, <3>3
  <2>2. Used \in Pos
    BY <2>1, DistType DEF Used
  <2>3. wframe.len \in Nat
    BY <2>1 DEF Frame
  <2>4. wframe.len <= woff /\ wframe.len <= wlen
    BY DEF IInv, WriterInv, Advance
  <2> QED
    BY <2>1, <2>2, <2>3, <2>4
<1>2. Used + wframe.len < Body
  BY <1>1, ReserveType, RingAssumption
  DEF IInv, SpaceInv, Advance, Pos, RingAssumption
<1>3. tail' \in Pos /\ Used' = Used + wframe.len
  BY <1>1, <1>2, DistForward DEF Advance, Used
<1>4. ASSUME NEW o \in 0 .. Used - 1
      PROVE  Unread'[o] = Unread[o]
  BY <1>1, <1>3, SMTT(30) DEF Unread, Wrap, Advance, Pos
<1>5. ASSUME NEW j \in 0 .. wframe.len - 1
      PROVE  Unread'[Used + j] = [frame |-> wframe, off |-> j]
  <2>1. j \in Nat /\ j < wframe.len /\ Used + j \in 0 .. Used' - 1
    BY <1>1, <1>3 DEF Pos
  <2>2. Wrap(head + (Used + j)) = Wrap(tail + j)
    <3>1. Used + j < Body
      BY <1>1, <1>2, <2>1 DEF Pos
    <3> QED
      BY <1>1, <2>1, <3>1, DistForward DEF Used
  <2>3. mem[Wrap(tail + j)] = [frame |-> wframe, off |-> j]
    BY <1>1, <2>1 DEF IInv, WriterInv, Advance
  <2>4. Unread'[Used + j] = mem[Wrap(head + (Used + j))]
    BY <2>1 DEF Unread, Wrap, Advance
  <2> QED
    BY <2>2, <2>3, <2>4
<1> QED
  BY <1>1, <1>3, <1>4, <1>5 DEF Pos

LEMMA AdvanceStep == ASSUME IInv, Advance PROVE IInv'
<1> USE DEF Advance, reader
<1> DEFINE f == wframe
<1>a. /\ f \in Frame /\ f.id = Len(sent) + 1 /\ f.len \in Nat \ {0}
      /\ f.kind \in {"event", "final"}
      /\ wlen \in Nat /\ f.len <= wlen
      /\ sent \in Seq(Frame) /\ Len(sent) \in Nat /\ Len(got) \in Nat
  <2>1. f \in Frame /\ f.id = Len(sent) + 1 /\ f.len <= wlen
    BY DEF IInv, WriterInv
  <2>2. f.len \in Nat \ {0} /\ f.kind \in {"event", "final"}
    BY <2>1, RingAssumption DEF Frame, RingAssumption
  <2>3. sent \in Seq(Frame) /\ got \in Seq(Frame \cup {NoFrame, Torn}) /\ wlen \in Nat
    BY DEF IInv, TypeOK
  <2> QED
    BY <2>1, <2>2, <2>3
<1>b. /\ sent' = Append(sent, f) /\ Len(sent') = Len(sent) + 1
      /\ sent'[Len(sent) + 1] = f
      /\ \A i \in 1 .. Len(sent) : sent'[i] = sent[i]
  BY <1>a
<1>c. Used \in Nat /\ Used' = Used + f.len
  BY AdvanceUnread
<1>d. \A o \in 0 .. Used - 1 : Unread'[o] = Unread[o]
  BY AdvanceUnread
<1>e. \A j \in 0 .. f.len - 1 : Unread'[Used + j] = [frame |-> f, off |-> j]
  BY AdvanceUnread
<1>f. Used + wlen + ReserveFor(f.kind) < Body /\ Body \in Nat
  BY RingAssumption DEF IInv, SpaceInv, RingAssumption
<1>g. ReserveFor(f.kind) = IF f.kind = "event" THEN FrameSize ELSE 0
  BY DEF ReserveFor
<1>1. TypeOK'
  BY <1>a, <1>b, AdvanceUnread DEF IInv, TypeOK, Pos
<1>2. SpaceInv'
  <2>1. Used' < Body
    BY <1>a, <1>c, <1>f, <1>g, RingAssumption DEF RingAssumption
  <2>2. ASSUME wpc' = "idle"
        PROVE  Used' + FrameSize < Body
    <3>1. f.kind = "event"
      BY <1>a, <2>2
    <3> QED
      BY <1>a, <1>c, <1>f, <1>g, <3>1, RingAssumption DEF RingAssumption
  <2> QED
    BY <2>1, <2>2 DEF SpaceInv
<1>3. WriterInv'
  BY DEF WriterInv
<1>4. SentInv'
  <2>1. Len(sent') <= MaxEvents \/ wpc' \in {"closed", "dead"}
    BY <1>a, <1>b DEF IInv, WriterInv
  <2>2. ASSUME NEW i \in 1 .. Len(sent')
        PROVE  /\ sent'[i].id = i
               /\ sent'[i].kind = "final" => i = Len(sent') /\ wpc' = "closed"
    <3>1. CASE i = Len(sent) + 1
      BY <1>a, <1>b, <3>1
    <3>2. CASE i # Len(sent) + 1
      BY <1>a, <1>b, <3>2 DEF IInv, SentInv
    <3> QED
      BY <3>1, <3>2
  <2> QED
    BY <1>a, <1>b, <2>1, <2>2 DEF IInv, SentInv
<1>5. FramesInv'
  <2>1. Used' = 0 <=> Len(got') = Len(sent')
    BY <1>a, <1>b, <1>c DEF IInv, SentInv
  <2>2. Used' > 0 =>
          Unread'[0].off = 0 /\ Unread'[0].frame = sent'[Len(got') + 1]
    <3>1. CASE Used = 0
      <4>1. Unread'[0] = [frame |-> f, off |-> 0]
        BY <1>a, <1>e, <3>1
      <4>2. Len(got) = Len(sent)
        BY <3>1 DEF IInv, FramesInv
      <4> QED
        BY <1>b, <4>1, <4>2
    <3>2. CASE Used > 0
      <4>1. Unread'[0] = Unread[0]
        BY <1>c, <1>d, <3>2
      <4>2. Len(got) + 1 \in 1 .. Len(sent)
        BY <1>a, <1>c, <3>2 DEF IInv, SentInv, FramesInv
      <4> QED
        <5>1. Start(0) /\ Unread[0].frame = sent[Len(got) + 1]
          BY <3>2 DEF IInv, FramesInv
        <5> QED
          BY <1>b, <4>1, <4>2, <5>1 DEF Start
    <3>3. Used = 0 \/ Used > 0
      BY <1>c
    <3> QED
      BY <3>1, <3>2, <3>3
  <2>3. ASSUME NEW o \in 0 .. Used' - 1, Unread'[o].off = 0
        PROVE  LET g == Unread'[o].frame
               IN  /\ g.id \in Len(got') + 1 .. Len(sent') /\ g = sent'[g.id]
                   /\ o + g.len <= Used'
                   /\ \A j \in 0 .. g.len - 1 :
                        Unread'[o + j] = [frame |-> g, off |-> j]
                   /\ o + g.len = Used' <=> g.id = Len(sent')
                   /\ o + g.len < Used' =>
                        /\ Unread'[o + g.len].off = 0
                        /\ Unread'[o + g.len].frame = sent'[g.id + 1]
    <3> DEFINE g == Unread'[o].frame
    <3>1. CASE o < Used
      <4>1. o \in 0 .. Used - 1 /\ Unread'[o] = Unread[o] /\ Start(o)
        BY <1>c, <1>d, <2>3, <3>1 DEF Start
      <4>2. /\ g.id \in Len(got) + 1 .. Len(sent) /\ g = sent[g.id]
            /\ o + g.len <= Used
            /\ \A j \in 0 .. g.len - 1 : Unread[o + j] = [frame |-> g, off |-> j]
            /\ o + g.len = Used <=> g.id = Len(sent)
            /\ o + g.len < Used =>
                 /\ Start(o + g.len)
                 /\ Unread[o + g.len].frame = sent[g.id + 1]
        BY <4>1 DEF IInv, FramesInv
      <4> HIDE DEF g
      <4>3. g.len \in Nat \ {0} /\ g.id \in 1 .. Len(sent)
        <5>1. g.id \in 1 .. Len(sent)
          BY <1>a, <4>2
        <5>2. g \in Frame
          BY <1>a, <4>2, <5>1
        <5> QED
          BY <5>1, <5>2, RingAssumption DEF Frame, RingAssumption
      <4>4. g.id \in Len(got) + 1 .. Len(sent') /\ g = sent'[g.id]
        BY <1>a, <1>b, <4>2, <4>3
      <4>5. \A j \in 0 .. g.len - 1 : Unread'[o + j] = [frame |-> g, off |-> j]
        BY <1>c, <1>d, <4>1, <4>2, <4>3
      <4>s. /\ o \in Nat /\ g.len \in Nat /\ o + g.len <= Used /\ g.len > 0
            /\ g.id \in Nat /\ g.id <= Len(sent) /\ g.id > 0
        <5>1. o \in Nat /\ g.len \in Nat /\ o + g.len <= Used /\ g.id <= Len(sent)
          BY <1>a, <1>c, <4>1, <4>2, <4>3
        <5>2. g.len > 0 /\ g.id \in Nat /\ g.id > 0
          BY <1>a, <4>3
        <5> QED
          BY <5>1, <5>2
      <4>6. o + g.len < Used' /\ g.id # Len(sent')
        <5>2. f.len \in Nat /\ f.len > 0
          BY <1>a
        <5>3. o + g.len < Used'
          BY <1>c, <4>s, <5>2
        <5>4. g.id # Len(sent')
          BY <1>a, <1>b, <4>s
        <5> QED
          BY <5>3, <5>4
      <4>7. /\ Unread'[o + g.len].off = 0
            /\ Unread'[o + g.len].frame = sent'[g.id + 1]
        <5>1. CASE o + g.len = Used
          <6>1. Unread'[Used + 0] = [frame |-> f, off |-> 0]
            BY <1>a, <1>e
          <6>2. Used + 0 = o + g.len
            BY <1>c, <5>1
          <6>3. g.id = Len(sent)
            BY <4>2, <5>1
          <6> QED
            BY <1>b, <6>1, <6>2, <6>3
        <5>2. CASE o + g.len < Used
          <6>1. o + g.len # Used /\ o + g.len \in 0 .. Used - 1
            BY <1>c, <4>s, <5>2
          <6>2. g.id + 1 \in 1 .. Len(sent)
            <7>1. g.id # Len(sent)
              BY <4>2, <6>1
            <7>2. Len(sent) \in Nat
              BY <1>a
            <7> QED
              BY <4>s, <7>1, <7>2
          <6> QED
            BY <1>b, <1>d, <4>2, <5>2, <6>1, <6>2 DEF Start
        <5>3. o + g.len = Used \/ o + g.len < Used
          BY <1>c, <4>s
        <5> QED
          BY <5>1, <5>2, <5>3
      <4> QED
        <5>1. o + g.len <= Used' /\ o + g.len # Used'
          BY <1>c, <4>s, <4>6
        <5> QED
          BY <4>4, <4>5, <4>6, <4>7, <5>1 DEF g
    <3>2. CASE o >= Used
      <4>1. o - Used \in 0 .. f.len - 1 /\ Used + (o - Used) = o
        BY <1>a, <1>c, <3>2
      <4>2. Unread'[o] = [frame |-> f, off |-> o - Used]
        BY <1>e, <4>1
      <4>3. o = Used /\ g = f
        BY <1>c, <2>3, <4>1, <4>2
      <4> QED
        BY <1>a, <1>b, <1>c, <1>e, <4>3 DEF IInv, SentInv
    <3> QED
      BY <1>c, <3>1, <3>2
  <2>4. ASSUME NEW o1 \in 0 .. Used' - 1, NEW o2 \in 0 .. Used' - 1,
               Unread'[o1].off = 0, Unread'[o2].off = 0, o1 < o2
        PROVE  Unread'[o1].frame.id < Unread'[o2].frame.id
    <3>1. CASE o2 < Used
      <4>1. /\ o1 \in 0 .. Used - 1 /\ Unread'[o1] = Unread[o1]
            /\ o2 \in 0 .. Used - 1 /\ Unread'[o2] = Unread[o2]
        BY <1>c, <1>d, <2>4, <3>1
      <4> QED
        BY <2>4, <4>1 DEF IInv, FramesInv, Start
    <3>2. CASE o2 >= Used
      <4>1. o2 - Used \in 0 .. f.len - 1 /\ Used + (o2 - Used) = o2
        BY <1>a, <1>c, <3>2
      <4>2. Unread'[o2] = [frame |-> f, off |-> o2 - Used]
        BY <1>e, <4>1
      <4>3. o2 = Used /\ o1 \in 0 .. Used - 1
        BY <1>c, <2>4, <4>1, <4>2
      <4>4. Unread'[o1] = Unread[o1] /\ Start(o1)
        BY <1>d, <2>4, <4>3 DEF Start
      <4>5. Unread[o1].frame.id \in Len(got) + 1 .. Len(sent)
        BY <4>3, <4>4 DEF IInv, FramesInv
      <4> QED
        BY <1>a, <4>2, <4>4, <4>5
    <3> QED
      BY <1>c, <3>1, <3>2
  <2> QED
    BY <2>1, <2>2, <2>3, <2>4 DEF FramesInv, Start
<1>6. ReaderInv'
  <2>1. SUFFICES ASSUME rpc \in {"drain", "copy"}
                 PROVE  ReaderInv'
    BY DEF ReaderInv
  <2>2. /\ Wrap(rhead) = head /\ rhead < rtail /\ rtail - rhead <= Used
        /\ rhead \in Nat /\ rtail \in Nat
    BY <2>1 DEF IInv, TypeOK, ReaderInv
  <2>3. \A o \in 0 .. rtail - rhead - 1 : Unread'[o] = Unread[o]
    BY <1>c, <1>d, <2>2
  <2>4. 0 \in 0 .. rtail - rhead - 1
    BY <2>2
  <2>5. rtail - rhead <= Used'
    BY <1>a, <1>c, <2>2
  <2> QED
    BY <2>1, <2>2, <2>3, <2>4, <2>5 DEF IInv, ReaderInv, Start, Wrap
<1> QED
  BY <1>1, <1>2, <1>3, <1>4, <1>5, <1>6 DEF IInv

-----------------------------------------------------------------------------
(* The reader's steps.                                                      *)

(* A drain begins on exactly the unread words.                              *)
LEMMA LoadReaderInv ==
  ASSUME IInv, LoadPositions, rpc' = "drain", head # tail,
         UNCHANGED shared
  PROVE  ReaderInv' /\ rhead' \in 0 .. 2 * Body - 1 /\ rtail' \in 0 .. 2 * Body - 1
<1>1. /\ head \in Pos /\ tail \in Pos /\ Body \in Nat
      /\ Used \in Pos /\ Used # 0
  BY DistType, RingAssumption DEF IInv, TypeOK, Used, Pos, RingAssumption
<1>2. /\ rhead' = head /\ rtail' - rhead' = Used /\ rhead' < rtail'
      /\ Wrap(rhead') = head'
      /\ rhead' \in 0 .. 2 * Body - 1 /\ rtail' \in 0 .. 2 * Body - 1
  BY <1>1 DEF LoadPositions, Used, Dist, Pos, Wrap, shared
<1>3. Used' = Used /\ Unread' = Unread
  BY DEF shared, Used, Dist, Unread, Wrap
<1>4. \A o \in 0 .. Used - 1 : Start(o) => o + Unread[o].frame.len <= Used
  BY DEF IInv, FramesInv
<1>5. /\ rtail' - rhead' <= Used'
      /\ \A o \in 0 .. rtail' - rhead' - 1 :
           Unread'[o].off = 0 => o + Unread'[o].frame.len <= rtail' - rhead'
  <2>1. Used <= Used
    BY <1>1 DEF Pos
  <2> QED
    BY <1>2, <1>3, <1>4, <2>1 DEF Start
<1> QED
  BY <1>2, <1>5 DEF ReaderInv, Start, Wrap

LEMMA DispatchStep == ASSUME IInv, Dispatch PROVE IInv'
<1> USE DEF Dispatch, shared, writer
<1>0. head # tail /\ LoadPositions /\ rpc' = "drain" /\ UNCHANGED shared
  BY DEF IsEmpty
<1>1. TypeOK'
  BY <1>0, LoadReaderInv DEF IInv, TypeOK
<1>2. SpaceInv'
  BY DEF IInv, SpaceInv, Used, Dist, ReserveFor
<1>3. WriterInv'
  BY WriterFramed DEF IInv
<1>4. SentInv'
  BY DEF IInv, SentInv
<1>5. FramesInv'
  BY FramesFramed DEF IInv
<1>6. ReaderInv'
  BY <1>0, LoadReaderInv
<1> QED
  BY <1>1, <1>2, <1>3, <1>4, <1>5, <1>6 DEF IInv

LEMMA FinalizeStep == ASSUME IInv, Finalize PROVE IInv'
<1> USE DEF Finalize, shared, writer
<1>0. LoadPositions /\ UNCHANGED shared
  OBVIOUS
<1>1. TypeOK'
  <2>1. rhead' \in 0 .. 2 * Body - 1 /\ rtail' \in 0 .. 2 * Body - 1
    BY RingAssumption DEF IInv, TypeOK, LoadPositions, RingAssumption
  <2>2. due' \in Nat
    BY DEF IInv, TypeOK
  <2> QED
    BY <2>1, <2>2 DEF IInv, TypeOK
<1>2. SpaceInv'
  BY DEF IInv, SpaceInv, Used, Dist, ReserveFor
<1>3. WriterInv'
  BY WriterFramed DEF IInv
<1>4. SentInv'
  BY DEF IInv, SentInv
<1>5. FramesInv'
  BY FramesFramed DEF IInv
<1>6. ReaderInv'
  <2>1. CASE IsEmpty
    BY <2>1 DEF ReaderInv
  <2>2. CASE ~IsEmpty
    BY <1>0, <2>2, LoadReaderInv DEF IsEmpty
  <2> QED
    BY <2>1, <2>2
<1> QED
  BY <1>1, <1>2, <1>3, <1>4, <1>5, <1>6 DEF IInv

LEMMA RefuseStep == ASSUME IInv, Refuse PROVE IInv'
<1> USE DEF Refuse, shared, writer
<1>1. TypeOK'
  BY DEF IInv, TypeOK
<1>2. SpaceInv'
  BY DEF IInv, SpaceInv, Used, Dist, ReserveFor
<1>3. WriterInv'
  BY WriterFramed DEF IInv
<1>4. SentInv'
  BY DEF IInv, SentInv
<1>5. FramesInv'
  BY FramesFramed DEF IInv
<1>6. ReaderInv'
  BY DEF ReaderInv
<1> QED
  BY <1>1, <1>2, <1>3, <1>4, <1>5, <1>6 DEF IInv

(* During a drain the next frame to hand over is at rhead, and it is whole. *)
LEMMA FirstFrame ==
  ASSUME IInv, rpc \in {"drain", "copy"}
  PROVE  /\ Len(got) + 1 \in 1 .. Len(sent)
         /\ sent[Len(got) + 1] \in Frame /\ sent[Len(got) + 1].id = Len(got) + 1
         /\ Used \in Pos /\ Used > 0
         /\ mem[Wrap(rhead)] = Unread[0] /\ Start(0)
         /\ Unread[0].frame = sent[Len(got) + 1]
         /\ Unread[0].frame.len <= rtail - rhead
         /\ \A j \in 0 .. Unread[0].frame.len - 1 :
              Unread[j] = [frame |-> Unread[0].frame, off |-> j]
<1>1. /\ head \in Pos /\ tail \in Pos /\ Used \in Pos /\ Body \in Nat
      /\ sent \in Seq(Frame) /\ Len(sent) \in Nat /\ Len(got) \in Nat
  <2>1. /\ head \in Pos /\ tail \in Pos /\ Body \in Nat /\ sent \in Seq(Frame)
        /\ got \in Seq(Frame \cup {NoFrame, Torn})
    BY RingAssumption DEF IInv, TypeOK, Pos, RingAssumption
  <2>2. Used \in Pos
    BY <2>1, DistType DEF Used
  <2> QED
    BY <2>1, <2>2
<1>2. /\ Wrap(rhead) = head /\ rhead < rtail /\ rtail - rhead <= Used
      /\ rhead \in Nat /\ rtail \in Nat
  BY DEF IInv, TypeOK, ReaderInv
<1>3. Used > 0 /\ 0 \in 0 .. Used - 1 /\ 0 \in 0 .. rtail - rhead - 1
  BY <1>1, <1>2 DEF Pos
<1>4. Start(0) /\ Unread[0].frame = sent[Len(got) + 1]
  BY <1>3 DEF IInv, FramesInv
<1>5. Len(got) + 1 \in 1 .. Len(sent)
  BY <1>1, <1>3 DEF IInv, FramesInv, SentInv
<1>6. sent[Len(got) + 1] \in Frame /\ sent[Len(got) + 1].id = Len(got) + 1
  BY <1>1, <1>5 DEF IInv, SentInv
<1>7. Wrap(head + 0) = head
  BY <1>1 DEF Wrap, Pos
<1>8. mem[Wrap(rhead)] = Unread[0]
  BY <1>2, <1>3, <1>7 DEF Unread
<1>9. 0 + Unread[0].frame.len <= rtail - rhead
  BY <1>3, <1>4 DEF IInv, ReaderInv
<1>10. \A j \in 0 .. Unread[0].frame.len - 1 :
         Unread[0 + j] = [frame |-> Unread[0].frame, off |-> j]
  BY <1>3, <1>4 DEF IInv, FramesInv
<1>11. Unread[0].frame.len \in Nat
  BY <1>4, <1>6, RingAssumption DEF Frame, RingAssumption
<1> QED
  BY <1>1, <1>3, <1>4, <1>5, <1>6, <1>8, <1>9, <1>10, <1>11

LEMMA ReadHeaderStep == ASSUME IInv, ReadHeader PROVE IInv'
<1> USE DEF ReadHeader, shared, writer
<1>0. /\ Unread[0].frame \in Frame /\ mem[Wrap(rhead)] = Unread[0]
      /\ rlen' = Unread[0].frame.len /\ Unread[0].frame.kind # "final"
  BY FirstFrame
<1>1. TypeOK'
  <2>1. rlen' \in Nat
    BY <1>0, RingAssumption DEF Frame, RingAssumption
  <2> QED
    BY <2>1 DEF IInv, TypeOK
<1>2. SpaceInv'
  BY DEF IInv, SpaceInv, Used, Dist, ReserveFor
<1>3. WriterInv'
  BY WriterFramed DEF IInv
<1>4. SentInv'
  BY DEF IInv, SentInv
<1>5. FramesInv'
  BY FramesFramed DEF IInv
<1>6. ReaderInv'
  <2>1. Used' = Used /\ Unread' = Unread
    BY DEF Used, Dist, Unread, Wrap
  <2> QED
    BY <1>0, <2>1 DEF IInv, ReaderInv, Start, Wrap
<1> QED
  BY <1>1, <1>2, <1>3, <1>4, <1>5, <1>6 DEF IInv

(* The callback copies the next frame whole, and its words are released.    *)
LEMMA DeliverFirst ==
  ASSUME IInv, Deliver
  PROVE  /\ Copied = sent[Len(got) + 1] /\ sent[Len(got) + 1].kind = "event"
         /\ rlen = sent[Len(got) + 1].len /\ rlen \in Nat \ {0}
         /\ rlen <= rtail - rhead /\ rlen <= Used
         /\ head' \in Pos /\ Used' = Used - rlen /\ Used' \in Pos
         /\ \A o \in 0 .. Used' - 1 : Unread'[o] = Unread[o + rlen]
<1> DEFINE f == sent[Len(got) + 1]
<1>1. /\ head \in Pos /\ tail \in Pos /\ Used \in Pos /\ Body \in Nat
      /\ rhead \in 0 .. 2 * Body - 1 /\ rtail \in 0 .. 2 * Body - 1
  BY DistType, RingAssumption DEF IInv, TypeOK, Used, Pos, RingAssumption
<1>2. /\ Wrap(rhead) = head /\ rhead < rtail /\ rtail - rhead <= Used
      /\ rlen = Unread[0].frame.len /\ Unread[0].frame.kind # "final"
  BY DEF IInv, ReaderInv, Deliver
<1>3. /\ f \in Frame /\ Unread[0].frame = f /\ mem[Wrap(rhead)] = Unread[0]
      /\ f.len <= rtail - rhead
      /\ \A j \in 0 .. f.len - 1 : Unread[j] = [frame |-> f, off |-> j]
  BY FirstFrame DEF Deliver
<1>4. rlen = f.len /\ rlen \in Nat \ {0} /\ f.kind = "event"
  <2>1. rlen = f.len /\ f.kind # "final" /\ f \in Frame
    BY <1>2, <1>3
  <2> HIDE DEF f
  <2>2. f.kind = "event" /\ f.len \in Nat \ {0}
    BY <2>1, RingAssumption DEF Frame, RingAssumption
  <2> QED
    BY <2>1, <2>2
<1>5. rlen <= rtail - rhead /\ rlen <= Used
  BY <1>1, <1>2, <1>3, <1>4 DEF Pos
<1>6. ASSUME NEW j \in 0 .. rlen
      PROVE  Wrap(rhead + j) = Wrap(head + j)
  <2>1. j \in Nat /\ rhead + j <= rtail /\ rhead \in Nat
    BY <1>1, <1>4, <1>5
  <2>2. rhead + j < 2 * Body /\ rhead < 2 * Body
    BY <1>1, <2>1
  <2>3. rhead + j - head < 2 * Body /\ (rhead = head \/ rhead = head + Body)
    BY <1>1, <1>2, <2>1, <2>2 DEF Wrap, Pos
  <2> QED
    BY <1>1, <2>1, <2>2, <2>3 DEF Wrap, Pos
<1>7. ASSUME NEW j \in 0 .. rlen - 1
      PROVE  mem[Wrap(rhead + j)] = [frame |-> f, off |-> j]
  <2>1. j \in 0 .. rlen /\ j \in 0 .. Used - 1 /\ j \in 0 .. f.len - 1
    BY <1>1, <1>4, <1>5 DEF Pos
  <2>2. Unread[j] = mem[Wrap(head + j)]
    BY <2>1 DEF Unread
  <2>3. Wrap(rhead + j) = Wrap(head + j)
    BY <1>6, <2>1
  <2> QED
    BY <1>3, <2>1, <2>2, <2>3
<1>8. Copied = f
  BY <1>3, <1>4, <1>7 DEF Copied
<1>9. head' = Wrap(head + rlen) /\ tail' = tail /\ mem' = mem
  BY <1>4, <1>6 DEF Deliver
<1>10. head' \in Pos /\ Used' = Used - rlen
  BY <1>1, <1>4, <1>5, <1>9, DistConsume DEF Used
<1>11. Used' \in Pos
  BY <1>1, <1>4, <1>5, <1>10, SMTT(30) DEF Pos
<1>12. ASSUME NEW o \in 0 .. Used' - 1
       PROVE  Unread'[o] = Unread[o + rlen]
  <2>1. o \in Nat /\ rlen + o < Body /\ o + rlen \in 0 .. Used - 1 /\ o + rlen = rlen + o
    <3>1. o \in Nat /\ o < Used - rlen
      BY <1>10, <1>11 DEF Pos
    <3>2. Used < Body /\ Used \in Nat /\ rlen \in Nat
      BY <1>1, <1>4 DEF Pos
    <3> QED
      BY <1>1, <3>1, <3>2
  <2>2. Unread'[o] = mem'[Wrap(head' + o)]
    BY DEF Unread, Wrap
  <2>3. Wrap(head' + o) = Wrap(head + (rlen + o))
    BY <1>1, <1>4, <1>9, <2>1, WrapWrap
  <2> QED
    BY <1>9, <2>1, <2>2, <2>3 DEF Unread
<1> QED
  BY <1>4, <1>5, <1>8, <1>10, <1>11, <1>12

LEMMA DeliverStep == ASSUME IInv, Deliver PROVE IInv'
<1>0. /\ got' = Append(got, Copied) /\ rhead' = rhead + rlen
      /\ rpc' = IF rhead + rlen < rtail THEN "drain"
                ELSE IF rlast THEN "removed" ELSE "idle"
      /\ head' = Wrap(rhead + rlen)
      /\ rpc = "copy"
      /\ UNCHANGED <<tail, mem, writer, rtail, rlen, rlast, sent, due>>
  BY DEF Deliver
<1> DEFINE f == sent[Len(got) + 1]
<1>a. /\ Copied = f /\ f \in Frame /\ f.kind = "event" /\ f.id = Len(got) + 1
      /\ rlen = f.len /\ rlen \in Nat \ {0}
      /\ rlen <= rtail - rhead /\ rlen <= Used
  BY <1>0, FirstFrame, DeliverFirst
<1>b. /\ Used \in Nat /\ Used > 0 /\ Used' \in Nat /\ Used' = Used - rlen
      /\ head' \in Pos
  BY <1>0, FirstFrame, DeliverFirst DEF Pos
<1>s. /\ rlen \in Nat /\ rlen > 0 /\ rlen <= Used
      /\ Used \in Nat /\ Used' \in Nat /\ Used' = Used - rlen
  BY <1>a, <1>b
<1>c. \A o \in 0 .. Used' - 1 : Unread'[o] = Unread[o + rlen]
  BY DeliverFirst
<1>d. /\ Start(0) /\ Unread[0].frame = f
      /\ Len(got) + 1 \in 1 .. Len(sent)
  BY <1>0, FirstFrame
<1>e. got \in Seq(Frame \cup {NoFrame, Torn}) /\ sent \in Seq(Frame)
  BY DEF IInv, TypeOK
<1>f. /\ got' = Append(got, f) /\ Len(got') = Len(got) + 1
      /\ got'[Len(got) + 1] = f
      /\ \A i \in 1 .. Len(got) : got'[i] = got[i]
      /\ Len(got) \in Nat /\ Len(sent) \in Nat
  BY <1>0, <1>a, <1>e
<1> HIDE DEF f
<1>1. TypeOK'
  <2>1. rhead' \in 0 .. 2 * Body - 1
    BY <1>0, <1>a, RingAssumption DEF IInv, TypeOK, RingAssumption
  <2>2. got' \in Seq(Frame \cup {NoFrame, Torn})
    BY <1>a, <1>e, <1>f
  <2>3. rpc' \in {"idle", "drain", "copy", "removed"}
    BY <1>0
  <2> QED
    BY <1>0, <1>b, <2>1, <2>2, <2>3 DEF IInv, TypeOK, Pos, writer
<1>2. SpaceInv'
  <2>1. Used' <= Used /\ Used' + FrameSize <= Used + FrameSize
        /\ Used' + wlen + ReserveFor(wframe.kind)
             <= Used + wlen + ReserveFor(wframe.kind)
    BY <1>s, ReserveType, RingAssumption DEF IInv, TypeOK, RingAssumption
  <2>2. /\ Body \in Nat /\ Used + FrameSize \in Nat /\ Used' + FrameSize \in Nat
        /\ Used + wlen + ReserveFor(wframe.kind) \in Nat
        /\ Used' + wlen + ReserveFor(wframe.kind) \in Nat
    BY <1>b, ReserveType, RingAssumption DEF IInv, TypeOK, RingAssumption
  <2> QED
    BY <1>0, <1>b, <2>1, <2>2 DEF IInv, SpaceInv, ReserveFor, writer
<1>3. WriterInv'
  BY <1>0, WriterFramed DEF IInv
<1>4. SentInv'
  <2>1. Len(got') <= Len(sent)
    BY <1>d, <1>f
  <2>2. ASSUME NEW i \in 1 .. Len(got')
        PROVE  got'[i] = sent[i] /\ got'[i].kind = "event"
    <3>1. CASE i = Len(got) + 1
      BY <1>a, <1>f, <3>1 DEF f
    <3>2. CASE i # Len(got) + 1
      BY <1>f, <3>2 DEF IInv, SentInv
    <3> QED
      BY <3>1, <3>2
  <2> QED
    BY <1>0, <2>1, <2>2 DEF IInv, SentInv, writer
<1>5. FramesInv'
  <2>1. /\ 0 + f.len = Used <=> f.id = Len(sent)
        /\ 0 + f.len < Used =>
             /\ Start(0 + f.len)
             /\ Unread[0 + f.len].frame = sent[f.id + 1]
    BY <1>b, <1>d, SMTT(30) DEF IInv, FramesInv
  <2>2. 0 + f.len = rlen
    BY <1>a
  <2>3. Used' = 0 <=> Len(got') = Len(sent)
    BY <1>a, <1>b, <1>f, <2>1, <2>2
  <2>4. Used' > 0 =>
          Unread'[0].off = 0 /\ Unread'[0].frame = sent[Len(got') + 1]
    <3>1. SUFFICES ASSUME Used' > 0
                   PROVE  Unread'[0].off = 0 /\ Unread'[0].frame = sent[Len(got') + 1]
      OBVIOUS
    <3>2. Unread'[0] = Unread[rlen] /\ rlen < Used /\ Len(got') = f.id
      <4>1. 0 \in 0 .. Used' - 1 /\ 0 + rlen = rlen /\ rlen < Used
        BY <1>a, <1>b, <3>1
      <4> QED
        BY <1>a, <1>c, <1>f, <4>1
    <3> QED
      BY <2>1, <2>2, <3>2 DEF Start
  <2>5. ASSUME NEW o \in 0 .. Used' - 1, Unread'[o].off = 0
        PROVE  LET g == Unread'[o].frame
               IN  /\ g.id \in Len(got') + 1 .. Len(sent) /\ g = sent[g.id]
                   /\ o + g.len <= Used'
                   /\ \A j \in 0 .. g.len - 1 :
                        Unread'[o + j] = [frame |-> g, off |-> j]
                   /\ o + g.len = Used' <=> g.id = Len(sent)
                   /\ o + g.len < Used' =>
                        /\ Unread'[o + g.len].off = 0
                        /\ Unread'[o + g.len].frame = sent[g.id + 1]
    <3> DEFINE g == Unread'[o].frame
               p == o + rlen
    <3>1. /\ o \in Nat /\ p \in 0 .. Used - 1 /\ p > 0 /\ 0 \in 0 .. Used - 1
          /\ p \in Nat
      BY <1>s
    <3>2. Unread'[o] = Unread[p] /\ g = Unread[p].frame /\ Start(p)
      BY <1>c, <2>5 DEF Start
    <3>3. /\ g.id \in Len(got) + 1 .. Len(sent) /\ g = sent[g.id]
          /\ p + g.len <= Used
          /\ \A j \in 0 .. g.len - 1 : Unread[p + j] = [frame |-> g, off |-> j]
          /\ p + g.len = Used <=> g.id = Len(sent)
          /\ p + g.len < Used =>
               /\ Start(p + g.len)
               /\ Unread[p + g.len].frame = sent[g.id + 1]
      <4> HIDE DEF p, g
      <4>1. FramesInv
        BY DEF IInv
      <4> QED
        BY <3>1, <3>2, <4>1, SMTT(30) DEF FramesInv
    <3>4. f.id < g.id
      <4> HIDE DEF p
      <4> QED
        BY <1>d, <3>1, <3>2 DEF IInv, FramesInv
    <3> HIDE DEF g
    <3>5. g.id \in 1 .. Len(sent) /\ g.id \in Len(got') + 1 .. Len(sent)
      BY <1>a, <1>f, <3>3, <3>4
    <3>6. g.len \in Nat \ {0}
      <4>1. g \in Frame
        BY <1>e, <3>3, <3>5
      <4> QED
        BY <4>1, RingAssumption DEF Frame, RingAssumption
    <3>7. p + g.len = (o + g.len) + rlen /\ Used = Used' + rlen
      BY <1>s, <3>1, <3>6
    <3>8. /\ o + g.len <= Used'
          /\ o + g.len = Used' <=> p + g.len = Used
          /\ o + g.len < Used' <=> p + g.len < Used
      <4>1. p + g.len <= Used
        BY <3>3
      <4> QED
        BY <1>s, <3>1, <3>6, <3>7, <4>1
    <3>9. ASSUME NEW j \in 0 .. g.len - 1
          PROVE  Unread'[o + j] = [frame |-> g, off |-> j]
      <4>1. o + j \in 0 .. Used' - 1 /\ (o + j) + rlen = p + j
        BY <1>s, <3>1, <3>6, <3>8
      <4> QED
        BY <1>c, <3>3, <4>1
    <3>10. ASSUME o + g.len < Used'
           PROVE  /\ Unread'[o + g.len].off = 0
                  /\ Unread'[o + g.len].frame = sent[g.id + 1]
      <4>1. o + g.len \in 0 .. Used' - 1
        BY <1>b, <3>1, <3>6, <3>10
      <4>2. Unread'[o + g.len] = Unread[p + g.len]
        BY <1>c, <3>7, <4>1
      <4> QED
        BY <3>3, <3>8, <3>10, <4>2 DEF Start
    <3> QED
      BY <3>3, <3>5, <3>8, <3>9, <3>10 DEF g
  <2>6. ASSUME NEW o1 \in 0 .. Used' - 1, NEW o2 \in 0 .. Used' - 1,
               Unread'[o1].off = 0, Unread'[o2].off = 0, o1 < o2
        PROVE  Unread'[o1].frame.id < Unread'[o2].frame.id
    <3>1. /\ o1 + rlen \in 0 .. Used - 1 /\ o2 + rlen \in 0 .. Used - 1
          /\ o1 + rlen < o2 + rlen
      BY <1>s, <2>6
    <3>2. Unread'[o1] = Unread[o1 + rlen] /\ Unread'[o2] = Unread[o2 + rlen]
      BY <1>c
    <3> QED
      BY <2>6, <3>1, <3>2 DEF IInv, FramesInv, Start
  <2> QED
    BY <1>0, <2>3, <2>4, <2>5, <2>6 DEF FramesInv, Start
<1>6. ReaderInv'
  <2>1. SUFFICES ASSUME rhead + rlen < rtail, rpc' = "drain"
                 PROVE  ReaderInv'
    BY <1>0 DEF ReaderInv
  <2>2. /\ rhead \in Nat /\ rtail \in Nat /\ rhead < rtail
        /\ rtail - rhead <= Used
    BY <1>0 DEF IInv, TypeOK, ReaderInv
  <2>3. /\ rhead' = rhead + rlen /\ rtail' = rtail
        /\ rtail' - rhead' = rtail - rhead - rlen
        /\ rtail' - rhead' <= Used' /\ rhead' < rtail'
    BY <1>0, <1>s, <2>1, <2>2
  <2>4. ASSUME NEW o \in 0 .. rtail' - rhead' - 1, Unread'[o].off = 0
        PROVE  o + Unread'[o].frame.len <= rtail' - rhead'
    <3>1. /\ o \in 0 .. Used' - 1 /\ o + rlen \in 0 .. rtail - rhead - 1
          /\ o + rlen \in 0 .. Used - 1
      BY <1>s, <2>2, <2>3
    <3>2. Unread'[o] = Unread[o + rlen]
      BY <1>c, <3>1
    <3>3. (o + rlen) + Unread[o + rlen].frame.len <= rtail - rhead
      BY <1>0, <2>4, <3>1, <3>2 DEF IInv, ReaderInv, Start
    <3>4. Unread[o + rlen].frame.len \in Nat
      <4>1. /\ Unread[o + rlen].frame.id \in Len(got) + 1 .. Len(sent)
            /\ Unread[o + rlen].frame = sent[Unread[o + rlen].frame.id]
        BY <2>4, <3>1, <3>2 DEF IInv, FramesInv, Start
      <4>2. Unread[o + rlen].frame \in Frame
        BY <1>e, <1>f, <4>1
      <4> QED
        BY <4>2, RingAssumption DEF Frame, RingAssumption
    <3> QED
      BY <1>s, <2>2, <2>3, <3>1, <3>2, <3>3, <3>4
  <2>5. Wrap(rhead') = head'
    BY <1>0
  <2> QED
    BY <2>1, <2>3, <2>4, <2>5 DEF ReaderInv, Start, Wrap
<1> QED
  BY <1>1, <1>2, <1>3, <1>4, <1>5, <1>6 DEF IInv

-----------------------------------------------------------------------------
(* The specification.                                                       *)

LEMMA StutterStep == ASSUME IInv, UNCHANGED vars PROVE IInv'
<1> USE DEF vars
<1>1. TypeOK' /\ SentInv'
  BY DEF IInv, TypeOK, SentInv
<1>2. SpaceInv'
  BY DEF IInv, SpaceInv, Used, Dist, ReserveFor
<1>3. WriterInv'
  BY WriterFramed DEF IInv, writer
<1>4. FramesInv'
  BY FramesFramed DEF IInv
<1>5. ReaderInv'
  BY ReaderFramed DEF IInv, reader
<1> QED
  BY <1>1, <1>2, <1>3, <1>4, <1>5 DEF IInv

LEMMA NextIInv == IInv /\ [Next]_vars => IInv'
<1> SUFFICES ASSUME IInv, [Next]_vars
             PROVE  IInv'
  OBVIOUS
<1>1. CASE WriterStep
  BY <1>1, BeginFinalStep, AllocateStep, AllocateRetryStep, AllocateFailStep,
     FillStep, AdvanceStep, DieStep, BeginEventStep DEF WriterStep
<1>2. CASE ReaderStep
  BY <1>2, DispatchStep, FinalizeStep, ReadHeaderStep, RefuseStep, DeliverStep
  DEF ReaderStep
<1>3. CASE Terminated
  BY <1>3, StutterStep DEF Terminated
<1>4. CASE UNCHANGED vars
  BY <1>4, StutterStep
<1> QED
  BY <1>1, <1>2, <1>3, <1>4 DEF Next

(* The inductive invariant holds in every behaviour: the conjuncts name the *)
(* space, the writer, the histories, the unread words and the reader.       *)
THEOREM Invariance == Spec => []IInv
<1>1. Init => IInv
  BY InitIInv
<1>2. IInv /\ [Next]_vars => IInv'
  BY NextIInv
<1> QED
  BY <1>1, <1>2, PTL DEF Spec

(* Type correctness, for every body, frame length and number of events.     *)
THEOREM TypeCorrect == Spec => []TypeOK
<1>1. IInv => TypeOK
  BY DEF IInv
<1> QED
  BY <1>1, Invariance, PTL

(* The callback receives what was published, whole and in order.            *)
THEOREM FifoCorrect == Spec => []FifoIntact
<1>1. IInv => FifoIntact
  BY DEF IInv, SentInv, FifoIntact
<1> QED
  BY <1>1, Invariance, PTL

(* The final frame finds its place at the first look.                       *)
THEOREM FinalFrameCorrect == Spec => []FinalFrameFits
<1>1. IInv => FinalFrameFits
  <2> SUFFICES ASSUME IInv, wpc = "try", wframe.kind = "final"
               PROVE  Fits(FrameSize, 0)
    BY DEF FinalFrameFits
  <2>1. Used + FrameSize < Body /\ Used \in Pos /\ head \in Pos /\ tail \in Pos
    BY DistType DEF IInv, TypeOK, SpaceInv, Used, Pos
  <2>2. FrameSize \in Nat /\ 0 \in Nat /\ FrameSize + 0 < Body
    BY RingAssumption DEF RingAssumption
  <2>3. Used + FrameSize + 0 < Body
    BY <2>1, <2>2 DEF Pos
  <2> QED
    BY <2>1, <2>2, <2>3, FitsMeaning
<1> QED
  BY <1>1, Invariance, PTL

(* No step, of the writer or of the reader, changes an unread word.         *)
THEOREM UnreadStableCorrect == Spec => UnreadStable
<1>1. IInv /\ [Next]_vars => [\A p \in UnreadPlaces : mem'[p] = mem[p]]_vars
  <2> SUFFICES ASSUME IInv, Next
               PROVE  \A p \in UnreadPlaces : mem'[p] = mem[p]
    OBVIOUS
  <2>1. CASE Fill
    <3> SUFFICES ASSUME NEW o \in 0 .. Used - 1
                 PROVE  mem'[Wrap(head + o)] = mem[Wrap(head + o)]
      BY DEF UnreadPlaces
    <3>1. Used' = Used /\ Unread' = Unread
      BY <2>1, FillOutside
    <3>2. Unread[o] = mem[Wrap(head + o)] /\ Unread'[o] = mem'[Wrap(head + o)]
      BY <2>1, <3>1 DEF Unread, Fill, Wrap
    <3> QED
      BY <3>1, <3>2
  <2>2. CASE ~Fill
    <3>1. UNCHANGED mem
      BY <2>2 DEF Next, WriterStep, ReaderStep, Terminated, BeginEvent, BeginFinal,
        Allocate, AllocateRetry, AllocateFail, Advance, Die, Dispatch, Finalize,
        ReadHeader, Refuse, Deliver, shared, vars
    <3> QED
      BY <3>1
  <2> QED
    BY <2>1, <2>2
<1> QED
  BY <1>1, Invariance, PTL DEF Spec, UnreadStable

-----------------------------------------------------------------------------
(* Refinement.                                                              *)

LEMMA InitRefines == Init => Stream!Init
  BY RingAssumption DEF Init, Stream!Init, Used, Dist, RingAssumption

(* Publishing is the store of tail; handing a frame over and releasing its  *)
(* words is the store of head; every other step stutters.                   *)
LEMMA NextRefines == IInv /\ [Next]_vars => [Stream!Next]_(Stream!vars)
<1> SUFFICES ASSUME IInv, [Next]_vars
             PROVE  Stream!Next \/ UNCHANGED <<sent, got, Used>>
  BY DEF Stream!vars
<1>1. CASE Advance
  <2>1. wframe \in Frame /\ Used' = Used + wframe.len
    BY <1>1, AdvanceUnread DEF IInv, WriterInv, Advance
  <2>2. ~Stream!Closed
    BY <1>1 DEF Stream!Closed, IInv, SentInv, TypeOK, Advance
  <2>3. Used + wframe.len < Body
    <3>1. Used \in Pos /\ wlen \in Nat
      BY DistType DEF IInv, TypeOK, Used, Pos
    <3>a. wframe.len <= wlen /\ wframe.len \in Nat
      BY <1>1, <2>1, RingAssumption
      DEF IInv, WriterInv, Advance, Frame, RingAssumption
    <3>2. Used + wlen + ReserveFor(wframe.kind) < Body
      BY <1>1 DEF IInv, SpaceInv, Advance
    <3> QED
      BY <3>1, <3>a, <3>2, ReserveType, RingAssumption DEF Pos, RingAssumption
  <2>4. Stream!Publish(wframe)
    BY <1>1, <2>1, <2>2, <2>3 DEF Stream!Publish, Advance
  <2> QED
    BY <2>1, <2>4 DEF Stream!Next
<1>2. CASE Deliver
  <2>1. Stream!Deliver
    <3>1. /\ Copied = sent[Len(got) + 1] /\ sent[Len(got) + 1].kind = "event"
          /\ rlen = sent[Len(got) + 1].len /\ Used' = Used - rlen
      BY <1>2, DeliverFirst
    <3>2. Len(got) < Len(sent)
      BY <1>2, FirstFrame DEF Deliver
    <3> QED
      BY <1>2, <3>1, <3>2 DEF Stream!Deliver, Deliver
  <2> QED
    BY <2>1 DEF Stream!Next
<1>3. CASE ~Advance /\ ~Deliver
  <2>1. UNCHANGED <<head, tail, sent, got>>
    BY <1>3 DEF Next, WriterStep, ReaderStep, Terminated, BeginEvent, BeginFinal,
      Allocate, AllocateRetry, AllocateFail, Fill, Die, Dispatch, Finalize,
      ReadHeader, Refuse, shared, vars
  <2> QED
    BY <2>1 DEF Used, Dist
<1> QED
  BY <1>1, <1>2, <1>3

(* The ring buffer, its writer and its reader implement the stream.         *)
THEOREM RefinementCorrect == Spec => Refinement
<1>1. Init => Stream!Init
  BY InitRefines
<1>2. IInv /\ [Next]_vars => [Stream!Next]_(Stream!vars)
  BY NextRefines
<1> QED
  BY <1>1, <1>2, Invariance, PTL DEF Spec, Refinement, Stream!Spec
-----------------------------------------------------------------------------
(* The stop.                                                                *)

(* The drain that is under way will come by every frame that was published  *)
(* when the source was removed.                                             *)
StopInv ==
  /\ due <= Len(sent)
  /\ rpc \in {"drain", "copy"} =>
       \A o \in 0 .. Used - 1 :
         Start(o) /\ Unread[o].frame.id <= due => o < rtail - rhead
  /\ StopLosesNothing

LEMMA StopFramed ==
  ASSUME StopInv, Used' = Used, Unread' = Unread,
         UNCHANGED <<rpc, rhead, rtail, sent, got, due>>
  PROVE  StopInv'
  BY DEF StopInv, StopLosesNothing, Start

(* What is published later is of no concern to the stop.                    *)
LEMMA AdvanceStop == ASSUME IInv, StopInv, Advance PROVE StopInv'
<1> DEFINE f == wframe
<1>1. /\ f.id = Len(sent) + 1 /\ f \in Frame /\ sent \in Seq(Frame)
      /\ due \in Nat /\ due <= Len(sent) /\ sent' = Append(sent, f)
      /\ UNCHANGED <<rpc, rhead, rtail, got, due>>
  BY DEF IInv, WriterInv, TypeOK, StopInv, Advance, reader
<1>2. /\ Used \in Nat /\ Used' = Used + f.len
      /\ \A o \in 0 .. Used - 1 : Unread'[o] = Unread[o]
      /\ \A j \in 0 .. f.len - 1 : Unread'[Used + j] = [frame |-> f, off |-> j]
  BY AdvanceUnread
<1>3. f.len \in Nat
  BY <1>1, RingAssumption DEF Frame, RingAssumption
<1> HIDE DEF f
<1>4. due' <= Len(sent') /\ \A i \in 1 .. due : sent'[i] = sent[i]
  BY <1>1
<1>5. ASSUME rpc \in {"drain", "copy"}, NEW o \in 0 .. Used' - 1,
             Unread'[o].off = 0, Unread'[o].frame.id <= due
      PROVE  o < rtail - rhead
  <2>1. CASE o \in 0 .. Used - 1
    BY <1>2, <1>5, <2>1 DEF StopInv, Start
  <2>2. CASE o >= Used
    <3>1. PICK j \in 0 .. f.len - 1 : o = Used + j
      BY <1>2, <1>3, <2>2
    <3>2. Unread'[o] = [frame |-> f, off |-> j]
      BY <1>2, <3>1
    <3>3. Unread'[o].frame.id = Len(sent) + 1
      BY <1>1, <3>2
    <3> QED
      BY <1>1, <1>5, <3>3
  <2> QED
    BY <1>2, <2>1, <2>2
<1>6. StopLosesNothing'
  BY <1>1, <1>4 DEF StopInv, StopLosesNothing
<1> QED
  BY <1>1, <1>4, <1>5, <1>6 DEF StopInv, Start

(* A drain that begins has all unread words before it.                      *)
LEMMA LoadStop ==
  ASSUME IInv, LoadPositions, UNCHANGED shared
  PROVE  rtail' - rhead' = Used /\ Used' = Used /\ Unread' = Unread /\ Used \in Pos
<1>1. head \in Pos /\ tail \in Pos /\ Body \in Nat
  BY RingAssumption DEF IInv, TypeOK, Pos, RingAssumption
<1> QED
  BY <1>1, DistType DEF LoadPositions, Used, Dist, Unread, Wrap, Pos, shared

LEMMA FinalizeStop == ASSUME IInv, StopInv, Finalize PROVE StopInv'
<1>1. /\ LoadPositions /\ UNCHANGED shared /\ due' = Len(sent) /\ UNCHANGED <<sent, got>>
      /\ rpc' = IF IsEmpty THEN "removed" ELSE "drain"
  BY DEF Finalize
<1>2. /\ rtail' - rhead' = Used /\ Used' = Used /\ Unread' = Unread /\ Used \in Pos
  BY <1>1, LoadStop
<1>3. CASE IsEmpty
  <2>1. Used = 0
    BY <1>3, DistType DEF IInv, TypeOK, IsEmpty, Used, Pos
  <2>2. Len(got) = Len(sent)
    BY <2>1 DEF IInv, FramesInv
  <2> QED
    BY <1>1, <1>3, <2>2 DEF IInv, TypeOK, StopInv, StopLosesNothing
<1>4. CASE ~IsEmpty
  BY <1>1, <1>2, <1>4 DEF IInv, TypeOK, StopInv, StopLosesNothing, Pos
<1> QED
  BY <1>3, <1>4

(* The callback refuses a frame only if it is the final one, the last.      *)
LEMMA RefuseStop == ASSUME IInv, StopInv, Refuse PROVE StopInv'
<1>1. /\ Len(got) + 1 \in 1 .. Len(sent)
      /\ mem[Wrap(rhead)] = Unread[0] /\ Unread[0].frame = sent[Len(got) + 1]
      /\ sent[Len(got) + 1] \in Frame /\ Unread[0].frame.len <= rtail - rhead
  BY FirstFrame DEF Refuse
<1>2. Unread[0].frame.len \in Nat /\ rtail \in Nat /\ rhead \in Nat
  <2>1. sent[Len(got) + 1].len \in Nat
    BY <1>1, RingAssumption DEF Frame, RingAssumption
  <2>2. rtail \in Nat /\ rhead \in Nat
    BY DEF IInv, TypeOK
  <2> QED
    BY <1>1, <2>1, <2>2
<1>3. sent[Len(got) + 1].kind = "final"
  BY <1>1, <1>2 DEF Refuse
<1>4. Len(got) + 1 = Len(sent)
  BY <1>1, <1>3 DEF IInv, SentInv
<1>5. /\ rpc' = "removed" /\ UNCHANGED <<sent, got, due>>
      /\ due \in Nat /\ due <= Len(sent) /\ Len(got) \in Nat
  BY DEF Refuse, IInv, TypeOK, StopInv
<1>6. \A i \in 1 .. due : sent[i].kind = "event" => i <= Len(got)
  BY <1>3, <1>4, <1>5
<1> QED
  BY <1>5, <1>6 DEF StopInv, StopLosesNothing

(* A drain that has come to its end has handed over what was due.           *)
LEMMA DeliverStop == ASSUME IInv, StopInv, Deliver PROVE StopInv'
<1>1. /\ rlen \in Nat \ {0} /\ rlen <= rtail - rhead /\ rlen <= Used
      /\ Used' = Used - rlen /\ Used' \in Pos
      /\ \A o \in 0 .. Used' - 1 : Unread'[o] = Unread[o + rlen]
  BY DeliverFirst
<1>2. /\ rpc = "copy" /\ got' = Append(got, Copied) /\ rhead' = rhead + rlen
      /\ rpc' = IF rhead + rlen < rtail THEN "drain"
                ELSE IF rlast THEN "removed" ELSE "idle"
      /\ UNCHANGED <<rtail, sent, due>>
  BY DEF Deliver
<1>3. /\ rtail \in Nat /\ rhead \in Nat /\ Used \in Nat /\ Used' \in Nat
      /\ due \in Nat /\ due <= Len(sent) /\ Len(sent) \in Nat
  <2>1. Used \in Nat /\ Used' \in Nat
    BY <1>1, DistType DEF IInv, TypeOK, Used, Pos
  <2> QED
    BY <2>1 DEF IInv, TypeOK, StopInv
<1>4. Len(got') = Len(got) + 1 /\ Len(got) \in Nat
  <2>1. got \in Seq(Frame \cup {NoFrame, Torn})
    BY DEF IInv, TypeOK
  <2> QED
    BY <1>2, <2>1 DEF Copied, Torn
<1>5. ASSUME NEW o \in 0 .. Used' - 1, Unread'[o].off = 0, Unread'[o].frame.id <= due
      PROVE  o < rtail' - rhead'
  <2>1. o + rlen \in 0 .. Used - 1 /\ Unread'[o] = Unread[o + rlen]
    BY <1>1, <1>3
  <2>2. o + rlen < rtail - rhead
    BY <1>2, <1>5, <2>1 DEF StopInv, Start
  <2> QED
    BY <1>1, <1>2, <1>3, <2>2
<1>6. ASSUME rpc' = "removed" PROVE due <= Len(got')
  <2>1. rtail' - rhead' <= 0
    BY <1>1, <1>2, <1>3, <1>6
  <2>2. IInv'
    BY DeliverStep
  <2>3. CASE Used' = 0
    <3>1. Len(got') = Len(sent')
      BY <2>2, <2>3 DEF IInv, FramesInv
    <3> QED
      BY <1>2, <1>3, <3>1
  <2>4. CASE Used' > 0
    <3>1. \A u \in Nat : u > 0 => 0 \in 0 .. u - 1
      OBVIOUS
    <3>2. 0 \in 0 .. Used' - 1
      BY <1>3, <2>4, <3>1
    <3>3. Unread'[0].off = 0 /\ Unread'[0].frame = sent'[Len(got') + 1]
      BY <2>2, <2>4 DEF IInv, FramesInv, Start
    <3>4. Unread'[0].frame.id \in Len(got') + 1 .. Len(sent')
      BY <2>2, <3>2, <3>3 DEF IInv, FramesInv, Start
    <3>5. ~(Unread'[0].frame.id <= due)
      <4>1. ~(0 < rtail' - rhead')
        BY <1>2, <1>3, <1>1, <2>1
      <4> QED
        BY <1>5, <3>2, <3>3, <4>1
    <3>6. sent'[Len(got') + 1].id = Len(got') + 1
      <4>1. Len(got') + 1 \in 1 .. Len(sent')
        BY <1>2, <1>3, <1>4, <3>4
      <4> QED
        BY <2>2, <4>1 DEF IInv, SentInv
    <3> QED
      BY <1>3, <1>4, <3>3, <3>5, <3>6
  <2> QED
    BY <1>3, <2>3, <2>4
<1>7. StopLosesNothing'
  <2> SUFFICES ASSUME rpc' = "removed", NEW i \in 1 .. due'
               PROVE  i <= Len(got')
    BY DEF StopLosesNothing
  <2> QED
    BY <1>2, <1>3, <1>4, <1>6
<1> QED
  BY <1>2, <1>3, <1>5, <1>7 DEF StopInv, Start

LEMMA NextStop == ASSUME IInv, StopInv, [Next]_vars PROVE StopInv'
<1>1. CASE \/ BeginFinal \/ Allocate \/ AllocateRetry \/ AllocateFail \/ Die
           \/ \E length, len \in Lens : BeginEvent(length, len)
           \/ Terminated \/ UNCHANGED vars
  <2>1. UNCHANGED <<head, tail, mem, rpc, rhead, rtail, sent, got, due>>
    BY <1>1 DEF BeginFinal, Allocate, AllocateRetry, AllocateFail, Die, BeginEvent,
       Terminated, vars, shared, reader
  <2>2. Used' = Used /\ Unread' = Unread
    BY <2>1 DEF Unread, Used, Dist, Wrap
  <2> QED
    BY <2>1, <2>2, StopFramed
<1>2. CASE Fill
  <2>1. UNCHANGED <<rpc, rhead, rtail, sent, got, due>>
    BY <1>2 DEF Fill, reader
  <2> QED
    BY <1>2, <2>1, FillOutside, StopFramed
<1>3. CASE Dispatch
  <2>1. /\ LoadPositions /\ UNCHANGED shared /\ UNCHANGED <<sent, got, due>>
        /\ rpc' = "drain"
    BY <1>3 DEF Dispatch
  <2>2. rtail' - rhead' = Used /\ Used' = Used /\ Unread' = Unread /\ Used \in Pos
    BY <2>1, LoadStop
  <2> QED
    BY <2>1, <2>2 DEF StopInv, StopLosesNothing, Pos
<1>4. CASE ReadHeader
  <2>1. /\ UNCHANGED <<head, tail, mem, rhead, rtail, sent, got, due>>
        /\ rpc = "drain" /\ rpc' = "copy"
    BY <1>4 DEF ReadHeader, shared
  <2>2. Used' = Used /\ Unread' = Unread
    BY <2>1 DEF Unread, Used, Dist, Wrap
  <2> QED
    BY <2>1, <2>2 DEF StopInv, StopLosesNothing, Start
<1> QED
  BY <1>1, <1>2, <1>3, <1>4, AdvanceStop, FinalizeStop, RefuseStop, DeliverStop
  DEF Next, WriterStep, ReaderStep

(* What was published before the source is removed reaches the callback:    *)
(* the drain of the finalization passes over every such frame.              *)
THEOREM StopCorrect == Spec => []StopLosesNothing
<1>1. Init => StopInv
  BY DEF Init, StopInv, StopLosesNothing
<1>2. IInv /\ StopInv /\ [Next]_vars => StopInv'
  BY NextStop
<1>3. StopInv => StopLosesNothing
  BY DEF StopInv
<1> QED
  BY <1>1, <1>2, <1>3, Invariance, PTL DEF Spec
=============================================================================
