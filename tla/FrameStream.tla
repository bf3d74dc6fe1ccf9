---------------------------- MODULE FrameStream ----------------------------
(***************************************************************************)
(* What a mapped ring buffer promises to the two processes that share it:  *)
(* frames are delivered whole, in the order they were published, each at   *)
(* most once, and the words in flight never reach Capacity.  A "final"     *)
(* frame ends the stream; the reader stops at it and does not deliver it.  *)
(***************************************************************************)
EXTENDS Naturals, Sequences

CONSTANTS Capacity,     \* words of the ring's body
          Frame         \* the frames: records with an id, a kind and a len

VARIABLES sent,         \* the frames published by the writer, in order
          got,          \* the frames handed to the reader's callback
          load          \* the words published and not yet released

vars == <<sent, got, load>>

Closed == sent # <<>> /\ sent[Len(sent)].kind = "final"

Init == sent = <<>> /\ got = <<>> /\ load = 0

Publish(f) == /\ ~Closed
              /\ load + f.len < Capacity
              /\ sent' = Append(sent, f)
              /\ load' = load + f.len
              /\ UNCHANGED got

Deliver == /\ Len(got) < Len(sent)
           /\ LET f == sent[Len(got) + 1]
              IN  /\ f.kind = "event"
                  /\ got' = Append(got, f)
                  /\ load' = load - f.len
           /\ UNCHANGED sent

Next == Deliver \/ \E f \in Frame : Publish(f)

Spec == Init /\ [][Next]_vars
=============================================================================
