---------------------------- MODULE MCCollector -----------------------------
(* Instances of Collector: two programs, one of them with two threads, or   *)
(* one program with two threads.                                            *)
EXTENDS Collector, TLC

CONSTANTS t1, t2, t3, p1, p2

(* Rings are interchangeable.                                               *)
Symmetry == Permutations(Rings)

ThreeInTwo == [t \in {t1, t2, t3} |-> IF t = t3 THEN p2 ELSE p1]
TwoInOne == [t \in {t1, t2} |-> p1]
=============================================================================
