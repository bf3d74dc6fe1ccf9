----------------------------- MODULE MCAnalysis -----------------------------
(***************************************************************************)
(* What is done with a capture once it is loaded: the cache of the symbols *)
(* of a process, and a callgraph.  The two keep no state together, so one  *)
(* behaviour is about one of them.                                         *)
(***************************************************************************)
EXTENDS SymbolCache, Callgraph, TLC

CONSTANTS a1, a2, a3, k1, lost

VARIABLE job

(* Symbols that follow one another, some that others overlap, one from 0.   *)
MCIntervals == {[begin |-> b, end |-> b + 1] : b \in 0 .. 8}
                 \cup {[begin |-> b, end |-> 9] : b \in {1, 2, 5}}

MCContexts == {"USER", "KERNEL"}
Function(kind, name, system) == [kind |-> kind, name |-> name, system |-> system]
MCKernelSymbols == [a \in {a1, a2, a3, k1, lost} |->
                      IF a = k1 THEN Function("KERNEL", "k", TRUE) ELSE NULL]
MCSymbols == [a \in {a1, a2, a3, k1, lost} |->
                CASE a = a1 -> Function("USER", "f", FALSE)
                  [] a = a2 -> Function("USER", "g", FALSE)
                  [] a = a3 -> Function("USER", "lib", TRUE)
                  [] OTHER -> NULL]
MCProcesses ==
  [pid \in 0 .. 3 |-> [name |-> ToString(pid), shared |-> IF pid = 3 THEN "1" ELSE ToString(pid),
                       kernel |-> pid = 2,
                       symbols |-> MCSymbols]]

(* Stacks of both spaces, of one, that only marks or nothing known is on,   *)
(* with functions that call themselves and one another.                     *)
MCStacks == {<<"KERNEL", k1, "USER", a2, a1>>, <<"USER", a1, a1, lost, a2, a1>>,
             <<"USER">>, <<lost>>, <<"USER", a3, a2, a3>>,
             <<"USER", a1, a2, a1, a2, a1, a2>>}
MCTraceables == {[stack |-> s, pid |-> 1, tid |-> "t1"] : s \in MCStacks}
                  \cup {[stack |-> <<"KERNEL", k1>>, pid |-> p, tid |-> "t2"] : p \in {0, 2, 4}}
                  \cup {[stack |-> <<a1, a2>>, pid |-> 3, tid |-> "t3"]}
MCFlagSets == {{}, {"INCLUDE_THREADS", "HIDE_SYSTEM_LIBRARIES"},
               {"MERGE_SIMILAR_PROCESSES", "IGNORE_PROCESS_0", "IGNORE_KERNEL_PROCESSES"},
               {"BOTTOM_UP", "INCLUDE_THREADS", "HIDE_SYSTEM_LIBRARIES"}}

Init ==
  /\ job \in {"cache", "callgraph"}
  /\ CacheInit
  /\ GraphInit
  /\ job = "cache" => flags = {}

Next ==
  \/ job = "cache" /\ CacheNext /\ UNCHANGED <<job, graphVars>>
  \/ job = "callgraph" /\ GraphNext /\ UNCHANGED <<job, tree, known>>

Spec == Init /\ [][Next]_<<job, tree, known, graphVars>>
=============================================================================
