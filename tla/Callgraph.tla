----------------------------- MODULE Callgraph ------------------------------
(***************************************************************************)
(* A callgraph (sysprof-callgraph.c): the worker of a task takes the       *)
(* traceables of a document one by one, symbolizes the stack of each and   *)
(* adds it to a tree; what is known of a symbol wherever it is called is   *)
(* kept in a summary.  The views (sysprof-weighted-callgraph-view.c) weigh *)
(* the nodes and the summaries as the tree grows, list the traceables      *)
(* below a node and the descendants of a symbol.                           *)
(*                                                                         *)
(* An address is a model value or the name of a context, for the mark the  *)
(* kernel leaves in a stack where it changes; stacks go from the inside    *)
(* out.  The nodes are numbered as they are made, the root is 1; the order *)
(* of the children of a node is presentation and is left out.              *)
(***************************************************************************)
EXTENDS Naturals, Sequences, FiniteSets, FiniteSetsExt, SequencesExt

CONSTANTS Traceables,   \* records of a stack, a pid and a tid
          Contexts,     \* "USER", "KERNEL", ...
          Processes,    \* by pid: name, shared (with its like), kernel, symbols
          KernelSymbols,     \* [addresses -> symbols and NULL]
          NULL,
          FlagSets,     \* sets of flags a callgraph is asked for with
          MaxDepth,     \* MAX_STACK_DEPTH, addresses of a stack that is shown
          DescentDepth, \* MAX_STACK_DEPTH of the descendants
          MaxResults,   \* max_results, traceables that are listed
          MaxTraces     \* bound: the traceables of a document

VARIABLES flags,
          traces,       \* the traceables that were read
          nodes, summaries

graphVars == <<flags, traces, nodes, summaries>>

Symbol(kind, name) == [kind |-> kind, name |-> name]
everything == Symbol("ROOT", "All Processes")
untraceable == Symbol("UNWINDABLE", "Unwindable")
ContextSwitch(context) == Symbol("CONTEXT_SWITCH", context)
IsSwitch(s) == s.kind = "CONTEXT_SWITCH"
IsFunction(s) == s.kind \in {"USER", "KERNEL"}
IsSystemLibrary(s) == s.kind = "KERNEL" \/ (s.kind = "USER" /\ s.system)

(* What is found for an address of a stack, if anything is: none of it is a *)
(* mark, and no function of the kernel belongs to a process.                *)
ASSUME GraphAssumption ==
  /\ \A c \in Contexts \cup {"USER"} : ContextSwitch(c) # NULL
  /\ \A t \in Traceables : t.stack \in Seq(Contexts \cup DOMAIN KernelSymbols)
  /\ \A a \in DOMAIN KernelSymbols :
       /\ KernelSymbols[a] # NULL => KernelSymbols[a].kind \notin {"USER", "CONTEXT_SWITCH"}
       /\ \A p \in DOMAIN Processes :
            /\ a \in DOMAIN Processes[p].symbols
            /\ Processes[p].symbols[a] # NULL =>
                 Processes[p].symbols[a].kind \notin {"KERNEL", "CONTEXT_SWITCH"}
  /\ {MaxDepth, DescentDepth, MaxResults} \subseteq Nat \ {0}

(* _sysprof_document_process_symbol()                                        *)
ProcessSymbol(t) ==
  Symbol("PROCESS",
    IF t.pid \notin DOMAIN Processes THEN "missing"
    ELSE IF "MERGE_SIMILAR_PROCESSES" \in flags THEN Processes[t.pid].shared
    ELSE Processes[t.pid].name)
ThreadSymbol(t) == Symbol("THREAD", t.tid)

-----------------------------------------------------------------------------
(* The symbols of a stack.                                                  *)

(* _sysprof_document_symbols_lookup(): a stack begins in user space; a mark *)
(* has the name of the context it leaves.                                   *)
LookupSymbol(pid, last, address) ==
  LET context == IF last = "NONE" THEN "USER" ELSE last
  IN  IF address \in Contexts THEN ContextSwitch(context)
      ELSE IF context = "KERNEL" THEN KernelSymbols[address]
      ELSE IF pid \in DOMAIN Processes THEN Processes[pid].symbols[address] ELSE NULL

(* The symbols found so far and one more, if there is one: a function that  *)
(* calls itself is there once.                                              *)
With(symbols, s) ==
  IF s = NULL \/ (symbols # <<>> /\ Last(symbols) = s) THEN symbols ELSE Append(symbols, s)

(* Variant: a mark changes the context before it is named.                  *)
SymbolizeTurnEntered(t, done, address) ==
  LET now == IF address \in Contexts THEN address ELSE done.context
  IN  [symbols |-> With(done.symbols, LookupSymbol(t.pid, now, address)), context |-> now]

(* sysprof_document_symbolize_traceable(), a turn of the loop ...           *)
SymbolizeTurn(t, done, address) ==
  [symbols |-> With(done.symbols, LookupSymbol(t.pid, done.context, address)),
   context |-> IF address \in Contexts THEN address ELSE done.context]

(* ... and the loop.                                                        *)
Symbolize(t) ==
  LET done[k \in 0 .. Len(t.stack)] ==
        IF k = 0 THEN [symbols |-> <<>>, context |-> "NONE"]
        ELSE SymbolizeTurn(t, done[k - 1], t.stack[k])
  IN  done[Len(t.stack)]

(* sysprof_callgraph_add_traceable(), what it leaves out.                   *)
Ignored(t) ==
  \/ t.pid = 0 /\ "IGNORE_PROCESS_0" \in flags
  \/ /\ t.pid \in DOMAIN Processes
     /\ Processes[t.pid].kernel
     /\ "IGNORE_KERNEL_PROCESSES" \in flags
  \/ Len(t.stack) > MaxDepth
  \/ Symbolize(t).symbols = <<>>

(* ... and the symbols it adds for the others.  The space in which a stack  *)
(* ends has no mark to name it: only the kernel is named.                   *)
Told(stack) ==
  LET found == stack.symbols
  IN  IF Len(found) = 1 /\ IsSwitch(found[1]) /\ stack.context = "USER" THEN <<untraceable>>
      ELSE IF stack.context = "KERNEL" THEN Append(found, ContextSwitch("KERNEL"))
      ELSE found

Account(t) ==
  LET told == Told(Symbolize(t))
      calls == IF IsSwitch(told[1]) THEN Tail(told) ELSE told
  IN  (IF "BOTTOM_UP" \in flags THEN Reverse(calls) ELSE calls)
      \o (IF "INCLUDE_THREADS" \in flags THEN <<ThreadSymbol(t)>> ELSE <<>>)
      \o <<ProcessSymbol(t), everything>>

-----------------------------------------------------------------------------
(* The tree.                                                                *)

NewNode(parent, s) ==
  [parent |-> parent, symbol |-> s, count |-> 0, size |-> 0, total |-> 0]
NewSummary == [traceables |-> {}, callers |-> {}, size |-> 0, total |-> 0]

GraphInit ==
  /\ flags \in FlagSets
  /\ traces = <<>>
  /\ nodes = <<NewNode(0, everything)>>
  /\ summaries = [s \in {everything} |-> NewSummary]

(* The nodes that a node is below of, from the root, and the node.           *)
Way(graph, node) ==
  LET way[n \in 0 .. Len(graph)] == IF n = 0 THEN <<>> ELSE Append(way[graph[n].parent], n)
  IN  way[node]

(* What is on the way to a node.                                            *)
PathTo(graph, n) == LET way == Way(graph, n) IN [k \in DOMAIN way |-> graph[way[k]].symbol]

(* The place of the child of a node with this symbol, or 0.                 *)
Child(graph, parent, s) ==
  SelectInSeq(graph, LAMBDA n : n.parent = parent /\ n.symbol = s)

(* From a node to its child with this symbol, which is made if there is     *)
(* none.                                                                    *)
Enter(graph, parent, s) ==
  LET n == Child(graph, parent, s)
  IN  IF n # 0 THEN [graph |-> graph, node |-> n]
      ELSE [graph |-> Append(graph, NewNode(parent, s)), node |-> Len(graph) + 1]

Hidden(s) == "HIDE_SYSTEM_LIBRARIES" \in flags /\ IsSystemLibrary(s)

(* sysprof_callgraph_add_trace(), a turn of the loop ...                    *)
AddTurn(at, s) ==
  LET entered == Enter(at.graph, at.node, s)
  IN  IF Hidden(s) THEN at ELSE [entered EXCEPT !.graph[entered.node].count = @ + 1]

(* ... and the loop, from the root, which the symbols end with: the tree,   *)
(* and the node where the trace ends.                                       *)
AddTrace(symbols) ==
  LET at[k \in 0 .. Len(symbols) - 1] ==
        IF k = 0 THEN [graph |-> [nodes EXCEPT ![1].count = @ + 1], node |-> 1]
        ELSE AddTurn(at[k - 1], symbols[Len(symbols) - k])
  IN  at[Len(symbols) - 1]

(* Variant: a symbol counts once for each time it is on the stack.          *)
NotSeen(graph, way, k) == FALSE

(* seen_symbol(): the symbol of the k-th node of a way is nearer to its end *)
(* too.                                                                     *)
Seen(graph, way, k) ==
  \E j \in k + 1 .. Len(way) : graph[way[j]].symbol = graph[way[k]].symbol

(* augment_weight() of the nodes, for a trace that goes this way.           *)
Weigh(graph, way) ==
  [n \in DOMAIN graph |->
     [graph[n] EXCEPT !.total = @ + (IF n \in Range(way) THEN 1 ELSE 0),
                      !.size = @ + (IF n = Last(way) THEN 1 ELSE 0)]]

(* sysprof_callgraph_populate_callers() and augment_weight(), of the        *)
(* summaries.                                                               *)
Summarize(graph, way, index) ==
  LET old(s) == IF s \in DOMAIN summaries THEN summaries[s] ELSE NewSummary
      at(s) == {k \in DOMAIN way : graph[way[k]].symbol = s}
      above(s) == {graph[way[k - 1]].symbol : k \in at(s) \ {1}}
  IN  [s \in DOMAIN summaries \cup {graph[n].symbol : n \in Range(way)} |->
         IF at(s) = {} THEN old(s)
         ELSE [traceables |-> old(s).traceables \cup {index},
               callers |-> old(s).callers
                             \cup {c \in above(s) : c.kind \notin {"PROCESS", "ROOT"}},
               size |-> old(s).size + (IF Len(way) \in at(s) THEN 1 ELSE 0),
               total |-> old(s).total + Cardinality({k \in at(s) : ~Seen(graph, way, k)})]]

(* sysprof_callgraph_new_worker(), a turn of the loop.                      *)
AddTraceable(t) ==
  /\ Len(traces) < MaxTraces
  /\ traces' = Append(traces, t)
  /\ IF Ignored(t) THEN UNCHANGED <<nodes, summaries>>
     ELSE LET added == AddTrace(Account(t))
              way == Way(added.graph, added.node)
          IN  /\ nodes' = Weigh(added.graph, way)
              /\ summaries' = Summarize(added.graph, way, Len(traces) + 1)
  /\ UNCHANGED flags

GraphNext == \E t \in Traceables : AddTraceable(t)

GraphSpec == GraphInit /\ [][GraphNext]_graphVars

-----------------------------------------------------------------------------
(* What a view asks for.                                                    *)

(* Those of the symbols that are kept.                                      *)
Only(symbols, kept) ==
  LET only[k \in 0 .. Len(symbols)] ==
        IF k = 0 THEN <<>>
        ELSE IF symbols[k] \in kept THEN Append(only[k - 1], symbols[k])
        ELSE only[k - 1]
  IN  only[Len(symbols)]

(* traceable_has_prefix(), a turn of the loop: from where it is to the      *)
(* place behind the symbol ...                                              *)
PrefixTurn(symbols, from, p) ==
  LET at == {k \in from .. Len(symbols) : symbols[k] = p}
  IN  IF at = {} THEN Len(symbols) + 2 ELSE Min(at) + 1

(* ... and the loop: the symbols of the prefix are on the stack in order.   *)
HasPrefix(symbols, prefix) ==
  LET from[k \in 0 .. Len(prefix)] ==
        IF k = 0 THEN 1 ELSE PrefixTurn(symbols, from[k - 1], prefix[k])
  IN  Len(symbols) >= Len(prefix) /\ from[Len(prefix)] <= Len(symbols) + 1

(* sysprof_callgraph_list_traceables_for_node_async(), what it looks for    *)
Matches(n) ==
  LET chain == Reverse(PathTo(nodes, n))
      prefix == Only(chain, {s \in Range(chain) : IsFunction(s)})
  IN  IF prefix = <<>> THEN {}
      ELSE {i \in DOMAIN traces :
              /\ \A p \in Range(prefix) : i \in summaries[p].traceables
              /\ Len(traces[i].stack) <= MaxDepth
              /\ HasPrefix(Symbolize(traces[i]).symbols, prefix)}

(* ... and what the worker comes to, which ends when it has enough.         *)
ListTraceables(n) ==
  {i \in Matches(n) : Cardinality({j \in Matches(n) : j < i}) < MaxResults}

(* A traceable, with the inner end of its stack.                            *)
Innermost(t) ==
  [pid |-> t.pid,
   stack |-> IF Len(t.stack) > DescentDepth THEN SubSeq(t.stack, 1, DescentDepth) ELSE t.stack]

(* Variant: what is below the innermost call.                               *)
BelowInnermost(t, s) ==
  LET symbols == Symbolize(Innermost(t)).symbols
      at == {k \in DOMAIN symbols : symbols[k] = s}
  IN  IF at = {} THEN <<>> ELSE SubSeq(symbols, 1, Min(at) - 1)

(* sysprof_descendants_model_add_traceable(): what is below the outermost   *)
(* call of a function, as far as it looks.                                  *)
Below(t, s) ==
  LET symbols == Symbolize(Innermost(t)).symbols
      at == {k \in DOMAIN symbols : symbols[k] = s}
  IN  IF at = {} THEN <<>> ELSE SubSeq(symbols, 1, Max(at) - 1)

(* sysprof_descendants_model_add_trace(), a turn of the loop ...            *)
DescendTurn(at, s) ==
  IF s \in DOMAIN summaries THEN Enter(at.graph, at.node, s) ELSE at

(* ... and the loop, from the root of the tree.                             *)
Descend(graph, symbols) ==
  LET at[k \in 0 .. Len(symbols)] ==
        IF k = 0 THEN [graph |-> graph, node |-> 1]
        ELSE DescendTurn(at[k - 1], symbols[Len(symbols) + 1 - k])
  IN  at[Len(symbols)]

(* sysprof_descendants_model_add_traceable()                                *)
AddBelow(graph, symbols) ==
  LET added == Descend(graph, symbols)
  IN  IF symbols = <<>> THEN graph ELSE Weigh(added.graph, Way(added.graph, added.node))

(* _sysprof_descendants_model_new(): the tree of what is below s.           *)
Descendants(s) ==
  LET tree[i \in 0 .. Len(traces)] ==
        IF i = 0 THEN <<NewNode(0, s)>>
        ELSE IF i \in summaries[s].traceables THEN AddBelow(tree[i - 1], Below(traces[i], s))
        ELSE tree[i - 1]
  IN  tree[Len(traces)]

-----------------------------------------------------------------------------
(* Properties.                                                              *)

(* What is shown of a stack, from the root.                                 *)
Path(symbols) ==
  LET path[k \in 0 .. Len(symbols)] ==
        IF k = 0 THEN <<>>
        ELSE LET s == symbols[Len(symbols) + 1 - k]
             IN  IF Hidden(s) THEN path[k - 1] ELSE Append(path[k - 1], s)
  IN  path[Len(symbols)]

Shown == {i \in DOMAIN traces : ~Ignored(traces[i])}
PathOf(i) == Path(Account(traces[i]))

(* Each way down from the root is one node, and its weights are what is     *)
(* shown of the document: how many traces go that way and how many end      *)
(* there.  A symbol is weighed once for each trace it is in, however often  *)
(* and from wherever it was called, and its summary knows the traces it is  *)
(* in and what calls it.                                                    *)
TreeRight ==
  LET ways == [n \in DOMAIN nodes |-> PathTo(nodes, n)]
      paths == [i \in Shown |-> PathOf(i)]
      Through(way) == {i \in Shown : IsPrefix(way, paths[i])}
      Holding(s) == {i \in Shown : s \in Range(paths[i])}
      Calls(c, s) == \E i \in Shown : \E k \in 1 .. Len(paths[i]) - 1 :
                       paths[i][k] = c /\ paths[i][k + 1] = s
  IN  /\ \A m, n \in DOMAIN nodes : m # n => ways[m] # ways[n]
      /\ \A i \in Shown : \E n \in DOMAIN nodes : ways[n] = paths[i]
      /\ \A n \in DOMAIN nodes :
           /\ nodes[n].count = Cardinality(Through(ways[n]))
           /\ nodes[n].total = nodes[n].count
           /\ nodes[n].size = Cardinality({i \in Shown : paths[i] = ways[n]})
      /\ \A s \in DOMAIN summaries :
           /\ summaries[s].traceables = Holding(s)
           /\ summaries[s].total = Cardinality(Holding(s))
           /\ summaries[s].size = Cardinality({i \in Shown : Last(paths[i]) = s})
           /\ summaries[s].callers = {c \in DOMAIN summaries :
                                        c.kind \notin {"PROCESS", "ROOT"} /\ Calls(c, s)}

(* Time is told apart as it was spent: outwards from a function of the      *)
(* kernel the first mark is that of the kernel, from one of the process it  *)
(* is that of another context, if there is any.                             *)
ContextsTold ==
  "BOTTOM_UP" \in flags \/
    \A n \in DOMAIN nodes :
      LET path == PathTo(nodes, n)
          marks == {k \in DOMAIN path : IsSwitch(path[k])}
      IN  /\ nodes[n].symbol.kind = "KERNEL" =>
               marks # {} /\ path[Max(marks)] = ContextSwitch("KERNEL")
          /\ nodes[n].symbol.kind = "USER" =>
               marks = {} \/ path[Max(marks)] # ContextSwitch("KERNEL")

(* The traceables listed for a node of a callgraph that goes down, if it is *)
(* a function, are no more than the limit, and one that goes through it is  *)
(* missing only when as many before it are listed; and the descendants of a *)
(* function are what its outermost calls came to, each weighed once, in the *)
(* part of the stacks that is looked at.                                    *)
ListsRight ==
  /\ "BOTTOM_UP" \in flags \/
       \A n \in DOMAIN nodes :
         IsFunction(nodes[n].symbol) =>
           LET listed == ListTraceables(n)
           IN  /\ Cardinality(listed) <= MaxResults
               /\ \A i \in Shown \ listed :
                    IsPrefix(PathTo(nodes, n), PathOf(i)) =>
                      Cardinality({j \in listed : j < i}) = MaxResults
  /\ \A s \in DOMAIN summaries :
       IsFunction(s) =>
         LET graph == Descendants(s)
             stacks == [i \in DOMAIN traces |-> Symbolize(Innermost(traces[i])).symbols]
             reached == {i \in summaries[s].traceables : s \in Range(stacks[i])}
             parts == [i \in reached |->
                         LET outermost == CHOOSE k \in DOMAIN stacks[i] :
                               stacks[i][k] = s /\ \A j \in k + 1 .. Len(stacks[i]) : stacks[i][j] # s
                         IN  Only(Reverse(SubSeq(stacks[i], 1, outermost - 1)), DOMAIN summaries)]
         IN  /\ \A i \in reached : \E n \in DOMAIN graph : PathTo(graph, n) = <<s>> \o parts[i]
             /\ \A n \in DOMAIN graph \ {1} :
                  /\ graph[n].total = Cardinality({i \in reached :
                                                    IsPrefix(Tail(PathTo(graph, n)), parts[i])})
                  /\ graph[n].total > 0
=============================================================================
