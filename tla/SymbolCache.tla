---------------------------- MODULE SymbolCache -----------------------------
(***************************************************************************)
(* The symbols of a process or of the kernel, by the addresses they span   *)
(* (sysprof-symbol-cache.c): a red-black tree (contrib/tree/tree.h) on the *)
(* first address, in which each node knows the greatest address of its     *)
(* subtree.  A node is known by its first address; 0 is NULL.              *)
(***************************************************************************)
EXTENDS Naturals, FiniteSetsExt

CONSTANTS Intervals,    \* the symbols, [begin, end]
          Top           \* the greatest address, 2^64 - 1

ASSUME IntervalAssumption ==
  /\ Top \in Nat
  /\ \A i \in Intervals : i.begin \in 0 .. Top /\ i.end \in 0 .. Top

VARIABLES tree,         \* the nodes
          known         \* the symbols that were taken and not turned away

Keys == {i.begin : i \in Intervals} \ {0}
Sides == {"left", "right"}
Other(side) == IF side = "left" THEN "right" ELSE "left"

CacheInit ==
  /\ tree = [root |-> 0, child |-> [s \in Sides |-> [k \in Keys |-> 0]],
             parent |-> [k \in Keys |-> 0], red |-> [k \in Keys |-> FALSE],
             high |-> [k \in Keys |-> 0], max |-> [k \in Keys |-> 0]]
  /\ known = {}

cacheVars == <<tree, known>>

-----------------------------------------------------------------------------
(* The tree.                                                                *)

(* sysprof_symbol_cache_node_augment()                                      *)
AugmentNode(t, n) ==
  IF n = 0 THEN t
  ELSE [t EXCEPT !.max[n] =
          Max({t.high[n]} \cup {t.max[c] : c \in {t.child[s][n] : s \in Sides} \ {0}})]

(* Whatever had n below it, or the root, has m there.                       *)
Replace(t, n, m) ==
  LET p == t.parent[n]
  IN  IF p = 0 THEN [t EXCEPT !.root = m]
      ELSE [t EXCEPT !.child = [s \in Sides |-> [t.child[s] EXCEPT ![p] = IF @ = n THEN m ELSE @]]]

(* Variant: the node that goes up does not look at what it has below.       *)
RotateKeepingMax(t, n, side) ==
  LET m == t.child[Other(side)][n]
      inner == t.child[side][m]
      t1 == [Replace(t, n, m) EXCEPT !.child[Other(side)][n] = inner, !.child[side][m] = n,
                                     !.parent[m] = t.parent[n], !.parent[n] = m]
  IN  IF inner = 0 THEN t1 ELSE [t1 EXCEPT !.parent[inner] = n]

(* RB_ROTATE_LEFT, RB_ROTATE_RIGHT: n goes down on that side, its child on  *)
(* the other comes up; they and the node above are augmented.               *)
Rotate(t, n, side) ==
  LET m == t.child[Other(side)][n]
      inner == t.child[side][m]
      t1 == [Replace(t, n, m) EXCEPT !.child[Other(side)][n] = inner, !.child[side][m] = n,
                                     !.parent[m] = t.parent[n], !.parent[n] = m]
      t2 == IF inner = 0 THEN t1 ELSE [t1 EXCEPT !.parent[inner] = n]
  IN  AugmentNode(AugmentNode(AugmentNode(t2, n), m), t2.parent[m])

(* Variant: after the first of two rotations it goes on with the old nodes. *)
StraightenOld(t, p, e, side) ==
  [tree |-> IF t.child[Other(side)][p] = e THEN Rotate(t, p, side) ELSE t,
   parent |-> p, elm |-> e]

(* The red node e and its parent p, once they are on the same side.         *)
Straighten(t, p, e, side) ==
  IF t.child[Other(side)][p] = e
  THEN [tree |-> Rotate(t, p, side), parent |-> e, elm |-> p]
  ELSE [tree |-> t, parent |-> p, elm |-> e]

-----------------------------------------------------------------------------
(* Its loops: a turn takes the node that the loop is at, and the tree, to   *)
(* those of the next one, or leaves them once the loop has ended.           *)
At(t, n, of) == [tree |-> t, at |-> n, of |-> of]

Side(key, n) == IF key < n THEN "left" ELSE "right"

(* RB_INSERT: down to the node with this key, or that it would hang from.   *)
DownTurn(s) ==
  LET c == s.tree.child[Side(s.of, s.at)][s.at]
  IN  IF c = 0 \/ s.of = s.at THEN s ELSE At(s.tree, c, s.of)

(* RB_INSERT_COLOR: a red node has no red child.                            *)
ColorTurn(s) ==
  LET t == s.tree
      e == s.at
      p == t.parent[e]
      g == t.parent[p]
      side == IF p = t.child["left"][g] THEN "left" ELSE "right"
      uncle == t.child[Other(side)][g]
      straight == Straighten(t, p, e, side)
      coloured == [straight.tree EXCEPT !.red[straight.parent] = FALSE, !.red[g] = TRUE]
  IN  IF p = 0 \/ ~t.red[p] THEN At([t EXCEPT !.red[t.root] = FALSE], e, s.of)
      ELSE IF uncle # 0 /\ t.red[uncle]
      THEN At([t EXCEPT !.red = [@ EXCEPT ![uncle] = FALSE, ![p] = FALSE, ![g] = TRUE]], g, s.of)
      ELSE At(Rotate(coloured, g, Other(side)), straight.elm, s.of)

(* sysprof_symbol_cache_take(): the nodes above hear of its greatest address*)
RaiseTurn(s) ==
  LET t == s.tree
      p == t.parent[s.at]
  IN  IF p = 0 THEN s
      ELSE At([t EXCEPT !.max[p] = IF t.max[s.at] > @ THEN t.max[s.at] ELSE @], p, s.of)

(* sysprof_symbol_cache_lookup()                                            *)
SeekTurn(s) ==
  LET t == s.tree
      n == s.at
      l == t.child["left"][n]
  IN  IF n = 0 THEN s
      ELSE IF s.of \in n .. t.high[n] THEN s
      ELSE At(t, IF l # 0 /\ t.max[l] >= s.of THEN l ELSE t.child["right"][n], s.of)

(* The black nodes on the way from a node to the root, for a property.      *)
BlackTurn(s) ==
  IF s.at = 0 THEN s
  ELSE At(s.tree, s.tree.parent[s.at], IF s.tree.red[s.at] THEN s.of ELSE s.of + 1)

TurnOfLoop(loop, s) ==
  CASE loop = "down" -> DownTurn(s)
    [] loop = "color" -> ColorTurn(s)
    [] loop = "raise" -> RaiseTurn(s)
    [] loop = "seek" -> SeekTurn(s)
    [] loop = "black" -> BlackTurn(s)

(* A loop from n on.  Each turn goes to a node that spans more, or fewer,   *)
(* of the addresses, so that these bound the turns.                         *)
Looped(loop, t, n, of) ==
  LET turn[i \in 0 .. Top + 1] ==
        IF i = 0 THEN At(t, n, of) ELSE TurnOfLoop(loop, turn[i - 1])
  IN  turn[Top + 1]

-----------------------------------------------------------------------------
(* Its operations.                                                          *)

Down(t, key) == IF t.root = 0 THEN 0 ELSE Looped("down", t, t.root, key).at

(* RB_INSERT of a node that is not there, below p.                          *)
Hung(t, p, key, high) ==
  LET node == [t EXCEPT !.parent[key] = p, !.red[key] = TRUE,
                        !.high[key] = high, !.max[key] = high]
  IN  IF p = 0 THEN [node EXCEPT !.root = key]
      ELSE AugmentNode([node EXCEPT !.child[Side(key, p)][p] = key], p)

Insert(t, p, key, high) == Looped("color", Hung(t, p, key, high), key, 0).tree

(* sysprof_symbol_cache_take(): of two symbols that begin at an address the *)
(* first stays.                                                             *)
Take(i) ==
  LET key == i.begin
      p == Down(tree, key)
  IN  IF key = 0 \/ i.end <= key \/ p = key
      THEN UNCHANGED cacheVars
      ELSE /\ tree' = Looped("raise", Insert(tree, p, key, i.end - 1), key, 0).tree
           /\ known' = known \cup {i}

Lookup(t, address) ==
  IF address = 0 \/ t.root = 0 THEN 0
  ELSE IF t.max[t.root] < address THEN 0 ELSE Looped("seek", t, t.root, address).at

CacheNext == \E i \in Intervals : Take(i)

CacheSpec == CacheInit /\ [][CacheNext]_cacheVars

-----------------------------------------------------------------------------
(* Properties.                                                              *)

(* However the tree was turned while it grew, and however symbols overlap,  *)
(* a lookup finds a symbol that spans the address, if there is one; and the *)
(* greatest addresses are what its assertions say.                          *)
LookupRight ==
  /\ \A i \in known, s \in Sides :
       LET c == tree.child[s][i.begin] IN c # 0 => tree.max[i.begin] >= tree.max[c]
  /\ \A a \in 0 .. Top :
       LET spans == {i.begin : i \in {j \in known : a \in j.begin .. j.end - 1}}
           found == Lookup(tree, a)
       IN  IF spans = {} THEN found = 0 ELSE found \in spans

(* The tree stays balanced: each way down, to a node with a side below which*)
(* nothing is, has as many black nodes as the others, and no two red ones in*)
(* a row, so that a lookup takes a time that grows with the logarithm of the*)
(* symbols.                                                                 *)
Blacks(n) == Looped("black", tree, n, 0).of
Ends == {i.begin : i \in {j \in known : \E s \in Sides : tree.child[s][j.begin] = 0}}

Balanced ==
  /\ \A m, n \in Ends : Blacks(m) = Blacks(n)
  /\ \A i \in known : tree.red[i.begin] =>
       \A s \in Sides : tree.child[s][i.begin] # 0 => ~tree.red[tree.child[s][i.begin]]
=============================================================================
