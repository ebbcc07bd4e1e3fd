------------------------------- MODULE BTree -------------------------------
(***************************************************************************)
(* The persistent B-tree of examples/map_pmdk/btree_map.c (the tree of     *)
(* examples/btree/btree.cc is the same algorithm without the TX_ADDs),     *)
(* driven by the commands of mapcli.c.                                     *)
(*                                                                         *)
(* An operation runs in one transaction, which is a record t: the heap it  *)
(* has built so far, the root, the allocated nodes, the nodes allocated in *)
(* the transaction, the locations given to TX_ADD, the locations changed   *)
(* while nothing would undo them, and whether the transaction aborted.     *)
(* The recursions over the tree are steps of one level each: at is the     *)
(* call that runs (its node, its parent and the index p), path the calls   *)
(* that wait for it.  An item is its key; the value it carries is moved    *)
(* with it everywhere.                                                     *)
(***************************************************************************)
EXTENDS Integers, FiniteSets, Sequences

CONSTANTS
  ORDER,        \* BTREE_ORDER, which can't be odd
  Keys,         \* the keys of the map
  Typed,        \* those of the free commands
  InitSeqs,     \* the insertions a session starts with
  MaxNodes,     \* bound: nodes the pool has room for
  MaxOps        \* bound: free commands after them

ASSUME OrderAssumption == ORDER \in Nat /\ ORDER % 2 = 0 /\ ORDER >= 4
ASSUME NodesAssumption == MaxNodes \in Nat
ASSUME KeysAssumption == Keys \subseteq Nat /\ Typed \subseteq Keys /\ InitSeqs \subseteq Seq(Keys)

VARIABLES
  heap,         \* node -> its contents
  root,         \* btree_map.root
  live,         \* nodes allocated and not freed
  bag,          \* reference: key -> how many items with it the user expects
  tx,           \* the running transaction, or the outcome of the last one
  cmd,          \* its command and key
  pc,           \* the recursion that runs: "idle" between transactions
  at,           \* its innermost call
  path,         \* the calls around that one, innermost first
  script,       \* insertions still to come before the free commands
  ops,          \* free commands so far
  zeros         \* history: key 0 was in the map more than once at a time

btvars == <<heap, root, live, bag, tx, cmd, pc, at, path, script, ops, zeros>>

NULL == 0
MINKEYS == (ORDER \div 2) - 1
Nodes == 1..MaxNodes
ItemIdx == 0..(ORDER - 2)
SlotIdx == 0..(ORDER - 1)
Frame(nd, parent, p) == [nd |-> nd, parent |-> parent, p |-> p]
ZeroNode == [n |-> 0, items |-> [i \in ItemIdx |-> 0], slots |-> [i \in SlotIdx |-> NULL]]

-----------------------------------------------------------------------------
(* Transactional memory.                                                   *)

\* the locations of a node, as the undo log names them
Fields(nd, is, ss) == {<<nd, "item", i>> : i \in is} \cup {<<nd, "slot", i>> : i \in ss}
Whole(nd) == {<<nd, "n", 0>>} \cup Fields(nd, ItemIdx, SlotIdx)
RootLoc == <<NULL, "root", 0>>

TX_ADD(t, locs) == [t EXCEPT !.added = @ \cup locs]
TX_ABORT(t) == [t EXCEPT !.aborted = TRUE]

\* what a store of contents c to node nd changes
Changed(t, nd, c) ==
  LET o == t.heap[nd]
  IN  (IF o.n # c.n THEN {<<nd, "n", 0>>} ELSE {}) \cup
      Fields(nd, {i \in ItemIdx : o.items[i] # c.items[i]},
                 {i \in SlotIdx : o.slots[i] # c.slots[i]})

D_RW(t, nd, c) ==
  [t EXCEPT !.heap[nd] = c,
            !.loose = @ \cup (IF nd \in t.fresh THEN {} ELSE Changed(t, nd, c) \ t.added)]

SetRoot(t, nd) == [t EXCEPT !.root = nd, !.loose = @ \cup ({RootLoc} \ t.added)]

\* the node an allocation returns, and the allocation, which zeroes it and
\* aborts the transaction when the pool is full
NextFree(t) == IF Nodes \subseteq t.live THEN NULL ELSE CHOOSE nd \in Nodes : nd \notin t.live
TX_ZNEW(t) ==
  LET nd == NextFree(t)
  IN  IF Nodes \subseteq t.live THEN TX_ABORT(t)
      ELSE [t EXCEPT !.heap[nd] = ZeroNode, !.live = @ \cup {nd}, !.fresh = @ \cup {nd}]

\* a free is applied when the transaction commits; a second free of the same
\* node aborts the transaction
TX_FREE(t, nd) ==
  IF nd \in t.live THEN [t EXCEPT !.live = @ \ {nd}] ELSE TX_ABORT(t)

\* memmove within an array: from..from+cnt-1 to to..to+cnt-1.  Two calls read
\* one entry past their array: remove_from_node, behind the items of a full
\* leaf, where its null slots are, and merge, behind the slots of a full parent,
\* into a slot beyond the parent's count.
Move(a, to, from, cnt) ==
  [i \in DOMAIN a |-> IF i < to \/ i >= to + cnt THEN a[i]
                      ELSE IF i - to + from \in DOMAIN a THEN a[i - to + from] ELSE 0]
Copy(a, to, b, cnt) ==
  [i \in DOMAIN a |-> IF i >= to /\ i < to + cnt THEN b[i - to] ELSE a[i]]

-----------------------------------------------------------------------------
(* Insertion.                                                              *)

insert_item_at(c, pos, k) == [c EXCEPT !.items[pos] = k, !.n = @ + 1]

insert_empty(t, k) ==
  LET z  == TX_ZNEW(TX_ADD(t, {RootLoc}))
      nd == NextFree(t)
  IN  IF z.aborted THEN z
      ELSE D_RW(SetRoot(z, nd), nd, insert_item_at(ZeroNode, 0, k))

\* mutant: the item overwrites the one at its place
insert_item_NoShift(t, nd, p, k) ==
  D_RW(TX_ADD(t, Whole(nd)), nd, insert_item_at(t.heap[nd], p, k))

\* an item with key 0 at the place counts as none, and is overwritten
insert_item(t, nd, p, k) ==
  LET a == TX_ADD(t, Whole(nd))
      c == a.heap[nd]
      s == IF c.items[p] # 0
           THEN [c EXCEPT !.items = Move(@, p + 1, p, ORDER - 2 - p)] ELSE c
  IN  D_RW(a, nd, insert_item_at(s, p, k))

insert_node(t, nd, p, k, left, right) ==
  LET a == TX_ADD(t, Whole(nd))
      c == a.heap[nd]
      s == IF c.items[p] # 0
           THEN [c EXCEPT !.items = Move(@, p + 1, p, ORDER - 2 - p),
                          !.slots = Move(@, p + 1, p, ORDER - 1 - p)] ELSE c
  IN  D_RW(a, nd, insert_item_at([s EXCEPT !.slots[p] = left, !.slots[p + 1] = right], p, k))

\* the right half of a full node moves to the new node; the median is m
create_split_node(t, nd) ==
  LET c     == ORDER \div 2
      right == NextFree(t)
      old   == t.heap[nd]
      z     == TX_ZNEW(t)
      r     == [n     |-> ORDER - 1 - c,
                items |-> [i \in ItemIdx |-> IF i + c \in ItemIdx THEN old.items[i + c] ELSE 0],
                slots |-> [i \in SlotIdx |-> IF i + c \in SlotIdx THEN old.slots[i + c] ELSE NULL]]
      l     == [n     |-> c - 1,
                items |-> [i \in ItemIdx |-> IF i < c - 1 THEN old.items[i] ELSE 0],
                slots |-> [i \in SlotIdx |-> IF i < c THEN old.slots[i] ELSE NULL]]
  IN  [t |-> IF z.aborted THEN z ELSE D_RW(D_RW(TX_ADD(z, Whole(nd)), right, r), nd, l),
       right |-> right, m |-> old.items[c - 1]]

\* the tree grows in height: a new root over the two halves
grow_root(s, nd) ==
  LET up == NextFree(s.t)
      z  == TX_ZNEW(s.t)
      c  == [n |-> 1, items |-> [ZeroNode.items EXCEPT ![0] = s.m],
             slots |-> [ZeroNode.slots EXCEPT ![0] = nd, ![1] = s.right]]
  IN  [t |-> IF z.aborted THEN z ELSE SetRoot(TX_ADD(D_RW(z, up, c), {RootLoc}), up), nd |-> up]

\* a full node met on the way down is split before it is entered: the
\* transaction, and the node to continue the search in
split_if_full(t, f, k) ==
  LET s == create_split_node(t, f.nd)
  IN  IF t.heap[f.nd].n # ORDER - 1 THEN [t |-> t, nd |-> f.nd]
      ELSE IF s.t.aborted THEN [t |-> s.t, nd |-> f.nd]
      ELSE IF f.parent = NULL THEN grow_root(s, f.nd)
      ELSE [t  |-> insert_node(s.t, f.parent, f.p, s.m, f.nd, s.right),
            nd |-> IF k > s.m THEN s.right ELSE f.nd]

\* the first index at which the key fits: the right edge, or a larger key; the
\* last slot when there is none
Fits(c, k) == {i \in SlotIdx : i = ORDER - 1 \/ c.n = i \/ c.items[i] > k}
FitIdx(c, k) == CHOOSE i \in Fits(c, k) : \A j \in Fits(c, k) : i <= j

is_empty(t) == t.root = NULL \/ t.heap[t.root].n = 0

-----------------------------------------------------------------------------
(* Removal.                                                                *)

\* takes one element from the right sibling
rotate_right(t, rsb, nd, parent, p) ==
  LET i1 == insert_item(t, nd, t.heap[nd].n, t.heap[parent].items[p])
      r  == i1.heap[rsb]
      i2 == D_RW(TX_ADD(i1, Fields(parent, {p}, {})), parent,
                 [i1.heap[parent] EXCEPT !.items[p] = r.items[0]])
      e  == i2.heap[nd].n
      i3 == D_RW(TX_ADD(i2, Fields(nd, {}, {e})), nd,
                 [i2.heap[nd] EXCEPT !.slots[e] = r.slots[0]])
  IN  D_RW(TX_ADD(i3, Whole(rsb)), rsb,
           [n |-> r.n - 1, items |-> Move(r.items, 0, 1, r.n - 1),
            slots |-> Move(r.slots, 0, 1, r.n)])

\* mutant: the left sibling's count is changed outside the undo log
rotate_left_NoAdd(t, lsb, nd, parent, p) ==
  LET i1 == insert_item(t, nd, 0, t.heap[parent].items[p - 1])
      l  == i1.heap[lsb]
      i2 == D_RW(TX_ADD(i1, Fields(parent, {p - 1}, {})), parent,
                 [i1.heap[parent] EXCEPT !.items[p - 1] = l.items[l.n - 1]])
      c  == i2.heap[nd]
      i3 == D_RW(i2, nd, [c EXCEPT !.slots = [Move(@, 1, 0, c.n) EXCEPT ![0] = l.slots[l.n]]])
  IN  D_RW(i3, lsb, [i3.heap[lsb] EXCEPT !.n = @ - 1])

\* takes one element from the left sibling, which keeps the moved entries
\* beyond its count
rotate_left(t, lsb, nd, parent, p) ==
  LET i1 == insert_item(t, nd, 0, t.heap[parent].items[p - 1])
      l  == i1.heap[lsb]
      i2 == D_RW(TX_ADD(i1, Fields(parent, {p - 1}, {})), parent,
                 [i1.heap[parent] EXCEPT !.items[p - 1] = l.items[l.n - 1]])
      c  == i2.heap[nd]
      i3 == D_RW(i2, nd, [c EXCEPT !.slots = [Move(@, 1, 0, c.n) EXCEPT ![0] = l.slots[l.n]]])
  IN  D_RW(TX_ADD(i3, {<<lsb, "n", 0>>}), lsb, [i3.heap[lsb] EXCEPT !.n = @ - 1])

\* mutants: the parent's slots and an emptied root stay as they are; and the
\* right node is not freed either
merge_KeepRoot(t, rn, nd, parent, p) ==
  LET c  == t.heap[nd]
      r  == t.heap[rn]
      q  == t.heap[parent]
      c2 == [n     |-> c.n + 1 + r.n,
             items |-> Copy([c.items EXCEPT ![c.n] = q.items[p]], c.n + 1, r.items, r.n),
             slots |-> Copy(c.slots, c.n + 1, r.slots, r.n + 1)]
  IN  D_RW(TX_ADD(TX_FREE(D_RW(TX_ADD(t, Whole(nd)), nd, c2), rn), Whole(parent)), parent,
           [n |-> q.n - 1, items |-> Move(q.items, p, p + 1, q.n - 1 - p), slots |-> q.slots])
merge_NoFree(t, rn, nd, parent, p) ==
  [merge_KeepRoot(t, rn, nd, parent, p) EXCEPT !.live = t.live]

\* merges the right node rn and the separator into nd; TX_ADD of the null
\* object aborts the transaction
merge(t, rn, nd, parent, p) ==
  IF nd = NULL THEN TX_ABORT(t)
  ELSE LET c  == t.heap[nd]
           r  == t.heap[rn]
           c2 == [n     |-> c.n + 1 + r.n,
                  items |-> Copy([c.items EXCEPT ![c.n] = t.heap[parent].items[p]],
                                 c.n + 1, r.items, r.n),
                  slots |-> Copy(c.slots, c.n + 1, r.slots, r.n + 1)]
           i1 == TX_FREE(D_RW(TX_ADD(t, Whole(nd)), nd, c2), rn)
           q  == i1.heap[parent]
           i2 == D_RW(TX_ADD(i1, Whole(parent)), parent,
                      [n     |-> q.n - 1,
                       items |-> Move(q.items, p, p + 1, q.n - 1 - p),
                       slots |-> Move(q.slots, p + 1, p + 2, q.n - p)])
       IN  IF q.n = 1 /\ parent = i2.root
           THEN SetRoot(TX_FREE(TX_ADD(i2, {RootLoc}), parent), nd)
           ELSE i2

rebalance(t, nd, parent, p) ==
  LET c   == t.heap[parent]
      rsb == IF p >= c.n THEN NULL ELSE c.slots[p + 1]
      lsb == IF p = 0 THEN NULL ELSE c.slots[p - 1]
  IN  CASE rsb # NULL /\ t.heap[rsb].n > MINKEYS -> rotate_right(t, rsb, nd, parent, p)
        [] lsb # NULL /\ t.heap[lsb].n > MINKEYS
           /\ ~ (rsb # NULL /\ t.heap[rsb].n > MINKEYS) -> rotate_left(t, lsb, nd, parent, p)
        [] OTHER -> IF rsb = NULL THEN merge(t, nd, lsb, parent, p - 1)
                    ELSE merge(t, rsb, nd, parent, p)

remove_from_leaf(t, nd, p) ==
  LET c == t.heap[nd]
      s == IF c.n = 1 \/ p = ORDER - 2 THEN [c.items EXCEPT ![p] = 0]
           ELSE Move(c.items, p, p + 1, c.n - p)
  IN  D_RW(TX_ADD(t, Whole(nd)), nd, [c EXCEPT !.items = s, !.n = @ - 1])

\* the item p of inner node nd is replaced by its successor, taken out of its
\* leaf lm, whose parent is lp
replace_by_successor(t, nd, p, lm, lp) ==
  LET i1 == D_RW(TX_ADD(t, Fields(nd, {p}, {})), nd,
                 [t.heap[nd] EXCEPT !.items[p] = t.heap[lm].items[0]])
      i2 == remove_from_leaf(i1, lm, 0)
  IN  IF i2.heap[lm].n < MINKEYS
      THEN rebalance(i2, lm, lp, IF lp = nd THEN p + 1 ELSE 0)
      ELSE i2

NODE_CONTAINS_ITEM(c, i, k) == i # c.n /\ c.items[i] = k
\* mutant: an off-by-one in the comparison with the separator
NODE_CHILD_Beyond(c, i, k) == (i = c.n \/ c.items[i] > k + 1) /\ c.slots[i] # NULL
NODE_CHILD_CAN_CONTAIN_ITEM(c, i, k) == (i = c.n \/ c.items[i] > k) /\ c.slots[i] # NULL

\* where the scan of a node for k stops: at the item, at a child, or nowhere
ScanStops(c, k) ==
  {i \in 0..c.n : \/ NODE_CONTAINS_ITEM(c, i, k)
                  \/ NODE_CHILD_CAN_CONTAIN_ITEM(c, i, k)}
ScanIdx(c, k) == CHOOSE i \in ScanStops(c, k) : \A j \in ScanStops(c, k) : i <= j

\* whether the search of one child after the other meets k
map_lookup(k) ==
  LET lookup_in_node[nd \in Nodes] ==
        LET c == heap[nd]
            i == ScanIdx(c, k)
        IN  /\ ScanStops(c, k) # {}
            /\ ~NODE_CONTAINS_ITEM(c, i, k) => lookup_in_node[c.slots[i]]
  IN  root # NULL /\ lookup_in_node[root]

\* the concatenation of f[0], ..., f[n]
Concat(f, n) ==
  LET cat[i \in Int] == IF i < 0 THEN <<>> ELSE cat[i - 1] \o f[i] IN cat[n]

\* the nodes in the order they are freed; the child beyond the last item is not
clear_node(t) ==
  LET freed[nd \in {NULL} \cup Nodes] ==
        IF nd = NULL THEN <<>>
        ELSE LET c == t.heap[nd]
             IN  Concat([i \in 0..(c.n - 1) |-> freed[c.slots[i]]], c.n - 1) \o <<nd>>
  IN  freed[t.root]

\* the tree is freed node by node, which a node met twice aborts
map_clear(t) ==
  LET s == clear_node(t)
      F == {s[i] : i \in DOMAIN s}
  IN  IF F \subseteq t.live /\ Cardinality(F) = Len(s)
      THEN SetRoot(TX_ADD([t EXCEPT !.live = @ \ F], {RootLoc}), NULL)
      ELSE TX_ABORT(t)

-----------------------------------------------------------------------------
(* The commands of mapcli.c, one transaction each.                         *)

TxBegin(h, r, l) ==
  [heap |-> h, root |-> r, live |-> l, fresh |-> {}, added |-> {}, loose |-> {},
   aborted |-> FALSE]

\* what the user expects of the map after command c
Expected(c) ==
  CASE c.op = "insert" -> [bag EXCEPT ![c.key] = @ + 1]
    [] c.op = "remove" -> [bag EXCEPT ![c.key] = @ - 1]
    [] c.op = "clear"  -> [k \in Keys |-> 0]

\* a committed transaction takes effect, an aborted one is undone
EndTx(t, c) ==
  /\ pc' = "idle" /\ at' = Frame(NULL, NULL, 0) /\ path' = <<>> /\ cmd' = c
  /\ IF t.aborted THEN UNCHANGED <<heap, root, live, bag>>
     ELSE /\ heap' = [nd \in Nodes |-> IF nd \in t.live THEN t.heap[nd] ELSE ZeroNode]
          /\ root' = t.root
          /\ live' = t.live
          /\ bag' = Expected(c)
  /\ tx' = [TxBegin(heap', root', live') EXCEPT !.aborted = t.aborted, !.loose = t.loose]
  /\ zeros' = (zeros \/ (0 \in Keys /\ bag'[0] > 1))

\* the transaction goes on as t, unless it has been aborted
GoOn(t, where, call, outer) ==
  IF t.aborted THEN EndTx(t, cmd)
  ELSE /\ tx' = t /\ pc' = where /\ at' = call /\ path' = outer
       /\ UNCHANGED <<heap, root, live, bag, cmd, zeros>>

\* the operation enters the recursion at the root
Enter(op, k, where) ==
  /\ tx' = TxBegin(heap, root, live) /\ cmd' = [op |-> op, key |-> k]
  /\ pc' = where /\ at' = Frame(root, NULL, 0) /\ path' = <<>>
  /\ UNCHANGED <<heap, root, live, bag, zeros>>

str_insert(k) ==
  LET t == TxBegin(heap, root, live)
  IN  IF is_empty(t) THEN EndTx(insert_empty(t, k), [op |-> "insert", key |-> k])
      ELSE Enter("insert", k, "find_dest_node")

\* finds the node and place to insert the key at, and inserts it there
find_dest_node ==
  /\ pc = "find_dest_node" /\ at.nd # NULL
  /\ LET here == split_if_full(tx, at, cmd.key)
         c    == here.t.heap[here.nd]
         i    == FitIdx(c, cmd.key)
     IN  IF here.t.aborted THEN EndTx(here.t, cmd)
         ELSE IF i # ORDER - 1 /\ c.slots[i] = NULL
              THEN EndTx(insert_item(here.t, here.nd, i, cmd.key), cmd)
         ELSE GoOn(here.t, pc, Frame(c.slots[i], here.nd, i), <<>>)

str_remove(k) == map_lookup(k) /\ Enter("remove", k, "remove_item")

\* looks for the item in the node, and in a child before the node is left
remove_item ==
  /\ pc = "remove_item" /\ at.nd # NULL
  /\ LET c == tx.heap[at.nd]
         i == ScanIdx(c, cmd.key)
     IN  IF ScanStops(c, cmd.key) = {} THEN GoOn(tx, "walk_up", at, path)
         ELSE IF ~NODE_CONTAINS_ITEM(c, i, cmd.key)
              THEN GoOn(tx, pc, Frame(c.slots[i], at.nd, i), <<at>> \o path)
         ELSE IF c.slots[0] = NULL
              THEN GoOn(remove_from_leaf(tx, at.nd, i), "walk_up", at, path)
         ELSE GoOn(tx, "get_leftmost_leaf", Frame(c.slots[i + 1], at.nd, i), <<at>> \o path)

\* goes down to the leaf of the successor; p is the index of the item in the
\* node the removal found it in, which waits
get_leftmost_leaf ==
  /\ pc = "get_leftmost_leaf" /\ at.nd # NULL
  /\ LET s == tx.heap[at.nd].slots[0]
     IN  IF s # NULL THEN GoOn(tx, pc, Frame(s, at.nd, at.p), path)
         ELSE GoOn(replace_by_successor(tx, Head(path).nd, at.p, at.nd, at.parent),
                   "walk_up", Head(path), Tail(path))

\* check for deficient nodes walking up
walk_up ==
  /\ pc = "walk_up"
  /\ LET t == IF at.parent = NULL \/ tx.heap[at.nd].n >= MINKEYS THEN tx
              ELSE rebalance(tx, at.nd, at.parent, at.p)
     IN  IF path = <<>> THEN EndTx(t, cmd)
         ELSE GoOn(t, pc, Head(path), Tail(path))

\* an operation of the map's interface that mapcli has no command for
btree_map_clear ==
  /\ root # NULL
  /\ EndTx(map_clear(TxBegin(heap, root, live)), [op |-> "clear", key |-> 0])

\* the session begins on a new pool with the insertions of one of InitSeqs
Init ==
  /\ heap = [nd \in Nodes |-> ZeroNode] /\ root = NULL /\ live = {}
  /\ bag = [k \in Keys |-> 0]
  /\ tx = TxBegin(heap, root, live) /\ cmd = [op |-> "open", key |-> 0]
  /\ pc = "idle" /\ at = Frame(NULL, NULL, 0) /\ path = <<>>
  /\ script \in InitSeqs
  /\ ops = 0 /\ zeros = FALSE

Load ==
  /\ pc = "idle" /\ script # <<>>
  /\ str_insert(Head(script))
  /\ script' = Tail(script) /\ UNCHANGED ops

Command ==
  /\ pc = "idle" /\ script = <<>> /\ ops < MaxOps
  /\ \/ \E k \in Typed : str_insert(k) \/ str_remove(k)
     \/ btree_map_clear
  /\ ops' = ops + 1 /\ UNCHANGED script

Recursion ==
  /\ find_dest_node \/ remove_item \/ get_leftmost_leaf \/ walk_up
  /\ UNCHANGED <<script, ops>>

Next == Load \/ Command \/ Recursion

Spec == Init /\ [][Next]_btvars

-----------------------------------------------------------------------------
(* Properties.                                                             *)

\* the nodes below the root, all their keys in order, and the leaves' depths
Subtree ==
  LET sub[nd \in {NULL} \cup Nodes] ==
        IF nd = NULL THEN {}
        ELSE {nd} \cup UNION {sub[heap[nd].slots[i]] : i \in 0..heap[nd].n}
  IN  sub[root]

InOrder ==
  LET walk[nd \in {NULL} \cup Nodes] ==
        IF nd = NULL THEN <<>>
        ELSE LET c == heap[nd]
             IN  Concat([i \in 0..c.n |-> walk[c.slots[i]] \o
                          (IF i # c.n THEN <<c.items[i]>> ELSE <<>>)], c.n)
  IN  walk[root]

LeafDepths ==
  LET depths[nd \in Nodes] ==
        IF heap[nd].slots[0] = NULL THEN {0}
        ELSE {d + 1 : d \in UNION {depths[heap[nd].slots[i]] : i \in 0..heap[nd].n}}
  IN  depths[root]

\* Whatever the commands split, rotate, merge and copy, an in-order walk of the
\* tree meets exactly the keys inserted and not removed, each as often as it
\* was inserted, in ascending order: no step of find_dest_node, rebalance or
\* remove_from_node loses, duplicates or misplaces an item.  All leaves stay at
\* one depth and nothing reachable has been freed: a node that merge frees is
\* unlinked in the same transaction, also when the tree loses a level.  A
\* removal of a key the map holds never aborts, so it takes effect.  While an
\* operation runs, no node it looks at is null or has been freed (walking up,
\* remove_item does not look at a node without a parent).  All this until two
\* items with key 0 are in the map: rotate_left inserts a separator 0 in front
\* of an item 0, which insert_item overwrites.
TreeSound ==
  ~ zeros =>
    /\ pc = "idle" =>
         LET s == InOrder
         IN  /\ root # NULL => Cardinality(LeafDepths) = 1 /\ Subtree \subseteq live
             /\ \A i \in 1..(Len(s) - 1) : s[i] <= s[i + 1]
             /\ \A k \in Keys : bag[k] = Cardinality({i \in DOMAIN s : s[i] = k})
             /\ tx.aborted => cmd.op = "insert"
    /\ pc # "idle" /\ (pc = "walk_up" => at.parent # NULL) => at.nd \in tx.live

\* The search of btree_map_lookup, which looks into one child only, finds a key
\* exactly when the tree holds it.
SearchAgrees == pc = "idle" /\ ~ zeros => \A k \in Keys : map_lookup(k) <=> bag[k] > 0

\* Every location an operation has changed was given to TX_ADD before, or
\* belongs to a node the transaction allocated, at every step of the operation:
\* an abort or a crash in the middle restores the tree it began with
\* (rotate_left and rotate_right add single fields, not the node).
TxCovered == tx.loose = {}

Orphans == live \ Subtree

\* An insertion into a tree with items and a removal leave no node behind:
\* allocated and unreachable nodes appear only where the code drops them, in
\* clear_node (the child after the last item) and in insert_empty (an emptied
\* root).
NoNewOrphans ==
  [][cmd'.op = "remove" \/ (cmd'.op = "insert" /\ root # NULL /\ heap[root].n > 0)
       => Orphans' = Orphans]_btvars
=============================================================================
