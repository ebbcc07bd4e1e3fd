----------------------------- MODULE LinkedList -----------------------------
(***************************************************************************)
(* examples/linkedlist_tx (and linkedlist_tx_cxlfs, the same code): a list *)
(* in a mapped file with a head and a tail pointer, synchronised by msync  *)
(* after the operations.  Nodes come from boost's allocator (external):    *)
(* any node that is not allocated, with what was last stored in it.        *)
(* msync is failure-atomic (Msync); a failure brings back the image of the *)
(* last one.                                                               *)
(***************************************************************************)
EXTENDS Integers, Sequences

CONSTANTS LNodes, LData, MaxLen,
          MaxListOps    \* bound: commands typed

nullptr == 0

ASSUME ListAssumption == nullptr \notin LNodes /\ MaxLen \in Nat /\ MaxListOps \in Nat

VARIABLES
  ll,           \* the list: head, tail, and next and data of every node, and
                \* which nodes are allocated
  synced,       \* ll as of the last msync
  lrun,         \* the program is running
  listops,
  shadow,       \* history: the values that should be on the list
  shadow_sync   \* history: the same as of the last msync

llvars == <<ll, synced, lrun, listops, shadow, shadow_sync>>

\* the memset of a new root
EmptyList ==
  [head |-> nullptr, tail |-> nullptr, next |-> [n \in LNodes |-> nullptr],
   data |-> [n \in LNodes |-> 0], used |-> {}]

LlInit ==
  /\ ll = EmptyList /\ synced = EmptyList /\ lrun = FALSE /\ listops = 0
  /\ shadow = <<>> /\ shadow_sync = <<>>

\* at the tail
append_node(l, n, val) ==
  LET m == [l EXCEPT !.used = @ \cup {n}, !.next[n] = nullptr]
  IN  IF l.head = nullptr
      THEN [m EXCEPT !.head = n, !.tail = n, !.data[n] = val]
      ELSE [m EXCEPT !.next[l.tail] = n, !.tail = n, !.data[n] = val]

\* mutant: the last node leaves the tail behind
pop_head_KeepTail(l) ==
  IF l.head = nullptr THEN l
  ELSE [l EXCEPT !.head = l.next[l.head], !.used = @ \ {l.head}]
\* the last node takes the tail with it; an empty list stays
pop_head(l) ==
  IF l.head = nullptr THEN l
  ELSE IF l.head = l.tail
  THEN [l EXCEPT !.head = nullptr, !.tail = nullptr, !.used = @ \ {l.head}]
  ELSE [l EXCEPT !.head = l.next[l.head], !.used = @ \ {l.head}]

append_head(l, n, val) ==
  [l EXCEPT !.used = @ \cup {n}, !.data[n] = val, !.next[n] = l.head, !.head = n,
            !.tail = IF l.tail = nullptr THEN n ELSE @]

msync(l, s) == ll' = l /\ synced' = l /\ shadow' = s /\ shadow_sync' = s

\* main: the root is found, a node is put in front and taken away again;
\* pop_head's msync is the first to make anything of it durable
ListStart(n) ==
  /\ ~ lrun /\ lrun' = TRUE
  /\ n \notin ll.used
  /\ msync(pop_head(append_head(ll, n, 1)), shadow)
  /\ UNCHANGED listops

Typing == lrun /\ listops < MaxListOps /\ listops' = listops + 1

\* 'i'; 'A' is many of them
Append_(n, val) ==
  /\ Typing /\ n \notin ll.used /\ Len(shadow) < MaxLen
  /\ msync(append_node(ll, n, val), Append(shadow, val))
  /\ UNCHANGED lrun

\* 'f': the process exits before its msync
AppendAndExit(n, val) ==
  /\ Typing /\ n \notin ll.used
  /\ lrun' = FALSE
  /\ ll' = synced /\ shadow' = shadow_sync
  /\ UNCHANGED <<synced, shadow_sync>>

\* what a removal leaves of the values: the help text (linkedlist_tx.cc:41-42,
\* 50-51) takes the one at the tail, pop_head the one at the head; either is
\* right here, at the end at which the list was cut
Popped(l) ==
  IF shadow = <<>> THEN shadow
  ELSE IF l.head = ll.head THEN SubSeq(shadow, 1, Len(shadow) - 1) ELSE Tail(shadow)

\* 'r'; 'R' is many of them
Pop ==
  /\ Typing
  /\ msync(pop_head(ll), Popped(pop_head(ll)))
  /\ UNCHANGED lrun

\* the process ends, or fails anywhere in a command
ListStop ==
  /\ lrun /\ lrun' = FALSE
  /\ ll' = synced /\ shadow' = shadow_sync
  /\ UNCHANGED <<synced, shadow_sync, listops>>

LlNext ==
  \/ \E n \in LNodes : ListStart(n)
  \/ \E n \in LNodes, val \in LData : Append_(n, val) \/ AppendAndExit(n, val)
  \/ Pop \/ ListStop

LlSpec == LlInit /\ [][LlNext]_llvars

-----------------------------------------------------------------------------
(* Properties.                                                             *)

\* the node after k steps from the head, as count_nodes, print_nodes and
\* sum_nodes follow them; at most one more than there can be
Follow[k \in 0..(MaxLen + 1)] ==
  IF k = 0 THEN ll.head
  ELSE IF Follow[k - 1] = nullptr THEN nullptr ELSE ll.next[Follow[k - 1]]
Steps == {k \in 0..(MaxLen + 1) : Follow[k] # nullptr}

\* Walking from the head, as count_nodes, print_nodes and sum_nodes do, visits
\* exactly the allocated nodes once each, meets the values that were appended
\* less one per removal, in order, and ends at the tail, however memory of
\* popped nodes is used again and wherever the program is stopped.  A removal
\* takes exactly one value, at one end: which end the property leaves open (the
\* help text says the tail, pop_head takes the head).
ListExact ==
  /\ Steps = 0..(Len(shadow) - 1)
  /\ \A k \in Steps : ll.data[Follow[k]] = shadow[k + 1]
  /\ \A j, k \in Steps : Follow[j] = Follow[k] => j = k
  /\ {Follow[k] : k \in Steps} = ll.used
  /\ ll.tail = IF shadow = <<>> THEN nullptr ELSE Follow[Len(shadow) - 1]
=============================================================================
