-------------------------------- MODULE Hoh --------------------------------
(***************************************************************************)
(* examples/kelly_hoh_code/hoh.c: threads walk a list in persistent memory *)
(* hand over hand, locking the next node before they unlock the previous   *)
(* one, and increment every node but the head.                             *)
(*                                                                         *)
(* A traversal is a call of hoh(): main makes the first two itself, one    *)
(* after the other, and then starts one per thread.  Nodes are 1..ListLen, *)
(* the head is 1 and the next of k is k + 1.                               *)
(***************************************************************************)
EXTENDS Integers, FiniteSets

CONSTANTS
  ListLen,      \* nodes of the list (7 in the code)
  NTHREADS      \* threads that main starts (4 in the code)

ASSUME HohAssumption == ListLen \in Nat \ {0} /\ NTHREADS \in Nat

Serial == 2
Travs == 1..(Serial + NTHREADS)
ListNodes == 1..ListLen
Free == 0

VARIABLES
  owner,        \* node -> the traversal that holds its mutex, or Free
  data,         \* node -> its data, a persistent counter
  hpc,          \* traversal -> where it is
  prev,         \* traversal -> p, or 0 after UNLK(p)
  next,         \* traversal -> n
  seen,         \* traversal -> the value of data it is incrementing
  vals,         \* what the argument array on main's stack holds: a traversal
  id,           \* traversal -> the identity it read from its arguments
  created,      \* traversals main has begun or started
  joined,       \* traversals main has seen the end of
  ticket,       \* history: traversal -> its turn at the head's mutex, or 0
  turns         \* history: how many took the head's mutex

hvars == <<owner, data, hpc, prev, next, seen, vals, id, created, joined, ticket, turns>>

HInit ==
  /\ owner = [k \in ListNodes |-> Free]
  /\ data = [k \in ListNodes |-> k - 1]
  /\ hpc = [t \in Travs |-> "off"]
  /\ prev = [t \in Travs |-> 0]
  /\ next = [t \in Travs |-> 0]
  /\ seen = [t \in Travs |-> 0]
  /\ vals = 0
  /\ id = [t \in Travs |-> 0]
  /\ created = 0
  /\ joined = Serial
  /\ ticket = [t \in Travs |-> 0]
  /\ turns = 0

-----------------------------------------------------------------------------
(* main: the serial calls return before the next call or thread starts; the *)
(* argument array is overwritten for every thread.                         *)

Create(t) ==
  /\ t = created + 1
  /\ created < Serial + NTHREADS
  /\ \A s \in Travs : s <= Serial /\ s <= created => hpc[s] = "done"
  /\ created' = t
  /\ vals' = t
  /\ hpc' = [hpc EXCEPT ![t] = "start"]
  /\ UNCHANGED <<owner, data, prev, next, seen, id, joined, ticket, turns>>

Join(t) ==
  /\ created = Serial + NTHREADS
  /\ t = joined + 1
  /\ hpc[t] = "done"
  /\ joined' = t
  /\ UNCHANGED <<owner, data, hpc, prev, next, seen, vals, id, created, ticket, turns>>

-----------------------------------------------------------------------------
(* hoh().                                                                  *)

Begin(t) ==
  /\ hpc[t] = "start"
  /\ id' = [id EXCEPT ![t] = vals]
  /\ prev' = [prev EXCEPT ![t] = 1]
  /\ hpc' = [hpc EXCEPT ![t] = "head"]
  /\ UNCHANGED <<owner, data, next, seen, vals, created, joined, ticket, turns>>

LockHead(t) ==
  /\ hpc[t] = "head"
  /\ owner[1] = Free
  /\ owner' = [owner EXCEPT ![1] = t]
  /\ turns' = turns + 1
  /\ ticket' = [ticket EXCEPT ![t] = turns + 1]
  /\ hpc' = [hpc EXCEPT ![t] = "loop"]
  /\ UNCHANGED <<data, prev, next, seen, vals, id, created, joined>>

\* mutant: p is unlocked before n is locked
Advance_UnlockFirst(t) ==
  /\ hpc[t] = "loop"
  /\ next' = [next EXCEPT ![t] = IF prev[t] < ListLen THEN prev[t] + 1 ELSE 0]
  /\ hpc' = [hpc EXCEPT ![t] = IF prev[t] < ListLen THEN "next" ELSE "last"]
  /\ owner' = [owner EXCEPT ![prev[t]] = Free]
  /\ UNCHANGED <<data, prev, seen, vals, id, created, joined, ticket, turns>>
\* the loop condition: n = p->next, read while p is locked
Advance(t) ==
  /\ hpc[t] = "loop"
  /\ next' = [next EXCEPT ![t] = IF prev[t] < ListLen THEN prev[t] + 1 ELSE 0]
  /\ hpc' = [hpc EXCEPT ![t] = IF prev[t] < ListLen THEN "next" ELSE "last"]
  /\ UNCHANGED <<owner, data, prev, seen, vals, id, created, joined, ticket, turns>>

\* mutant: the result of a failed lock is not looked at
LockNext_NoLock(t) ==
  /\ hpc[t] = "next"
  /\ owner' = [owner EXCEPT ![next[t]] = t]
  /\ hpc' = [hpc EXCEPT ![t] = "prev"]
  /\ UNCHANGED <<data, prev, next, seen, vals, id, created, joined, ticket, turns>>
LockNext(t) ==
  /\ hpc[t] = "next"
  /\ owner[next[t]] = Free
  /\ owner' = [owner EXCEPT ![next[t]] = t]
  /\ hpc' = [hpc EXCEPT ![t] = "prev"]
  /\ UNCHANGED <<data, prev, next, seen, vals, id, created, joined, ticket, turns>>

UnlockPrev(t) ==
  /\ hpc[t] = "prev"
  /\ owner' = [owner EXCEPT ![prev[t]] = Free]
  /\ prev' = [prev EXCEPT ![t] = 0]
  /\ hpc' = [hpc EXCEPT ![t] = "read"]
  /\ UNCHANGED <<data, next, seen, vals, id, created, joined, ticket, turns>>

\* data++ is a load and a store
ReadData(t) ==
  /\ hpc[t] = "read"
  /\ seen' = [seen EXCEPT ![t] = data[next[t]]]
  /\ hpc' = [hpc EXCEPT ![t] = "write"]
  /\ UNCHANGED <<owner, data, prev, next, vals, id, created, joined, ticket, turns>>

WriteData(t) ==
  /\ hpc[t] = "write"
  /\ data' = [data EXCEPT ![next[t]] = seen[t] + 1]
  /\ prev' = [prev EXCEPT ![t] = next[t]]
  /\ hpc' = [hpc EXCEPT ![t] = "loop"]
  /\ UNCHANGED <<owner, next, seen, vals, id, created, joined, ticket, turns>>

\* mutant: the last node stays locked
UnlockLast_Forgets(t) ==
  /\ hpc[t] = "last"
  /\ hpc' = [hpc EXCEPT ![t] = "done"]
  /\ UNCHANGED <<owner, data, prev, next, seen, vals, id, created, joined, ticket, turns>>
UnlockLast(t) ==
  /\ hpc[t] = "last"
  /\ owner' = [owner EXCEPT ![prev[t]] = Free]
  /\ prev' = [prev EXCEPT ![t] = 0]
  /\ hpc' = [hpc EXCEPT ![t] = "done"]
  /\ UNCHANGED <<data, next, seen, vals, id, created, joined, ticket, turns>>

Traverse(t) ==
  \/ Begin(t) \/ LockHead(t) \/ Advance(t) \/ LockNext(t) \/ UnlockPrev(t)
  \/ ReadData(t) \/ WriteData(t) \/ UnlockLast(t)

HNext == \E t \in Travs : Create(t) \/ Join(t) \/ Traverse(t)

HSpec == HInit /\ [][HNext]_hvars

\* whoever can go on, main or a thread, some of them does; pthread_mutex_lock
\* returns when the mutex is free
HFairness == WF_hvars(HNext)

-----------------------------------------------------------------------------
(* Properties.                                                             *)

\* where a traversal stands: the node nearest the end whose mutex it holds, 0
\* before it has one, past the end when it is done
Frontier(t) ==
  IF hpc[t] \in {"off", "start", "head"} THEN 0
  ELSE IF hpc[t] \in {"loop", "next", "last"} THEN prev[t]
  ELSE IF hpc[t] = "done" THEN ListLen + 1
  ELSE next[t]

\* the mutexes t holds
Held(t) ==
  IF hpc[t] \in {"loop", "next", "last"} THEN {prev[t]}
  ELSE IF hpc[t] = "prev" THEN {prev[t], next[t]}
  ELSE IF hpc[t] \in {"read", "write"} THEN {next[t]}
  ELSE {}

HTypeOK ==
  /\ owner \in [ListNodes -> Travs \cup {Free}]
  /\ data \in [ListNodes -> Int]
  /\ hpc \in [Travs -> {"off", "start", "head", "loop", "next", "prev", "read", "write",
                        "last", "done"}]
  /\ prev \in [Travs -> 0..ListLen]
  /\ next \in [Travs -> 0..ListLen]
  /\ seen \in [Travs -> Int]
  /\ vals \in Travs \cup {0}
  /\ id \in [Travs -> Travs \cup {0}]
  /\ created \in Nat /\ joined \in Nat
  /\ ticket \in [Travs -> Nat] /\ turns \in Nat

\* Traversals never overtake: whoever locked the head first is strictly ahead
\* of the later ones all the way down the list, whatever the order in which
\* LOCK(n), UNLK(p) and the loop of different threads interleave.
NoOvertaking ==
  \A t, u \in Travs :
    /\ ticket[t] # 0 /\ ticket[u] # 0 /\ ticket[t] < ticket[u]
    => Frontier(t) > Frontier(u) \/ (hpc[t] = "done" /\ hpc[u] = "done")

\* t has incremented node k
Passed(t, k) == Frontier(t) > k \/ (Frontier(t) = k /\ hpc[t] \in {"loop", "next", "last"})

\* No increment is lost, although data++ is a load and a store: a node's
\* counter is its initial value plus the number of traversals that have passed
\* its increment.
NoLostIncrement ==
  \A k \in ListNodes \ {1} :
    data[k] = (k - 1) + Cardinality({t \in Travs : Passed(t, k)})

\* While a node is being incremented its value does not change under the
\* traversal that has read it.
ReadIsCurrent ==
  \A t \in Travs : hpc[t] = "write" => seen[t] = data[next[t]]

\* What a traversal's place says of its pointers, and the tickets.
PlaceOK(t) ==
  /\ hpc[t] = "head" => prev[t] = 1
  /\ hpc[t] \in {"loop", "next", "prev"} => prev[t] \in ListNodes
  /\ hpc[t] \in {"next", "prev"} => prev[t] < ListLen /\ next[t] = prev[t] + 1
  /\ hpc[t] \in {"read", "write"} => next[t] \in ListNodes
  /\ hpc[t] = "last" => prev[t] = ListLen
  /\ ticket[t] = 0 <=> hpc[t] \in {"off", "start", "head"}
  /\ ticket[t] <= turns
  /\ hpc[t] = "off" <=> t > created
Places == \A t \in Travs : PlaceOK(t)

\* A mutex is owned by t exactly while t is between its LOCK and its UNLK.
OwnerHolds == \A t \in Travs : \A k \in ListNodes : owner[k] = t <=> k \in Held(t)

\* The inductive invariant.
HInv == HTypeOK /\ Places /\ OwnerHolds /\ NoOvertaking /\ ReadIsCurrent

\* Every traversal comes to its end and main joins every thread: hand over
\* hand locking in list order cannot leave two threads waiting for each other.
AllJoined == created > 0 ~> joined = Serial + NTHREADS
=============================================================================
