------------------------------- MODULE PmdkTx -------------------------------
(***************************************************************************)
(* libpmdkemul: libpmemobj's transactions on top of snapshot().  A thread  *)
(* keeps a nesting level and the pool of the last TX_BEGIN; the outermost  *)
(* TX_END takes a snapshot of that pool.  A store is two steps, checkMemory *)
(* and the store, and snapshot() two per log, the walk that copies what is *)
(* in range and the clear(), so that threads get in between.  What happens *)
(* within one walk is in Threads, and failures are in Snapshot.            *)
(* The logs are walked in any order (the code's is that in which threads   *)
(* first logged), and operations on one log are taken to be atomic.        *)
(* Allocation and roots are boost's managed mapped file (external).        *)
(***************************************************************************)
EXTENDS Integers

CONSTANTS Thread, Pools, Objects,
          MaxLevel,     \* bound: nesting of transactions
          MaxTxs,       \* bound: transactions
          MaxTxStores   \* bound: stores

ASSUME PmdkAssumption ==
  /\ MaxLevel \in Nat /\ MaxTxs \in Nat /\ MaxTxStores \in Nat
  /\ "NULL" \notin Pools /\ Thread \cap {"idle", "next"} = {}

VARIABLES
  opened,       \* pools that pmemobj_open or pmemobj_create returned
  level,        \* thread -> tx_tls_obj.level
  mmf_obj,      \* thread -> tx_tls_obj.mmf_obj, a pool or "NULL"
  logs,         \* thread -> the <<pool, object>> pairs in its log
  logged,       \* thread -> the pair it has logged and not yet stored, or NoStore
  todo,         \* thread -> the threads whose logs its snapshot has to walk
  walking,      \* thread -> the thread whose log its snapshot has walked and
                \* not cleared, "next", or "idle" outside snapshot()
  firstTime,    \* firstSnapshot
  dur,          \* pairs whose last store is in the backing file
  txs, txstores,
  wrote,        \* history: what each thread stored in its transaction and no
                \* other thread has stored since
  mixed,        \* history: another pool took part in its transaction, or a
                \* snapshot of another pool met its log
  overtaken     \* history: another thread's snapshot walked its log between a
                \* checkMemory and the store, or had walked and not cleared it

txvars == <<opened, level, mmf_obj, logs, logged, todo, walking, firstTime, dur, txs, txstores,
            wrote, mixed, overtaken>>

NoStore == <<>>
Stored == Objects \cup {"heap"}

TxInit ==
  /\ opened = {} /\ level = [t \in Thread |-> 0] /\ mmf_obj = [t \in Thread |-> "NULL"]
  /\ logs = [t \in Thread |-> {}] /\ logged = [t \in Thread |-> NoStore]
  /\ todo = [t \in Thread |-> {}] /\ walking = [t \in Thread |-> "idle"]
  /\ firstTime = TRUE /\ dur = {} /\ txs = 0 /\ txstores = 0
  /\ wrote = [t \in Thread |-> {}]
  /\ mixed = [t \in Thread |-> FALSE] /\ overtaken = [t \in Thread |-> FALSE]

\* the thread is neither in snapshot() nor between checkMemory and its store
Ready(t) == walking[t] = "idle" /\ logged[t] = NoStore

\* pmemobj_open of a file that exists, pmemobj_create; open of one that does
\* not exist returns NULL and changes nothing
OpenPool(p) ==
  /\ p \notin opened /\ opened' = opened \cup {p}
  /\ UNCHANGED <<level, mmf_obj, logs, logged, todo, walking, firstTime, dur, txs, txstores,
                 wrote, mixed, overtaken>>

TX_BEGIN(t, p) ==
  /\ Ready(t) /\ p \in opened /\ level[t] < MaxLevel
  /\ IF level[t] = 0 THEN txs < MaxTxs /\ txs' = txs + 1 ELSE UNCHANGED txs
  /\ mixed' = [mixed EXCEPT ![t] = @ \/ (level[t] # 0 /\ mmf_obj[t] # p)]
  /\ mmf_obj' = [mmf_obj EXCEPT ![t] = p]
  /\ level' = [level EXCEPT ![t] = @ + 1]
  /\ UNCHANGED <<opened, logs, logged, todo, walking, firstTime, dur, txstores, wrote, overtaken>>

\* checkMemory: the entry of an instrumented store of thread t
LogStore(t, p, o) ==
  /\ Ready(t) /\ txstores < MaxTxStores
  /\ logs' = [logs EXCEPT ![t] = @ \cup {<<p, o>>}]
  /\ logged' = [logged EXCEPT ![t] = <<p, o>>]
  /\ overtaken' = [overtaken EXCEPT ![t] = @ \/ (mmf_obj[t] # "NULL" /\ \E u \in Thread : walking[u] = t)]
  /\ UNCHANGED <<opened, level, mmf_obj, todo, walking, firstTime, dur, txs, txstores, wrote>>

\* a store through D_RW to an object of the pool of the transaction
D_RW_store(t, o) ==
  /\ level[t] # 0 /\ LogStore(t, mmf_obj[t], o)
  /\ UNCHANGED mixed

\* pmemobj_tx_alloc, pmemobj_tx_zalloc: the pool's allocator is written; the
\* assertion of mmf_alloc ends a program that allocates outside a transaction
\* (as do pmemobj_close and the other functions that are not implemented)
pmemobj_tx_alloc(t) ==
  /\ mmf_obj[t] # "NULL" /\ LogStore(t, mmf_obj[t], "heap")
  /\ UNCHANGED mixed

\* mmf_get_or_alloc_root: a root that is not found is constructed in the heap
POBJ_ROOT(t, p) ==
  /\ p \in opened /\ LogStore(t, p, "heap")
  /\ mixed' = [mixed EXCEPT ![t] = @ \/ (level[t] # 0 /\ mmf_obj[t] # p)]

\* the store that checkMemory precedes
TxStore(t) ==
  /\ logged[t] # NoStore
  /\ logged' = [logged EXCEPT ![t] = NoStore]
  /\ dur' = dur \ {logged[t]} /\ txstores' = txstores + 1
  /\ wrote' = [u \in Thread |-> IF u # t THEN wrote[u] \ {logged[t]}
                                ELSE IF level[t] = 0 THEN wrote[t] ELSE wrote[t] \cup {logged[t]}]
  /\ UNCHANGED <<opened, level, mmf_obj, logs, todo, walking, firstTime, txs, mixed, overtaken>>

\* mutant: the level is compared before it is decremented
TX_END_Late(t) ==
  /\ Ready(t) /\ level[t] # 0
  /\ level' = [level EXCEPT ![t] = @ - 1]
  /\ wrote' = [wrote EXCEPT ![t] = IF level[t] = 1 THEN {} ELSE @]
  /\ mmf_obj' = IF level[t] = 1 THEN [mmf_obj EXCEPT ![t] = "NULL"] ELSE mmf_obj
  /\ UNCHANGED <<opened, logs, logged, todo, walking, firstTime, dur, txs, txstores, mixed, overtaken>>
TX_END(t) ==
  /\ Ready(t) /\ level[t] # 0
  /\ level' = [level EXCEPT ![t] = @ - 1]
  /\ IF level[t] = 1
     THEN walking' = [walking EXCEPT ![t] = "next"] /\ todo' = [todo EXCEPT ![t] = Thread]
     ELSE UNCHANGED <<walking, todo>>
  /\ UNCHANGED <<opened, mmf_obj, logs, logged, firstTime, dur, txs, txstores, wrote, mixed, overtaken>>

\* mmf_snapshot, snapshot(): the next log, of which only what lies in the pool
\* is copied; the first snapshot of the process begins with the whole pool
TxWalk(t, u) ==
  /\ walking[t] = "next" /\ u \in todo[t]
  /\ walking' = [walking EXCEPT ![t] = u] /\ todo' = [todo EXCEPT ![t] = @ \ {u}]
  /\ dur' = dur \cup {e \in logs[u] : e[1] = mmf_obj[t]}
                \cup (IF firstTime THEN {mmf_obj[t]} \X Stored ELSE {})
  /\ firstTime' = FALSE
  /\ mixed' = [mixed EXCEPT ![u] = @ \/ (mmf_obj[u] # "NULL" /\ mmf_obj[u] # mmf_obj[t])]
  /\ overtaken' = [overtaken EXCEPT ![u] = @ \/ (mmf_obj[u] # "NULL" /\ logged[u] # NoStore)]
  /\ UNCHANGED <<opened, level, mmf_obj, logs, logged, txs, txstores, wrote>>

\* drain, EMPTY and clear(), whether an entry was in range or not
TxClear(t) ==
  /\ walking[t] \in Thread
  /\ logs' = [logs EXCEPT ![walking[t]] = {}]
  /\ walking' = [walking EXCEPT ![t] = "next"]
  /\ UNCHANGED <<opened, level, mmf_obj, logged, todo, firstTime, dur, txs, txstores,
                 wrote, mixed, overtaken>>

\* snapshot() returns, and TX_END forgets the pool
TxReturn(t) ==
  /\ walking[t] = "next" /\ todo[t] = {}
  /\ walking' = [walking EXCEPT ![t] = "idle"]
  /\ mmf_obj' = [mmf_obj EXCEPT ![t] = "NULL"] /\ wrote' = [wrote EXCEPT ![t] = {}]
  /\ mixed' = [mixed EXCEPT ![t] = FALSE] /\ overtaken' = [overtaken EXCEPT ![t] = FALSE]
  /\ UNCHANGED <<opened, level, logs, logged, todo, firstTime, dur, txs, txstores>>

TxNext ==
  \/ \E p \in Pools : OpenPool(p)
  \/ \E t \in Thread, p \in Pools : TX_BEGIN(t, p) \/ POBJ_ROOT(t, p)
  \/ \E t \in Thread : pmemobj_tx_alloc(t) \/ \E o \in Objects : D_RW_store(t, o)
  \/ \E t \in Thread : TxStore(t) \/ TX_END(t) \/ TxClear(t) \/ TxReturn(t)
  \/ \E t, u \in Thread : TxWalk(t, u)

TxSpec == TxInit /\ [][TxNext]_txvars

-----------------------------------------------------------------------------
(* Properties.                                                             *)

\* When a thread's outermost TX_END is over, all it stored in the transaction
\* and no other thread has overwritten is durable, whatever was nested in it and
\* however often other threads have walked and cleared its log, as long as no
\* other pool took part or met the log, and no other thread's snapshot overtook
\* one of its stores: walked the log after the store's checkMemory and before the
\* store, or had walked it and not yet cleared it.
TxDurable ==
  [][\A t \in Thread :
       mmf_obj[t] # "NULL" /\ mmf_obj'[t] = "NULL" /\ ~ mixed[t] /\ ~ overtaken[t]
         => wrote[t] \subseteq dur']_txvars

\* The inductive invariant behind it, for every thread t.  In a transaction of
\* one pool that nothing overtook, what t stored is in its log or durable; once
\* somebody's snapshot, or its own, has walked its log it is all durable; and
\* between checkMemory and the store the entry is in the log, which nobody walks.
Undisturbed(t) == mmf_obj[t] # "NULL" /\ ~ mixed[t] /\ ~ overtaken[t]
TxTypeOK ==
  /\ level \in [Thread -> Nat] /\ mixed \in [Thread -> BOOLEAN] /\ overtaken \in [Thread -> BOOLEAN]
  /\ DOMAIN mmf_obj = Thread /\ DOMAIN wrote = Thread /\ DOMAIN logs = Thread
  /\ DOMAIN logged = Thread /\ DOMAIN walking = Thread /\ DOMAIN todo = Thread
TxPlace(t) ==
  /\ mmf_obj[t] = "NULL" <=> level[t] = 0 /\ walking[t] = "idle"
  /\ mmf_obj[t] = "NULL" => wrote[t] = {}
  /\ walking[t] # "idle" => level[t] = 0 /\ logged[t] = NoStore
TxSafe(t) ==
  Undisturbed(t) =>
    /\ \A e \in wrote[t] : e[1] = mmf_obj[t] /\ e \in dur \cup logs[t]
    /\ (\E u \in Thread : walking[u] = t) => wrote[t] \subseteq dur
    /\ walking[t] # "idle" /\ t \notin todo[t] => wrote[t] \subseteq dur
    /\ logged[t] # NoStore => /\ logged[t] \in logs[t] /\ logged[t][1] = mmf_obj[t]
                              /\ \A u \in Thread : walking[u] # t
TxInv == TxTypeOK /\ \A t \in Thread : TxPlace(t) /\ TxSafe(t)
=============================================================================
