------------------------------ MODULE Threads ------------------------------
(***************************************************************************)
(* Several threads of one process: each has its own log, snapshot() of any *)
(* of them walks all the logs and empties them, and nothing is locked.     *)
(* A store is two steps, checkMemory and the store itself, and snapshot()  *)
(* one per entry, so that everything interleaves.                          *)
(*                                                                         *)
(* What one log is on the media, and failures, are in Snapshot; here a log *)
(* is the volatile list of its entries, and a word is one entry.  Two      *)
(* snapshots at a time, and a thread that makes its log during a snapshot, *)
(* are unsynchronised uses of one std::vector and are left out; an append  *)
(* to a log that is being walked, and the sort of a log, are taken to be   *)
(* atomic.                                                                 *)
(***************************************************************************)
EXTENDS Integers, Sequences

CONSTANTS
  Thr,
  TWords,       \* the addresses of the words
  SortOver,     \* a log of more entries is sorted before it is walked (10 in the code)
  MaxTStores,   \* bound: stores
  MaxTSnaps     \* bound: snapshots

VARIABLES
  tmem, tback,      \* word -> its version in memory and in the backing file
  entries,          \* thread -> the entries of its log
  tls_logs,         \* the threads whose logs are registered, in order
  pend,             \* thread -> the word it has logged and not yet stored, or NoWord
  storeInstEnabled, firstSnapshot,
  caller,           \* the thread in snapshot(), or NoThread
  phase, nth, pos,  \* snapshot(): where it is, in which log, entries it has passed
  tstores, tsnaps,
  calm,             \* history: no other thread did or was about to do anything
                    \* since the snapshot began
  raced             \* history: words stored when no entry that will be copied has them

thvars == <<tmem, tback, entries, tls_logs, pend, storeInstEnabled, firstSnapshot, caller,
            phase, nth, pos, tstores, tsnaps, calm, raced>>
snvars == <<caller, phase, nth, pos, tsnaps>>

NoWord == -1
NoThread == "no thread"

ASSUME ThreadsAssumption == TWords \subseteq Nat /\ NoThread \notin Thr /\ SortOver \in Nat

\* the threads that have a log
Registered == {tls_logs[i] : i \in DOMAIN tls_logs}

ThInit ==
  /\ tmem = [w \in TWords |-> 0] /\ tback = tmem
  /\ entries = [t \in Thr |-> <<>>] /\ tls_logs = <<>>
  /\ pend = [t \in Thr |-> NoWord]
  /\ storeInstEnabled = FALSE /\ firstSnapshot = TRUE
  /\ caller = NoThread /\ phase = "none" /\ nth = 0 /\ pos = 0
  /\ tstores = 0 /\ tsnaps = 0 /\ calm = FALSE /\ raced = {}

\* the log of a thread is made when the thread first uses it
cxlbuf_reg_tls_log(t) ==
  /\ caller = NoThread /\ t \notin Registered
  /\ tls_logs' = Append(tls_logs, t)
  /\ UNCHANGED <<tmem, tback, entries, pend, storeInstEnabled, firstSnapshot, snvars, tstores,
                 calm, raced>>

\* checkMemory, with log_range
checkMemory(t, w) ==
  /\ t \in Registered /\ t # caller /\ pend[t] = NoWord /\ tstores < MaxTStores
  /\ entries' = [entries EXCEPT ![t] = Append(@, w)]
  /\ pend' = [pend EXCEPT ![t] = w]
  /\ storeInstEnabled' = TRUE
  /\ calm' = FALSE
  /\ UNCHANGED <<tmem, tback, tls_logs, firstSnapshot, snvars, tstores, raced>>

\* skip_entry: the walk passes over an entry that equals the one before it
Skip(list, j) == j > 1 /\ list[j] = list[j - 1]

\* the entries of t that the next clear() of its log does not drop uncopied
Ahead(t) ==
  LET walked == phase \in {"copy", "clear"} /\ tls_logs[nth] = t
  IN  {entries[t][i] : i \in {j \in DOMAIN entries[t] :
                               walked => phase = "copy" /\ j > pos /\ ~ Skip(entries[t], j)}}

\* the store that checkMemory precedes
TStore(t) ==
  /\ pend[t] # NoWord
  /\ tmem' = [tmem EXCEPT ![pend[t]] = tstores + 1]
  /\ tstores' = tstores + 1
  /\ pend' = [pend EXCEPT ![t] = NoWord]
  /\ calm' = FALSE
  /\ raced' = IF \E u \in Thr : pend[t] \in Ahead(u) THEN raced ELSE raced \cup {pend[t]}
  /\ UNCHANGED <<tback, entries, tls_logs, storeInstEnabled, firstSnapshot, snvars>>

\* mutant: the walk starts behind the first log
snapshot_Second(t) ==
  /\ caller = NoThread /\ pend[t] = NoWord /\ tsnaps < MaxTSnaps /\ storeInstEnabled
  /\ caller' = t /\ phase' = "log" /\ nth' = 2 /\ pos' = 0 /\ tsnaps' = tsnaps + 1
  /\ calm' = (\A u \in Thr : pend[u] = NoWord)
  /\ UNCHANGED <<tmem, tback, entries, tls_logs, pend, storeInstEnabled, firstSnapshot, tstores,
                 raced>>
\* snapshot(): without a logged store so far it is a plain msync
snapshot(t) ==
  /\ caller = NoThread /\ pend[t] = NoWord /\ tsnaps < MaxTSnaps /\ storeInstEnabled
  /\ caller' = t /\ phase' = "log" /\ nth' = 1 /\ pos' = 0 /\ tsnaps' = tsnaps + 1
  /\ calm' = (\A u \in Thr : pend[u] = NoWord)
  /\ UNCHANGED <<tmem, tback, entries, tls_logs, pend, storeInstEnabled, firstSnapshot, tstores,
                 raced>>

\* std::sort by address
Sorted(l, list) ==
  /\ \A i, j \in DOMAIN l : i < j => l[i] <= l[j]
  /\ \E f \in [DOMAIN list -> DOMAIN list] :
       /\ \A j \in DOMAIN list : \E i \in DOMAIN list : f[i] = j
       /\ l = [i \in DOMAIN list |-> list[f[i]]]

\* the next log; the first snapshot copies the whole mapping; a long log is
\* sorted; after the last log the call returns
NextLog ==
  /\ phase = "log"
  /\ IF nth > Len(tls_logs)
     THEN caller' = NoThread /\ phase' = "none" /\ UNCHANGED <<tback, entries, firstSnapshot, raced>>
     ELSE /\ phase' = "copy" /\ firstSnapshot' = FALSE /\ UNCHANGED caller
          /\ tback' = IF firstSnapshot THEN tmem ELSE tback
          /\ raced' = IF firstSnapshot THEN {} ELSE raced
          /\ LET list == entries[tls_logs[nth]]
             IN  \E l \in [DOMAIN list -> TWords] :
                   /\ IF Len(list) > SortOver THEN Sorted(l, list) ELSE l = list
                   /\ entries' = [entries EXCEPT ![tls_logs[nth]] = l]
  /\ pos' = 0
  /\ UNCHANGED <<tmem, tls_logs, pend, storeInstEnabled, nth, tsnaps, tstores, calm>>

\* the loop looks at the size of the list every time
CopyEntry ==
  /\ phase = "copy"
  /\ LET list == entries[tls_logs[nth]]
     IN  IF pos < Len(list)
         THEN /\ tback' = IF Skip(list, pos + 1) THEN tback
                         ELSE [tback EXCEPT ![list[pos + 1]] = tmem[list[pos + 1]]]
              /\ raced' = IF Skip(list, pos + 1) THEN raced ELSE raced \ {list[pos + 1]}
              /\ pos' = pos + 1 /\ UNCHANGED phase
         ELSE phase' = "clear" /\ UNCHANGED <<tback, raced, pos>>
  /\ UNCHANGED <<tmem, entries, tls_logs, pend, storeInstEnabled, firstSnapshot, caller, nth,
                 tsnaps, tstores, calm>>

\* mutant: one clear() for all the logs
ClearLog_All ==
  /\ phase = "clear" /\ phase' = "log" /\ nth' = nth + 1
  /\ entries' = [t \in Thr |-> <<>>]
  /\ UNCHANGED <<tmem, tback, tls_logs, pend, storeInstEnabled, firstSnapshot, caller, pos,
                 tsnaps, tstores, calm, raced>>
\* drain, EMPTY, clear()
ClearLog ==
  /\ phase = "clear" /\ phase' = "log" /\ nth' = nth + 1
  /\ entries' = [entries EXCEPT ![tls_logs[nth]] = <<>>]
  /\ UNCHANGED <<tmem, tback, tls_logs, pend, storeInstEnabled, firstSnapshot, caller, pos,
                 tsnaps, tstores, calm, raced>>

ThNext ==
  \/ \E t \in Thr : cxlbuf_reg_tls_log(t) \/ TStore(t) \/ snapshot(t)
  \/ \E t \in Thr, w \in TWords : checkMemory(t, w)
  \/ NextLog \/ CopyEntry \/ ClearLog

ThSpec == ThInit /\ [][ThNext]_thvars

-----------------------------------------------------------------------------
(* Properties.                                                             *)

\* A word whose value is not in the backing file has an entry in some log that
\* a snapshot will still copy; the exception is a store that comes when another
\* thread's snapshot has already passed the entry of its checkMemory, or will
\* skip it because it equals the entry before it, which the walk has passed.
\* Threads that store the same words, repeated entries, the sort, and entries
\* that are appended while their log is walked make no other.
UpdatesTracked ==
  \A w \in TWords :
    tback[w] = tmem[w] \/ w \in raced \/ \E t \in Thr : w \in Ahead(t)

\* A snapshot during which the other threads were at rest leaves everything
\* that every thread has stored in the backing file, whichever thread calls it,
\* unless an earlier snapshot had overtaken a store.
SnapshotTakesAll ==
  [][caller # NoThread /\ caller' = NoThread /\ calm /\ raced = {} => tback' = tmem']_thvars

\* The inductive invariant behind both: where the walk is, that a thread
\* without a log in tls_logs has no entries, and that in a calm snapshot the
\* logs behind the walk stay empty.
ThTypeOK ==
  /\ tmem \in [TWords -> Int] /\ tback \in [TWords -> Int]
  /\ entries \in [Thr -> Seq(TWords)] /\ tls_logs \in Seq(Thr)
  /\ pend \in [Thr -> TWords \cup {NoWord}]
  /\ nth \in Nat /\ pos \in Nat /\ tstores \in Nat
WalkOK ==
  /\ caller = NoThread <=> phase = "none"
  /\ phase \in {"none", "log", "copy", "clear"}
  /\ phase # "none" => nth >= 1
  /\ phase \in {"copy", "clear"} => nth <= Len(tls_logs)
Unregistered == \A t \in Thr : t \notin Registered => entries[t] = <<>> /\ pend[t] = NoWord
CalmWalk ==
  calm /\ phase # "none" =>
    /\ \A t \in Thr : pend[t] = NoWord
    /\ \A i \in DOMAIN tls_logs : i < nth => entries[tls_logs[i]] = <<>>
ThInv == ThTypeOK /\ WalkOK /\ Unregistered /\ CalmWalk /\ UpdatesTracked
=============================================================================
