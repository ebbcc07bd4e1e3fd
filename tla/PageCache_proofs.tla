-------------------------- MODULE PageCache_proofs --------------------------
(***************************************************************************)
(* Proofs about the page cache, for one thread and any number of pages,    *)
(* cache sizes and namespaces.                                             *)
(*                                                                         *)
(* ListInv says how the lists of the controller belong together at each    *)
(* point of the handler and of flush_cache(); it needs nothing from the    *)
(* device.  QueueInv adds what the commands in the queue pairs and the     *)
(* contents of the pages have to do with each other.  It holds while the   *)
(* queue pairs execute in order and take every command (QueuesHaveRoom).   *)
(***************************************************************************)
EXTENDS PageCache, FiniteSetTheorems, TLAPS

(* Where a thread is in the handler, before and after the page it faulted  *)
(* on enters the list, and where it is in flush_cache().                   *)
Missing == {"notify_page_fault", "evict_a_page", "protect", "map_page",
            "read_blocking"}
Entered == {"open_page", "fill_page"}
Flushing == {"flush_cache", "write_blocking"}

ListInv(t) ==
  /\ TypeOK
  /\ pc[t] \in {"idle", "mprotect"} \cup Flushing => instr[t] = NoInstr
  /\ pc[t] \in {"run"} \cup Missing \cup Entered => instr[t] \in Instr
  /\ pc[t] \in Missing => pf_page[t] \in Page \ mapped_pages
  /\ pc[t] \in Entered => pf_page[t] \in mapped_pages
  /\ pc[t] \in {"protect", "write_blocking"} => target_page[t] \in mapped_pages
  /\ pc[t] \in Flushing => todo[t] \subseteq mapped_pages
  /\ pc[t] = "write_blocking" => target_page[t] \notin todo[t]
  /\ pc[t] = "open_page" => accessible = mapped_pages \ {pf_page[t]}
  /\ pc[t] = "mprotect" => mapped_pages = {}
  /\ pc[t] \notin {"open_page", "mprotect"} => accessible = mapped_pages
  /\ used_pages = Cardinality(mapped_pages)
                    + (IF pc[t] = "read_blocking" THEN 1 ELSE 0)

(* used_pages against the size of the cache. *)
SizeInv(t) ==
  /\ pc[t] # "crashed"
  /\ pc[t] \in {"evict_a_page", "protect"} => used_pages = max_active_pg_cnt
  /\ pc[t] = "map_page" => used_pages < max_active_pg_cnt
  /\ pc[t] \notin Flushing => used_pages <= max_active_pg_cnt

(* A command is in the queue of its page.  A read is the one the thread    *)
(* waits for, and behind it is nothing.  A page has at most one write      *)
(* outstanding, and a page of the list only the one just submitted.        *)
CommandsInv(t) ==
  \A n \in Namespace : \A i \in DOMAIN queue[n] :
    LET c == queue[n][i] IN
    /\ tgt_ns(c.page) = n
    /\ c.op = "read" => /\ pc[t] = "read_blocking"
                        /\ c.page = pf_page[t]
                        /\ i = Len(queue[n])
    /\ c.op = "write" =>
         /\ c.page \in mapped_pages => /\ pc[t] \in {"protect", "write_blocking"}
                                       /\ c.page = target_page[t]
         /\ \A j \in DOMAIN queue[n] :
              queue[n][j].op = "write" /\ queue[n][j].page = c.page => j = i

(* The read of a page has not overtaken a write of it. *)
ReadInv(t) ==
  pc[t] = "read_blocking" /\ ~Outstanding(t, "read", pf_page[t]) =>
    LET q == queue[tgt_ns(pf_page[t])] IN
    \A i \in DOMAIN q : ~(q[i].op = "write" /\ q[i].page = pf_page[t])

(* While no command has failed: what evict_a_page and flush_cache() have   *)
(* written is what the frames hold, and what a fault has read is what the  *)
(* device holds.                                                           *)
ContentsInv(t) ==
  ~failed =>
    /\ pc[t] = "protect" => OnDevice(target_page[t]) = mem[target_page[t]]
    /\ pc[t] \in Flushing =>
         \A p \in mapped_pages \ todo[t] : OnDevice(p) = mem[p]
    /\ pc[t] = "read_blocking" /\ ~Outstanding(t, "read", pf_page[t])
         => read_buf = OnDevice(pf_page[t])
    /\ pc[t] \in Entered => src[t] = OnDevice(pf_page[t])

QueueInv(t) ==
  ListInv(t) /\ SizeInv(t) /\ CommandsInv(t) /\ ReadInv(t) /\ ContentsInv(t)

(* No submission fails: where a thread submits a command, every queue pair *)
(* takes one more.                                                         *)
QueuesHaveRoom ==
  \A t \in Thread :
    pc[t] \in {"evict_a_page", "map_page", "flush_cache"}
      => \A p \in Page : ~QueueFull(p)

-----------------------------------------------------------------------------
(* Facts about the operators *)

(* The range has finitely many pages, and so has the list. *)
LEMMA PagesFinite ==
  /\ IsFiniteSet(Page)
  /\ \A S \in SUBSET Page : IsFiniteSet(S) /\ Cardinality(S) \in Nat
<1>1. IsFiniteSet(Page)
  BY FS_Interval, PageCacheAssumption DEF Page
<1>2. QED
  BY <1>1, FS_Subset, FS_CardinalityType, Zenon

(* What an instruction holds: the page it writes, with the page a copy     *)
(* reads or the value a store writes.                                      *)
LEMMA InstrType ==
  ASSUME NEW i \in Instr
  PROVE  /\ i.dst \in Page /\ i.op \in {"store", "copy"}
         /\ i.op = "copy" => i.src \in Page /\ i.src # i.dst
         /\ i.op = "store" => i.val \in Val
         /\ Touched(i) \subseteq Page /\ i.dst \in Touched(i)
         /\ i.op = "copy" => i.src \in Touched(i)
  BY Zenon DEF Instr, Touched

(* A command taken out of a queue leaves the others in their order. *)
LEMMA RemoveAtProperties ==
  ASSUME NEW S, NEW q \in Seq(S), NEW i \in 1 .. Len(q)
  PROVE  /\ RemoveAt(q, i) \in Seq(S)
         /\ Len(RemoveAt(q, i)) = Len(q) - 1
         /\ \A j \in 1 .. Len(q) - 1 :
              RemoveAt(q, i)[j] = IF j < i THEN q[j] ELSE q[j + 1]
<1> DEFINE A == SubSeq(q, 1, i - 1)
           B == SubSeq(q, i + 1, Len(q))
<1>1. /\ A \in Seq(S) /\ Len(A) = i - 1
      /\ \A j \in 1 .. i - 1 : A[j] = q[j]
  OBVIOUS
<1>2. /\ B \in Seq(S) /\ Len(B) = Len(q) - i
      /\ \A j \in 1 .. Len(q) - i : B[j] = q[i + j]
  OBVIOUS
<1> HIDE DEF A, B
<1>3. /\ A \o B \in Seq(S) /\ Len(A \o B) = Len(A) + Len(B)
      /\ \A j \in 1 .. Len(A) + Len(B) :
           (A \o B)[j] = IF j <= Len(A) THEN A[j] ELSE B[j - Len(A)]
  <2> A \in Seq(S) /\ B \in Seq(S)
    BY <1>1, <1>2, Zenon
  <2>1. A \o B \in Seq(S)
    OBVIOUS
  <2>2. Len(A \o B) = Len(A) + Len(B)
    OBVIOUS
  <2>3. ASSUME NEW j \in 1 .. Len(A) + Len(B)
        PROVE  (A \o B)[j] = IF j <= Len(A) THEN A[j] ELSE B[j - Len(A)]
    BY <1>1, <1>2
  <2>4. QED
    BY <2>1, <2>2, <2>3, Zenon
<1> HIDE DEF A, B
<1>0. Len(A) + Len(B) = Len(q) - 1 /\ Len(q) \in Nat
  BY <1>1, <1>2
<1>4. \A j \in 1 .. Len(q) - 1 :
        (A \o B)[j] = IF j < i THEN q[j] ELSE q[j + 1]
<2> TAKE j \in 1 .. Len(q) - 1
<2>1. (A \o B)[j] = IF j <= i - 1 THEN A[j] ELSE B[j - (i - 1)]
  BY <1>1, <1>3, <1>0, Zenon
<2>2. CASE j < i
  BY <2>1, <2>2, <1>1
<2>3. CASE ~(j < i)
  <3>1. j - (i - 1) \in 1 .. Len(q) - i /\ i + (j - (i - 1)) = j + 1
    BY <2>3, <1>0
  <3>2. B[j - (i - 1)] = q[i + (j - (i - 1))]
    BY <3>1, <1>2, Zenon
  <3>3. ~(j <= i - 1)
    BY <2>3
  <3>4. QED
    BY <2>1, <2>3, <3>1, <3>2, <3>3, Zenon
<2>4. QED
  BY <2>2, <2>3, Zenon
<1>5. RemoveAt(q, i) = A \o B
  BY Zenon DEF RemoveAt, A, B
<1>6. QED
  BY <1>3, <1>0, <1>4, <1>5, Zenon

(* The length of the list, with a page more or less. *)
LEMMA CardinalityOfList ==
  \A S \in SUBSET Page :
    /\ Cardinality(S) \in Nat
    /\ S # {} => Cardinality(S) > 0
    /\ \A p \in Page \ S : Cardinality(S \cup {p}) = Cardinality(S) + 1
    /\ \A p \in S : /\ Cardinality(S) > 0
                    /\ Cardinality(S \ {p}) = Cardinality(S) - 1
<1> TAKE S \in SUBSET Page
<1>1. IsFiniteSet(S) /\ Cardinality(S) \in Nat
  BY PagesFinite, Zenon
<1>2. S # {} => Cardinality(S) > 0
  BY <1>1, FS_EmptySet
<1>3. \A p \in Page \ S : Cardinality(S \cup {p}) = Cardinality(S) + 1
  BY <1>1, FS_AddElement, Zenon
<1>4. \A p \in S : Cardinality(S \ {p}) = Cardinality(S) - 1
  BY <1>1, FS_RemoveElement, Zenon
<1>5. QED
  BY <1>1, <1>2, <1>3, <1>4, Zenon

(* The queue pair of a page is one of the device's. *)
LEMMA NamespaceOfPage == \A p \in Page : tgt_ns(p) \in Namespace
<1>1. \A a \in Int, b \in Nat \ {0} : a % b \in 0 .. b - 1
  OBVIOUS
<1>2. \A p \in Page : p * 8 \in Int
  BY DEF Page
<1>3. QED
  BY <1>1, <1>2, PageCacheAssumption, Zenon DEF tgt_ns, Namespace

(* write() and read() put a command at the end of the queue of the page.   *)
LEMMA SubmitType ==
  ASSUME queue \in [Namespace -> Seq(Command)], NEW p \in Page,
         NEW c \in Command, Submit(p, c)
  PROVE  queue' \in [Namespace -> Seq(Command)]
  BY NamespaceOfPage DEF Submit

LEMMA WriteType ==
  ASSUME TypeOK, NEW t \in Thread, NEW p \in Page, write(t, p)
  PROVE  queue' \in [Namespace -> Seq(Command)]
<1>1. [op |-> "write", page |-> p, data |-> mem[p], by |-> t] \in Command
  BY Zenon DEF TypeOK, Command
<1>2. QED
  BY <1>1, SubmitType, Zenon DEF write, TypeOK

LEMMA ReadType ==
  ASSUME TypeOK, NEW t \in Thread, NEW p \in Page, read(t, p)
  PROVE  queue' \in [Namespace -> Seq(Command)]
<1>1. [op |-> "read", page |-> p, data |-> 0, by |-> t] \in Command
  BY PageCacheAssumption, Zenon DEF Command
<1>2. QED
  BY <1>1, SubmitType, Zenon DEF read, TypeOK

-----------------------------------------------------------------------------
(* ListInv *)

LEMMA ListInit ==
  ASSUME NEW t, Thread = {t}, Init
  PROVE  ListInv(t)
<1>1. TypeOK
<2>1. queue \in [Namespace -> Seq(Command)]
  BY DEF Init
<2>2. QED
  BY <2>1, PageCacheAssumption, Zenon DEF Init, TypeOK
<1>2. QED
  BY <1>1, FS_EmptySet DEF Init, ListInv, Missing, Entered, Flushing

LEMMA ListIssue ==
  ASSUME NEW t, Thread = {t}, ListInv(t), NEW i \in Instr, Issue(t, i), UNCHANGED failed
  PROVE  ListInv(t)'
<1>1. TypeOK'
  BY Zenon DEF ListInv, TypeOK, Issue, Goto, cacheVars, deviceVars, threadVars
<1>2. QED
  BY <1>1, Zenon DEF ListInv, TypeOK, Issue, Goto, cacheVars, deviceVars, threadVars, Missing, Entered, Flushing

LEMMA ListExecute ==
  ASSUME NEW t, Thread = {t}, ListInv(t), Execute(t), UNCHANGED failed
  PROVE  ListInv(t)'
<1>1. TypeOK'
  BY InstrType, Zenon DEF ListInv, TypeOK, Execute, Goto, cacheVars, deviceVars
<1>2. QED
  BY <1>1, Zenon DEF ListInv, TypeOK, Execute, Goto, cacheVars, deviceVars, threadVars, Missing, Entered, Flushing

LEMMA ListFault ==
  ASSUME NEW t, Thread = {t}, ListInv(t), NEW p \in Page, Fault(t, p), UNCHANGED failed
  PROVE  ListInv(t)'
<1>1. TypeOK'
  BY Zenon DEF ListInv, TypeOK, Fault, Goto, cacheVars, deviceVars, threadVars
<1>2. QED
  BY <1>1, Zenon DEF ListInv, TypeOK, Fault, Goto, cacheVars, deviceVars, threadVars, Missing, Entered, Flushing

LEMMA ListNotify ==
  ASSUME NEW t, Thread = {t}, ListInv(t), notify_page_fault(t), UNCHANGED failed
  PROVE  ListInv(t)'
<1>1. TypeOK'
  BY Zenon DEF ListInv, TypeOK, notify_page_fault, Goto, cacheVars, deviceVars, threadVars
<1>2. QED
  BY <1>1, Zenon DEF ListInv, TypeOK, notify_page_fault, Goto, cacheVars, deviceVars, threadVars, Missing, Entered, Flushing

LEMMA ListEvict ==
  ASSUME NEW t, Thread = {t}, ListInv(t), evict_a_page(t), UNCHANGED failed
  PROVE  ListInv(t)'
<1>1. TypeOK'
<2>1. queue' \in [Namespace -> Seq(Command)]
  BY WriteType, Zenon DEF ListInv, TypeOK, evict_a_page
<2>2. QED
  BY <2>1 DEF ListInv, TypeOK, evict_a_page, Goto, cacheVars
<1>2. QED
  BY <1>1 DEF ListInv, TypeOK, evict_a_page, Goto, cacheVars, deviceVars, threadVars, Missing, Entered, Flushing

LEMMA ListProtect ==
  ASSUME NEW t, Thread = {t}, ListInv(t), Protect(t), UNCHANGED failed
  PROVE  ListInv(t)'
<1>1. TypeOK'
<2>1. used_pages - 1 \in Nat
  BY CardinalityOfList DEF ListInv, TypeOK, Protect, Goto
<2>2. QED
  BY <2>1, Zenon DEF ListInv, TypeOK, Protect, Goto, deviceVars
<1>2. QED
  BY <1>1, CardinalityOfList
  DEF ListInv, TypeOK, Protect, Goto, deviceVars, Missing, Entered, Flushing

LEMMA ListMap ==
  ASSUME NEW t, Thread = {t}, ListInv(t), map_page_from_blkdev(t), UNCHANGED failed
  PROVE  ListInv(t)'
<1>1. TypeOK'
<2>1. queue' \in [Namespace -> Seq(Command)]
  BY ReadType, Zenon DEF ListInv, TypeOK, Missing, map_page_from_blkdev, Goto
<2>2. QED
  BY <2>1 DEF ListInv, TypeOK, map_page_from_blkdev, Goto
<1>2. QED
  BY <1>1, CardinalityOfList
  DEF ListInv, TypeOK, map_page_from_blkdev, Goto, Missing, Entered, Flushing

LEMMA ListRead ==
  ASSUME NEW t, Thread = {t}, ListInv(t), read_blocking(t), UNCHANGED failed
  PROVE  ListInv(t)'
<1>1. TypeOK'
  BY Zenon DEF ListInv, TypeOK, read_blocking, Goto, deviceVars, Missing
<1>2. used_pages' = Cardinality(mapped_pages')
  BY CardinalityOfList, Zenon DEF ListInv, TypeOK, read_blocking, Goto, Missing
<1>3. QED
  BY <1>1, <1>2
  DEF ListInv, TypeOK, read_blocking, Goto, deviceVars, Missing, Entered, Flushing

LEMMA ListOpen ==
  ASSUME NEW t, Thread = {t}, ListInv(t), OpenPage(t), UNCHANGED failed
  PROVE  ListInv(t)'
<1>1. TypeOK'
  BY DEF ListInv, TypeOK, OpenPage, Goto, cacheVars, deviceVars, threadVars, Entered
<1>2. QED
  BY <1>1 DEF ListInv, TypeOK, OpenPage, Goto, cacheVars, deviceVars, threadVars, Missing, Entered, Flushing

LEMMA ListFill ==
  ASSUME NEW t, Thread = {t}, ListInv(t), FillPage(t), UNCHANGED failed
  PROVE  ListInv(t)'
<1>1. TypeOK'
  BY PageCacheAssumption, Zenon
  DEF ListInv, TypeOK, FillPage, Goto, cacheVars, deviceVars, Entered
<1>2. QED
  BY <1>1, Zenon DEF ListInv, TypeOK, FillPage, Goto, cacheVars, deviceVars, threadVars, Missing, Entered, Flushing

LEMMA ListFlushCache ==
  ASSUME NEW t, Thread = {t}, ListInv(t), flush_cache(t), UNCHANGED failed
  PROVE  ListInv(t)'
<1>1. TypeOK'
  BY Zenon DEF ListInv, TypeOK, flush_cache, Goto, cacheVars, deviceVars, threadVars
<1>2. QED
  BY <1>1, Zenon DEF ListInv, TypeOK, flush_cache, Goto, cacheVars, deviceVars, threadVars, Missing, Entered, Flushing

LEMMA ListResize ==
  ASSUME NEW t, Thread = {t}, ListInv(t), NEW n \in Sizes, resize_cache(t, n), UNCHANGED failed
  PROVE  ListInv(t)'
<1>1. TypeOK'
  BY DEF ListInv, TypeOK, resize_cache, Goto, cacheVars, deviceVars, threadVars
<1>2. QED
  BY <1>1 DEF ListInv, TypeOK, resize_cache, Goto, cacheVars, deviceVars, threadVars, Missing, Entered, Flushing

LEMMA ListFlushPage ==
  ASSUME NEW t, Thread = {t}, ListInv(t), FlushPage(t), UNCHANGED failed
  PROVE  ListInv(t)'
<1>1. TypeOK'
<2>1. queue' \in [Namespace -> Seq(Command)]
  BY WriteType, Zenon DEF ListInv, TypeOK, FlushPage
<2>2. QED
  BY <2>1 DEF ListInv, TypeOK, FlushPage, Goto, cacheVars
<1>2. QED
  BY <1>1 DEF ListInv, TypeOK, FlushPage, Goto, cacheVars, deviceVars, threadVars, Missing, Entered, Flushing

LEMMA ListWriteBlocking ==
  ASSUME NEW t, Thread = {t}, ListInv(t), write_blocking(t), UNCHANGED failed
  PROVE  ListInv(t)'
<1>1. TypeOK'
  BY Zenon DEF ListInv, TypeOK, write_blocking, Goto, cacheVars, deviceVars, threadVars
<1>2. QED
  BY <1>1, Zenon DEF ListInv, TypeOK, write_blocking, Goto, cacheVars, deviceVars, threadVars, Missing, Entered, Flushing

LEMMA ListRemap ==
  ASSUME NEW t, Thread = {t}, ListInv(t), Remap(t), UNCHANGED failed
  PROVE  ListInv(t)'
<1>1. TypeOK'
  BY PageCacheAssumption, Zenon
  DEF ListInv, TypeOK, Remap, Goto, deviceVars, threadVars
<1>2. QED
  <2>1. /\ pc'[t] = "mprotect" /\ instr'[t] = NoInstr
        /\ mapped_pages' = {} /\ used_pages' = 0
    BY Zenon DEF ListInv, TypeOK, Remap, Goto, threadVars, Flushing
  <2>2. used_pages' = Cardinality(mapped_pages') + 0
    <3>1. Cardinality({}) = 0
      BY FS_EmptySet, Zenon
    <3>2. QED
      BY ONLY <2>1, <3>1
  <2>3. QED
    BY <1>1, <2>1, <2>2, Zenon DEF ListInv, Missing, Entered, Flushing

LEMMA ListProtectRange ==
  ASSUME NEW t, Thread = {t}, ListInv(t), ProtectRange(t), UNCHANGED failed
  PROVE  ListInv(t)'
<1>1. TypeOK'
  BY Zenon DEF ListInv, TypeOK, ProtectRange, Goto, cacheVars, deviceVars, threadVars
<1>2. QED
  BY <1>1, Zenon DEF ListInv, TypeOK, ProtectRange, Goto, cacheVars, deviceVars, threadVars, Missing, Entered, Flushing

LEMMA ListDevice ==
  ASSUME NEW t, Thread = {t}, ListInv(t), Device
  PROVE  ListInv(t)'
<1>0. PICK n \in Namespace : \E i \in DOMAIN queue[n] : Complete(n, i)
  BY Zenon DEF Device
<1>1. PICK i \in DOMAIN queue[n] : Complete(n, i)
  BY <1>0, Zenon
<1>2. /\ queue[n] \in Seq(Command) /\ i \in 1 .. Len(queue[n])
      /\ queue[n][i] \in Command
  BY DEF ListInv, TypeOK
<1>3. queue' \in [Namespace -> Seq(Command)]
  <2>1. RemoveAt(queue[n], i) \in Seq(Command)
    BY <1>2, RemoveAtProperties, Zenon
  <2>2. QED
    BY <1>1, <2>1, Zenon DEF Complete, ListInv, TypeOK
<1>4. disk' \in [Page -> Val] /\ read_buf' \in Val /\ failed' \in BOOLEAN
  <2>1. queue[n][i].page \in Page /\ queue[n][i].data \in Val
    BY <1>2, Zenon DEF Command
  <2>2. /\ disk \in [Page -> Val] /\ read_buf \in Val /\ failed \in BOOLEAN
    BY Zenon DEF ListInv, TypeOK
  <2>3. QED
    BY <1>1, <2>1, <2>2, Zenon DEF Complete
<1>5. TypeOK'
  BY <1>1, <1>3, <1>4, Zenon DEF Complete, ListInv, TypeOK, cacheVars, threadVars
<1>6. UNCHANGED <<accessible, mapped_pages, used_pages, pc, instr, pf_page,
                  target_page, todo>>
  BY <1>1, Zenon DEF Complete, cacheVars, threadVars
<1>7. QED
  BY <1>5, <1>6, Zenon DEF ListInv

(* ListInv is inductive, whatever the device does. *)
LEMMA ListNext ==
  ASSUME NEW t, Thread = {t}, ListInv(t), [Next]_vars
  PROVE  ListInv(t)'
<1>1. CASE UNCHANGED vars
  BY <1>1, ZenonT(30)
  DEF ListInv, TypeOK, vars, cacheVars, deviceVars, threadVars, Missing,
      Entered, Flushing
<1>2. CASE Device
  BY <1>2, ListDevice, Zenon
<1>3. CASE Step(t)
  BY <1>3, ListExecute, ListFault, ListNotify, ListEvict, ListProtect, ListMap,
     ListRead, ListOpen, ListFill, ListFlushPage, ListWriteBlocking, ListRemap,
     ListProtectRange, Zenon
  DEF Step
<1>4. CASE Call(t)
  BY <1>4, ListIssue, ListFlushCache, ListResize, Zenon DEF Call
<1>5. QED
  BY <1>1, <1>2, <1>3, <1>4, Zenon DEF Next

-----------------------------------------------------------------------------
(* The contents of a page on its way to the device *)

(* The writes of page p in queue q, and what the device holds of p once it *)
(* has executed them over d: OnDevice(p) for the queue of the page.        *)
WritesOf(q, p) == {i \in DOMAIN q : q[i].op = "write" /\ q[i].page = p}

LastWrite(q, d, p) ==
  IF WritesOf(q, p) = {} THEN d[p] ELSE q[Max(WritesOf(q, p))].data

(* No page has two writes in a queue. *)
OneWriteEach(q) ==
  \A i, j \in DOMAIN q :
    q[i].op = "write" /\ q[j].op = "write" /\ q[i].page = q[j].page => i = j

LEMMA OnDeviceIsLastWrite ==
  ASSUME NEW p
  PROVE  /\ OnDevice(p) = LastWrite(queue[tgt_ns(p)], disk, p)
         /\ OnDevice(p)' = LastWrite(queue'[tgt_ns(p)], disk', p)
  BY Zenon DEF OnDevice, LastWrite, WritesOf, tgt_ns

LEMMA LastWriteValue ==
  ASSUME NEW q \in Seq(Command), OneWriteEach(q), NEW d, NEW p
  PROVE  /\ \A i \in DOMAIN q : q[i].op = "write" /\ q[i].page = p
              => LastWrite(q, d, p) = q[i].data
         /\ (\A i \in DOMAIN q : ~(q[i].op = "write" /\ q[i].page = p))
              => LastWrite(q, d, p) = d[p]
<1>1. ASSUME NEW i \in DOMAIN q, q[i].op = "write", q[i].page = p
      PROVE  LastWrite(q, d, p) = q[i].data
  <2>1. WritesOf(q, p) = {i}
    BY <1>1, Zenon DEF WritesOf, OneWriteEach
  <2>2. Max({i}) = i
    BY <1>1 DEF Max
  <2>3. QED
    BY <2>1, <2>2, Zenon DEF LastWrite
<1>2. ASSUME \A i \in DOMAIN q : ~(q[i].op = "write" /\ q[i].page = p)
      PROVE  LastWrite(q, d, p) = d[p]
  BY <1>2, Zenon DEF LastWrite, WritesOf
<1>3. QED
  BY <1>1, <1>2, Zenon

(* A command at the end of a queue changes the page it writes, and no other. *)
LEMMA LastWriteAppend ==
  ASSUME NEW q \in Seq(Command), OneWriteEach(q), NEW c \in Command,
         c.op = "write" => WritesOf(q, c.page) = {},
         NEW d, NEW p
  PROVE  /\ OneWriteEach(Append(q, c))
         /\ LastWrite(Append(q, c), d, p)
              = IF c.op = "write" /\ c.page = p THEN c.data
                                               ELSE LastWrite(q, d, p)
<1> DEFINE a == Append(q, c)
<1>1. /\ a \in Seq(Command) /\ Len(a) = Len(q) + 1 /\ DOMAIN q = 1 .. Len(q)
      /\ DOMAIN a = 1 .. Len(q) + 1 /\ a[Len(q) + 1] = c
      /\ \A i \in 1 .. Len(q) : a[i] = q[i]
  OBVIOUS
<1> HIDE DEF a
<1>2. OneWriteEach(a)
  BY <1>1 DEF OneWriteEach, WritesOf
<1>3. CASE c.op = "write" /\ c.page = p
  <2>1. LastWrite(a, d, p) = c.data
    BY <1>1, <1>2, <1>3, LastWriteValue
  <2>2. QED
    BY <1>2, <1>3, <2>1, Zenon DEF a
<1>4. CASE ~(c.op = "write" /\ c.page = p)
  <2>1. CASE \E i \in DOMAIN q : q[i].op = "write" /\ q[i].page = p
    <3>1. PICK i \in DOMAIN q : q[i].op = "write" /\ q[i].page = p
      BY <2>1, Zenon
    <3>2. LastWrite(q, d, p) = q[i].data
      BY <3>1, LastWriteValue
    <3>3. i \in DOMAIN a /\ a[i] = q[i]
      BY <1>1
    <3>4. LastWrite(a, d, p) = a[i].data
      BY <3>1, <3>3, <1>1, <1>2, LastWriteValue
    <3>5. QED
      BY <1>2, <1>4, <3>2, <3>3, <3>4, Zenon DEF a
  <2>2. CASE \A i \in DOMAIN q : ~(q[i].op = "write" /\ q[i].page = p)
    <3>1. \A i \in DOMAIN a : ~(a[i].op = "write" /\ a[i].page = p)
      BY <2>2, <1>1, <1>4
    <3>2. QED
      <4>0. a \in Seq(Command)
        BY <1>1, Zenon
      <4>1. LastWrite(a, d, p) = d[p]
        BY <3>1, <4>0, <1>2, LastWriteValue
      <4>2. LastWrite(q, d, p) = d[p]
        BY <2>2, LastWriteValue
      <4>3. QED
        BY <4>1, <4>2, <1>2, <1>4, Zenon DEF a
  <2>3. QED
    BY <2>1, <2>2, Zenon
<1>5. QED
  BY <1>2, <1>3, <1>4, Zenon DEF a

(* Executing the command at the head of a queue changes no page. *)
LEMMA LastWriteHead ==
  ASSUME NEW q \in Seq(Command), OneWriteEach(q), 1 \in DOMAIN q,
         NEW d \in [Page -> Val], NEW p \in Page, NEW e,
         e = IF q[1].op = "write" THEN [d EXCEPT ![q[1].page] = q[1].data] ELSE d
  PROVE  /\ OneWriteEach(RemoveAt(q, 1))
         /\ LastWrite(RemoveAt(q, 1), e, p) = LastWrite(q, d, p)
<1> DEFINE r == RemoveAt(q, 1)
<1>1. /\ r \in Seq(Command) /\ DOMAIN q = 1 .. Len(q)
      /\ DOMAIN r = 1 .. Len(q) - 1 /\ Len(q) \in Nat
      /\ \A i \in 1 .. Len(q) - 1 : r[i] = q[i + 1]
  BY RemoveAtProperties
<1> HIDE DEF r
<1>2. OneWriteEach(r)
  <2>1. SUFFICES ASSUME NEW i \in DOMAIN r, NEW j \in DOMAIN r,
                        r[i].op = "write", r[j].op = "write",
                        r[i].page = r[j].page
                 PROVE  i = j
    BY Zenon DEF OneWriteEach
  <2>2. i + 1 \in DOMAIN q /\ j + 1 \in DOMAIN q /\ i \in Int /\ j \in Int
    BY <1>1
  <2>3. i + 1 = j + 1
    BY <1>1, <2>1, <2>2, Zenon DEF OneWriteEach
  <2>4. QED
    BY <2>2, <2>3
<1>3. CASE \E i \in DOMAIN r : r[i].op = "write" /\ r[i].page = p
  <2>1. PICK i \in DOMAIN r : r[i].op = "write" /\ r[i].page = p
    BY <1>3, Zenon
  <2>2. i + 1 \in DOMAIN q /\ q[i + 1] = r[i]
    BY <1>1
  <2>3. LastWrite(q, d, p) = q[i + 1].data
    BY <2>1, <2>2, LastWriteValue
  <2>4. LastWrite(r, e, p) = r[i].data
    BY <2>1, <1>1, <1>2, LastWriteValue
  <2>5. QED
    BY <2>2, <2>3, <2>4, <1>2, Zenon DEF r
<1>4. CASE \A i \in DOMAIN r : ~(r[i].op = "write" /\ r[i].page = p)
  <2>1. LastWrite(r, e, p) = e[p]
    BY <1>4, Zenon DEF LastWrite, WritesOf
  <2>2. CASE q[1].op = "write" /\ q[1].page = p
    <3>1. LastWrite(q, d, p) = q[1].data
      BY <2>2, LastWriteValue
    <3>2. QED
      BY <2>1, <2>2, <3>1, <1>2, Zenon DEF r
  <2>3. CASE ~(q[1].op = "write" /\ q[1].page = p)
    <3>1. \A i \in DOMAIN q : ~(q[i].op = "write" /\ q[i].page = p)
      <4>1. SUFFICES ASSUME NEW i \in DOMAIN q, i # 1
                     PROVE  ~(q[i].op = "write" /\ q[i].page = p)
        BY <2>3, Zenon
      <4>2. i - 1 \in DOMAIN r /\ r[i - 1] = q[i]
        BY <4>1, <1>1
      <4>3. QED
        BY <4>2, <1>4, Zenon
    <3>2. LastWrite(q, d, p) = d[p]
      BY <3>1, LastWriteValue
    <3>3. q[1].page \in Page
      <4>1. q[1] \in Command
        BY <1>1
      <4>2. QED
        BY <4>1, Zenon DEF Command
    <3>4. e[p] = d[p]
      BY <2>3, <3>3, Zenon
    <3>5. QED
      BY <2>1, <3>2, <3>4, <1>2, Zenon DEF r
  <2>4. QED
    BY <2>2, <2>3, Zenon
<1>5. QED
  BY <1>3, <1>4, Zenon

-----------------------------------------------------------------------------
(* QueueInv *)

(* Where neither the queues nor the device change, no page does. *)
LEMMA OnDeviceSame ==
  ASSUME UNCHANGED <<queue, disk>>
  PROVE  \A p : OnDevice(p)' = OnDevice(p)
  BY Zenon DEF OnDevice, tgt_ns

(* The cache holds at least one page. *)
LEMMA CacheSize == TypeOK => max_active_pg_cnt \in Nat \ {0}
  BY PageCacheAssumption, Zenon DEF TypeOK

(* Where no command is awaited, a step that leaves the queue pairs alone   *)
(* and takes no page into the list keeps what holds of the commands.       *)
LEMMA CommandsKept ==
  ASSUME NEW t, CommandsInv(t), UNCHANGED queue, mapped_pages' \subseteq mapped_pages,
         pc[t] \notin {"read_blocking", "protect", "write_blocking"}
  PROVE  CommandsInv(t)'
  BY DEF CommandsInv, tgt_ns

(* CommandsInv is kept too where what it is about stays as it is, and      *)
(* where the page just submitted leaves the list.                          *)
LEMMA CommandsSame ==
  ASSUME NEW t, CommandsInv(t), UNCHANGED <<queue, mapped_pages, pc, pf_page, target_page>>
  PROVE  CommandsInv(t)'
  BY DEF CommandsInv, tgt_ns

LEMMA CommandsProtected ==
  ASSUME NEW t, CommandsInv(t), UNCHANGED queue, pc[t] = "protect",
         mapped_pages' = mapped_pages \ {target_page[t]}
  PROVE  CommandsInv(t)'
  BY DEF CommandsInv, tgt_ns

LEMMA QueueInit ==
  ASSUME NEW t, Thread = {t}, Init
  PROVE  QueueInv(t)
<1>1. SizeInv(t)
  BY PageCacheAssumption DEF Init, SizeInv, Flushing
<1>2. CommandsInv(t)
  BY DEF Init, CommandsInv
<1>3. ContentsInv(t)
  BY Zenon DEF Init, ContentsInv, Flushing, Entered
<1>4. ReadInv(t)
  BY Zenon DEF Init, ReadInv
<1>5. QED
  BY <1>1, <1>2, <1>3, <1>4, ListInit, Zenon DEF QueueInv

LEMMA QueueIssue ==
  ASSUME NEW t, Thread = {t}, QueueInv(t), NEW i \in Instr, Issue(t, i), UNCHANGED failed
  PROVE  QueueInv(t)'
<1> USE DEF Issue, Goto, cacheVars, deviceVars
<1>1. SizeInv(t)'
  BY CacheSize, Zenon DEF QueueInv, ListInv, TypeOK, SizeInv, Flushing, Entered
<1>2. CommandsInv(t)'
  BY CommandsKept, Zenon DEF QueueInv
<1>3. ContentsInv(t)'
  BY OnDeviceSame, Zenon DEF QueueInv, ListInv, TypeOK, ContentsInv, Flushing, Entered, Missing
<1>4. ReadInv(t)'
  BY Zenon DEF QueueInv, ListInv, TypeOK, ReadInv
<1>5. QED
  BY <1>1, <1>2, <1>3, <1>4, ListIssue, Zenon DEF QueueInv

LEMMA QueueExecute ==
  ASSUME NEW t, Thread = {t}, QueueInv(t), Execute(t), UNCHANGED failed
  PROVE  QueueInv(t)'
<1> USE DEF Execute, Goto, cacheVars, deviceVars
<1>1. SizeInv(t)'
  BY CacheSize, Zenon DEF QueueInv, ListInv, TypeOK, SizeInv, Flushing, Entered
<1>2. CommandsInv(t)'
  BY CommandsKept, Zenon DEF QueueInv
<1>3. ContentsInv(t)'
  BY OnDeviceSame, Zenon DEF QueueInv, ListInv, TypeOK, ContentsInv, Flushing, Entered, Missing
<1>4. ReadInv(t)'
  BY Zenon DEF QueueInv, ListInv, TypeOK, ReadInv
<1>5. QED
  BY <1>1, <1>2, <1>3, <1>4, ListExecute, Zenon DEF QueueInv

LEMMA QueueFault ==
  ASSUME NEW t, Thread = {t}, QueueInv(t), NEW p \in Page, Fault(t, p), UNCHANGED failed
  PROVE  QueueInv(t)'
<1> USE DEF Fault, Goto, cacheVars, deviceVars
<1>1. SizeInv(t)'
  BY CacheSize, Zenon DEF QueueInv, ListInv, TypeOK, SizeInv, Flushing, Entered
<1>2. CommandsInv(t)'
  BY CommandsKept, Zenon DEF QueueInv
<1>3. ContentsInv(t)'
  BY OnDeviceSame, Zenon DEF QueueInv, ListInv, TypeOK, ContentsInv, Flushing, Entered, Missing
<1>4. ReadInv(t)'
  BY Zenon DEF QueueInv, ListInv, TypeOK, ReadInv
<1>5. QED
  BY <1>1, <1>2, <1>3, <1>4, ListFault, Zenon DEF QueueInv

LEMMA QueueNotify ==
  ASSUME NEW t, Thread = {t}, QueueInv(t), notify_page_fault(t), UNCHANGED failed
  PROVE  QueueInv(t)'
<1> USE DEF notify_page_fault, Goto, cacheVars, deviceVars, threadVars
<1>1. SizeInv(t)'
  BY CacheSize DEF QueueInv, ListInv, TypeOK, SizeInv, Flushing, Entered
<1>2. CommandsInv(t)'
  BY CommandsKept, Zenon DEF QueueInv
<1>3. ContentsInv(t)'
  BY OnDeviceSame, Zenon DEF QueueInv, ListInv, TypeOK, ContentsInv, Flushing, Entered, Missing
<1>4. ReadInv(t)'
  BY Zenon DEF QueueInv, ListInv, TypeOK, ReadInv
<1>5. QED
  BY <1>1, <1>2, <1>3, <1>4, ListNotify, Zenon DEF QueueInv

LEMMA QueueProtect ==
  ASSUME NEW t, Thread = {t}, QueueInv(t), Protect(t), UNCHANGED failed
  PROVE  QueueInv(t)'
<1> USE DEF Protect, Goto, deviceVars
<1>1. SizeInv(t)'
  BY CacheSize DEF QueueInv, ListInv, TypeOK, SizeInv, Flushing, Entered
<1>2. CommandsInv(t)'
  <2>1. /\ pc[t] = "protect" /\ queue' = queue
        /\ mapped_pages' = mapped_pages \ {target_page[t]}
    BY Zenon
  <2>2. QED
    BY <2>1, CommandsProtected, Zenon DEF QueueInv
<1>3. ContentsInv(t)'
  BY OnDeviceSame, Zenon DEF QueueInv, ListInv, TypeOK, ContentsInv, Flushing, Entered, Missing
<1>4. ReadInv(t)'
  BY Zenon DEF QueueInv, ListInv, TypeOK, ReadInv
<1>5. QED
  BY <1>1, <1>2, <1>3, <1>4, ListProtect, Zenon DEF QueueInv

(* What CommandsInv says of one queue. *)
LEMMA QueueFacts ==
  ASSUME NEW t, TypeOK, CommandsInv(t), NEW n \in Namespace
  PROVE  /\ queue[n] \in Seq(Command) /\ DOMAIN queue[n] = 1 .. Len(queue[n])
         /\ OneWriteEach(queue[n])
         /\ \A i \in DOMAIN queue[n] : /\ queue[n][i] \in Command
                                      /\ tgt_ns(queue[n][i].page) = n
  BY DEF TypeOK, CommandsInv, OneWriteEach

(* Where the queue pairs hold one write each of pages that are not in the  *)
(* list, but for the page a thread has just submitted, nothing is left to  *)
(* be said of it.                                                          *)
LEMMA OnlyWrites ==
  ASSUME NEW t,
         \A n \in Namespace : \A i \in DOMAIN queue'[n] :
           /\ tgt_ns(queue'[n][i].page) = n
           /\ queue'[n][i].op = "write"
           /\ queue'[n][i].page \in mapped_pages'
                => /\ pc'[t] \in {"protect", "write_blocking"}
                   /\ queue'[n][i].page = target_page'[t],
         \A n \in Namespace : OneWriteEach(queue'[n])
  PROVE  CommandsInv(t)'
<1>1. \A x : tgt_ns(x)' = tgt_ns(x)
  BY Zenon DEF tgt_ns
<1>2. \A n \in Namespace : \A i, j \in DOMAIN queue'[n] :
        queue'[n][j].op = "write" /\ queue'[n][j].page = queue'[n][i].page => j = i
  BY Zenon DEF OneWriteEach
<1>3. QED
  BY <1>1, <1>2, Zenon DEF CommandsInv

(* When its read is over, a thread's queues hold writes of other pages. *)
LEMMA ReadIsOver ==
  ASSUME NEW t, Thread = {t}, CommandsInv(t), ReadInv(t), pc[t] = "read_blocking",
         ~Outstanding(t, "read", pf_page[t]),
         NEW n \in Namespace, queue[n] \in Seq(Command), NEW i \in DOMAIN queue[n]
  PROVE  /\ tgt_ns(queue[n][i].page) = n /\ queue[n][i].op = "write"
         /\ queue[n][i].page \notin mapped_pages \cup {pf_page[t]}
<1>1. queue[n][i] \in Command
  OBVIOUS
<1> DEFINE c == queue[n][i]
<1>2. c.by = t /\ c.op \in {"read", "write"}
  BY <1>1, Zenon DEF Command
<1>3. tgt_ns(c.page) = n
  BY Zenon DEF CommandsInv
<1>4. c.op = "read" => c.page = pf_page[t]
  BY Zenon DEF CommandsInv
<1>5. c.op # "read"
  BY <1>2, <1>3, <1>4, Zenon DEF Outstanding
<1>6. c.op = "write"
  BY <1>2, <1>5, Zenon
<1>7. c.page \notin mapped_pages
  BY <1>6, Zenon DEF CommandsInv
<1>8. c.page # pf_page[t]
  BY <1>3, <1>6, Zenon DEF ReadInv
<1>9. QED
  BY <1>3, <1>6, <1>7, <1>8, Zenon

LEMMA QueueRead ==
  ASSUME NEW t, Thread = {t}, QueueInv(t), read_blocking(t), UNCHANGED failed
  PROVE  QueueInv(t)'
<1> USE DEF read_blocking, Goto, deviceVars
<1>1. SizeInv(t)'
  BY CacheSize, Zenon DEF QueueInv, ListInv, TypeOK, SizeInv, Flushing, Entered
<1>2. CommandsInv(t)'
  <2>1. /\ queue \in [Namespace -> Seq(Command)]
        /\ TypeOK /\ CommandsInv(t) /\ ReadInv(t)
        /\ pc[t] = "read_blocking" /\ ~Outstanding(t, "read", pf_page[t])
        /\ queue' = queue /\ mapped_pages' = mapped_pages \cup {pf_page[t]}
    BY Zenon DEF QueueInv, ListInv, TypeOK
  <2> HIDE DEF read_blocking, Goto, deviceVars
  <2>2. \A n \in Namespace : \A i \in DOMAIN queue[n] :
          /\ tgt_ns(queue[n][i].page) = n /\ queue[n][i].op = "write"
          /\ queue[n][i].page \notin mapped_pages'
    BY <2>1, ReadIsOver, Zenon
  <2>3. \A n \in Namespace : OneWriteEach(queue[n])
    BY <2>1, QueueFacts, Zenon
  <2>4. QED
    BY <2>1, <2>2, <2>3, OnlyWrites, Zenon
<1>3. ContentsInv(t)'
  BY OnDeviceSame, Zenon DEF QueueInv, ListInv, TypeOK, ContentsInv, Flushing, Entered, Missing
<1>4. ReadInv(t)'
  BY Zenon DEF QueueInv, ListInv, TypeOK, ReadInv
<1>5. QED
  BY <1>1, <1>2, <1>3, <1>4, ListRead, Zenon DEF QueueInv

LEMMA QueueOpen ==
  ASSUME NEW t, Thread = {t}, QueueInv(t), OpenPage(t), UNCHANGED failed
  PROVE  QueueInv(t)'
<1> USE DEF OpenPage, Goto, cacheVars, deviceVars, threadVars
<1>1. SizeInv(t)'
  BY CacheSize, Zenon DEF QueueInv, ListInv, TypeOK, SizeInv, Flushing, Entered
<1>2. CommandsInv(t)'
  BY CommandsKept, Zenon DEF QueueInv
<1>3. ContentsInv(t)'
  BY OnDeviceSame, Zenon DEF QueueInv, ListInv, TypeOK, ContentsInv, Flushing, Entered, Missing
<1>4. ReadInv(t)'
  BY Zenon DEF QueueInv, ListInv, TypeOK, ReadInv
<1>5. QED
  BY <1>1, <1>2, <1>3, <1>4, ListOpen, Zenon DEF QueueInv

LEMMA QueueFill ==
  ASSUME NEW t, Thread = {t}, QueueInv(t), FillPage(t), UNCHANGED failed
  PROVE  QueueInv(t)'
<1> USE DEF FillPage, Goto, cacheVars, deviceVars
<1>1. SizeInv(t)'
  BY CacheSize, Zenon DEF QueueInv, ListInv, TypeOK, SizeInv, Flushing, Entered
<1>2. CommandsInv(t)'
  BY CommandsKept, Zenon DEF QueueInv
<1>3. ContentsInv(t)'
  BY OnDeviceSame, Zenon DEF QueueInv, ListInv, TypeOK, ContentsInv, Flushing, Entered, Missing
<1>4. ReadInv(t)'
  BY Zenon DEF QueueInv, ListInv, TypeOK, ReadInv
<1>5. QED
  BY <1>1, <1>2, <1>3, <1>4, ListFill, Zenon DEF QueueInv

LEMMA QueueFlushCache ==
  ASSUME NEW t, Thread = {t}, QueueInv(t), flush_cache(t), UNCHANGED failed
  PROVE  QueueInv(t)'
<1> USE DEF flush_cache, Goto, cacheVars, deviceVars
<1>1. SizeInv(t)'
  BY CacheSize, Zenon DEF QueueInv, ListInv, TypeOK, SizeInv, Flushing, Entered
<1>2. CommandsInv(t)'
  BY CommandsKept, Zenon DEF QueueInv
<1>3. ContentsInv(t)'
  BY OnDeviceSame, Zenon DEF QueueInv, ListInv, TypeOK, ContentsInv, Flushing, Entered, Missing
<1>4. ReadInv(t)'
  BY Zenon DEF QueueInv, ListInv, TypeOK, ReadInv
<1>5. QED
  BY <1>1, <1>2, <1>3, <1>4, ListFlushCache, Zenon DEF QueueInv

LEMMA QueueResize ==
  ASSUME NEW t, Thread = {t}, QueueInv(t), NEW n \in Sizes, resize_cache(t, n), UNCHANGED failed
  PROVE  QueueInv(t)'
<1> USE DEF resize_cache, Goto, deviceVars
<1>1. SizeInv(t)'
  BY CacheSize, PageCacheAssumption
  DEF QueueInv, ListInv, TypeOK, SizeInv, Flushing, Entered
<1>2. CommandsInv(t)'
  BY CommandsKept, Zenon DEF QueueInv
<1>3. ContentsInv(t)'
  BY OnDeviceSame, Zenon DEF QueueInv, ListInv, TypeOK, ContentsInv, Flushing, Entered, Missing
<1>4. ReadInv(t)'
  BY Zenon DEF QueueInv, ListInv, TypeOK, ReadInv
<1>5. QED
  BY <1>1, <1>2, <1>3, <1>4, ListResize, Zenon DEF QueueInv

(* When the write it waits for is over, flush_cache() has no page of the   *)
(* list on its way to the device.                                          *)
LEMMA WriteIsOver ==
  ASSUME NEW t, Thread = {t}, TypeOK, CommandsInv(t), pc[t] = "write_blocking",
         ~Outstanding(t, "write", target_page[t]),
         UNCHANGED <<queue, mapped_pages>>
  PROVE  CommandsInv(t)'
<1>1. ASSUME NEW n \in Namespace, NEW i \in DOMAIN queue[n]
      PROVE  /\ tgt_ns(queue[n][i].page) = n
             /\ queue[n][i].op = "write"
             /\ queue[n][i].page \notin mapped_pages
  <2>1. queue[n][i] \in Command
    BY QueueFacts, Zenon
  <2>2. queue[n][i].by = t /\ queue[n][i].op \in {"read", "write"}
    BY <2>1, Zenon DEF Command
  <2>3. tgt_ns(queue[n][i].page) = n /\ queue[n][i].op = "write"
    BY <2>2, Zenon DEF CommandsInv
  <2>4. queue[n][i].page \in mapped_pages => queue[n][i].page = target_page[t]
    BY <2>3, Zenon DEF CommandsInv
  <2>5. queue[n][i].page # target_page[t]
    BY <2>2, <2>3, Zenon DEF Outstanding
  <2>6. QED
    BY <2>3, <2>4, <2>5, Zenon
<1>2. \A n \in Namespace : OneWriteEach(queue[n])
  BY QueueFacts, Zenon
<1>3. QED
  BY <1>1, <1>2, OnlyWrites, Zenon

LEMMA QueueWriteBlocking ==
  ASSUME NEW t, Thread = {t}, QueueInv(t), write_blocking(t), UNCHANGED failed
  PROVE  QueueInv(t)'
<1> USE DEF write_blocking, Goto, cacheVars, deviceVars
<1>1. SizeInv(t)'
  BY CacheSize, Zenon DEF QueueInv, ListInv, TypeOK, SizeInv, Flushing, Entered
<1>2. CommandsInv(t)'
  BY WriteIsOver, Zenon DEF QueueInv, ListInv
<1>3. ContentsInv(t)'
  BY OnDeviceSame, Zenon DEF QueueInv, ListInv, TypeOK, ContentsInv, Flushing, Entered, Missing
<1>4. ReadInv(t)'
  BY Zenon DEF QueueInv, ListInv, TypeOK, ReadInv
<1>5. QED
  BY <1>1, <1>2, <1>3, <1>4, ListWriteBlocking, Zenon DEF QueueInv

LEMMA QueueRemap ==
  ASSUME NEW t, Thread = {t}, QueueInv(t), Remap(t), UNCHANGED failed
  PROVE  QueueInv(t)'
<1> USE DEF Remap, Goto, deviceVars, threadVars
<1>1. SizeInv(t)'
  BY CacheSize DEF QueueInv, ListInv, TypeOK, SizeInv, Flushing, Entered
<1>2. CommandsInv(t)'
  BY CommandsKept, Zenon DEF QueueInv
<1>3. ContentsInv(t)'
  BY OnDeviceSame, Zenon DEF QueueInv, ListInv, TypeOK, ContentsInv, Flushing, Entered, Missing
<1>4. ReadInv(t)'
  BY Zenon DEF QueueInv, ListInv, TypeOK, ReadInv
<1>5. QED
  BY <1>1, <1>2, <1>3, <1>4, ListRemap, Zenon DEF QueueInv

LEMMA QueueProtectRange ==
  ASSUME NEW t, Thread = {t}, QueueInv(t), ProtectRange(t), UNCHANGED failed
  PROVE  QueueInv(t)'
<1> USE DEF ProtectRange, Goto, cacheVars, deviceVars, threadVars
<1>1. SizeInv(t)'
  BY CacheSize, Zenon DEF QueueInv, ListInv, TypeOK, SizeInv, Flushing, Entered
<1>2. CommandsInv(t)'
  BY CommandsKept, Zenon DEF QueueInv
<1>3. ContentsInv(t)'
  BY OnDeviceSame, Zenon DEF QueueInv, ListInv, TypeOK, ContentsInv, Flushing, Entered, Missing
<1>4. ReadInv(t)'
  BY Zenon DEF QueueInv, ListInv, TypeOK, ReadInv
<1>5. QED
  BY <1>1, <1>2, <1>3, <1>4, ListProtectRange, Zenon DEF QueueInv

(* write() of a page of the list by evict_a_page and flush_cache(): the    *)
(* command is the page's only write, and the device will hold the frame.   *)
LEMMA WriteSubmitted ==
  ASSUME NEW t, Thread = {t}, TypeOK, CommandsInv(t),
         pc[t] \in {"evict_a_page", "flush_cache"},
         NEW p \in mapped_pages, write(t, p), UNCHANGED <<disk, mapped_pages>>,
         pc'[t] \in {"protect", "write_blocking"}, target_page'[t] = p
  PROVE  /\ CommandsInv(t)'
         /\ \A x \in Page :
              OnDevice(x)' = IF x = p THEN mem[p] ELSE OnDevice(x)
<1> DEFINE m == tgt_ns(p)
           c == [op |-> "write", page |-> p, data |-> mem[p], by |-> t]
<1>1. /\ p \in Page /\ m \in Namespace /\ c \in Command
      /\ c.op = "write" /\ c.page = p /\ c.data = mem[p]
  BY NamespaceOfPage, Zenon DEF TypeOK, Command
<1>2. queue' = [queue EXCEPT ![m] = Append(@, c)]
  BY Zenon DEF write, Submit
<1> HIDE DEF c, m
<1>3. /\ queue[m] \in Seq(Command) /\ DOMAIN queue[m] = 1 .. Len(queue[m])
      /\ OneWriteEach(queue[m])
  BY <1>1, QueueFacts, Zenon
<1>4. /\ queue'[m] = Append(queue[m], c)
      /\ \A n \in Namespace \ {m} : queue'[n] = queue[n]
  BY <1>1, <1>2, Zenon DEF TypeOK
<1>5. \A n \in Namespace : \A i \in DOMAIN queue[n] :
        queue[n][i].op = "write" /\ queue[n][i].page \notin mapped_pages
  <2>1. ASSUME NEW n \in Namespace, NEW i \in DOMAIN queue[n]
        PROVE  queue[n][i].op = "write" /\ queue[n][i].page \notin mapped_pages
    <3>1. queue[n][i] \in Command
      BY QueueFacts, Zenon
    <3>2. queue[n][i].op \in {"read", "write"}
      BY <3>1, Zenon DEF Command
    <3>3. QED
      BY <3>2, Zenon DEF CommandsInv
  <2>2. QED
    BY <2>1, Zenon
<1>6. WritesOf(queue[m], p) = {}
  BY <1>1, <1>5, Zenon DEF WritesOf
<1>7. /\ OneWriteEach(Append(queue[m], c))
      /\ \A x : LastWrite(Append(queue[m], c), disk, x)
                = IF p = x THEN mem[p] ELSE LastWrite(queue[m], disk, x)
  <2>1. c.op = "write" => WritesOf(queue[m], c.page) = {}
    BY <1>1, <1>6, Zenon
  <2>2. ASSUME NEW x
        PROVE  /\ OneWriteEach(Append(queue[m], c))
               /\ LastWrite(Append(queue[m], c), disk, x)
                    = IF c.op = "write" /\ c.page = x
                      THEN c.data ELSE LastWrite(queue[m], disk, x)
    BY ONLY <2>1, <1>1, <1>3, LastWriteAppend
  <2>3. QED
    BY <2>2, <1>1, Zenon
<1>8. CommandsInv(t)'
  <2>1. ASSUME NEW n \in Namespace, NEW i \in DOMAIN queue'[n]
        PROVE  /\ tgt_ns(queue'[n][i].page) = n /\ queue'[n][i].op = "write"
               /\ queue'[n][i].page \in mapped_pages => queue'[n][i].page = p
    <3>1. CASE n = m /\ i = Len(queue[m]) + 1
      <4>1. queue'[n][i] = c
        BY ONLY <1>4, <1>3, <1>1, <3>1
      <4>2. QED
        BY <4>1, <1>1, <3>1, Zenon DEF m
    <3>2. CASE n = m /\ i # Len(queue[m]) + 1
      <4>1. i \in DOMAIN queue[m] /\ queue'[m][i] = queue[m][i]
        BY ONLY <1>4, <1>3, <1>1, <3>2, i \in DOMAIN queue'[n]
      <4>2. QED
        BY <4>1, <1>1, <1>5, <3>2, QueueFacts, Zenon
    <3>3. CASE n # m
      <4>1. queue'[n] = queue[n]
        BY <3>3, <1>4, Zenon
      <4>2. QED
        BY <4>1, <1>5, QueueFacts, Zenon
    <3>4. QED
      BY <3>1, <3>2, <3>3, Zenon
  <2>2. ASSUME NEW n \in Namespace
        PROVE  OneWriteEach(queue'[n])
    <3>1. CASE n = m
      BY <3>1, <1>4, <1>7, Zenon
    <3>2. CASE n # m
      BY <3>2, <1>4, QueueFacts, Zenon
    <3>3. QED
      BY <3>1, <3>2, Zenon
  <2>3. QED
    BY <2>1, <2>2, OnlyWrites, Zenon
<1>9. ASSUME NEW x \in Page
      PROVE  OnDevice(x)' = IF x = p THEN mem[p] ELSE OnDevice(x)
  <2>1. CASE tgt_ns(x) = m
    <3>1. /\ OnDevice(x) = LastWrite(queue[m], disk, x)
          /\ OnDevice(x)' = LastWrite(queue'[m], disk, x)
      BY <2>1, OnDeviceIsLastWrite, Zenon
    <3>2. QED
      BY <3>1, <1>4, <1>7, Zenon
  <2>2. CASE tgt_ns(x) # m
    BY <2>2, <1>4, NamespaceOfPage, OnDeviceIsLastWrite DEF m
  <2>3. QED
    BY <2>1, <2>2, Zenon
<1>10. QED
  BY <1>8, <1>9, Zenon

(* A thread that evicts finds a page in the list, and all of them          *)
(* accessible.                                                             *)
LEMMA EvictsFromList ==
  ASSUME NEW t, ListInv(t), SizeInv(t), evict_a_page(t)
  PROVE  pc[t] = "evict_a_page" /\ mapped_pages # {} /\ accessible = mapped_pages
<1>1. pc[t] = "evict_a_page"
  BY Zenon DEF evict_a_page, Goto
<1>2. used_pages = Cardinality(mapped_pages) /\ accessible = mapped_pages
  BY <1>1, CardinalityOfList DEF ListInv, TypeOK
<1>3. used_pages = max_active_pg_cnt /\ max_active_pg_cnt # 0
  BY <1>1, CacheSize, Zenon DEF ListInv, SizeInv
<1>4. QED
  BY <1>1, <1>2, <1>3, FS_EmptySet, Zenon

LEMMA QueueEvict ==
  ASSUME NEW t, Thread = {t}, QueueInv(t), QueuesHaveRoom, evict_a_page(t),
         UNCHANGED failed
  PROVE  QueueInv(t)'
<1>1. pc[t] = "evict_a_page" /\ mapped_pages # {} /\ accessible = mapped_pages
  BY EvictsFromList, Zenon DEF QueueInv
<1>2. PICK p \in mapped_pages :
        /\ Goto(t, "evict_a_page", "protect") /\ write(t, p)
        /\ target_page' = [target_page EXCEPT ![t] = p]
  BY <1>1, Zenon DEF evict_a_page, QueuesHaveRoom, QueueInv, ListInv, TypeOK
<1>3. /\ pc'[t] = "protect" /\ target_page'[t] = p /\ mem' = mem
      /\ UNCHANGED <<mapped_pages, used_pages, max_active_pg_cnt, disk, read_buf>>
  BY <1>2, Zenon DEF evict_a_page, Goto, QueueInv, ListInv, TypeOK, cacheVars
<1>4. SizeInv(t)'
  BY <1>1, <1>3, Zenon DEF QueueInv, SizeInv, Flushing
<1>5. /\ CommandsInv(t)'
      /\ \A x \in Page : OnDevice(x)' = IF x = p THEN mem[p] ELSE OnDevice(x)
  BY <1>1, <1>2, <1>3, WriteSubmitted, Zenon DEF QueueInv, ListInv
<1>6. ReadInv(t)'
  BY <1>3, Zenon DEF ReadInv
<1>7. ContentsInv(t)'
  <2>1. (OnDevice(target_page[t]) = mem[target_page[t]])'
    BY <1>3, <1>5, Zenon DEF QueueInv, ListInv, TypeOK
  <2>2. QED
    BY <1>3, <2>1, Zenon DEF ContentsInv, Flushing, Entered
<1>8. QED
  BY <1>4, <1>5, <1>6, <1>7, ListEvict, Zenon DEF QueueInv

LEMMA QueueFlushPage ==
  ASSUME NEW t, Thread = {t}, QueueInv(t), QueuesHaveRoom, FlushPage(t),
         UNCHANGED failed
  PROVE  QueueInv(t)'
<1>1. pc[t] = "flush_cache" /\ todo[t] \subseteq mapped_pages
  BY Zenon DEF FlushPage, Goto, QueueInv, ListInv, Flushing
<1>2. PICK p \in todo[t] :
        /\ Goto(t, "flush_cache", "write_blocking") /\ write(t, p)
        /\ todo' = [todo EXCEPT ![t] = @ \ {p}]
        /\ target_page' = [target_page EXCEPT ![t] = p]
  BY <1>1, Zenon DEF FlushPage, QueuesHaveRoom, QueueInv, ListInv, TypeOK
<1>3. /\ pc'[t] = "write_blocking" /\ target_page'[t] = p /\ p \in mapped_pages
      /\ todo'[t] = todo[t] \ {p}
      /\ UNCHANGED <<mem, mapped_pages, used_pages, max_active_pg_cnt, disk>>
  BY <1>1, <1>2, Zenon DEF FlushPage, Goto, QueueInv, ListInv, TypeOK, cacheVars
<1>4. SizeInv(t)'
  BY <1>3, Zenon DEF SizeInv, Flushing
<1>5. /\ CommandsInv(t)'
      /\ \A x \in Page : OnDevice(x)' = IF x = p THEN mem[p] ELSE OnDevice(x)
  BY <1>1, <1>2, <1>3, WriteSubmitted, Zenon DEF QueueInv, ListInv
<1>6. ReadInv(t)'
  BY <1>3, Zenon DEF ReadInv
<1>7. ContentsInv(t)'
  <2>1. ASSUME ~failed, NEW x \in mapped_pages \ (todo[t] \ {p})
        PROVE  OnDevice(x)' = mem[x]
    <3>1. x \in Page /\ (x # p => x \in mapped_pages \ todo[t])
      BY <2>1, Zenon DEF QueueInv, ListInv, TypeOK
    <3>2. x # p => OnDevice(x) = mem[x]
      BY <2>1, <3>1, <1>1, Zenon DEF QueueInv, ContentsInv, Flushing
    <3>3. QED
      BY <3>1, <3>2, <1>5, Zenon
  <2>2. ~failed => \A x \in (mapped_pages \ todo[t])' : OnDevice(x)' = mem[x]'
    BY <2>1, <1>3, Zenon
  <2>3. QED
    BY <1>3, <2>2, Zenon DEF ContentsInv, Flushing, Entered
<1>8. QED
  BY <1>4, <1>5, <1>6, <1>7, ListFlushPage, Zenon DEF QueueInv

LEMMA QueueMap ==
  ASSUME NEW t, Thread = {t}, QueueInv(t), QueuesHaveRoom,
         map_page_from_blkdev(t), UNCHANGED failed
  PROVE  /\ QueueInv(t)'
         /\ \A x \in Page : OnDevice(x)' = OnDevice(x)
<1> DEFINE p == pf_page[t]
           m == tgt_ns(p)
           c == [op |-> "read", page |-> p, data |-> 0, by |-> t]
<1>1. /\ pc[t] = "map_page" /\ pc'[t] = "read_blocking"
      /\ p \in Page \ mapped_pages /\ m \in Namespace /\ c \in Command
      /\ UNCHANGED <<mapped_pages, max_active_pg_cnt, disk, pf_page>>
      /\ used_pages' = used_pages + 1
  BY NamespaceOfPage, PageCacheAssumption, Zenon
  DEF map_page_from_blkdev, Goto, QueueInv, ListInv, TypeOK, Missing, Command
<1>2. c.op = "read" /\ c.page = p /\ c.by = t
  BY Zenon
<1>3. queue' = [queue EXCEPT ![m] = Append(@, c)]
  BY <1>1, Zenon DEF map_page_from_blkdev, QueuesHaveRoom, read, Submit
<1> HIDE DEF c
<1>4. TypeOK /\ CommandsInv(t)
  BY Zenon DEF QueueInv, ListInv
<1>5. /\ queue[m] \in Seq(Command) /\ DOMAIN queue[m] = 1 .. Len(queue[m])
      /\ OneWriteEach(queue[m]) /\ Len(queue[m]) \in Nat
  BY <1>1, <1>4, QueueFacts
<1>6. /\ queue'[m] = Append(queue[m], c)
      /\ \A n \in Namespace \ {m} : queue'[n] = queue[n]
  BY <1>1, <1>3, <1>4, Zenon DEF TypeOK
<1>7. /\ OneWriteEach(Append(queue[m], c))
      /\ \A x : LastWrite(Append(queue[m], c), disk, x) = LastWrite(queue[m], disk, x)
  BY <1>1, <1>2, <1>5, LastWriteAppend
<1>8. /\ Len(queue'[m]) = Len(queue[m]) + 1
      /\ DOMAIN queue'[m] = 1 .. Len(queue[m]) + 1
      /\ queue'[m][Len(queue[m]) + 1] = c
      /\ \A i \in DOMAIN queue[m] : queue'[m][i] = queue[m][i]
  BY <1>1, <1>5, <1>6
<1>9. \A n \in Namespace : \A i \in DOMAIN queue[n] :
        queue[n][i].op = "write" /\ queue[n][i].page \notin mapped_pages
  <2>1. ASSUME NEW n \in Namespace, NEW i \in DOMAIN queue[n]
        PROVE  queue[n][i].op = "write" /\ queue[n][i].page \notin mapped_pages
    <3>1. queue[n][i] \in Command
      BY <1>4, QueueFacts, Zenon
    <3>2. queue[n][i].op \in {"read", "write"}
      BY <3>1, Zenon DEF Command
    <3>3. QED
      BY <3>2, <1>1, <1>4, Zenon DEF CommandsInv
  <2>2. QED
    BY <2>1, Zenon
<1>10. SizeInv(t)'
  BY <1>1, CacheSize DEF QueueInv, ListInv, TypeOK, SizeInv, Flushing
<1>11. CommandsInv(t)'
  <2>1. ASSUME NEW n \in Namespace, n # m, NEW i \in DOMAIN queue'[n]
        PROVE  LET d == queue'[n][i] IN
               /\ tgt_ns(d.page) = n /\ d.op = "write"
               /\ d.page \notin mapped_pages
               /\ \A j \in DOMAIN queue'[n] :
                    queue'[n][j].op = "write" /\ queue'[n][j].page = d.page => j = i
    <3>1. queue'[n] = queue[n]
      BY <2>1, <1>6, Zenon
    <3>2. OneWriteEach(queue[n]) /\ tgt_ns(queue[n][i].page) = n
      BY <2>1, <3>1, <1>4, QueueFacts, Zenon
    <3>3. QED
      BY <2>1, <3>1, <3>2, <1>9, Zenon DEF OneWriteEach
  <2>2. ASSUME NEW i \in DOMAIN queue'[m]
        PROVE  LET d == queue'[m][i] IN
               /\ tgt_ns(d.page) = m
               /\ d.op = "read" => d.page = p /\ i = Len(queue'[m])
               /\ d.op = "write" => d.page \notin mapped_pages
               /\ \A j \in DOMAIN queue'[m] :
                    d.op = "write" /\ queue'[m][j].op = "write"
                      /\ queue'[m][j].page = d.page => j = i
    <3>1. CASE i = Len(queue[m]) + 1
      BY <3>1, <1>8, <1>2, Zenon
    <3>2. CASE i # Len(queue[m]) + 1
      <4>1. i \in DOMAIN queue[m] /\ queue'[m][i] = queue[m][i]
        BY ONLY <1>8, <1>5, <3>2, i \in DOMAIN queue'[m]
      <4>2. tgt_ns(queue[m][i].page) = m
        BY <4>1, <1>1, <1>4, QueueFacts, Zenon
      <4>3. QED
        BY <4>1, <4>2, <1>1, <1>6, <1>9, <1>7, Zenon DEF OneWriteEach
    <3>3. QED
      BY <3>1, <3>2, Zenon
  <2>3. ASSUME NEW n \in Namespace, NEW i \in DOMAIN queue'[n]
        PROVE  LET d == queue'[n][i] IN
               /\ tgt_ns(d.page) = n
               /\ d.op = "read" => /\ pc'[t] = "read_blocking" /\ d.page = pf_page'[t]
                                   /\ i = Len(queue'[n])
               /\ d.op = "write" =>
                    /\ d.page \notin mapped_pages'
                    /\ \A j \in DOMAIN queue'[n] :
                         queue'[n][j].op = "write" /\ queue'[n][j].page = d.page => j = i
    <3>1. CASE n = m
      BY <3>1, <2>2, <1>1, Zenon
    <3>2. CASE n # m
      BY <3>2, <2>1, <1>1, Zenon
    <3>3. QED
      BY <3>1, <3>2, Zenon
  <2>4. QED
    BY <2>3, Zenon DEF CommandsInv, tgt_ns
<1>12. Outstanding(t, "read", pf_page[t])'
  <2>1. Len(queue[m]) + 1 \in DOMAIN queue'[m]
    BY <1>8, <1>5
  <2>2. /\ queue'[m][Len(queue[m]) + 1].op = "read"
        /\ queue'[m][Len(queue[m]) + 1].page = p
        /\ queue'[m][Len(queue[m]) + 1].by = t
    BY <1>2, <1>8, Zenon
  <2>3. pf_page' = pf_page
    BY <1>1, Zenon
  <2>4. QED
    BY <2>1, <2>2, <2>3, ZenonT(30) DEF Outstanding, tgt_ns
<1>13. ReadInv(t)' /\ ContentsInv(t)'
  BY <1>1, <1>12, Zenon DEF ReadInv, ContentsInv, Flushing, Entered
<1>14. ASSUME NEW x \in Page
       PROVE  OnDevice(x)' = OnDevice(x)
  <2>1. /\ OnDevice(x) = LastWrite(queue[tgt_ns(x)], disk, x)
        /\ OnDevice(x)' = LastWrite(queue'[tgt_ns(x)], disk, x)
    BY <1>1, OnDeviceIsLastWrite, Zenon
  <2>2. CASE tgt_ns(x) = m
    BY <2>1, <2>2, <1>6, <1>7, Zenon
  <2>3. CASE tgt_ns(x) # m
    BY <2>1, <2>3, <1>6, NamespaceOfPage, Zenon
  <2>4. QED
    BY <2>2, <2>3, Zenon
<1>15. QED
  BY <1>10, <1>11, <1>13, <1>14, ListMap, Zenon DEF QueueInv

(* The device executes the command at the head of a queue: no page changes *)
(* unless it fails, and a read that answers a fault has found the queue    *)
(* empty but for itself.                                                   *)
LEMMA QueueDevice ==
  ASSUME NEW t, Thread = {t}, InOrder, QueueInv(t), Device
  PROVE  /\ QueueInv(t)'
         /\ ~failed' => \A x \in Page : OnDevice(x)' = OnDevice(x)
<1>1. PICK n \in Namespace : 1 \in DOMAIN queue[n] /\ Complete(n, 1)
  BY Zenon DEF Device
<1> DEFINE q == queue[n]
           p == pf_page[t]
<1>2. TypeOK /\ CommandsInv(t)
  BY Zenon DEF QueueInv, ListInv
<1>3. /\ q \in Seq(Command) /\ DOMAIN q = 1 .. Len(q) /\ OneWriteEach(q)
      /\ Len(q) \in Nat /\ 1 \in 1 .. Len(q)
      /\ q[1] \in Command /\ tgt_ns(q[1].page) = n
  BY <1>1, <1>2, QueueFacts
<1>4. /\ queue'[n] = RemoveAt(q, 1)
      /\ \A m \in Namespace \ {n} : queue'[m] = queue[m]
  BY <1>1, <1>2, Zenon DEF Complete, TypeOK
<1>5. /\ DOMAIN queue'[n] = 1 .. Len(q) - 1 /\ Len(queue'[n]) = Len(q) - 1
      /\ \A i \in 1 .. Len(q) - 1 : queue'[n][i] = q[i + 1]
  <2>1. /\ RemoveAt(q, 1) \in Seq(Command)
        /\ Len(RemoveAt(q, 1)) = Len(q) - 1
        /\ \A i \in 1 .. Len(q) - 1 :
             RemoveAt(q, 1)[i] = IF i < 1 THEN q[i] ELSE q[i + 1]
    BY <1>3, RemoveAtProperties, Zenon
  <2>2. QED
    BY <2>1, <1>4
<1>6. UNCHANGED <<mem, accessible, mapped_pages, used_pages, max_active_pg_cnt,
                  pc, pf_page, target_page, src, todo>>
  BY <1>1, Zenon DEF Complete, cacheVars, threadVars
<1>7. SizeInv(t)'
  BY <1>6, Zenon DEF QueueInv, SizeInv
<1>8. CommandsInv(t)'
  <2>1. ASSUME NEW m \in Namespace, NEW i \in DOMAIN queue'[m]
        PROVE  \E k \in DOMAIN queue[m] :
                 /\ queue'[m][i] = queue[m][k]
                 /\ k = Len(queue[m]) => i = Len(queue'[m])
    <3>1. CASE m = n
      <4>1. i + 1 \in DOMAIN q /\ queue'[n][i] = q[i + 1] /\ i \in Int
        BY <3>1, <1>3, <1>5
      <4>2. i + 1 = Len(q) => i = Len(queue'[n])
        BY <4>1, <1>3, <1>5
      <4>3. QED
        BY <3>1, <4>1, <4>2, Zenon
    <3>2. CASE m # n
      BY <3>2, <1>4, Zenon
    <3>3. QED
      BY <3>1, <3>2, Zenon
  <2>2. ASSUME NEW m \in Namespace
        PROVE  OneWriteEach(queue'[m])
    <3>1. CASE m = n
      <4>1. SUFFICES ASSUME NEW i \in DOMAIN queue'[n],
                            NEW j \in DOMAIN queue'[n],
                            queue'[n][i].op = "write", queue'[n][j].op = "write",
                            queue'[n][i].page = queue'[n][j].page
                     PROVE  i = j
        BY <3>1, Zenon DEF OneWriteEach
      <4>2. /\ i + 1 \in DOMAIN q /\ queue'[n][i] = q[i + 1] /\ i \in Int
            /\ j + 1 \in DOMAIN q /\ queue'[n][j] = q[j + 1] /\ j \in Int
        <5>1. i \in 1 .. Len(q) - 1 /\ j \in 1 .. Len(q) - 1
          BY <4>1, <1>5, Zenon
        <5>2. queue'[n][i] = q[i + 1] /\ queue'[n][j] = q[j + 1]
          BY <5>1, <1>5, Zenon
        <5>3. QED
          BY <5>1, <5>2, <1>3
      <4>3. QED
        BY <4>1, <4>2, <1>3 DEF OneWriteEach
    <3>2. CASE m # n
      BY <3>2, <1>4, <1>2, QueueFacts, Zenon
    <3>3. QED
      BY <3>1, <3>2, Zenon
  <2>3. QED
    BY <2>1, <2>2, <1>2, <1>6 DEF CommandsInv, OneWriteEach, tgt_ns
<1>9. ASSUME pc[t] = "read_blocking", Outstanding(t, "read", p),
             ~Outstanding(t, "read", p)'
      PROVE  n = tgt_ns(p) /\ Len(q) = 1 /\ q[1].op = "read" /\ q[1].page = p
  <2>1. p \in Page /\ tgt_ns(p) \in Namespace
    BY <1>9, NamespaceOfPage, Zenon DEF QueueInv, ListInv, Missing
  <2>2. PICK i \in DOMAIN queue[tgt_ns(p)] :
          /\ queue[tgt_ns(p)][i].by = t /\ queue[tgt_ns(p)][i].op = "read"
          /\ queue[tgt_ns(p)][i].page = p
    BY <1>9, Zenon DEF Outstanding
  <2>3. i = Len(queue[tgt_ns(p)])
    BY <2>1, <2>2, <1>2, Zenon DEF CommandsInv
  <2>4. \A j \in DOMAIN queue'[tgt_ns(p)] :
          queue'[tgt_ns(p)][j] # queue[tgt_ns(p)][i]
    BY <1>9, <1>6, <2>2, Zenon DEF Outstanding, tgt_ns
  <2>5. n = tgt_ns(p)
    BY <2>1, <2>2, <2>4, <1>4, Zenon
  <2>6. i = 1
    <3>1. i # 1 => i - 1 \in DOMAIN queue'[n] /\ queue'[n][i - 1] = q[i]
      <4>1. i \in 1 .. Len(q) /\ Len(q) \in Nat
        BY <2>2, <2>5, <1>3, Zenon
      <4>2. i # 1 => i - 1 \in 1 .. Len(q) - 1 /\ (i - 1) + 1 = i
        BY ONLY <4>1
      <4>3. QED
        BY <4>2, <1>5, Zenon
    <3>2. QED
      BY <3>1, <2>4, <2>5, Zenon
  <2>7. QED
    BY <2>2, <2>3, <2>5, <2>6, Zenon
<1>10. ASSUME pc[t] = "read_blocking", ~Outstanding(t, "read", p)
       PROVE  q[1].op = "write"
  <2>1. q[1].by = t /\ q[1].op \in {"read", "write"}
    BY <1>3, Zenon DEF Command
  <2>2. q[1].op = "read" => q[1].page = p
    BY <1>1, <1>2, Zenon DEF CommandsInv
  <2>3. QED
    BY <2>1, <2>2, <1>1, <1>3, <1>10, Zenon DEF Outstanding
<1>11. ReadInv(t)'
  <2>1. SUFFICES ASSUME pc[t] = "read_blocking", ~Outstanding(t, "read", p)',
                        NEW i \in DOMAIN queue'[tgt_ns(p)]
                 PROVE  ~(/\ queue'[tgt_ns(p)][i].op = "write"
                          /\ queue'[tgt_ns(p)][i].page = p)
    BY <1>6, Zenon DEF ReadInv, tgt_ns
  <2>2. CASE Outstanding(t, "read", p)
    <3>1. n = tgt_ns(p) /\ Len(q) = 1
      BY <2>1, <2>2, <1>9, Zenon
    <3>2. QED
      BY <3>1, <1>5, <2>1
  <2>3. CASE ~Outstanding(t, "read", p)
    <3>1. \A j \in DOMAIN queue[tgt_ns(p)] :
            ~(queue[tgt_ns(p)][j].op = "write" /\ queue[tgt_ns(p)][j].page = p)
      BY <2>1, <2>3, Zenon DEF QueueInv, ReadInv
    <3>2. p \in Page /\ tgt_ns(p) \in Namespace
      BY <2>1, NamespaceOfPage, Zenon DEF QueueInv, ListInv, Missing
    <3>3. \E j \in DOMAIN queue[tgt_ns(p)] :
            queue'[tgt_ns(p)][i] = queue[tgt_ns(p)][j]
      <4>1. CASE n = tgt_ns(p)
        <5>1. i + 1 \in DOMAIN q /\ queue'[n][i] = q[i + 1]
          BY <4>1, <2>1, <1>3, <1>5
        <5>2. QED
          BY <4>1, <5>1, Zenon
      <4>2. CASE n # tgt_ns(p)
        BY <4>2, <2>1, <3>2, <1>4, Zenon
      <4>3. QED
        BY <4>1, <4>2, Zenon
    <3>4. QED
      BY <3>1, <3>3, Zenon
  <2>4. QED
    BY <2>2, <2>3, Zenon
<1>12. ASSUME ~failed'
       PROVE  /\ ~failed
              /\ disk' = IF q[1].op = "write"
                         THEN [disk EXCEPT ![q[1].page] = q[1].data] ELSE disk
              /\ read_buf' = IF q[1].op = "read" THEN disk[q[1].page] ELSE read_buf
  BY <1>1, <1>12, Zenon DEF Complete
<1>13. ASSUME ~failed', NEW x \in Page
       PROVE  OnDevice(x)' = OnDevice(x)
  <2>1. /\ OnDevice(x) = LastWrite(queue[tgt_ns(x)], disk, x)
        /\ OnDevice(x)' = LastWrite(queue'[tgt_ns(x)], disk', x)
    BY OnDeviceIsLastWrite, Zenon
  <2>2. CASE tgt_ns(x) = n
    <3>1. disk \in [Page -> Val]
      BY <1>2, Zenon DEF TypeOK
    <3>2. LastWrite(RemoveAt(q, 1), disk', x) = LastWrite(q, disk, x)
      BY <3>1, <1>12, <1>13, <1>3, LastWriteHead, Zenon
    <3>3. QED
      BY <2>1, <2>2, <3>2, <1>4, Zenon
  <2>3. CASE tgt_ns(x) # n
    <3>1. disk'[x] = disk[x]
      <4>1. q[1].page # x /\ disk \in [Page -> Val] /\ q[1].page \in Page
        BY <2>3, <1>2, <1>3, Zenon DEF TypeOK, Command
      <4>2. QED
        BY <4>1, <1>12, <1>13, Zenon
    <3>2. queue'[tgt_ns(x)] = queue[tgt_ns(x)]
      BY <2>3, <1>4, NamespaceOfPage, Zenon
    <3>3. QED
      BY <2>1, <3>1, <3>2 DEF LastWrite
  <2>4. QED
    BY <2>2, <2>3, Zenon
<1>14. ContentsInv(t)'
  <2>1. SUFFICES ASSUME ~failed'
                 PROVE  ContentsInv(t)'
    BY Zenon DEF ContentsInv
  <2>2. ~failed /\ \A x \in Page : OnDevice(x)' = OnDevice(x)
    BY <2>1, <1>12, <1>13, Zenon
  <2>3. ASSUME pc[t] = "read_blocking", ~Outstanding(t, "read", p)'
        PROVE  read_buf' = OnDevice(p)
    <3>1. p \in Page
      BY <2>3, Zenon DEF QueueInv, ListInv, Missing
    <3>2. CASE Outstanding(t, "read", p)
      <4>1. n = tgt_ns(p) /\ Len(q) = 1 /\ q[1].op = "read" /\ q[1].page = p
        BY <2>3, <3>2, <1>9, Zenon
      <4>2. LastWrite(q, disk, p) = disk[p]
        <5>1. DOMAIN q = {1} /\ "read" # "write"
          BY ONLY <4>1, <1>3
        <5>2. WritesOf(q, p) = {}
          BY <4>1, <5>1, Zenon DEF WritesOf
        <5>3. QED
          BY <5>2, Zenon DEF LastWrite
      <4>3. OnDevice(p) = LastWrite(q, disk, p)
        BY <4>1, OnDeviceIsLastWrite, Zenon
      <4>4. QED
        BY <4>1, <4>2, <4>3, <2>1, <1>12, Zenon
    <3>3. CASE ~Outstanding(t, "read", p)
      <4>1. read_buf = OnDevice(p)
        BY <2>2, <2>3, <3>3, Zenon DEF QueueInv, ContentsInv
      <4>2. read_buf' = read_buf
        BY <2>1, <2>3, <3>3, <1>10, <1>12, Zenon
      <4>3. QED
        BY <4>1, <4>2, Zenon
    <3>4. QED
      BY <3>2, <3>3, Zenon
  <2>4. pc[t] = "read_blocking" => p \in Page
    BY Zenon DEF QueueInv, ListInv, Missing
  <2>5. pc[t] \in Entered => p \in Page
    BY <1>2, Zenon DEF QueueInv, ListInv, TypeOK
  <2>6. pc[t] = "protect" => target_page[t] \in Page
    BY <1>2, Zenon DEF QueueInv, ListInv, TypeOK
  <2>7. mapped_pages \subseteq Page
    BY <1>2, Zenon DEF TypeOK
  <2>8. QED
    BY <2>1, <2>2, <2>3, <2>4, <2>5, <2>6, <2>7, <1>6, Zenon DEF QueueInv, ContentsInv
<1>15. QED
  BY <1>7, <1>8, <1>11, <1>13, <1>14, ListDevice, Zenon DEF QueueInv

(* QueueInv is inductive where no submission fails. *)
LEMMA QueueNext ==
  ASSUME NEW t, Thread = {t}, InOrder, QueueInv(t), QueuesHaveRoom, [Next]_vars
  PROVE  QueueInv(t)'
<1>1. CASE UNCHANGED vars
  <2>1. ListInv(t)'
    BY <1>1, ListNext, Zenon DEF QueueInv
  <2>2. UNCHANGED <<mem, mapped_pages, used_pages, max_active_pg_cnt, queue, disk,
                    read_buf, failed, pc, pf_page, target_page, src, todo>>
    BY <1>1, Zenon DEF vars, cacheVars, deviceVars, threadVars
  <2>3. SizeInv(t)' /\ CommandsInv(t)' /\ ReadInv(t)'
    <3>1. SizeInv(t)'
      BY <2>2, Zenon DEF QueueInv, SizeInv
    <3>2. \A x : tgt_ns(x)' = tgt_ns(x)
      BY Zenon DEF tgt_ns
    <3>3. CommandsInv(t)'
      BY <2>2, CommandsSame, Zenon DEF QueueInv
    <3>4. ReadInv(t)'
      BY <2>2, <3>2, Zenon DEF QueueInv, ReadInv, Outstanding
    <3>5. QED
      BY <3>1, <3>3, <3>4, Zenon
  <2>4. ContentsInv(t)'
    BY <2>2, OnDeviceSame, Zenon DEF QueueInv, ContentsInv, Outstanding, tgt_ns
  <2>5. QED
    BY <2>1, <2>3, <2>4, Zenon DEF QueueInv
<1>2. CASE Device
  BY <1>2, QueueDevice, Zenon
<1>3. CASE Step(t)
  BY <1>3, QueueExecute, QueueFault, QueueNotify, QueueEvict, QueueProtect,
     QueueMap, QueueRead, QueueOpen, QueueFill, QueueFlushPage,
     QueueWriteBlocking, QueueRemap, QueueProtectRange, Zenon
  DEF Step
<1>4. CASE Call(t)
  BY <1>4, QueueIssue, QueueFlushCache, QueueResize, Zenon DEF Call
<1>5. QED
  BY <1>1, <1>2, <1>3, <1>4, Zenon DEF Next

-----------------------------------------------------------------------------
(* What follows for the cache *)

(* One thread keeps the lists of the controller well formed, whatever the  *)
(* queue pairs do: in particular used_pages, which evict_a_page counts     *)
(* down, never falls below zero.                                           *)
THEOREM CacheTypes ==
  ASSUME NEW t, Thread = {t}
  PROVE  Spec => []TypeOK
<1>1. Init => ListInv(t)
  BY ListInit, Zenon
<1>2. ListInv(t) /\ [Next]_vars => ListInv(t)'
  BY ListNext, Zenon
<1>3. ListInv(t) => TypeOK
  BY Zenon DEF ListInv
<1>4. QED
  BY <1>1, <1>2, <1>3, PTL DEF Spec

LEMMA QueueInvariant ==
  ASSUME NEW t, Thread = {t}, InOrder
  PROVE  Spec /\ []QueuesHaveRoom => []QueueInv(t)
<1>1. Init => QueueInv(t)
  BY QueueInit, Zenon
<1>2. QueueInv(t) /\ QueuesHaveRoom /\ [Next]_vars => QueueInv(t)'
  BY QueueNext, Zenon
<1>3. QED
  BY <1>1, <1>2, PTL DEF Spec

(* While no submission fails, used_pages is the length of the list (with   *)
(* the page being read), the cache never holds more pages than init() and  *)
(* resize_cache() allow, and what the program can access is what the list  *)
(* holds.                                                                  *)
THEOREM CacheResidency ==
  ASSUME NEW t, Thread = {t}, InOrder
  PROVE  Spec /\ []QueuesHaveRoom => []Residency
<1>1. QueueInv(t) => Residency
  <2>1. SUFFICES ASSUME QueueInv(t)
                 PROVE  Residency
    BY Zenon
  <2>2. Cardinality({u \in Thread : pc[u] = "read_blocking"})
          = IF pc[t] = "read_blocking" THEN 1 ELSE 0
    <3>1. CASE pc[t] = "read_blocking"
      <4>1. {u \in Thread : pc[u] = "read_blocking"} = {t}
        BY <3>1, Zenon
      <4>2. QED
        BY <3>1, <4>1, FS_Singleton, Zenon
    <3>2. CASE pc[t] # "read_blocking"
      <4>1. {u \in Thread : pc[u] = "read_blocking"} = {}
        BY <3>2, Zenon
      <4>2. QED
        BY <3>2, <4>1, FS_EmptySet, Zenon
    <3>3. QED
      BY <3>1, <3>2, Zenon
  <2>3. {u \in Thread : pc[u] \in {"flush_cache", "write_blocking"}} = {}
          => pc[t] \notin Flushing
    BY Zenon DEF Flushing
  <2>4. QED
    BY <2>1, <2>2, <2>3, Zenon DEF Residency, QueueInv, ListInv, SizeInv
<1>2. QED
  BY <1>1, QueueInvariant, PTL

(* While no submission fails, none of the crashes the handler and          *)
(* flush_cache() are exposed to happens: not the assertion on used_pages   *)
(* (controller.cc:197), the division by an empty list, the access to a     *)
(* protected page or the null sequence of write_blocking().                *)
THEOREM CacheNeverCrashes ==
  ASSUME NEW t, Thread = {t}, InOrder
  PROVE  Spec /\ []QueuesHaveRoom
           => [](UsedPagesBounded /\ \A u \in Thread : pc[u] # "crashed")
<1>1. QueueInv(t) => UsedPagesBounded /\ \A u \in Thread : pc[u] # "crashed"
  BY Zenon DEF QueueInv, SizeInv, UsedPagesBounded, Flushing
<1>2. QED
  BY <1>1, QueueInvariant, PTL

(* While no command fails either, a fault is answered with what was last   *)
(* stored into the page: in a queue pair that executes in order the read   *)
(* does not overtake the page's own write.                                 *)
THEOREM CacheFillsLatest ==
  ASSUME NEW t, Thread = {t}, InOrder
  PROVE  Spec /\ []QueuesHaveRoom => [](~failed => FillsLatest)
<1>1. QueueInv(t) => (~failed => FillsLatest)
  BY Zenon DEF QueueInv, ContentsInv, FillsLatest, Entered
<1>2. QED
  BY <1>1, QueueInvariant, PTL

-----------------------------------------------------------------------------
(* The refinement of FlatMemory *)

(* The contents of a page, as the refinement mapping has them. *)
FlatAt(p) == IF Resident(p) THEN mem[p] ELSE OnDevice(p)

LEMMA LastWriteType ==
  ASSUME NEW q \in Seq(Command), OneWriteEach(q), NEW d \in [Page -> Val],
         NEW p \in Page
  PROVE  LastWrite(q, d, p) \in Val
<1>1. CASE \E i \in DOMAIN q : q[i].op = "write" /\ q[i].page = p
  <2>1. PICK i \in DOMAIN q : q[i].op = "write" /\ q[i].page = p
    BY <1>1, Zenon
  <2>2. q[i] \in Command
    OBVIOUS
  <2>3. QED
    <3>1. LastWrite(q, d, p) = q[i].data
      BY <2>1, LastWriteValue
    <3>2. QED
      BY <2>2, <3>1, Zenon DEF Command
<1>2. CASE ~\E i \in DOMAIN q : q[i].op = "write" /\ q[i].page = p
  BY <1>2, Zenon DEF LastWrite, WritesOf
<1>3. QED
  BY <1>1, <1>2, Zenon

(* The contents are page contents, in both states of a step. *)
LEMMA FlatType ==
  ASSUME NEW t
  PROVE  /\ QueueInv(t) => \A p \in Page : FlatAt(p) \in Val
         /\ QueueInv(t)' => \A p \in Page : FlatAt(p)' \in Val
<1>1. ASSUME QueueInv(t), NEW p \in Page
      PROVE  FlatAt(p) \in Val
  <2>1. TypeOK /\ CommandsInv(t) /\ tgt_ns(p) \in Namespace
    BY <1>1, NamespaceOfPage, Zenon DEF QueueInv, ListInv
  <2>2. queue[tgt_ns(p)] \in Seq(Command) /\ OneWriteEach(queue[tgt_ns(p)])
    BY <2>1, Zenon DEF TypeOK, CommandsInv, OneWriteEach
  <2>3. mem[p] \in Val /\ disk \in [Page -> Val]
    BY <2>1, Zenon DEF TypeOK
  <2>4. OnDevice(p) \in Val
    BY <2>2, <2>3, LastWriteType, OnDeviceIsLastWrite, Zenon
  <2>5. QED
    BY <2>3, <2>4, Zenon DEF FlatAt
<1>2. ASSUME QueueInv(t)', NEW p \in Page
      PROVE  FlatAt(p)' \in Val
  <2>1. TypeOK' /\ CommandsInv(t)' /\ tgt_ns(p) \in Namespace
    BY <1>2, NamespaceOfPage, Zenon DEF QueueInv, ListInv
  <2>2. queue'[tgt_ns(p)] \in Seq(Command) /\ OneWriteEach(queue'[tgt_ns(p)])
    BY <2>1, Zenon DEF TypeOK, CommandsInv, OneWriteEach
  <2>3. mem'[p] \in Val /\ disk' \in [Page -> Val]
    BY <2>1, Zenon DEF TypeOK
  <2>4. OnDevice(p)' \in Val
    BY <2>2, <2>3, LastWriteType, OnDeviceIsLastWrite, Zenon
  <2>5. QED
    BY <2>3, <2>4, Zenon DEF FlatAt
<1>3. QED
  BY <1>1, <1>2, Zenon

(* No step of the handler, of flush_cache() or of the device changes the   *)
(* contents of a page.                                                     *)
LEMMA FlatStep ==
  ASSUME NEW t, Thread = {t}, InOrder, QueueInv(t), QueuesHaveRoom, ~failed',
         NEW p \in Page,
         Device \/ ((Step(t) \/ Call(t)) /\ ~Execute(t))
  PROVE  FlatAt(p)' = FlatAt(p)
<1> USE DEF FlatAt, Resident
<1>b. ListInv(t) /\ TypeOK /\ SizeInv(t) /\ ContentsInv(t) /\ CommandsInv(t)
  BY Zenon DEF QueueInv, ListInv
<1>a. ~failed
  BY Zenon DEF Device, Complete, Step, Call
<1>1. CASE Device
  BY <1>1, QueueDevice, Zenon DEF Device, Complete, cacheVars, threadVars
<1>2. CASE evict_a_page(t)
  <2>1. pc[t] = "evict_a_page" /\ mapped_pages # {} /\ accessible = mapped_pages
    BY <1>2, <1>b, EvictsFromList, Zenon
  <2>2. PICK x \in mapped_pages :
          /\ Goto(t, "evict_a_page", "protect") /\ write(t, x)
          /\ target_page' = [target_page EXCEPT ![t] = x]
    BY <1>2, <2>1, <1>b, Zenon DEF evict_a_page, QueuesHaveRoom, TypeOK
  <2>3. /\ pc'[t] = "protect" /\ target_page'[t] = x
        /\ UNCHANGED <<mem, accessible, mapped_pages, disk, pf_page>>
    BY <1>2, <2>2, <1>b, Zenon DEF evict_a_page, Goto, TypeOK, cacheVars
  <2>4. OnDevice(p)' = IF p = x THEN mem[x] ELSE OnDevice(p)
    BY <2>1, <2>2, <2>3, <1>b, WriteSubmitted, Zenon
  <2>5. QED
    BY <2>1, <2>3, <2>4, Zenon
<1>3. CASE FlushPage(t)
  <2>1. /\ pc[t] = "flush_cache" /\ todo[t] \subseteq mapped_pages
        /\ accessible = mapped_pages
    BY <1>3, <1>b, Zenon DEF FlushPage, Goto, ListInv, Flushing
  <2>2. PICK x \in todo[t] :
          /\ Goto(t, "flush_cache", "write_blocking") /\ write(t, x)
          /\ target_page' = [target_page EXCEPT ![t] = x]
    BY <1>3, <2>1, <1>b, Zenon DEF FlushPage, QueuesHaveRoom, TypeOK
  <2>3. /\ pc'[t] = "write_blocking" /\ target_page'[t] = x
        /\ x \in mapped_pages
        /\ UNCHANGED <<mem, accessible, mapped_pages, disk, pf_page>>
    BY <1>3, <2>1, <2>2, <1>b, Zenon DEF FlushPage, Goto, TypeOK, cacheVars
  <2>4. OnDevice(p)' = IF p = x THEN mem[x] ELSE OnDevice(p)
    BY <2>1, <2>2, <2>3, <1>b, WriteSubmitted, Zenon
  <2>5. QED
    BY <2>1, <2>3, <2>4, Zenon
<1>4. CASE map_page_from_blkdev(t) /\ UNCHANGED failed
  <2>1. OnDevice(p)' = OnDevice(p)
    BY <1>4, QueueMap, Zenon
  <2>2. QED
    BY <1>4, <2>1, <1>b, Zenon DEF map_page_from_blkdev, Goto, TypeOK
<1>5. ASSUME NEW i \in Instr, Issue(t, i)
      PROVE  FlatAt(p)' = FlatAt(p)
  BY <1>5, <1>b, <1>a, OnDeviceSame, Zenon
  DEF Issue, Goto, cacheVars, deviceVars, ListInv, TypeOK, ContentsInv, Flushing, Entered
<1>6. ASSUME NEW x \in Page, Fault(t, x)
      PROVE  FlatAt(p)' = FlatAt(p)
  BY <1>6, <1>b, <1>a, OnDeviceSame, Zenon
  DEF Fault, Goto, cacheVars, deviceVars, ListInv, TypeOK, ContentsInv, Flushing, Entered
<1>7. CASE notify_page_fault(t)
  BY <1>7, <1>b, <1>a, OnDeviceSame, Zenon
  DEF notify_page_fault, Goto, cacheVars, deviceVars, threadVars, ListInv, TypeOK, ContentsInv, Flushing, Entered
<1>8. CASE Protect(t)
  BY <1>8, <1>b, <1>a, OnDeviceSame, Zenon
  DEF Protect, Goto, deviceVars, ListInv, TypeOK, ContentsInv, Flushing, Entered
<1>9. CASE read_blocking(t)
  BY <1>9, <1>b, <1>a, OnDeviceSame, Zenon
  DEF read_blocking, Goto, deviceVars, ListInv, TypeOK, ContentsInv, Flushing, Entered
<1>10. CASE OpenPage(t)
  BY <1>10, <1>b, <1>a, OnDeviceSame, Zenon
  DEF OpenPage, Goto, cacheVars, deviceVars, threadVars, ListInv, TypeOK, ContentsInv, Flushing, Entered
<1>11. CASE FillPage(t)
  BY <1>11, <1>b, <1>a, OnDeviceSame, Zenon
  DEF FillPage, Goto, cacheVars, deviceVars, ListInv, TypeOK, ContentsInv, Flushing, Entered
<1>12. CASE flush_cache(t)
  BY <1>12, <1>b, <1>a, OnDeviceSame, Zenon
  DEF flush_cache, Goto, cacheVars, deviceVars, ListInv, TypeOK, ContentsInv, Flushing, Entered
<1>13. ASSUME NEW n \in Sizes, resize_cache(t, n)
      PROVE  FlatAt(p)' = FlatAt(p)
  BY <1>13, <1>b, <1>a, OnDeviceSame, Zenon
  DEF resize_cache, Goto, deviceVars, ListInv, TypeOK, ContentsInv, Flushing, Entered
<1>14. CASE write_blocking(t)
  BY <1>14, <1>b, <1>a, OnDeviceSame, Zenon
  DEF write_blocking, Goto, cacheVars, deviceVars, ListInv, TypeOK, ContentsInv, Flushing, Entered
<1>15. CASE Remap(t)
  BY <1>15, <1>b, <1>a, OnDeviceSame, Zenon
  DEF Remap, Goto, deviceVars, threadVars, ListInv, TypeOK, ContentsInv, Flushing, Entered
<1>16. CASE ProtectRange(t)
  BY <1>16, <1>b, <1>a, OnDeviceSame, Zenon
  DEF ProtectRange, Goto, cacheVars, deviceVars, threadVars, ListInv, TypeOK, ContentsInv, Flushing, Entered
<1>17. QED
  BY <1>1, <1>2, <1>3, <1>4, <1>5, <1>6, <1>7, <1>8, <1>9, <1>10, <1>11, <1>12, <1>13, <1>14, <1>15, <1>16, Zenon DEF Step, Call

(* Every step of the cache is a step of the flat memory, or none. *)
LEMMA FlatNext ==
  ASSUME NEW t, Thread = {t}, InOrder, QueueInv(t), QueuesHaveRoom, [Next]_vars
  PROVE  [F!Next]_(F!vars)
<1> DEFINE flat == [p \in Page |-> FlatAt(p)]
<1>1. F!vars = <<flat, instr, failed>> /\ F!vars' = <<flat', instr', failed'>>
  BY Zenon DEF F!vars, FlatAt
<1>2. QueueInv(t)'
  BY QueueNext, Zenon
<1>3. flat \in [Page -> Val] /\ flat' \in [Page -> Val]
  BY <1>2, FlatType, Zenon
<1>4. instr' \in [Thread -> Instr \cup {NoInstr}] /\ failed' \in BOOLEAN
  BY <1>2, Zenon DEF QueueInv, ListInv, TypeOK
<1>5. ASSUME flat' = flat, UNCHANGED <<instr, failed>>
      PROVE  [F!Next]_(F!vars)
  BY <1>1, <1>5, Zenon
<1>6. CASE failed'
  BY <1>6, <1>1, <1>3, <1>4, Zenon
  DEF F!Next, F!Lose, F!Instr, F!NoInstr, Instr, NoInstr, FlatAt
<1>7. CASE ~failed' /\ UNCHANGED vars
  <2>1. \A p \in Page : FlatAt(p)' = FlatAt(p)
    BY <1>7, OnDeviceSame, Zenon
    DEF vars, cacheVars, deviceVars, threadVars, FlatAt, Resident
  <2>2. QED
    BY <1>5, <1>7, <2>1, Zenon DEF vars, threadVars
<1>8. CASE ~failed' /\ Device
  <2>1. \A p \in Page : FlatAt(p)' = FlatAt(p)
    BY <1>8, FlatStep, Zenon
  <2>2. UNCHANGED <<instr, failed>>
    <3>1. \E ok \in BOOLEAN : failed' = (failed \/ ~ok)
      BY <1>8, Zenon DEF Device, Complete
    <3>2. failed \in BOOLEAN
      BY Zenon DEF QueueInv, ListInv, TypeOK
    <3>3. UNCHANGED failed
      BY <1>8, <3>1, <3>2, Zenon
    <3>4. UNCHANGED instr
      BY <1>8, Zenon DEF Device, Complete, threadVars
    <3>5. QED
      BY <3>3, <3>4, Zenon
  <2>3. QED
    BY <1>5, <2>1, <2>2, Zenon
<1>9. CASE ~failed' /\ Step(t) /\ ~Execute(t)
  <2>1. \A p \in Page : FlatAt(p)' = FlatAt(p)
    BY <1>9, FlatStep, Zenon
  <2>2. UNCHANGED <<instr, failed>>
    BY <1>9, Zenon
    DEF Step, Fault, notify_page_fault, evict_a_page, Protect,
        map_page_from_blkdev, read_blocking, OpenPage, FillPage, FlushPage,
        write_blocking, Remap, ProtectRange, threadVars
  <2>3. QED
    BY <1>5, <2>1, <2>2, Zenon
<1>10. CASE ~failed' /\ Call(t)
  <2>0. ~Execute(t)
    BY <1>10, Zenon DEF Call, Issue, flush_cache, resize_cache, Execute, Goto
  <2>1. \A p \in Page : FlatAt(p)' = FlatAt(p)
    BY <1>10, <2>0, FlatStep, Zenon
  <2>2. flat' = flat /\ UNCHANGED failed /\ ~failed
    BY <1>10, <2>1, Zenon DEF Call
  <2>3. CASE UNCHANGED instr
    BY <2>2, <2>3, <1>5, Zenon
  <2>4. CASE \E i \in Instr : Issue(t, i)
    <3>1. PICK i \in Instr : Issue(t, i)
      BY <2>4, Zenon
    <3>2. instr[t] = NoInstr /\ instr' = [instr EXCEPT ![t] = i]
      BY <3>1, Zenon DEF Issue, Goto, QueueInv, ListInv
    <3>3. F!Issue(t, i)
      BY <2>2, <3>2, Zenon DEF F!Issue, F!NoInstr, NoInstr, FlatAt
    <3>4. F!Next
      BY <3>3, <2>2, Zenon DEF F!Next, F!Instr, Instr
    <3>5. QED
      BY <3>4, Zenon
  <2>5. QED
    BY <1>10, <2>3, <2>4, Zenon DEF Call, flush_cache, resize_cache
<1>11. CASE ~failed' /\ Step(t) /\ Execute(t)
  <2> DEFINE i == instr[t]
  <2>1. /\ UNCHANGED failed /\ ~failed /\ pc[t] = "run" /\ pc'[t] = "idle"
        /\ i \in Instr /\ Touched(i) \subseteq accessible
        /\ mem' = [mem EXCEPT ![i.dst] = IF i.op = "copy" THEN mem[i.src]
                                                        ELSE i.val]
        /\ instr' = [instr EXCEPT ![t] = NoInstr]
        /\ UNCHANGED <<accessible, queue, disk, pf_page>>
    BY <1>11, Zenon
    DEF Step, Execute, Goto, QueueInv, ListInv, TypeOK, deviceVars
  <2>2. /\ i.dst \in Page /\ i.dst \in accessible /\ i.op \in {"store", "copy"}
        /\ i.op = "copy" => i.src \in Page /\ i.src \in accessible
    BY <2>1, InstrType, Zenon
  <2> HIDE DEF i
  <2>3. ASSUME NEW p \in Page
        PROVE  /\ FlatAt(p) = IF p \in accessible THEN mem[p] ELSE OnDevice(p)
               /\ FlatAt(p)' = IF p \in accessible THEN mem'[p] ELSE OnDevice(p)
    BY <2>1, OnDeviceSame DEF FlatAt, Resident
  <2>4. mem \in [Page -> Val]
    BY Zenon DEF QueueInv, ListInv, TypeOK
  <2>5. flat' = [flat EXCEPT ![i.dst] = IF i.op = "copy" THEN flat[i.src]
                                                        ELSE i.val]
    <3>1. \A p \in Page :
            FlatAt(p)' = IF p = i.dst THEN IF i.op = "copy" THEN FlatAt(i.src)
                                                            ELSE i.val
                                      ELSE FlatAt(p)
      BY <2>1, <2>2, <2>3, <2>4, Zenon
    <3>2. QED
      BY <2>2, <3>1, Zenon
  <2>6. F!Store(t) \/ F!Copy(t)
    BY <2>1, <2>2, <2>5, Zenon
    DEF F!Store, F!Copy, F!NoInstr, NoInstr, FlatAt, i
  <2>7. QED
    BY <2>1, <2>6, Zenon DEF F!Next
<1>12. QED
  BY <1>6, <1>7, <1>8, <1>9, <1>10, <1>11, Zenon DEF Next

(* While no submission fails, the cache behaves as a flat memory: whatever *)
(* is evicted, read back, flushed and mapped afresh, an instruction reads  *)
(* what was last stored, up to the first command that fails.               *)
THEOREM CacheImplementsFlat ==
  ASSUME NEW t, Thread = {t}, InOrder
  PROVE  Spec /\ []QueuesHaveRoom => ImplementsFlat
<1>1. Init => F!Init
  <2>1. SUFFICES ASSUME Init
                 PROVE  F!Init
    BY Zenon
  <2>2. \A p \in Page : FlatAt(p) \in Val
    BY <2>1, QueueInit, FlatType, Zenon
  <2>3. QED
    BY <2>1, <2>2, Zenon DEF F!Init, F!NoInstr, Init, NoInstr, FlatAt
<1>2. QueueInv(t) /\ QueuesHaveRoom /\ [Next]_vars => [F!Next]_(F!vars)
  BY FlatNext, Zenon
<1>3. QED
  BY <1>1, <1>2, QueueInvariant, PTL DEF Spec, ImplementsFlat, F!Spec

-----------------------------------------------------------------------------
(* Queues that always have room *)

(* One, two, four or eight namespaces: a page starts at a block that is a  *)
(* multiple of eight, so every page goes to the first of them.  A queue    *)
(* pair that takes two commands is then enough.                            *)
OneQueuePair == NamespaceCnt \in {1, 2, 4, 8} /\ QueueDepth >= 2

LEMMA FirstNamespace ==
  ASSUME OneQueuePair
  PROVE  0 \in Namespace /\ \A p \in Page : tgt_ns(p) = 0
<1>1. 0 \in Namespace
  BY DEF OneQueuePair, Namespace
<1>2. ASSUME NEW p \in Page
      PROVE  tgt_ns(p) = 0
  <2>1. p \in Int
    BY PageCacheAssumption DEF Page
  <2>2. (p * 8) % 1 = 0 /\ (p * 8) % 2 = 0 /\ (p * 8) % 4 = 0 /\ (p * 8) % 8 = 0
    BY ONLY <2>1
  <2>3. QED
    BY <2>2, Zenon DEF OneQueuePair, tgt_ns
<1>3. QED
  BY <1>1, <1>2, Zenon

(* The last command of a queue is the thread's, of a kind, for a page. *)
EndsWith(q, t, op, p) ==
  Len(q) > 0 => /\ q[Len(q)].by = t /\ q[Len(q)].op = op /\ q[Len(q)].page = p

(* The thread waits for what it submits last, which empties the one queue: *)
(* the write of an eviction at most is outstanding when the read follows.  *)
SoloInv(t) ==
  /\ pc[t] \notin {"protect", "map_page", "read_blocking", "write_blocking"}
       => Len(queue[0]) = 0
  /\ pc[t] \in {"protect", "map_page", "write_blocking"} => Len(queue[0]) <= 1
  /\ pc[t] = "read_blocking" => /\ Len(queue[0]) <= 2
                                /\ EndsWith(queue[0], t, "read", pf_page[t])
  /\ pc[t] = "write_blocking" => EndsWith(queue[0], t, "write", target_page[t])

(* A queue that is empty and stays so satisfies it, wherever the thread is. *)
LEMMA SoloEmpty ==
  ASSUME NEW t, Len(queue'[0]) = 0
  PROVE  SoloInv(t)'
  BY DEF SoloInv, EndsWith

LEMMA SoloRoom ==
  ASSUME NEW t, Thread = {t}, QueueInv(t), SoloInv(t), OneQueuePair
  PROVE  QueuesHaveRoom
<1>1. SUFFICES ASSUME pc[t] \in {"evict_a_page", "map_page", "flush_cache"},
                      NEW p \in Page
               PROVE  ~QueueFull(p)
  BY Zenon DEF QueuesHaveRoom
<1>2. tgt_ns(p) = 0 /\ 0 \in Namespace
  BY FirstNamespace, Zenon
<1>3. Len(queue[0]) <= 1
  BY <1>1 DEF SoloInv
<1>4. Len(queue[0]) \in Nat
  BY <1>2 DEF QueueInv, ListInv, TypeOK
<1>5. QED
  BY <1>2, <1>3, <1>4, PageCacheAssumption DEF QueueFull, OneQueuePair

(* A command at the end of the one queue. *)
LEMMA SoloSubmit ==
  ASSUME NEW t, Thread = {t}, QueueInv(t), OneQueuePair, NEW p \in Page, NEW c, Submit(p, c)
  PROVE  /\ Len(queue'[0]) = Len(queue[0]) + 1 /\ Len(queue[0]) \in Nat
         /\ queue'[0][Len(queue'[0])] = c
<1>1. tgt_ns(p) = 0 /\ 0 \in Namespace
  BY FirstNamespace, Zenon
<1>2. queue[0] \in Seq(Command) /\ queue'[0] = Append(queue[0], c)
  BY <1>1, Zenon DEF QueueInv, ListInv, TypeOK, Submit
<1>3. QED
  BY ONLY <1>2

LEMMA SoloStep ==
  ASSUME NEW t, Thread = {t}, QueueInv(t), SoloInv(t), OneQueuePair, Step(t) \/ Call(t)
  PROVE  SoloInv(t)'
<1>0. /\ 0 \in Namespace /\ (\A p \in Page : tgt_ns(p) = 0) /\ Len(queue[0]) \in Nat
      /\ queue[0] \in Seq(Command) /\ t \in Thread /\ DOMAIN pc = Thread
      /\ DOMAIN target_page = Thread
  <2>1. 0 \in Namespace /\ (\A p \in Page : tgt_ns(p) = 0)
    BY FirstNamespace, Zenon
  <2>2. queue[0] \in Seq(Command) /\ t \in Thread /\ DOMAIN pc = Thread
        /\ DOMAIN target_page = Thread
    BY <2>1, Zenon DEF QueueInv, ListInv, TypeOK
  <2>3. QED
    BY <2>1, <2>2
<1>1. ASSUME queue' = queue,
             pc[t] \notin {"protect", "map_page", "read_blocking", "write_blocking"}
      PROVE  SoloInv(t)'
  BY <1>1, SoloEmpty, Zenon DEF SoloInv
<1>2. CASE Execute(t) \/ (\E p \in Page : Fault(t, p)) \/ notify_page_fault(t)
             \/ OpenPage(t) \/ FillPage(t) \/ Remap(t) \/ ProtectRange(t)
  BY <1>1, <1>2, Zenon DEF Execute, Fault, notify_page_fault, OpenPage, FillPage, Remap,
                           ProtectRange, Goto, deviceVars
<1>3. CASE Call(t)
  BY <1>1, <1>3, Zenon DEF Call, Issue, flush_cache, resize_cache, Goto, deviceVars
<1>4. CASE Protect(t)
  <2>1. pc[t] = "protect" /\ pc'[t] = "map_page" /\ queue' = queue
    BY <1>0, <1>4, Zenon DEF Protect, Goto, deviceVars
  <2>2. QED
    BY <2>1, Zenon DEF SoloInv
<1>5. CASE read_blocking(t)
  <2>1. /\ pc[t] = "read_blocking" /\ queue' = queue
        /\ ~Outstanding(t, "read", pf_page[t]) /\ pf_page[t] \in Page
    BY <1>0, <1>5, Zenon DEF read_blocking, Goto, deviceVars, QueueInv, ListInv, Missing
  <2>2. Len(queue[0]) > 0 => Len(queue[0]) \in DOMAIN queue[0]
    BY <1>0
  <2>3. ~(Len(queue[0]) > 0)
    BY <1>0, <2>1, <2>2, Zenon DEF SoloInv, EndsWith, Outstanding
  <2>4. Len(queue'[0]) = 0
    BY <1>0, <2>1, <2>3
  <2>5. QED
    BY <2>4, SoloEmpty, Zenon
<1>6. CASE write_blocking(t)
  <2>1. /\ pc[t] = "write_blocking" /\ queue' = queue
        /\ ~Outstanding(t, "write", target_page[t]) /\ target_page[t] \in Page
    BY <1>0, <1>6, Zenon DEF write_blocking, Goto, deviceVars, QueueInv, ListInv, TypeOK
  <2>2. Len(queue[0]) > 0 => Len(queue[0]) \in DOMAIN queue[0]
    BY <1>0
  <2>3. ~(Len(queue[0]) > 0)
    BY <1>0, <2>1, <2>2, Zenon DEF SoloInv, EndsWith, Outstanding
  <2>4. Len(queue'[0]) = 0
    BY <1>0, <2>1, <2>3
  <2>5. QED
    BY <2>4, SoloEmpty, Zenon
<1>7. CASE evict_a_page(t)
  <2>1. pc[t] = "evict_a_page" /\ mapped_pages # {} /\ accessible = mapped_pages
    BY <1>7, EvictsFromList, Zenon DEF QueueInv
  <2>2. PICK p \in mapped_pages : Goto(t, "evict_a_page", "protect") /\ write(t, p)
    BY <1>0, <1>7, <2>1, SoloRoom, Zenon
    DEF evict_a_page, QueuesHaveRoom, QueueInv, ListInv, TypeOK
  <2>3. pc'[t] = "protect" /\ p \in Page
    BY <1>0, <2>2, Zenon DEF Goto, QueueInv, ListInv, TypeOK
  <2>4. Len(queue'[0]) = Len(queue[0]) + 1
    BY <2>2, <2>3, SoloSubmit, Zenon DEF write
  <2>5. Len(queue[0]) = 0
    BY <2>1, Zenon DEF SoloInv
  <2>6. QED
    BY <2>3, <2>4, <2>5 DEF SoloInv
<1>8. CASE FlushPage(t)
  <2>1. pc[t] = "flush_cache" /\ todo[t] \subseteq mapped_pages
    BY <1>8, Zenon DEF FlushPage, Goto, QueueInv, ListInv, Flushing
  <2>2. PICK p \in todo[t] : /\ Goto(t, "flush_cache", "write_blocking") /\ write(t, p)
                             /\ target_page' = [target_page EXCEPT ![t] = p]
    BY <1>0, <1>8, <2>1, SoloRoom, Zenon DEF FlushPage, QueuesHaveRoom, QueueInv, ListInv, TypeOK
  <2>3. pc'[t] = "write_blocking" /\ p \in Page /\ target_page'[t] = p
    BY <1>0, <2>1, <2>2, Zenon DEF Goto, QueueInv, ListInv, TypeOK
  <2> DEFINE c == [op |-> "write", page |-> p, data |-> mem[p], by |-> t]
  <2>4. Len(queue'[0]) = Len(queue[0]) + 1 /\ queue'[0][Len(queue'[0])] = c
    BY <2>2, <2>3, SoloSubmit, Zenon DEF write
  <2>5. c.by = t /\ c.op = "write" /\ c.page = p
    BY Zenon
  <2>6. EndsWith(queue[0], t, "write", target_page[t])'
    BY <2>3, <2>4, <2>5, Zenon DEF EndsWith
  <2>7. Len(queue[0]) = 0
    BY <2>1, Zenon DEF SoloInv
  <2> HIDE DEF c
  <2>8. Len(queue'[0]) <= 1
    BY <2>4, <2>7
  <2>9. QED
    BY <2>3, <2>6, <2>8, Zenon DEF SoloInv
<1>9. CASE map_page_from_blkdev(t)
  <2>1. /\ pc[t] = "map_page" /\ pc'[t] = "read_blocking" /\ pf_page' = pf_page
        /\ pf_page[t] \in Page
    BY <1>0, <1>9, Zenon DEF map_page_from_blkdev, Goto, QueueInv, ListInv, Missing
  <2> DEFINE c == [op |-> "read", page |-> pf_page[t], data |-> 0, by |-> t]
  <2>2. Submit(pf_page[t], c)
    BY <1>0, <1>9, <2>1, SoloRoom, Zenon DEF map_page_from_blkdev, QueuesHaveRoom, read
  <2>3. c.by = t /\ c.op = "read" /\ c.page = pf_page[t]
    BY Zenon
  <2> HIDE DEF c
  <2>4. Len(queue'[0]) = Len(queue[0]) + 1 /\ queue'[0][Len(queue'[0])] = c
    BY <2>1, <2>2, SoloSubmit, Zenon
  <2>5. EndsWith(queue[0], t, "read", pf_page[t])'
    BY <2>1, <2>3, <2>4, Zenon DEF EndsWith
  <2>6. Len(queue[0]) <= 1
    BY <2>1, Zenon DEF SoloInv
  <2>7. Len(queue'[0]) <= 2
    BY <1>0, <2>4, <2>6
  <2>8. QED
    BY <2>1, <2>5, <2>7, Zenon DEF SoloInv
<1>10. QED
  BY <1>2, <1>3, <1>4, <1>5, <1>6, <1>7, <1>8, <1>9, Zenon DEF Step

(* A command that completes leaves the end of the queue as it is. *)
LEMMA SoloDevice ==
  ASSUME NEW t, Thread = {t}, InOrder, QueueInv(t), SoloInv(t), OneQueuePair, Device
  PROVE  SoloInv(t)'
<1>1. PICK n \in Namespace : 1 \in DOMAIN queue[n] /\ Complete(n, 1)
  BY Zenon DEF Device
<1>2. n = 0
  <2>1. TypeOK /\ CommandsInv(t)
    BY Zenon DEF QueueInv, ListInv
  <2>2. queue[n][1] \in Command /\ tgt_ns(queue[n][1].page) = n
    BY <1>1, <2>1, QueueFacts, Zenon
  <2>3. queue[n][1].page \in Page
    BY <2>2, Zenon DEF Command
  <2>4. QED
    BY <2>2, <2>3, FirstNamespace, Zenon
<1> DEFINE q == queue[0]
<1>3. q \in Seq(Command) /\ queue'[0] = RemoveAt(q, 1)
  BY <1>1, <1>2, Zenon DEF Complete, QueueInv, ListInv, TypeOK
<1>4. 1 \in DOMAIN q /\ UNCHANGED <<pc, pf_page, target_page>>
  BY <1>1, <1>2, Zenon DEF Complete, threadVars
<1> HIDE DEF q
<1>5. Len(q) \in Nat /\ 1 \in 1 .. Len(q)
  BY <1>3, <1>4
<1>6. /\ Len(queue'[0]) = Len(q) - 1
      /\ \A i \in 1 .. Len(q) - 1 : queue'[0][i] = IF i < 1 THEN q[i] ELSE q[i + 1]
  BY <1>3, <1>5, RemoveAtProperties, Zenon
<1>7. Len(queue'[0]) > 0 => queue'[0][Len(queue'[0])] = q[Len(q)]
  BY ONLY <1>5, <1>6
<1>8. Len(q) > 0 /\ Len(queue'[0]) <= Len(q)
  BY <1>5, <1>6
<1>9. ASSUME NEW op, NEW p, EndsWith(queue[0], t, op, p)
      PROVE  EndsWith(queue'[0], t, op, p)
  BY <1>7, <1>8, <1>9, Zenon DEF EndsWith, q
<1>10. /\ Len(q) <= 1 => Len(queue'[0]) <= 1
       /\ Len(q) <= 2 => Len(queue'[0]) <= 2
       /\ Len(q) # 0
  BY <1>5, <1>6
<1>11. QED
  BY <1>4, <1>9, <1>10, Zenon DEF SoloInv, q

(* With one thread, a queue pair that keeps the order and takes two        *)
(* commands never refuses one where there are 1, 2, 4 or 8 namespaces      *)
(* (blkdev.cc: start_lba % namespace_cnt): the hypothesis of the theorems   *)
(* above holds of every behaviour.                                         *)
THEOREM CacheQueuesHaveRoom ==
  ASSUME NEW t, Thread = {t}, InOrder, OneQueuePair
  PROVE  Spec => []QueuesHaveRoom
<1>1. Init => QueueInv(t) /\ SoloInv(t)
  <2>1. SUFFICES ASSUME Init
                 PROVE  QueueInv(t) /\ SoloInv(t)
    BY Zenon
  <2>2. queue[0] = <<>> /\ pc[t] = "idle"
    BY <2>1, FirstNamespace, Zenon DEF Init
  <2>3. Len(queue[0]) = 0
    BY <2>2
  <2>4. QED
    BY <2>1, <2>2, <2>3, QueueInit, Zenon DEF SoloInv
<1>2. QueueInv(t) /\ SoloInv(t) => QueuesHaveRoom
  BY SoloRoom, Zenon
<1>3. QueueInv(t) /\ SoloInv(t) /\ [Next]_vars => QueueInv(t)'
  BY <1>2, QueueNext, Zenon
<1>4. QueueInv(t) /\ SoloInv(t) /\ [Next]_vars => SoloInv(t)'
  <2>1. CASE UNCHANGED vars
    BY <2>1, Zenon DEF vars, deviceVars, threadVars, SoloInv, EndsWith
  <2>2. CASE Next
    BY <2>2, SoloStep, SoloDevice, Zenon DEF Next
  <2>3. QED
    BY <2>1, <2>2, Zenon
<1>5. QED
  BY <1>1, <1>2, <1>3, <1>4, PTL DEF Spec

(* The controller over a queue pair that keeps the order and takes two     *)
(* commands, with one thread and 1, 2, 4 or 8 namespaces, whatever the     *)
(* number of pages and frames: its bookkeeping is exact and the program    *)
(* sees a flat memory, with no hypothesis on the behaviour.                *)
THEOREM CacheCorrect ==
  ASSUME NEW t, Thread = {t}, InOrder, OneQueuePair
  PROVE  Spec => []Residency /\ ImplementsFlat
<1>1. Spec => []QueuesHaveRoom
  BY CacheQueuesHaveRoom, Zenon
<1>2. Spec /\ []QueuesHaveRoom => []Residency
  BY CacheResidency, Zenon
<1>3. Spec /\ []QueuesHaveRoom => ImplementsFlat
  BY CacheImplementsFlat, Zenon
<1>4. QED
  BY <1>1, <1>2, <1>3, PTL
=============================================================================
