----------------------------- MODULE PageCache -----------------------------
(***************************************************************************)
(* The page cache of libcxlfs: the controller's resident pages             *)
(* (controller.cc), the SIGSEGV handler that calls it (pfmonitor.cc) and   *)
(* the block device below (blkdev.cc).  A thread that touches a page       *)
(* without permission runs the handler itself; nothing in it is locked, so *)
(* threads interleave between any two of its steps.                        *)
(***************************************************************************)
EXTENDS Integers, Sequences, FiniteSets, FiniteSetsExt

CONSTANTS
  Thread,         \* threads of the program
  NPages,         \* shm_pg_cnt
  Val,            \* contents of a page
  InitSize,       \* max_active_pg_cnt given to init()
  Sizes,          \* the sizes resize_cache() is called with
  NamespaceCnt,   \* namespaces of the NVMe devices, each with a queue pair
  QueueDepth,     \* commands a queue pair takes before a submission fails
  InOrder,        \* a queue pair executes its commands in order
  IOErrors        \* bound: whether a command may fail, which one then does

Page == 0 .. NPages - 1

Namespace == 0 .. NamespaceCnt - 1

ASSUME PageCacheAssumption ==
  /\ NPages \in Nat \ {0} /\ NamespaceCnt \in Nat \ {0}
  /\ QueueDepth \in Nat \ {0}
  /\ 0 \in Val
  /\ InitSize \in Nat \ {0} /\ Sizes \subseteq Nat \ {0}
  /\ InOrder \in BOOLEAN /\ IOErrors \in BOOLEAN

NoPage == -1

(* Instructions of the program: a store to a page, a copy between two.     *)
Instr == [op : {"store"}, dst : Page, val : Val]
           \cup {c \in [op : {"copy"}, src : Page, dst : Page] : c.src # c.dst}

NoInstr == [op |-> "none"]

Command == [op : {"read", "write"}, page : Page, data : Val, by : Thread]

VARIABLES
  mem,                \* the frames behind the range, readable or not
  accessible,         \* pages with PROT_READ | PROT_WRITE
  mapped_pages, used_pages, max_active_pg_cnt,
  disk,               \* what the devices hold
  queue,              \* of each queue pair, the commands not yet executed
  read_buf,           \* the one DMA buffer of read_blocking()
  failed,             \* history: a command has completed with an error
  pc,                 \* where each thread is
  instr,              \* the instruction it executes
  pf_page,            \* the page it faulted on
  target_page,        \* the page it evicts or flushes
  src,                \* the copy map_page_from_blkdev() returns
  todo                \* pages flush_cache() has not written yet

cacheVars == <<mapped_pages, used_pages, max_active_pg_cnt>>
deviceVars == <<disk, queue, read_buf>>
threadVars == <<instr, pf_page, target_page, src, todo>>
vars == <<mem, accessible, cacheVars, deviceVars, failed, pc, threadVars>>

Init ==
  /\ mem = [p \in Page |-> 0]
  /\ accessible = {}
  /\ mapped_pages = {} /\ used_pages = 0 /\ max_active_pg_cnt = InitSize
  /\ disk \in [Page -> Val]
  /\ queue = [n \in Namespace |-> <<>>]
  /\ read_buf = 0
  /\ failed = FALSE
  /\ pc = [t \in Thread |-> "idle"]
  /\ instr = [t \in Thread |-> NoInstr]
  /\ pf_page = [t \in Thread |-> NoPage]
  /\ target_page = [t \in Thread |-> NoPage]
  /\ src = [t \in Thread |-> 0]
  /\ todo = [t \in Thread |-> {}]

Goto(t, from, to) == pc[t] = from /\ pc' = [pc EXCEPT ![t] = to]

-----------------------------------------------------------------------------
(* The block device *)

(* start_lba % namespace_cnt, for the first block of a page. *)
tgt_ns(p) == (p * 8) % NamespaceCnt

(* spdk_nvme_ns_cmd_read and _write fail when the queue pair is full.      *)
(* SPDK frees a slot when the pair is polled; here executing it does.      *)
QueueFull(p) == Len(queue[tgt_ns(p)]) >= QueueDepth

Submit(p, c) == queue' = [queue EXCEPT ![tgt_ns(p)] = Append(@, c)]

(* write() copies the page: later stores do not change what is written. *)
write(t, p) ==
  Submit(p, [op |-> "write", page |-> p, data |-> mem[p], by |-> t])

read(t, p) == Submit(p, [op |-> "read", page |-> p, data |-> 0, by |-> t])

(* What a thread polls for is the command it has submitted for page p. *)
Outstanding(t, op, p) ==
  \E i \in DOMAIN queue[tgt_ns(p)] :
    LET c == queue[tgt_ns(p)][i] IN c.by = t /\ c.op = op /\ c.page = p

(* A queue without its i-th command. *)
RemoveAt(q, i) == SubSeq(q, 1, i - 1) \o SubSeq(q, i + 1, Len(q))

(* A device executes a command and its completion reaches io_complete().   *)
(* An error is reported and kept in is_completed, which ends the polling   *)
(* loop like a success: read_blocking() returns -1 and nobody looks at it. *)
Complete(n, i) ==
  LET c == queue[n][i] IN
  \E ok \in IF IOErrors /\ ~failed THEN BOOLEAN ELSE {TRUE} :
    /\ queue' = [queue EXCEPT ![n] = RemoveAt(@, i)]
    /\ failed' = (failed \/ ~ok)
    /\ disk' = IF ok /\ c.op = "write" THEN [disk EXCEPT ![c.page] = c.data]
                                       ELSE disk
    /\ read_buf' = IF ok /\ c.op = "read" THEN disk[c.page] ELSE read_buf
    /\ UNCHANGED <<mem, accessible, cacheVars, pc, threadVars>>

Device ==
  \E n \in Namespace : \E i \in DOMAIN queue[n] :
    /\ InOrder => i = 1
    /\ Complete(n, i)

-----------------------------------------------------------------------------
(* The program *)

Touched(i) == IF i.op = "copy" THEN {i.src, i.dst} ELSE {i.dst}

Issue(t, i) ==
  /\ Goto(t, "idle", "run")
  /\ instr' = [instr EXCEPT ![t] = i]
  /\ UNCHANGED <<mem, accessible, cacheVars, deviceVars, pf_page, target_page,
                 src, todo>>

Execute(t) ==
  LET i == instr[t] IN
  /\ Goto(t, "run", "idle")
  /\ Touched(i) \subseteq accessible
  /\ mem' = [mem EXCEPT ![i.dst] = IF i.op = "copy" THEN mem[i.src] ELSE i.val]
  /\ instr' = [instr EXCEPT ![t] = NoInstr]
  /\ UNCHANGED <<accessible, cacheVars, deviceVars, pf_page, target_page, src, todo>>

-----------------------------------------------------------------------------
(* The fault handler *)

(* SIGSEGV for an address of the range; the callback starts. *)
Fault(t, p) ==
  /\ Goto(t, "run", "notify_page_fault")
  /\ p \in Touched(instr[t]) \ accessible
  /\ pf_page' = [pf_page EXCEPT ![t] = p]
  /\ UNCHANGED <<mem, accessible, cacheVars, deviceVars, instr, target_page,
                 src, todo>>

(* The assertion on used_pages, then the choice to evict. *)
notify_page_fault(t) ==
  /\ Goto(t, "notify_page_fault",
          IF used_pages > max_active_pg_cnt THEN "crashed"
          ELSE IF used_pages = max_active_pg_cnt THEN "evict_a_page"
          ELSE "map_page")
  /\ UNCHANGED <<mem, accessible, cacheVars, deviceVars, threadVars>>

\* Mutant: a page is dropped without being written back.
evict_a_page_NoWrite(t) ==
  /\ Goto(t, "evict_a_page", "protect")
  /\ \E p \in mapped_pages : target_page' = [target_page EXCEPT ![t] = p]
  /\ UNCHANGED <<mem, accessible, cacheVars, deviceVars, instr, pf_page, src, todo>>

(* Any mapped page may be the target: the sampled distribution decides, or *)
(* rand().  A write that cannot be submitted leaves the page where it is.  *)
(* With nothing mapped the division rand() % size() traps; so does reading *)
(* a target another thread has protected, SIGSEGV being blocked here.      *)
evict_a_page(t) ==
  /\ UNCHANGED <<mem, accessible, cacheVars, disk, read_buf, instr, pf_page,
                 src, todo>>
  /\ IF mapped_pages = {}
     THEN Goto(t, "evict_a_page", "crashed") /\ UNCHANGED <<queue, target_page>>
     ELSE \E p \in mapped_pages :
            IF p \notin accessible \/ QueueFull(p)
            THEN /\ Goto(t, "evict_a_page",
                         IF p \in accessible THEN "map_page" ELSE "crashed")
                 /\ UNCHANGED <<queue, target_page>>
            ELSE Goto(t, "evict_a_page", "protect") /\ write(t, p)
                   /\ target_page' = [target_page EXCEPT ![t] = p]

\* Mutant: the page is counted out by evict_a_page and by its caller.
Protect_CountedTwice(t) ==
  /\ Goto(t, "protect", "map_page")
  /\ accessible' = accessible \ {target_page[t]}
  /\ mapped_pages' = mapped_pages \ {target_page[t]}
  /\ used_pages' = used_pages - 2
  /\ target_page' = [target_page EXCEPT ![t] = NoPage]
  /\ UNCHANGED <<mem, max_active_pg_cnt, deviceVars, instr, pf_page, src, todo>>

(* The target loses its permissions and leaves the list. *)
Protect(t) ==
  /\ Goto(t, "protect", "map_page")
  /\ accessible' = accessible \ {target_page[t]}
  /\ mapped_pages' = mapped_pages \ {target_page[t]}
  /\ used_pages' = used_pages - 1
  /\ target_page' = [target_page EXCEPT ![t] = NoPage]
  /\ UNCHANGED <<mem, max_active_pg_cnt, deviceVars, instr, pf_page, src, todo>>

(* used_pages++, and read_blocking() submits the read.  When it cannot, it *)
(* goes on with whatever read_buf holds.                                   *)
map_page_from_blkdev(t) ==
  /\ Goto(t, "map_page", "read_blocking")
  /\ used_pages' = used_pages + 1
  /\ IF QueueFull(pf_page[t])
     THEN UNCHANGED queue
     ELSE read(t, pf_page[t])
  /\ UNCHANGED <<mem, accessible, mapped_pages, max_active_pg_cnt, disk,
                 read_buf, instr, pf_page, target_page, src, todo>>

(* The read has completed, its result is copied whatever it is, and the    *)
(* page enters the list.                                                   *)
read_blocking(t) ==
  /\ Goto(t, "read_blocking", "open_page")
  /\ ~Outstanding(t, "read", pf_page[t])
  /\ src' = [src EXCEPT ![t] = read_buf]
  /\ mapped_pages' = mapped_pages \cup {pf_page[t]}
  /\ UNCHANGED <<mem, accessible, used_pages, max_active_pg_cnt, deviceVars,
                 instr, pf_page, target_page, todo>>

(* mprotect(PROT_READ | PROT_WRITE), before the page has its contents. *)
OpenPage(t) ==
  /\ Goto(t, "open_page", "fill_page")
  /\ accessible' = accessible \cup {pf_page[t]}
  /\ UNCHANGED <<mem, cacheVars, deviceVars, threadVars>>

\* Mutant: the page that was just filled is given up again.
FillPage_GiveUp(t) ==
  /\ Goto(t, "fill_page", "run")
  /\ mem' = [mem EXCEPT ![pf_page[t]] = src[t]]
  /\ accessible' = accessible \ {pf_page[t]}
  /\ mapped_pages' = mapped_pages \ {pf_page[t]}
  /\ used_pages' = used_pages - 1
  /\ pf_page' = [pf_page EXCEPT ![t] = NoPage]
  /\ src' = [src EXCEPT ![t] = 0]
  /\ UNCHANGED <<max_active_pg_cnt, deviceVars, instr, target_page, todo>>

(* memcpy and free; the instruction is tried again.  The copy is fatal if  *)
(* another thread has evicted the page meanwhile.                          *)
FillPage(t) ==
  /\ Goto(t, "fill_page",
          IF pf_page[t] \in accessible THEN "run" ELSE "crashed")
  /\ mem' = [mem EXCEPT ![pf_page[t]] = src[t]]
  /\ pf_page' = [pf_page EXCEPT ![t] = NoPage]
  /\ src' = [src EXCEPT ![t] = 0]
  /\ UNCHANGED <<accessible, cacheVars, deviceVars, instr, target_page, todo>>

-----------------------------------------------------------------------------
(* flush_cache(), resize_cache() and the init() they end in *)

flush_cache(t) ==
  /\ Goto(t, "idle", "flush_cache")
  /\ todo' = [todo EXCEPT ![t] = mapped_pages]
  /\ UNCHANGED <<mem, accessible, cacheVars, deviceVars, instr, pf_page,
                 target_page, src>>

(* Only a cache that shrinks is flushed. *)
resize_cache(t, pg_cnt) ==
  /\ max_active_pg_cnt' = pg_cnt
  /\ IF pg_cnt < max_active_pg_cnt
     THEN /\ Goto(t, "idle", "flush_cache")
          /\ todo' = [todo EXCEPT ![t] = mapped_pages]
     ELSE Goto(t, "idle", "idle") /\ UNCHANGED todo
  /\ UNCHANGED <<mem, accessible, mapped_pages, used_pages, deviceVars, instr,
                 pf_page, target_page, src>>

\* Mutant: flush_cache() comes back to the page it has just written.
FlushPage_Again(t) ==
  /\ Goto(t, "flush_cache", "write_blocking")
  /\ \E p \in todo[t] :
       write(t, p) /\ target_page' = [target_page EXCEPT ![t] = p]
  /\ UNCHANGED <<mem, accessible, cacheVars, disk, read_buf, instr, pf_page,
                 src, todo>>

(* write_blocking() of one page; it dereferences a null sequence when the  *)
(* command cannot be submitted.                                            *)
FlushPage(t) ==
  /\ \E p \in todo[t] :
       IF QueueFull(p)
       THEN /\ Goto(t, "flush_cache", "crashed")
            /\ UNCHANGED <<queue, todo, target_page>>
       ELSE /\ Goto(t, "flush_cache", "write_blocking")
            /\ write(t, p)
            /\ todo' = [todo EXCEPT ![t] = @ \ {p}]
            /\ target_page' = [target_page EXCEPT ![t] = p]
  /\ UNCHANGED <<mem, accessible, cacheVars, disk, read_buf, instr, pf_page,
                 src>>

(* The polling loop of write_blocking(). *)
write_blocking(t) ==
  /\ Goto(t, "write_blocking", "flush_cache")
  /\ ~Outstanding(t, "write", target_page[t])
  /\ target_page' = [target_page EXCEPT ![t] = NoPage]
  /\ UNCHANGED <<mem, accessible, cacheVars, deviceVars, instr, pf_page, src,
                 todo>>

\* Mutant: the list is cleared and its length is not.
Remap_KeepUsed(t) ==
  /\ Goto(t, "flush_cache", "mprotect")
  /\ todo[t] = {}
  /\ mapped_pages' = {}
  /\ mem' = [p \in Page |-> 0]
  /\ accessible' = Page
  /\ UNCHANGED <<used_pages, max_active_pg_cnt, deviceVars, threadVars>>

(* The list is cleared and the range mapped afresh, accessible at first.   *)
Remap(t) ==
  /\ Goto(t, "flush_cache", "mprotect")
  /\ todo[t] = {}
  /\ mapped_pages' = {} /\ used_pages' = 0
  /\ mem' = [p \in Page |-> 0]
  /\ accessible' = Page
  /\ UNCHANGED <<max_active_pg_cnt, deviceVars, threadVars>>

ProtectRange(t) ==
  /\ Goto(t, "mprotect", "idle")
  /\ accessible' = {}
  /\ UNCHANGED <<mem, cacheVars, deviceVars, threadVars>>

-----------------------------------------------------------------------------
(* Steps of the handler, of flush_cache() and of the instruction under way *)
Step(t) ==
  /\ \/ Execute(t)
     \/ \E p \in Page : Fault(t, p)
     \/ notify_page_fault(t) \/ evict_a_page(t) \/ Protect(t)
     \/ map_page_from_blkdev(t) \/ read_blocking(t) \/ OpenPage(t) \/ FillPage(t)
     \/ FlushPage(t) \/ write_blocking(t) \/ Remap(t) \/ ProtectRange(t)
  /\ UNCHANGED failed

(* flush_cache() walks the list: what it does while another thread changes *)
(* it is undefined and not modelled.                                       *)
Call(t) ==
  /\ \/ \E i \in Instr : Issue(t, i)
     \/ Thread = {t} /\ flush_cache(t)
     \/ Thread = {t} /\ \E n \in Sizes : resize_cache(t, n)
  /\ UNCHANGED failed

Next == Device \/ \E t \in Thread : Step(t) \/ Call(t)

Spec == Init /\ [][Next]_vars

(* Threads run and the device answers; nobody is made to call anything.    *)
FairSpec == Spec /\ WF_vars(Device) /\ \A t \in Thread : WF_vars(Step(t))

-----------------------------------------------------------------------------
(* Properties *)

(* Type invariant. *)
TypeOK ==
  /\ mem \in [Page -> Val] /\ disk \in [Page -> Val] /\ read_buf \in Val
  /\ failed \in BOOLEAN
  /\ accessible \subseteq Page /\ mapped_pages \subseteq Page
  /\ used_pages \in Nat /\ max_active_pg_cnt \in {InitSize} \cup Sizes
  /\ queue \in [Namespace -> Seq(Command)]
  /\ pc \in [Thread -> {"idle", "run", "notify_page_fault", "evict_a_page",
                        "protect", "map_page", "read_blocking", "open_page",
                        "fill_page", "flush_cache", "write_blocking",
                        "mprotect", "crashed"}]
  /\ instr \in [Thread -> Instr \cup {NoInstr}]
  /\ pf_page \in [Thread -> Page \cup {NoPage}]
  /\ target_page \in [Thread -> Page \cup {NoPage}]
  /\ src \in [Thread -> Val]
  /\ todo \in [Thread -> SUBSET Page]

(* The assertion of notify_page_fault (controller.cc:197): a fault never   *)
(* finds more pages in use than the cache may hold.                        *)
UsedPagesBounded ==
  \A t \in Thread :
    pc[t] = "notify_page_fault" => used_pages <= max_active_pg_cnt

(* used_pages counts the list, with the page being read; never more pages  *)
(* are resident than resize_cache() allows; and while the program runs the *)
(* list holds just the pages it can access, so that no page escapes        *)
(* eviction and no resident page faults.                                   *)
Residency ==
  LET reading == {t \in Thread : pc[t] = "read_blocking"}
      flushing == {t \in Thread : pc[t] \in {"flush_cache", "write_blocking"}}
  IN  /\ used_pages = Cardinality(mapped_pages) + Cardinality(reading)
      /\ flushing = {} => used_pages <= max_active_pg_cnt
      /\ (\A t \in Thread : pc[t] \in {"idle", "run"})
           => mapped_pages = accessible

(* The contents of a page that is not resident: the last write on its way  *)
(* to the device, or what the device holds.                                *)
OnDevice(p) ==
  LET q == queue[tgt_ns(p)]
      W == {i \in DOMAIN q : q[i].op = "write" /\ q[i].page = p}
  IN  IF W = {} THEN disk[p] ELSE q[Max(W)].data

(* A page is filled with what was last stored into it (the read-back that  *)
(* tests/test_controller.cc:70 asserts): the read that answers a fault     *)
(* does not overtake the write of the page's own eviction.                 *)
FillsLatest ==
  \A t \in Thread :
    pc[t] \in {"open_page", "fill_page"} => src[t] = OnDevice(pf_page[t])

(* Pages whose frame holds their contents. *)
Resident(p) ==
  /\ p \in accessible
  /\ \A t \in Thread : /\ pc[t] # "mprotect"
                       /\ pc[t] = "fill_page" => pf_page[t] # p

F == INSTANCE FlatMemory WITH
       flat <- [p \in Page |-> IF Resident(p) THEN mem[p] ELSE OnDevice(p)]

(* The cache implements a flat memory: an instruction reads what was last  *)
(* stored, and no step of the handler, of an eviction, of a flush, of      *)
(* init() or of the device changes the contents of a page - up to the      *)
(* first command that fails, which nobody looks at (controller.cc:176).    *)
ImplementsFlat == F!Spec

(* Every call returns: the handler that reads a page, and flush_cache().   *)
CallsReturn ==
  \A t \in Thread : pc[t] \notin {"idle", "run"} ~> pc[t] \in {"idle", "run"}

(* A store that faults is executed in the end: the page it waits for is    *)
(* still accessible when the handler returns.                              *)
StoresComplete ==
  \A t \in Thread : (pc[t] = "run" /\ instr[t].op = "store") ~> pc[t] = "idle"
=============================================================================
