------------------------------ MODULE Snapshot ------------------------------
(***************************************************************************)
(* The life of one file under libstoreinst: it is mapped (and recovered)   *)
(* by mmap(), modified by an instrumented thread, committed by snapshot()  *)
(* (msync, fsync and fdatasync call it), and hit by failures at any point. *)
(* src/libstoreinst/libc_wrappers.cc, libstoreinst.cc, recovery.cc.        *)
(*                                                                         *)
(* The file is Words 0..NWords-1 of 8 bytes; word w is at byte 8*w of the  *)
(* mapping and of the backing file.  The application works on mem, a       *)
(* private mapping of the file; the backing file is mapped from persistent *)
(* memory, so a store to it is in the cache (backing) before it is on the  *)
(* media (p_backing).  A failure keeps what is on the media; a crash of    *)
(* the process alone is a failure after every line has been written back.  *)
(*                                                                         *)
(* CXL mode is on, CXLBUF_MSYNC_IS_NOP is off, and the build flags are the *)
(* defaults of make.config.  One thread runs; it has one log (UndoLog).    *)
(***************************************************************************)
EXTENDS UndoLog, AlignedWrite, Functions

CONSTANTS
  NWords,           \* size of the mapping in words
  Val,              \* values of a word
  Touched,          \* the value of word 0 whose first byte is set to 1
  Stores,           \* ranges [addr, bytes] the application writes
  Ranges,           \* ranges [addr, bytes] snapshot() is called on
  SortThreshold,    \* log length above which snapshot() sorts it (10)
  UntrackedStores,  \* may the application write before startTracking?
  MaxLog,           \* bound: entries logged between two snapshots
  MaxCrashes        \* bound: failures

Word == 0 .. NWords - 1

ByteRange == [addr : Nat, bytes : Nat \ {0}]

ASSUME SnapshotAssumption ==
  /\ NWords \in Nat \ {0}
  /\ Touched \in Val
  /\ Stores \subseteq {r \in ByteRange : /\ r.addr % 8 = 0
                                         /\ r.bytes % 8 = 0
                                         /\ r.addr + r.bytes <= 8 * NWords}
  /\ Ranges \subseteq {r \in ByteRange : r.addr < 8 * NWords}
  /\ SortThreshold \in Nat
  /\ UntrackedStores \in BOOLEAN
  /\ MaxLog \in Nat
  /\ MaxCrashes \in Nat

VARIABLES
  pc,               \* where the process is; "down" when it does not run
  file,             \* the original file
  has_backing,      \* the .cxlbuf_backing file exists
  backing,          \* the backing file, as the processor sees it
  p_backing,        \* the backing file on the media
  deps,             \* the ACTIVE logs named in the dependency file, in order
  mem,              \* the application's private mapping of the file
  startTracking,
  storeInstEnabled,
  firstSnapshot,
  range,            \* arguments of the snapshot() in progress
  idx,              \* position in entries of its copy loop
  pending,          \* words written to backing and flushed since the last fence
  base,             \* history: the image the undo log leads back to
  crashes

fileVars    == <<file, has_backing, deps>>
appVars     == <<mem, startTracking, storeInstEnabled>>
backingVars == <<backing, p_backing, pending>>
snapVars    == <<firstSnapshot, range, idx>>
vars        == <<pc, fileVars, appVars, backingVars, snapVars, base, crashes,
                 logVars>>

(* The words a range of bytes touches. *)
WordsOf(addr, bytes) == {w \in Word : addr <= 8 * w /\ 8 * w < addr + bytes}

(* img with the words of S taken from src. *)
Copy(img, src, S) == [w \in Word |-> IF w \in S THEN src[w] ELSE img[w]]

NoRange == [addr |-> 0, bytes |-> 0]

Init ==
  /\ pc = "down"
  /\ file \in [Word -> Val]
  /\ has_backing = FALSE
  /\ backing = file
  /\ p_backing = file
  /\ deps = <<>>
  /\ mem = file
  /\ startTracking = FALSE
  /\ storeInstEnabled = FALSE
  /\ firstSnapshot = TRUE
  /\ range = NoRange
  /\ idx = 1
  /\ pending = {}
  /\ base = file
  /\ crashes = 0
  /\ FreshLog

-----------------------------------------------------------------------------
(* Opening the file: mmap() runs these four steps in order. *)

(* The logs needs_recovery returns: it stops at the first ACTIVE one. *)
needs_recovery == {i \in DOMAIN deps : i = 1}

Covers(e, w) == w \in WordsOf(e.addr, e.bytes)

(* Applying a log's entries last one first leaves in every word the old    *)
(* value of the first entry that covers it.                                *)
Undo(img, lg) ==
  [w \in Word |->
     IF \E k \in DOMAIN lg : Covers(lg[k], w)
     THEN lg[CHOOSE k \in DOMAIN lg :
               /\ Covers(lg[k], w)
               /\ \A j \in DOMAIN lg : Covers(lg[j], w) => k <= j].old[w]
     ELSE img[w]]

(* PmemFile's constructor: find the log that needs recovery, undo it on    *)
(* the backing file, with a fence after every entry.                       *)
recover ==
  /\ pc = "down"
  /\ pc' = "create_backing_file"
  /\ \/ /\ needs_recovery = {}
        /\ UNCHANGED <<backing, p_backing>>
     \/ \E i \in needs_recovery :
          /\ backing' = Undo(backing, deps[i])
          /\ p_backing' = Undo(p_backing, deps[i])
  /\ UNCHANGED <<fileVars, appVars, pending, snapVars, base, crashes, logVars>>

\* Mutant: the file is not recreated from the backing file.
create_backing_file_Once ==
  /\ pc = "create_backing_file"
  /\ pc' = "map_backing_file"
  /\ has_backing' = TRUE
  /\ backing' = IF has_backing THEN backing ELSE file
  /\ p_backing' = IF has_backing THEN p_backing ELSE file
  /\ UNCHANGED <<file, deps, appVars, pending, snapVars, base, crashes,
                 logVars>>

(* The first time the file is copied to the backing file; afterwards the   *)
(* file is recreated from it.                                              *)
create_backing_file ==
  /\ pc = "create_backing_file"
  /\ pc' = "map_backing_file"
  /\ \/ /\ ~has_backing
        /\ has_backing' = TRUE
        /\ backing' = file
        /\ p_backing' = file
        /\ UNCHANGED file
     \/ /\ has_backing
        /\ file' = backing
        /\ UNCHANGED <<has_backing, backing, p_backing>>
  /\ UNCHANGED <<deps, appVars, pending, snapVars, base, crashes, logVars>>

(* The mapping is tried out by storing 1 in its first byte. *)
map_backing_file ==
  /\ pc = "map_backing_file"
  /\ pc' = "map_to_page_cache"
  /\ backing' = [backing EXCEPT ![0] = Touched]
  /\ UNCHANGED <<fileVars, appVars, p_backing, pending, snapVars, base,
                 crashes, logVars>>

(* The file is mapped privately and this process's log is named in the     *)
(* dependency file.  deps holds the logs of processes that are gone: the   *)
(* entry written here is what a failure leaves there (Failure).            *)
map_to_page_cache ==
  /\ pc = "map_to_page_cache"
  /\ pc' = "run"
  /\ mem' = file
  /\ base' = file
  /\ UNCHANGED <<fileVars, startTracking, storeInstEnabled, backingVars,
                 snapVars, crashes, logVars>>

-----------------------------------------------------------------------------
(* The application *)

StartTracking ==
  /\ pc = "run"
  /\ ~startTracking
  /\ startTracking' = TRUE
  /\ UNCHANGED <<pc, fileVars, mem, storeInstEnabled, backingVars, snapVars,
                 base, crashes, logVars>>

(* A store and the checkMemory() in front of it, or a call of memcpy,      *)
(* memmove or memset: the range is logged, then written.                   *)
Store(r, v) ==
  /\ pc = "run"
  /\ startTracking
  /\ Len(entries) < MaxLog
  /\ log_range(r.addr, r.bytes, [w \in WordsOf(r.addr, r.bytes) |-> mem[w]])
  /\ storeInstEnabled' = TRUE
  /\ mem' = Copy(mem, [w \in Word |-> v], WordsOf(r.addr, r.bytes))
  /\ UNCHANGED <<pc, fileVars, startTracking, backingVars, snapVars, base,
                 crashes>>

(* The same before startTracking is set: nothing is logged. *)
StoreUntracked(r, v) ==
  /\ pc = "run"
  /\ UntrackedStores
  /\ ~startTracking
  /\ mem' = Copy(mem, [w \in Word |-> v], WordsOf(r.addr, r.bytes))
  /\ base' = mem'
  /\ UNCHANGED <<pc, fileVars, startTracking, storeInstEnabled, backingVars,
                 snapVars, crashes, logVars>>

(* checkMemory() and the wrappers look at startTracking. *)
AppStore(r, v) == IF startTracking THEN Store(r, v) ELSE StoreUntracked(r, v)

-----------------------------------------------------------------------------
(* snapshot(addr, bytes).  Without instrumentation (~storeInstEnabled) it  *)
(* calls the real msync, which does nothing for a private mapping: no step *)
(* here.                                                                   *)

(* Flush the log's tail and reset its log_offset. *)
snapshot(r) ==
  /\ pc = "run"
  /\ storeInstEnabled
  /\ pc' = "set_active"
  /\ range' = r
  /\ flush_all
  /\ log_offset' = 0
  /\ UNCHANGED <<entries, last_log, content, tail_ptr, last_flush_offset,
                 state, durable, p_state, p_log_offset>>
  /\ UNCHANGED <<fileVars, appVars, backingVars, firstSnapshot, idx, base,
                 crashes>>

SetActive ==
  /\ pc = "set_active"
  /\ pc' = "drain_log"
  /\ set_state_flush("ACTIVE")
  /\ UNCHANGED <<fileVars, appVars, backingVars, snapVars, base, crashes>>

DrainLog ==
  /\ pc = "drain_log"
  /\ pc' = "prepare"
  /\ drain
  /\ UNCHANGED <<fileVars, appVars, backingVars, snapVars, base, crashes>>

(* std::sort by address: equal addresses may come out in any order. *)
Sorted(s) ==
  {t \in {[i \in DOMAIN s |-> s[p[i]]] : p \in Bijection(DOMAIN s, DOMAIN s)} :
     \A i, j \in DOMAIN s : i < j => t[i].addr <= t[j].addr}

\* Mutant: no copy of the whole mapping at the first snapshot.
Prepare_NoFirstCopy ==
  /\ pc = "prepare"
  /\ pc' = "copy"
  /\ idx' = 1
  /\ firstSnapshot' = FALSE
  /\ entries' \in IF Len(entries) > SortThreshold THEN Sorted(entries)
                                                  ELSE {entries}
  /\ UNCHANGED <<last_log, content, log_offset, tail_ptr, last_flush_offset,
                 state, flushed, durable, p_state, p_log_offset>>
  /\ UNCHANGED <<fileVars, appVars, backingVars, range, base, crashes>>

(* The first snapshot of a process copies the whole mapping, without a     *)
(* flush.  A long list of entries is sorted.                               *)
Prepare ==
  /\ pc = "prepare"
  /\ pc' = "copy"
  /\ idx' = 1
  /\ firstSnapshot' = FALSE
  /\ backing' = IF firstSnapshot THEN mem ELSE backing
  /\ entries' \in IF Len(entries) > SortThreshold THEN Sorted(entries)
                                                  ELSE {entries}
  /\ UNCHANGED <<last_log, content, log_offset, tail_ptr, last_flush_offset,
                 state, flushed, durable, p_state, p_log_offset>>
  /\ UNCHANGED <<fileVars, appVars, p_backing, pending, range, base, crashes>>

(* entry.addr - start <= diff, in unsigned arithmetic. *)
InRange(e) == range.addr <= e.addr /\ e.addr <= range.addr + range.bytes

(* The words written for an entry, with the ones its aligned block adds.   *)
Block(e) == WordsOf(dst_addr_aligned(e.addr, e.bytes), new_sz(e.addr, e.bytes))

\* Mutant: an entry is skipped when it starts where the one before does.
CopyEntry_SkipSameAddr ==
  /\ pc = "copy"
  /\ idx <= Len(entries)
  /\ idx' = idx + 1
  /\ LET e == entries[idx]
         skip_entry == idx > 1 /\ entries[idx - 1].addr = e.addr
         W == IF InRange(e) /\ ~skip_entry THEN Block(e) ELSE {}
     IN  /\ backing' = Copy(backing, mem, W)
         /\ pending' = pending \cup W
  /\ UNCHANGED <<pc, fileVars, appVars, p_backing, firstSnapshot, range, base,
                 crashes, logVars>>

(* One iteration of the copy loop. *)
CopyEntry ==
  /\ pc = "copy"
  /\ idx <= Len(entries)
  /\ idx' = idx + 1
  /\ LET e == entries[idx]
         skip_entry == idx > 1 /\ entries[idx - 1] = e
         W == IF InRange(e) /\ ~skip_entry THEN Block(e) ELSE {}
     IN  /\ backing' = Copy(backing, mem, W)
         /\ pending' = pending \cup W
  /\ UNCHANGED <<pc, fileVars, appVars, p_backing, firstSnapshot, range, base,
                 crashes, logVars>>

\* Mutant: no fence after the loop.
Drain_NoFence ==
  /\ pc = "copy"
  /\ idx > Len(entries)
  /\ pc' = "set_empty"
  /\ pending' = {}
  /\ UNCHANGED <<fileVars, appVars, backing, p_backing, snapVars, base, crashes,
                 logVars>>

(* The loop is over; drain.  applied_cnt equals entry_cnt by construction. *)
Drain ==
  /\ pc = "copy"
  /\ idx > Len(entries)
  /\ pc' = "set_empty"
  /\ p_backing' = Copy(p_backing, backing, pending)
  /\ pending' = {}
  /\ UNCHANGED <<fileVars, appVars, backing, snapVars, base, crashes, logVars>>

SetEmpty ==
  /\ pc = "set_empty"
  /\ pc' = "clear"
  /\ set_state("EMPTY")
  /\ UNCHANGED <<fileVars, appVars, backingVars, snapVars, base, crashes>>

Clear ==
  /\ pc = "clear"
  /\ pc' = "run"
  /\ clear
  /\ range' = NoRange
  /\ idx' = 1
  /\ base' = mem
  /\ UNCHANGED <<fileVars, appVars, backingVars, firstSnapshot, crashes>>

-----------------------------------------------------------------------------
(* The hardware *)

(* A cached store to the backing file reaches the media on its own. *)
WriteBack(w) ==
  /\ backing[w] # p_backing[w]
  /\ p_backing' = [p_backing EXCEPT ![w] = backing[w]]
  /\ UNCHANGED <<pc, fileVars, appVars, backing, pending, snapVars, base,
                 crashes, logVars>>

WriteBackLogHeader ==
  /\ WriteBackHeader
  /\ UNCHANGED <<pc, fileVars, appVars, backingVars, snapVars, base, crashes>>

(* The number of entries that recover would read after a failure now: the  *)
(* first ones, which start below the log_offset on the media and are there. *)
Readable ==
  CHOOSE n \in 0..Len(content) :
    \A k \in DOMAIN content :
      k <= n <=> content[k].off < p_log_offset /\ OnMedia(content[k], durable)

(* The log a failure leaves behind.  A log that is not ACTIVE is never     *)
(* read again, and is not kept.                                            *)
LeftLog ==
  IF p_state = "ACTIVE" THEN <<SubSeq(content, 1, Readable)>> ELSE <<>>

(* The machine loses power, or the process exits or is killed, at any point. *)
Failure ==
  /\ pc # "down"
  /\ crashes < MaxCrashes
  /\ crashes' = crashes + 1
  /\ pc' = "down"
  /\ deps' = deps \o LeftLog
  /\ backing' = p_backing
  /\ pending' = {}
  /\ mem' = file
  /\ base' = file
  /\ startTracking' = FALSE
  /\ storeInstEnabled' = FALSE
  /\ firstSnapshot' = TRUE
  /\ range' = NoRange
  /\ idx' = 1
  /\ ReplaceLog
  /\ UNCHANGED <<file, has_backing, p_backing>>

Next ==
  \/ recover \/ create_backing_file \/ map_backing_file \/ map_to_page_cache
  \/ StartTracking
  \/ \E r \in Stores, v \in Val : AppStore(r, v)
  \/ \E r \in Ranges : snapshot(r)
  \/ SetActive \/ DrainLog \/ Prepare \/ CopyEntry \/ Drain \/ SetEmpty \/ Clear
  \/ \E w \in Word : WriteBack(w)
  \/ WriteBackLogHeader
  \/ Failure

Spec == Init /\ [][Next]_vars

-----------------------------------------------------------------------------
(* Properties *)

DataWord == Word \ {0}    \* the words map_backing_file does not write

Mapped == pc \notin {"down", "create_backing_file", "map_backing_file",
                     "map_to_page_cache"}

Committing == pc \in {"set_active", "drain_log", "prepare", "copy",
                      "set_empty", "clear"}

(* Every snapshot() covers the mapping, as fsync() and fdatasync() do. *)
FullRanges == \A r \in Ranges : r.addr = 0 /\ r.bytes >= 8 * NWords

(* No snapshot() starts in the middle of a range that was stored in one go. *)
NoCut ==
  \A s \in Stores, r \in Ranges : s.addr < r.addr => s.addr + s.bytes <= r.addr

(* What the next open finds in the file if the process goes down now and   *)
(* img is what is left of the backing file.                                *)
Recovered(img) ==
  IF deps \o LeftLog = <<>> THEN img ELSE Undo(img, Head(deps \o LeftLog))

Image == IF has_backing THEN Recovered(p_backing) ELSE file

Entry == [off : Nat, addr : Nat, bytes : Nat \ {0},
          old : UNION {[S -> Val] : S \in SUBSET Word}]

TypeFlags ==
  /\ has_backing \in BOOLEAN
  /\ startTracking \in BOOLEAN
  /\ storeInstEnabled \in BOOLEAN
  /\ firstSnapshot \in BOOLEAN

TypeImages ==
  /\ file \in [Word -> Val]
  /\ backing \in [Word -> Val]
  /\ p_backing \in [Word -> Val]
  /\ mem \in [Word -> Val]
  /\ base \in [Word -> Val]

TypeControl ==
  /\ pc \in {"down", "create_backing_file", "map_backing_file",
             "map_to_page_cache", "run", "set_active", "drain_log", "prepare",
             "copy", "set_empty", "clear"}
  /\ deps \in Seq(Seq(Entry))
  /\ range \in ByteRange \cup {NoRange}
  /\ idx \in Nat \ {0}
  /\ pending \subseteq Word
  /\ crashes \in 0 .. MaxCrashes

TypeLog ==
  /\ entries \in Seq(ByteRange)
  /\ last_log \in ByteRange \cup {NoLog}
  /\ content \in Seq(Entry)
  /\ log_offset \in Nat
  /\ tail_ptr \in Nat
  /\ last_flush_offset \in Nat
  /\ state \in {"EMPTY", "ACTIVE"}
  /\ flushed \in Nat
  /\ durable \in Nat
  /\ p_state \in {"EMPTY", "ACTIVE"}
  /\ p_log_offset \in Nat

(* Type invariant. *)
TypeOK == TypeFlags /\ TypeImages /\ TypeControl /\ TypeLog

(* The undo log is exact: undoing it turns the mapping back into what it   *)
(* was when the log was last empty.  The first entry of a word has its old *)
(* value, whatever overlapping or repeated ranges log_range has dropped or *)
(* logged since; a word without an entry has not changed.                  *)
UndoExact ==
  Mapped =>
    \A w \in Word :
      /\ (\A k \in DOMAIN content : ~Covers(content[k], w)) => mem[w] = base[w]
      /\ \A k \in DOMAIN content :
           (Covers(content[k], w) /\ \A j \in 1 .. k - 1 : ~Covers(content[j], w))
             => content[k].old[w] = base[w]

(* Write-ahead: whenever the backing file on the media is torn between the *)
(* last committed image and the present one, the log is ACTIVE on the      *)
(* media, its entries are there too and undoing them gives the last        *)
(* committed image back - unless the entries end on a cache-line boundary (see       *)
(* TailFlushed).                                                           *)
TornIsUndoable ==
  (/\ Mapped
   /\ \E w \in DataWord : p_backing[w] # base[w]
   /\ \E w \in DataWord : p_backing[w] # mem[w]) =>
    /\ p_state = "ACTIVE"
    /\ tail_ptr % LineSize # 0 =>
         /\ \A k \in DOMAIN content : OnMedia(content[k], durable)
         /\ \A w \in DataWord : Undo(p_backing, content)[w] = base[w]

(* The comment in log_range says that the partial last line of the log is  *)
(* flushed with the next entry or on snapshot: once snapshot() has drained *)
(* the log, every entry is on the media.                                   *)
TailFlushed ==
  pc \in {"prepare", "copy"} =>
    \A k \in DOMAIN content : OnMedia(content[k], durable)

(* The comment in snapshot() (libc_wrappers.cc:440-441): copy the logged    *)
(* location to the backing store if in range of snapshot.  When the log is  *)
(* about to be marked EMPTY and dropped, every logged word that lies in the *)
(* range is on the media with its present value, wherever its entry starts. *)
RangeDurable ==
  pc \in {"set_empty", "clear"} =>
    \A i \in DOMAIN entries :
      \A w \in WordsOf(entries[i].addr, entries[i].bytes)
              \cap WordsOf(range.addr, range.bytes) :
        p_backing[w] = mem[w]

(* Between snapshots the backing file, on the media, is the image of the   *)
(* last completed snapshot (or of the open).                               *)
Parity == (pc = "run") => \A w \in DataWord : p_backing[w] = base[w]

(* At every moment the next open finds in a word the value of the last     *)
(* completed snapshot or of the one in progress, never a third one.        *)
OldOrNew ==
  Mapped => \A w \in DataWord : Image[w] \in {base[w], mem[w]}

(* From the first snapshot of a process on, the backing file as the        *)
(* processor sees it is on parity with the last committed image: stores    *)
(* made before tracking started and the byte written by map_backing_file   *)
(* are caught up with by the copy of the whole mapping.                    *)
VisibleParity == (pc = "run" /\ ~firstSnapshot) => backing = base

(* The recovery tests (test_recovery__linkedlist.sh) make a process exit   *)
(* right before it commits and expect the next one to find the list as the *)
(* last completed commit left it.                                          *)
CrashOnCommitUndone ==
  (pc = "copy" /\ idx > Len(entries)) =>
    \A w \in DataWord : Recovered(backing)[w] = base[w]

(* snapshot() says it drains all the updates to the backing file before it *)
(* drops the log.                                                          *)
UpdatesDrained == pc \in {"set_empty", "clear"} => p_backing = backing

(* The file as its user sees it is a file with a synchronous msync that    *)
(* persists word by word: module Msync.                                    *)
VolatileImage == [w \in DataWord |-> IF Mapped THEN mem[w] ELSE Image[w]]

DurableImage == [w \in DataWord |-> Image[w]]

M == INSTANCE Msync WITH
       Word     <- DataWord,
       volatile <- VolatileImage,
       durable  <- DurableImage,
       syncing  <- Committing

(* Snapshot implements Msync: stores stay private until a snapshot(), a    *)
(* snapshot() that returns has made them durable, a failure leaves the     *)
(* durable values, and opening the file (recovery, the backing file, the   *)
(* recreation of the file from it) changes nothing.                        *)
ImplementsMsync == M!Spec
-----------------------------------------------------------------------------
(* The parts of the inductive invariant behind the theorems of modules     *)
(* SnapshotLog_proofs and, for the copy, SnapshotCopy_proofs.               *)

(* The log's bookkeeping: every entry has been flushed but for its last,   *)
(* partial line; the entries end at tail_ptr; each is in the volatile list *)
(* too, and so is the last range.                                          *)
LogInv ==
  /\ last_flush_offset % LineSize = 0
  /\ last_flush_offset <= tail_ptr
  /\ \A k \in DOMAIN content :
       /\ content[k].off + EntrySize(content[k].bytes) <= tail_ptr
       /\ \E m \in DOMAIN entries : /\ entries[m].addr = content[k].addr
                                    /\ entries[m].bytes = content[k].bytes
  /\ last_log # NoLog =>
       \E k \in DOMAIN content : /\ content[k].addr = last_log.addr
                                 /\ content[k].bytes = last_log.bytes

(* Where the process is and what its log looks like.  The log_offset on    *)
(* the media is 0 whenever the log is ACTIVE there, so the logs of earlier *)
(* processes read as empty.                                                *)
PcInv ==
  /\ ~Mapped => ~startTracking
  /\ ~startTracking => content = <<>>
  /\ ~Committing => /\ log_offset = tail_ptr
                    /\ flushed = last_flush_offset
  /\ Committing => /\ log_offset = 0
                   /\ tail_ptr % LineSize # 0 => flushed >= HeaderSize + tail_ptr
  /\ state = "ACTIVE" <=> pc \in {"drain_log", "prepare", "copy", "set_empty"}
  /\ pc \in {"prepare", "copy", "set_empty"} =>
       /\ p_state = "ACTIVE"
       /\ tail_ptr % LineSize # 0 => durable >= HeaderSize + tail_ptr
  /\ p_state = "ACTIVE" => state = "ACTIVE" /\ p_log_offset = 0
  /\ \A i \in DOMAIN deps : deps[i] = <<>>

IInv == TypeOK /\ LogInv /\ PcInv /\ UndoExact

(* The copies of the file, when every snapshot() covers it and nothing is  *)
(* stored before tracking starts.                                          *)
BackInv ==
  /\ pc \in {"down", "create_backing_file"} => backing = p_backing
  /\ pc \notin {"down", "create_backing_file"} => has_backing
  /\ pc \in {"map_backing_file", "map_to_page_cache"} =>
       \A w \in DataWord : backing[w] = file[w] /\ p_backing[w] = file[w]
  /\ pc \in {"run", "set_active", "drain_log", "prepare"} =>
       \A w \in DataWord : backing[w] = base[w] /\ p_backing[w] = base[w]
  /\ pc = "copy" =>
       /\ \A w \in DataWord : /\ backing[w] \in {base[w], mem[w]}
                              /\ p_backing[w] \in {base[w], backing[w]}
       /\ \A w \in pending : backing[w] = mem[w]
       /\ \A m \in DOMAIN entries :
            m < idx => WordsOf(entries[m].addr, entries[m].bytes) \subseteq pending
  /\ pc \in {"set_empty", "clear"} =>
       \A w \in DataWord : backing[w] = mem[w] /\ p_backing[w] = mem[w]
  /\ Committing => range \in Ranges
  /\ pc # "copy" => pending = {}
=============================================================================
