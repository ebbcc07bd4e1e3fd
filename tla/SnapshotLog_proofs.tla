------------------------- MODULE SnapshotLog_proofs -------------------------
(***************************************************************************)
(* Proofs about module Snapshot, first part: every step keeps the types,   *)
(* and the undo log is exact.  They hold for every file size, set of       *)
(* stores and ranges, sort threshold and number of failures, as those of   *)
(* module SnapshotCopy_proofs.                                             *)
(***************************************************************************)
EXTENDS Snapshot, TLAPS

-----------------------------------------------------------------------------
(* Operators *)

(* Copying words between two images gives an image. *)
LEMMA CopyType ==
  ASSUME NEW img \in [Word -> Val], NEW src \in [Word -> Val], NEW S
  PROVE  Copy(img, src, S) \in [Word -> Val]
  BY Zenon DEF Copy

(* An empty log undoes nothing. *)
LEMMA UndoEmpty ==
  ASSUME NEW img \in [Word -> Val]
  PROVE  Undo(img, <<>>) = img
  BY DEF Undo

(* log_range's last_flush_offset stays on a line boundary in the log. *)
LEMMA FlushOffsetType ==
  ASSUME last_flush_offset \in Nat, last_flush_offset % LineSize = 0,
         NEW end \in Nat, last_flush_offset <= end
  PROVE  /\ FlushOffset(end) \in Nat
         /\ FlushOffset(end) % LineSize = 0
         /\ FlushOffset(end) <= end
  BY DEF FlushOffset, LineSize

(* Sorting keeps the length of the list and what is in it. *)
LEMMA SortedFacts ==
  ASSUME NEW s \in Seq(ByteRange), NEW t \in Sorted(s)
  PROVE  /\ t \in Seq(ByteRange)
         /\ Len(t) = Len(s)
         /\ \A m \in DOMAIN s : \E j \in DOMAIN t : t[j] = s[m]
<1>1. PICK p \in Bijection(DOMAIN s, DOMAIN s) : t = [i \in DOMAIN s |-> s[p[i]]]
  BY Zenon DEF Sorted
<1>2. /\ p \in [DOMAIN s -> DOMAIN s]
      /\ \A m \in DOMAIN s : \E j \in DOMAIN s : p[j] = m
  BY <1>1, Zenon DEF Bijection, Injection, Surjection
<1>3. DOMAIN s = 1 .. Len(s) /\ Len(s) \in Nat
  OBVIOUS
<1>4. t \in [1 .. Len(s) -> ByteRange]
  BY <1>1, <1>2, <1>3
<1>5. t \in Seq(ByteRange) /\ Len(t) = Len(s)
  BY <1>3, <1>4
<1>6. \A m \in DOMAIN s : \E j \in DOMAIN t : t[j] = s[m]
  BY <1>1, <1>2, Zenon
<1> QED BY <1>5, <1>6, Zenon

(* recover reads nothing from a log whose log_offset on the media is 0. *)
LEMMA NothingReadable ==
  ASSUME TypeLog, p_log_offset = 0
  PROVE  SubSeq(content, 1, Readable) = <<>>
<1>1. \A k \in DOMAIN content : ~(content[k].off < p_log_offset)
  <2>1. content \in Seq(Entry) BY Zenon DEF TypeLog
  <2>2. \A k \in DOMAIN content : content[k] \in Entry BY <2>1
  <2>3. \A k \in DOMAIN content : content[k].off \in Nat BY <2>2, Zenon DEF Entry
  <2> QED BY <2>3
<1>2. 0 \in 0..Len(content) /\ \A k \in DOMAIN content : ~(k <= 0)
  BY DEF TypeLog
<1>3. Readable = 0
  BY <1>1, <1>2 DEF Readable, TypeLog
<1> QED BY <1>3 DEF TypeLog

-----------------------------------------------------------------------------
(* The type invariant *)

(* Every step keeps the flags Boolean. *)
LEMMA FlagsStep ==
  ASSUME TypeFlags, Next
  PROVE  TypeFlags'
<1>1. CASE recover
  BY <1>1, Zenon DEF TypeFlags, recover, fileVars, appVars, backingVars, snapVars,
     logVars
<1>2. CASE create_backing_file
  BY <1>2, Zenon DEF TypeFlags, create_backing_file, fileVars, appVars, backingVars,
     snapVars, logVars
<1>3. CASE map_backing_file
  BY <1>3, Zenon DEF TypeFlags, map_backing_file, fileVars, appVars, backingVars,
     snapVars, logVars
<1>4. CASE map_to_page_cache
  BY <1>4, Zenon DEF TypeFlags, map_to_page_cache, fileVars, appVars, backingVars,
     snapVars, logVars
<1>5. CASE StartTracking
  BY <1>5, Zenon DEF TypeFlags, StartTracking, fileVars, appVars, backingVars,
     snapVars, logVars
<1>6. ASSUME NEW r \in Stores, NEW v \in Val, Store(r, v) PROVE TypeFlags'
  BY <1>6, Zenon DEF TypeFlags, Store, log_range, fileVars, appVars, backingVars,
     snapVars, logVars
<1>7. ASSUME NEW r \in Stores, NEW v \in Val, StoreUntracked(r, v) PROVE
   TypeFlags'
  BY <1>7, Zenon DEF TypeFlags, StoreUntracked, fileVars, appVars, backingVars,
     snapVars, logVars
<1>8. ASSUME NEW r \in Ranges, snapshot(r) PROVE TypeFlags'
  BY <1>8, Zenon DEF TypeFlags, snapshot, flush_all, fileVars, appVars, backingVars,
     snapVars, logVars
<1>9. CASE SetActive
  BY <1>9, Zenon DEF TypeFlags, SetActive, set_state_flush, fileVars, appVars,
     backingVars, snapVars, logVars
<1>10. CASE DrainLog
  BY <1>10, Zenon DEF TypeFlags, DrainLog, drain, fileVars, appVars, backingVars,
     snapVars, logVars
<1>11. CASE Prepare
  BY <1>11, Zenon DEF TypeFlags, Prepare, fileVars, appVars, backingVars, snapVars,
     logVars
<1>12. CASE CopyEntry
  BY <1>12, Zenon DEF TypeFlags, CopyEntry, fileVars, appVars, backingVars, snapVars,
     logVars
<1>13. CASE Drain
  BY <1>13, Zenon DEF TypeFlags, Drain, fileVars, appVars, backingVars, snapVars,
     logVars
<1>14. CASE SetEmpty
  BY <1>14, Zenon DEF TypeFlags, SetEmpty, set_state, fileVars, appVars, backingVars,
     snapVars, logVars
<1>15. CASE Clear
  BY <1>15, Zenon DEF TypeFlags, Clear, clear, fileVars, appVars, backingVars,
     snapVars, logVars
<1>16. ASSUME NEW w \in Word, WriteBack(w) PROVE TypeFlags'
  BY <1>16, Zenon DEF TypeFlags, WriteBack, fileVars, appVars, backingVars, snapVars,
     logVars
<1>17. CASE WriteBackLogHeader
  BY <1>17, Zenon DEF TypeFlags, WriteBackLogHeader, WriteBackHeader, fileVars,
     appVars, backingVars, snapVars, logVars
<1>18. CASE Failure
  BY <1>18, Zenon DEF TypeFlags, Failure, ReplaceLog, fileVars, appVars, backingVars,
     snapVars, logVars
<1> QED BY <1>1, <1>2, <1>3, <1>4, <1>5, <1>6, <1>7, <1>8, <1>9, <1>10, <1>11,
           <1>12, <1>13, <1>14, <1>15, <1>16, <1>17, <1>18, Zenon DEF Next, AppStore

(* Every step keeps the images images: recover replays only empty logs. *)
LEMMA ImagesStep ==
  ASSUME TypeImages, PcInv, Next
  PROVE  TypeImages'
<1>1. CASE recover
  <2>1. CASE needs_recovery = {}
    BY <1>1, <2>1, Zenon DEF TypeImages, recover, fileVars, appVars
  <2>2. ASSUME NEW i \in needs_recovery, backing' = Undo(backing, deps[i]),
               p_backing' = Undo(p_backing, deps[i])
        PROVE  TypeImages'
    <3>1. deps[i] = <<>> BY <2>2, Zenon DEF PcInv, needs_recovery
    <3>2. backing' = backing /\ p_backing' = p_backing
      BY <2>2, <3>1, UndoEmpty, Zenon DEF TypeImages
    <3> QED BY <1>1, <3>2, Zenon DEF TypeImages, recover, fileVars, appVars
  <2> QED BY <1>1, <2>1, <2>2, Zenon DEF recover
<1>2. CASE create_backing_file
  BY <1>2, Zenon DEF TypeImages, create_backing_file, fileVars, appVars, backingVars,
     snapVars, logVars
<1>3. CASE map_backing_file
  BY <1>3, SnapshotAssumption, Zenon DEF TypeImages, map_backing_file, fileVars,
     appVars, backingVars, snapVars, logVars
<1>4. CASE map_to_page_cache
  BY <1>4, Zenon DEF TypeImages, map_to_page_cache, fileVars, appVars, backingVars,
     snapVars, logVars
<1>5. CASE StartTracking
  BY <1>5, Zenon DEF TypeImages, StartTracking, fileVars, appVars, backingVars,
     snapVars, logVars
<1>6. ASSUME NEW r \in Stores, NEW v \in Val, Store(r, v) PROVE TypeImages'
  <2>1. [x \in Word |-> v] \in [Word -> Val] BY Zenon
  <2>2. mem' \in [Word -> Val]
    BY <1>6, <2>1, CopyType, Zenon DEF Store, TypeImages
  <2> QED BY <1>6, <2>2, Zenon DEF TypeImages, Store, fileVars, backingVars
<1>7. ASSUME NEW r \in Stores, NEW v \in Val, StoreUntracked(r, v) PROVE
   TypeImages'
  <2>1. [x \in Word |-> v] \in [Word -> Val] BY Zenon
  <2>2. mem' \in [Word -> Val]
    BY <1>7, <2>1, CopyType, Zenon DEF StoreUntracked, TypeImages
  <2> QED BY <1>7, <2>2, Zenon DEF TypeImages, StoreUntracked, fileVars, backingVars
<1>8. ASSUME NEW r \in Ranges, snapshot(r) PROVE TypeImages'
  BY <1>8, Zenon DEF TypeImages, snapshot, flush_all, fileVars, appVars, backingVars,
     snapVars, logVars
<1>9. CASE SetActive
  BY <1>9, Zenon DEF TypeImages, SetActive, set_state_flush, fileVars, appVars,
     backingVars, snapVars, logVars
<1>10. CASE DrainLog
  BY <1>10, Zenon DEF TypeImages, DrainLog, drain, fileVars, appVars, backingVars,
     snapVars, logVars
<1>11. CASE Prepare
  BY <1>11, Zenon DEF TypeImages, Prepare, fileVars, appVars, backingVars, snapVars,
     logVars
<1>12. CASE CopyEntry
  <2>1. backing' \in [Word -> Val]
    BY <1>12, CopyType, Zenon DEF CopyEntry, TypeImages
  <2> QED BY <1>12, <2>1, Zenon DEF TypeImages, CopyEntry, fileVars, appVars
<1>13. CASE Drain
  <2>1. p_backing' \in [Word -> Val]
    BY <1>13, CopyType, Zenon DEF Drain, TypeImages
  <2> QED BY <1>13, <2>1, Zenon DEF TypeImages, Drain, fileVars, appVars
<1>14. CASE SetEmpty
  BY <1>14, Zenon DEF TypeImages, SetEmpty, set_state, fileVars, appVars, backingVars,
     snapVars, logVars
<1>15. CASE Clear
  BY <1>15, Zenon DEF TypeImages, Clear, clear, fileVars, appVars, backingVars,
     snapVars, logVars
<1>16. ASSUME NEW w \in Word, WriteBack(w) PROVE TypeImages'
  BY <1>16, Zenon DEF TypeImages, WriteBack, fileVars, appVars, backingVars, snapVars,
     logVars
<1>17. CASE WriteBackLogHeader
  BY <1>17, Zenon DEF TypeImages, WriteBackLogHeader, WriteBackHeader, fileVars,
     appVars, backingVars, snapVars, logVars
<1>18. CASE Failure
  BY <1>18, Zenon DEF TypeImages, Failure, ReplaceLog, fileVars, appVars, backingVars,
     snapVars, logVars
<1> QED BY <1>1, <1>2, <1>3, <1>4, <1>5, <1>6, <1>7, <1>8, <1>9, <1>10, <1>11,
           <1>12, <1>13, <1>14, <1>15, <1>16, <1>17, <1>18, Zenon DEF Next, AppStore


(* Every step keeps the control variables typed. *)
LEMMA ControlStep ==
  ASSUME TypeControl, TypeLog, PcInv, Next
  PROVE  TypeControl'
<1>1. CASE recover
  BY <1>1, Zenon DEF TypeControl, recover, fileVars, appVars, backingVars, snapVars,
     logVars
<1>2. CASE create_backing_file
  BY <1>2, Zenon DEF TypeControl, create_backing_file, fileVars, appVars, backingVars,
     snapVars, logVars
<1>3. CASE map_backing_file
  BY <1>3, Zenon DEF TypeControl, map_backing_file, fileVars, appVars, backingVars,
     snapVars, logVars
<1>4. CASE map_to_page_cache
  BY <1>4, Zenon DEF TypeControl, map_to_page_cache, fileVars, appVars, backingVars,
     snapVars, logVars
<1>5. CASE StartTracking
  BY <1>5, Zenon DEF TypeControl, StartTracking, fileVars, appVars, backingVars,
     snapVars, logVars
<1>6. ASSUME NEW r \in Stores, NEW v \in Val, Store(r, v) PROVE TypeControl'
  BY <1>6, Zenon DEF TypeControl, Store, log_range, fileVars, appVars, backingVars,
     snapVars, logVars
<1>7. ASSUME NEW r \in Stores, NEW v \in Val, StoreUntracked(r, v) PROVE
   TypeControl'
  BY <1>7, Zenon DEF TypeControl, StoreUntracked, fileVars, appVars, backingVars,
     snapVars, logVars
<1>8. ASSUME NEW r \in Ranges, snapshot(r) PROVE TypeControl'
  <2>1. r \in ByteRange BY SnapshotAssumption, Zenon
  <2> QED BY <1>8, <2>1, Zenon DEF TypeControl, snapshot, fileVars, backingVars
<1>9. CASE SetActive
  BY <1>9, Zenon DEF TypeControl, SetActive, set_state_flush, fileVars, appVars,
     backingVars, snapVars, logVars
<1>10. CASE DrainLog
  BY <1>10, Zenon DEF TypeControl, DrainLog, drain, fileVars, appVars, backingVars,
     snapVars, logVars
<1>11. CASE Prepare
  BY <1>11 DEF TypeControl, Prepare, fileVars, appVars, backingVars, snapVars,
     logVars
<1>12. CASE CopyEntry
  <2>1. \A e : Block(e) \subseteq Word BY Zenon DEF Block, WordsOf
  <2>2. pending' \subseteq Word
    BY <1>12, <2>1, Zenon DEF CopyEntry, TypeControl
  <2> QED BY <1>12, <2>2 DEF TypeControl, CopyEntry, fileVars
<1>13. CASE Drain
  BY <1>13, Zenon DEF TypeControl, Drain, fileVars, appVars, backingVars, snapVars,
     logVars
<1>14. CASE SetEmpty
  BY <1>14, Zenon DEF TypeControl, SetEmpty, set_state, fileVars, appVars,
     backingVars, snapVars, logVars
<1>15. CASE Clear
  BY <1>15 DEF TypeControl, Clear, clear, fileVars, appVars, backingVars,
     snapVars, logVars
<1>16. ASSUME NEW w \in Word, WriteBack(w) PROVE TypeControl'
  BY <1>16, Zenon DEF TypeControl, WriteBack, fileVars, appVars, backingVars,
     snapVars, logVars
<1>17. CASE WriteBackLogHeader
  BY <1>17, Zenon DEF TypeControl, WriteBackLogHeader, WriteBackHeader, fileVars,
     appVars, backingVars, snapVars, logVars
<1>18. CASE Failure
  <2>1. LeftLog \in Seq(Seq(Entry))
    <3>1. CASE p_state = "ACTIVE"
      <4>1. LeftLog = << <<>> >>
        BY <3>1, NothingReadable, Zenon DEF LeftLog, PcInv
      <4> QED BY <4>1
    <3>2. CASE p_state # "ACTIVE"
      BY <3>2 DEF LeftLog
    <3> QED BY <3>1, <3>2, Zenon
  <2>2. deps' \in Seq(Seq(Entry))
    BY <1>18, <2>1 DEF Failure, TypeControl
  <2>3. crashes' \in 0 .. MaxCrashes
    BY <1>18, SnapshotAssumption DEF Failure, TypeControl
  <2> QED BY <1>18, <2>2, <2>3 DEF TypeControl, Failure
<1> QED BY <1>1, <1>2, <1>3, <1>4, <1>5, <1>6, <1>7, <1>8, <1>9, <1>10, <1>11,
           <1>12, <1>13, <1>14, <1>15, <1>16, <1>17, <1>18, Zenon DEF Next, AppStore

(* Every step keeps the log typed. *)
LEMMA LogTypeStep ==
  ASSUME TypeImages, TypeLog, LogInv, PcInv, Next
  PROVE  TypeLog'
<1>1. CASE recover
  BY <1>1, Zenon DEF TypeLog, recover, logVars
<1>2. CASE create_backing_file
  BY <1>2, Zenon DEF TypeLog, create_backing_file, logVars
<1>3. CASE map_backing_file
  BY <1>3, Zenon DEF TypeLog, map_backing_file, logVars
<1>4. CASE map_to_page_cache
  BY <1>4, Zenon DEF TypeLog, map_to_page_cache, logVars
<1>5. CASE StartTracking
  BY <1>5, Zenon DEF TypeLog, StartTracking, logVars
<1>6. ASSUME NEW r \in Stores, NEW v \in Val, Store(r, v) PROVE TypeLog'
  <2> DEFINE lean == [addr |-> r.addr, bytes |-> r.bytes]
             end  == log_offset + EntrySize(r.bytes)
             old  == [w \in WordsOf(r.addr, r.bytes) |-> mem[w]]
             e    == [off |-> tail_ptr, addr |-> r.addr, bytes |-> r.bytes,
                      old |-> old]
  <2>1. r \in ByteRange BY SnapshotAssumption, Zenon
  <2>2. r.addr \in Nat /\ r.bytes \in Nat \ {0} BY <2>1, Zenon DEF ByteRange
  <2>3. lean \in ByteRange BY <2>2, Zenon DEF ByteRange
  <2>4. entries' \in Seq(ByteRange)
    BY <1>6, <2>3 DEF Store, log_range, TypeLog
  <2>5. /\ state \in {"EMPTY", "ACTIVE"} /\ state' = state
        /\ durable \in Nat /\ durable' = durable
        /\ p_state \in {"EMPTY", "ACTIVE"} /\ p_state' = p_state
        /\ p_log_offset \in Nat /\ p_log_offset' = p_log_offset
    BY <1>6, Zenon DEF Store, log_range, TypeLog
  <2>6. CASE UNCHANGED <<last_log, content, log_offset, tail_ptr,
                         last_flush_offset, flushed>>
    BY <2>4, <2>5, <2>6, Zenon DEF TypeLog
  <2>7. CASE /\ last_log' = lean
             /\ content' = Append(content, e)
             /\ log_offset' = end
             /\ tail_ptr' = tail_ptr + EntrySize(r.bytes)
             /\ last_flush_offset' = FlushOffset(end)
             /\ flushed' = FlushOffset(end)
    <3>1. EntrySize(r.bytes) \in Nat BY <2>2 DEF EntrySize, EntryHeader
    <3>2. end \in Nat /\ last_flush_offset <= end
      <4>1. log_offset = tail_ptr /\ last_flush_offset <= tail_ptr
        BY <1>6, Zenon DEF Store, PcInv, LogInv, Committing
      <4> QED BY <3>1, <4>1 DEF TypeLog
    <3>3. FlushOffset(end) \in Nat
      BY <3>2, FlushOffsetType, Zenon DEF LogInv, TypeLog
    <3>4. old \in UNION {[S -> Val] : S \in SUBSET Word}
      <4>1. WordsOf(r.addr, r.bytes) \in SUBSET Word BY Zenon DEF WordsOf
      <4>2. old \in [WordsOf(r.addr, r.bytes) -> Val]
        BY <4>1, Zenon DEF TypeImages
      <4> QED BY <4>1, <4>2, Zenon
    <3>5. e \in Entry BY <2>2, <3>4, Zenon DEF Entry, TypeLog
    <3>6. content' \in Seq(Entry) BY <2>7, <3>5 DEF TypeLog
    <3>7. tail_ptr' \in Nat /\ log_offset' \in Nat
      BY <2>7, <3>1, <3>2, SMTT(30) DEF TypeLog
    <3> QED BY <2>3, <2>4, <2>5, <2>7, <3>3, <3>6, <3>7, Zenon DEF TypeLog
  <2> QED BY <1>6, <2>6, <2>7, Zenon DEF Store, log_range
<1>7. ASSUME NEW r \in Stores, NEW v \in Val, StoreUntracked(r, v) PROVE
   TypeLog'
  BY <1>7, Zenon DEF TypeLog, StoreUntracked, logVars
<1>8. ASSUME NEW r \in Ranges, snapshot(r) PROVE TypeLog'
  <2>1. flushed' \in Nat
    BY <1>8 DEF snapshot, flush_all, TypeLog, HeaderSize
  <2> QED BY <1>8, <2>1, Zenon DEF TypeLog, snapshot
<1>9. CASE SetActive
  BY <1>9, Zenon DEF TypeLog, SetActive, set_state_flush, LineSize
<1>10. CASE DrainLog
  BY <1>10, Zenon DEF TypeLog, DrainLog, drain, logVars
<1>11. CASE Prepare
  <2>1. entries' \in Seq(ByteRange)
    BY <1>11, SortedFacts, Zenon DEF Prepare, TypeLog
  <2> QED BY <1>11, <2>1, Zenon DEF TypeLog, Prepare
<1>12. CASE CopyEntry
  BY <1>12, Zenon DEF TypeLog, CopyEntry, logVars
<1>13. CASE Drain
  BY <1>13, Zenon DEF TypeLog, Drain, logVars
<1>14. CASE SetEmpty
  BY <1>14, Zenon DEF TypeLog, SetEmpty, set_state, logVars
<1>15. CASE Clear
  BY <1>15 DEF TypeLog, Clear, clear, logVars
<1>16. ASSUME NEW w \in Word, WriteBack(w) PROVE TypeLog'
  BY <1>16, Zenon DEF TypeLog, WriteBack, logVars
<1>17. CASE WriteBackLogHeader
  BY <1>17, Zenon DEF TypeLog, WriteBackLogHeader, WriteBackHeader, logVars
<1>18. CASE Failure
  BY <1>18 DEF TypeLog, Failure, ReplaceLog, logVars
<1> QED BY <1>1, <1>2, <1>3, <1>4, <1>5, <1>6, <1>7, <1>8, <1>9, <1>10, <1>11,
           <1>12, <1>13, <1>14, <1>15, <1>16, <1>17, <1>18, Zenon DEF Next, AppStore


(* What log_range does to the log, as used below: either the range is the  *)
(* last one logged, or it is appended with its old words.                  *)
LEMMA StoreCases ==
  ASSUME NEW r \in Stores, NEW v \in Val, Store(r, v), TypeLog
  PROVE  LET e == [off |-> tail_ptr, addr |-> r.addr, bytes |-> r.bytes,
                   old |-> [w \in WordsOf(r.addr, r.bytes) |-> mem[w]]]
         IN  /\ r.addr \in Nat /\ r.bytes \in Nat \ {0}
             /\ entries' = Append(entries, [addr |-> r.addr, bytes |->
                r.bytes])
             /\ \/ /\ last_log = [addr |-> r.addr, bytes |-> r.bytes]
                   /\ UNCHANGED <<last_log, content, log_offset, tail_ptr,
                                  last_flush_offset, flushed>>
                \/ /\ last_log' = [addr |-> r.addr, bytes |-> r.bytes]
                   /\ content' = Append(content, e)
                   /\ log_offset' = log_offset + EntrySize(r.bytes)
                   /\ tail_ptr' = tail_ptr + EntrySize(r.bytes)
                   /\ last_flush_offset' =
                        FlushOffset(log_offset + EntrySize(r.bytes))
                   /\ flushed' = last_flush_offset'
<1>1. r \in ByteRange BY SnapshotAssumption, Zenon
<1>2. r.addr \in Nat /\ r.bytes \in Nat \ {0} BY <1>1, Zenon DEF ByteRange
<1> QED BY <1>2, Zenon DEF Store, log_range

-----------------------------------------------------------------------------
(* The inductive invariant *)

(* Before the file is first opened the inductive invariant holds. *)
LEMMA InitIInv == Init => IInv
<1> SUFFICES ASSUME Init PROVE IInv
  BY Zenon
<1>1. TypeOK
  <2>1. TypeFlags
    BY Zenon DEF Init, TypeFlags
  <2>2. TypeImages
    BY Zenon DEF Init, TypeImages
  <2>3. TypeControl
    BY SnapshotAssumption DEF Init, TypeControl
  <2>4. TypeLog
    BY DEF Init, FreshLog, TypeLog
  <2> QED BY <2>1, <2>2, <2>3, <2>4, Zenon DEF TypeOK
<1>2. LogInv
  BY DEF Init, FreshLog, LogInv, LineSize
<1>3. PcInv
  BY DEF Init, FreshLog, PcInv, Mapped, Committing
<1>4. UndoExact
  BY Zenon DEF Init, UndoExact, Mapped
<1> QED BY <1>1, <1>2, <1>3, <1>4, Zenon DEF IInv

(* What Append does to a sequence. *)
LEMMA AppendFacts ==
  ASSUME NEW S, NEW s \in Seq(S), NEW x
  PROVE  /\ Len(s) \in Nat
         /\ DOMAIN s = 1 .. Len(s)
         /\ DOMAIN Append(s, x) = DOMAIN s \cup {Len(s) + 1}
         /\ \A k \in DOMAIN s : Append(s, x)[k] = s[k]
         /\ Append(s, x)[Len(s) + 1] = x
OBVIOUS

(* A log that has just been cleared or created is in order. *)
LEMMA EmptyLogInv ==
  ASSUME content' = <<>>, last_log' = NoLog, last_flush_offset' = 0,
         tail_ptr' = 0
  PROVE  LogInv'
<1>1. DOMAIN content' = {} OBVIOUS
<1> QED BY <1>1 DEF LogInv, LineSize

(* Every step keeps the log's bookkeeping. *)
LEMMA LogInvStep ==
  ASSUME TypeImages, TypeLog, LogInv, PcInv, Next
  PROVE  LogInv'
<1>1. CASE recover
  BY <1>1, Zenon DEF LogInv, recover, logVars
<1>2. CASE create_backing_file
  BY <1>2, Zenon DEF LogInv, create_backing_file, logVars
<1>3. CASE map_backing_file
  BY <1>3, Zenon DEF LogInv, map_backing_file, logVars
<1>4. CASE map_to_page_cache
  BY <1>4, Zenon DEF LogInv, map_to_page_cache, logVars
<1>5. CASE StartTracking
  BY <1>5, Zenon DEF LogInv, StartTracking, logVars
<1>6. ASSUME NEW r \in Stores, NEW v \in Val, Store(r, v) PROVE LogInv'
  <2> DEFINE lean == [addr |-> r.addr, bytes |-> r.bytes]
             end  == log_offset + EntrySize(r.bytes)
             e    == [off |-> tail_ptr, addr |-> r.addr, bytes |-> r.bytes,
                      old |-> [w \in WordsOf(r.addr, r.bytes) |-> mem[w]]]
  <2>1. /\ entries' = Append(entries, lean)
        /\ entries' \in Seq(ByteRange)
        /\ r.addr \in Nat /\ r.bytes \in Nat \ {0}
    BY <1>6, StoreCases, LogTypeStep, Zenon DEF TypeLog
  <2>2. /\ \A m \in DOMAIN entries :
             m \in DOMAIN entries' /\ entries'[m] = entries[m]
        /\ Len(entries) + 1 \in DOMAIN entries'
        /\ entries'[Len(entries) + 1] = lean
    <3>1. entries \in Seq(ByteRange) BY Zenon DEF TypeLog
    <3> HIDE DEF lean
    <3>2. /\ DOMAIN Append(entries, lean) = DOMAIN entries \cup {Len(entries) + 1}
          /\ \A m \in DOMAIN entries : Append(entries, lean)[m] = entries[m]
          /\ Append(entries, lean)[Len(entries) + 1] = lean
      BY ONLY <3>1, AppendFacts
    <3> QED BY <2>1, <3>2, Zenon
  <2>3. CASE UNCHANGED <<last_log, content, log_offset, tail_ptr,
                         last_flush_offset, flushed>>
    BY <2>2, <2>3 DEF LogInv
  <2>4. CASE /\ last_log' = lean
             /\ content' = Append(content, e)
             /\ tail_ptr' = tail_ptr + EntrySize(r.bytes)
             /\ last_flush_offset' = FlushOffset(end)
    <3>1. EntrySize(r.bytes) \in Nat BY <2>1 DEF EntrySize, EntryHeader
    <3>2. log_offset = tail_ptr BY <1>6, Zenon DEF Store, PcInv, Committing
    <3>3. /\ last_flush_offset' % LineSize = 0
          /\ last_flush_offset' <= tail_ptr'
      <4>1. /\ last_flush_offset \in Nat /\ log_offset \in Nat
            /\ last_flush_offset % LineSize = 0
            /\ last_flush_offset <= tail_ptr
        BY Zenon DEF LogInv, TypeLog
      <4> HIDE DEF e
      <4> QED BY <2>4, <3>1, <3>2, <4>1, FlushOffsetType
    <3>4. /\ \A k \in DOMAIN content : content'[k] = content[k]
          /\ DOMAIN content' = DOMAIN content \cup {Len(content) + 1}
          /\ content'[Len(content) + 1] = e
      <4>1. content \in Seq(Entry) BY Zenon DEF TypeLog
      <4> HIDE DEF e
      <4>2. content' = Append(content, e) BY <2>4, Zenon
      <4>3. /\ DOMAIN Append(content, e) = DOMAIN content \cup {Len(content) + 1}
            /\ \A k \in DOMAIN content : Append(content, e)[k] = content[k]
            /\ Append(content, e)[Len(content) + 1] = e
        BY ONLY <4>1, AppendFacts
      <4> QED BY <4>2, <4>3, Zenon
    <3>5. ASSUME NEW k \in DOMAIN content'
          PROVE  /\ content'[k].off + EntrySize(content'[k].bytes) <= tail_ptr'
                 /\ \E m \in DOMAIN entries' :
                      /\ entries'[m].addr = content'[k].addr
                      /\ entries'[m].bytes = content'[k].bytes
      <4>1. CASE k \in DOMAIN content
        <5>1. content[k] \in Entry BY <4>1 DEF TypeLog
        <5>2. content[k].off \in Nat /\ EntrySize(content[k].bytes) \in Nat
          BY <5>1 DEF Entry, EntrySize, EntryHeader
        <5>3. content'[k] = content[k] BY <3>4, <4>1, Zenon
        <5>4. content[k].off + EntrySize(content[k].bytes) <= tail_ptr
          BY <4>1, Zenon DEF LogInv
        <5>5. tail_ptr \in Nat /\ tail_ptr <= tail_ptr'
          BY <2>4, <3>1 DEF TypeLog
        <5>6. content[k].off + EntrySize(content[k].bytes) <= tail_ptr'
          BY <2>4, <3>1, <5>2, <5>4, <5>5
        <5>7. PICK m \in DOMAIN entries : /\ entries[m].addr = content[k].addr
                                          /\ entries[m].bytes =
                                             content[k].bytes
          BY <4>1, Zenon DEF LogInv
        <5>8. m \in DOMAIN entries' /\ entries'[m] = entries[m] BY <2>2, Zenon
        <5> QED BY <5>3, <5>6, <5>7, <5>8, Zenon
      <4>2. CASE k = Len(content) + 1
        <5>1. content'[k] = e BY <3>4, <4>2, Zenon
        <5>2. /\ content'[k].off = tail_ptr
              /\ content'[k].addr = r.addr
              /\ content'[k].bytes = r.bytes
          BY <5>1
        <5>3. content'[k].off + EntrySize(content'[k].bytes) <= tail_ptr'
          <6>1. tail_ptr \in Nat BY Zenon DEF TypeLog
          <6>2. tail_ptr' = tail_ptr + EntrySize(r.bytes) BY <2>4, Zenon
          <6> QED BY <3>1, <5>2, <6>1, <6>2
        <5>4. /\ entries'[Len(entries) + 1].addr = r.addr
              /\ entries'[Len(entries) + 1].bytes = r.bytes
          BY <2>2
        <5>5. Len(entries) + 1 \in DOMAIN entries' BY <2>2, Zenon
        <5> QED BY <5>2, <5>3, <5>4, <5>5, Zenon
      <4> QED BY <3>4, <4>1, <4>2, Zenon
    <3>6. \E k \in DOMAIN content' : /\ content'[k].addr = last_log'.addr
                                     /\ content'[k].bytes = last_log'.bytes
      <4>1. last_log'.addr = r.addr /\ last_log'.bytes = r.bytes BY <2>4, Zenon
      <4>2. e.addr = r.addr /\ e.bytes = r.bytes BY Zenon
      <4> HIDE DEF e, lean, end
      <4>3. Len(content) + 1 \in DOMAIN content' BY <3>4, Zenon
      <4> QED BY <3>4, <4>1, <4>2, <4>3, Zenon
    <3> HIDE DEF e, lean, end
    <3> QED BY <3>3, <3>5, <3>6, Zenon DEF LogInv
  <2> QED BY <1>6, <2>3, <2>4, StoreCases, Zenon
<1>7. ASSUME NEW r \in Stores, NEW v \in Val, StoreUntracked(r, v) PROVE
   LogInv'
  BY <1>7, Zenon DEF LogInv, StoreUntracked, logVars
<1>8. ASSUME NEW r \in Ranges, snapshot(r) PROVE LogInv'
  BY <1>8, ZenonT(30) DEF LogInv, snapshot, flush_all, logVars
<1>9. CASE SetActive
  BY <1>9, ZenonT(30) DEF LogInv, SetActive, set_state_flush, logVars
<1>10. CASE DrainLog
  BY <1>10, ZenonT(30) DEF LogInv, DrainLog, drain, logVars
<1>11. CASE Prepare
  <2>1. /\ \A m \in DOMAIN entries :
             \E j \in DOMAIN entries' : entries'[j] = entries[m]
        /\ UNCHANGED <<last_log, content, tail_ptr, last_flush_offset>>
    BY <1>11, SortedFacts, Zenon DEF Prepare, TypeLog
  <2>2. ASSUME NEW k \in DOMAIN content
        PROVE  \E m \in DOMAIN entries' : /\ entries'[m].addr = content[k].addr
                                         /\ entries'[m].bytes = content[k].bytes
    <3>1. PICK m \in DOMAIN entries : /\ entries[m].addr = content[k].addr
                                      /\ entries[m].bytes = content[k].bytes
      BY <2>2, Zenon DEF LogInv
    <3> QED BY <2>1, <3>1, Zenon
  <2> QED BY <2>1, <2>2, Zenon DEF LogInv
<1>12. CASE CopyEntry
  BY <1>12, Zenon DEF LogInv, CopyEntry, logVars
<1>13. CASE Drain
  BY <1>13, Zenon DEF LogInv, Drain, logVars
<1>14. CASE SetEmpty
  BY <1>14, Zenon DEF LogInv, SetEmpty, set_state, logVars
<1>15. CASE Clear
  <2>1. /\ content' = <<>>
        /\ last_log' = NoLog
        /\ last_flush_offset' = 0
        /\ tail_ptr' = 0
    BY <1>15, Zenon DEF Clear, clear
  <2> QED BY <2>1, EmptyLogInv, Zenon
<1>16. ASSUME NEW w \in Word, WriteBack(w) PROVE LogInv'
  BY <1>16, Zenon DEF LogInv, WriteBack, logVars
<1>17. CASE WriteBackLogHeader
  BY <1>17, Zenon DEF LogInv, WriteBackLogHeader, WriteBackHeader, logVars
<1>18. CASE Failure
  <2>1. /\ content' = <<>>
        /\ last_log' = NoLog
        /\ last_flush_offset' = 0
        /\ tail_ptr' = 0
    BY <1>18, Zenon DEF Failure, ReplaceLog
  <2> QED BY <2>1, EmptyLogInv, Zenon
<1> QED BY <1>1, <1>2, <1>3, <1>4, <1>5, <1>6, <1>7, <1>8, <1>9, <1>10, <1>11,
           <1>12, <1>13, <1>14, <1>15, <1>16, <1>17, <1>18, Zenon DEF Next, AppStore

(* Every step keeps the log in the state the process's position calls for. *)
LEMMA PcInvStep ==
  ASSUME TypeControl, TypeLog, LogInv, PcInv, Next
  PROVE  PcInv'
<1>1. CASE recover
  BY <1>1, Zenon DEF PcInv, Mapped, Committing, recover, fileVars, appVars, logVars
<1>2. CASE create_backing_file
  BY <1>2, Zenon DEF PcInv, Mapped, Committing, create_backing_file, fileVars,
     appVars, logVars
<1>3. CASE map_backing_file
  BY <1>3, Zenon DEF PcInv, Mapped, Committing, map_backing_file, fileVars, appVars,
     logVars
<1>4. CASE map_to_page_cache
  BY <1>4, Zenon DEF PcInv, Mapped, Committing, map_to_page_cache, fileVars, appVars,
     logVars
<1>5. CASE StartTracking
  BY <1>5, Zenon DEF PcInv, Mapped, Committing, StartTracking, fileVars, appVars,
     logVars
<1>6. ASSUME NEW r \in Stores, NEW v \in Val, Store(r, v) PROVE PcInv'
  <2>1. /\ log_offset' = tail_ptr'
        /\ flushed' = last_flush_offset'
    <3>1. log_offset = tail_ptr /\ flushed = last_flush_offset
      BY <1>6, Zenon DEF Store, PcInv, Committing
    <3>2. \/ UNCHANGED <<log_offset, tail_ptr, last_flush_offset, flushed>>
          \/ /\ log_offset' = log_offset + EntrySize(r.bytes)
             /\ tail_ptr' = tail_ptr + EntrySize(r.bytes)
             /\ flushed' = last_flush_offset'
      BY <1>6, StoreCases, Zenon
    <3> QED BY <3>1, <3>2, Zenon
  <2>2. UNCHANGED <<pc, deps, state, p_state, durable, p_log_offset>>
    BY <1>6, Zenon DEF Store, log_range, fileVars
  <2>3. pc = "run" /\ startTracking' BY <1>6, Zenon DEF Store
  <2> QED BY <2>1, <2>2, <2>3, Zenon DEF PcInv, Mapped, Committing
<1>7. ASSUME NEW r \in Stores, NEW v \in Val, StoreUntracked(r, v) PROVE PcInv'
  BY <1>7, Zenon DEF PcInv, Mapped, Committing, StoreUntracked, fileVars, appVars,
     logVars
<1>8. ASSUME NEW r \in Ranges, snapshot(r) PROVE PcInv'
  <2>1. /\ log_offset = tail_ptr
        /\ pc = "run" /\ pc' = "set_active"
        /\ log_offset' = 0
        /\ UNCHANGED <<content, last_log, tail_ptr, state, p_state, durable,
                       p_log_offset, deps, startTracking>>
    BY <1>8, Zenon DEF snapshot, PcInv, Committing, fileVars, appVars
  <2>2. tail_ptr % LineSize # 0 => flushed' >= HeaderSize + tail_ptr
    <3>1. tail_ptr % LineSize # 0 => last_flush_offset # log_offset
      BY <2>1, Zenon DEF LogInv
    <3> QED BY <1>8, <2>1, <3>1 DEF snapshot, flush_all, HeaderSize, TypeLog
  <2> QED BY <2>1, <2>2, Zenon DEF PcInv, Mapped, Committing
<1>9. CASE SetActive
  <2>1. tail_ptr % LineSize # 0 => flushed' >= HeaderSize + tail_ptr
    BY <1>9 DEF SetActive, set_state_flush, PcInv, Committing, LineSize,
       HeaderSize, TypeLog
  <2> QED BY <1>9, <2>1, Zenon DEF PcInv, Mapped, Committing, SetActive,
        set_state_flush, fileVars, appVars
<1>10. CASE DrainLog
  BY <1>10, Zenon DEF PcInv, Mapped, Committing, DrainLog, drain, fileVars, appVars,
     logVars
<1>11. CASE Prepare
  BY <1>11, Zenon DEF PcInv, Mapped, Committing, Prepare, fileVars, appVars, logVars
<1>12. CASE CopyEntry
  BY <1>12, Zenon DEF PcInv, Mapped, Committing, CopyEntry, fileVars, appVars, logVars
<1>13. CASE Drain
  BY <1>13, Zenon DEF PcInv, Mapped, Committing, Drain, fileVars, appVars, logVars
<1>14. CASE SetEmpty
  BY <1>14, Zenon DEF PcInv, Mapped, Committing, SetEmpty, set_state, fileVars,
     appVars, logVars
<1>15. CASE Clear
  BY <1>15, Zenon DEF PcInv, Mapped, Committing, Clear, clear, fileVars, appVars,
     logVars
<1>16. ASSUME NEW w \in Word, WriteBack(w) PROVE PcInv'
  BY <1>16, Zenon DEF PcInv, Mapped, Committing, WriteBack, fileVars, appVars, logVars
<1>17. CASE WriteBackLogHeader
  <2>1. state = "ACTIVE" => log_offset = 0
    BY Zenon DEF PcInv, Committing
  <2> QED BY <1>17, <2>1, Zenon DEF PcInv, Mapped, Committing, WriteBackLogHeader,
        WriteBackHeader, fileVars, appVars
<1>18. CASE Failure
  <2>1. \A i \in DOMAIN deps' : deps'[i] = <<>>
    <3>1. CASE p_state = "ACTIVE"
      <4>1. LeftLog = << <<>> >>
        BY <3>1, NothingReadable, Zenon DEF LeftLog, PcInv
      <4>2. deps' = deps \o << <<>> >> BY <1>18, <4>1, Zenon DEF Failure
      <4> QED BY <4>2 DEF PcInv, TypeControl
    <3>2. CASE p_state # "ACTIVE"
      <4>1. deps' = deps \o <<>> BY <1>18, <3>2, Zenon DEF Failure, LeftLog
      <4> QED BY <4>1 DEF PcInv, TypeControl
    <3> QED BY <3>1, <3>2, Zenon
  <2> QED BY <1>18, <2>1, Zenon DEF PcInv, Mapped, Committing, Failure, ReplaceLog
<1> QED BY <1>1, <1>2, <1>3, <1>4, <1>5, <1>6, <1>7, <1>8, <1>9, <1>10, <1>11,
           <1>12, <1>13, <1>14, <1>15, <1>16, <1>17, <1>18, Zenon DEF Next, AppStore


(* Steps that change neither the log nor what it is about keep it exact. *)
LEMMA SameUndo ==
  ASSUME UndoExact, Mapped' => Mapped, UNCHANGED <<content, mem, base>>
  PROVE  UndoExact'
  BY Zenon DEF UndoExact

(* Every step keeps the undo log exact. *)
LEMMA UndoExactStep ==
  ASSUME TypeLog, LogInv, PcInv, UndoExact, Next
  PROVE  UndoExact'
<1>1. CASE recover
  BY <1>1, Zenon DEF UndoExact, Mapped, recover
<1>2. CASE create_backing_file
  BY <1>2, Zenon DEF UndoExact, Mapped, create_backing_file
<1>3. CASE map_backing_file
  BY <1>3, Zenon DEF UndoExact, Mapped, map_backing_file
<1>4. CASE map_to_page_cache
  <2>1. content' = <<>> /\ mem' = base'
    BY <1>4, Zenon DEF map_to_page_cache, PcInv, Mapped, logVars
  <2> QED BY <2>1 DEF UndoExact
<1>5. CASE StartTracking
  BY <1>5, Zenon DEF UndoExact, Mapped, StartTracking, appVars, logVars
<1>6. ASSUME NEW r \in Stores, NEW v \in Val, Store(r, v) PROVE UndoExact'
  <2> DEFINE W == WordsOf(r.addr, r.bytes)
             e == [off |-> tail_ptr, addr |-> r.addr, bytes |-> r.bytes,
                   old |-> [x \in W |-> mem[x]]]
  <2>1. Mapped /\ base' = base BY <1>6, Zenon DEF Store, Mapped
  <2>2. \A w \in Word : w \notin W => mem'[w] = mem[w]
    BY <1>6, Zenon DEF Store, Copy
  <2>3. CASE /\ last_log = [addr |-> r.addr, bytes |-> r.bytes]
             /\ content' = content
    <3>1. last_log # NoLog
      BY <1>6, <2>3, StoreCases, Zenon DEF NoLog
    <3>2. PICK k0 \in DOMAIN content : /\ content[k0].addr = r.addr
                                      /\ content[k0].bytes = r.bytes
      BY <2>3, <3>1, Zenon DEF LogInv
    <3>3. \A w \in W : Covers(content[k0], w)
      BY <3>2, Zenon DEF Covers
    <3> QED BY <2>1, <2>2, <2>3, <3>3, Zenon DEF UndoExact
  <2>4. CASE content' = Append(content, e)
    <3>1. /\ \A k \in DOMAIN content : content'[k] = content[k]
          /\ DOMAIN content' = DOMAIN content \cup {Len(content) + 1}
          /\ content'[Len(content) + 1] = e
          /\ DOMAIN content = 1 .. Len(content) /\ Len(content) \in Nat
      <4>1. content \in Seq(Entry) BY Zenon DEF TypeLog
      <4> HIDE DEF e
      <4>2. content' = Append(content, e) BY <2>4, Zenon
      <4>3. /\ DOMAIN Append(content, e) = DOMAIN content \cup {Len(content) + 1}
            /\ \A k \in DOMAIN content : Append(content, e)[k] = content[k]
            /\ Append(content, e)[Len(content) + 1] = e
            /\ DOMAIN content = 1 .. Len(content) /\ Len(content) \in Nat
        BY ONLY <4>1, AppendFacts
      <4> QED BY <4>2, <4>3, Zenon
    <3>2. \A w \in Word : Covers(e, w) <=> w \in W
      BY Zenon DEF Covers
    <3>3. \A w \in W : e.old[w] = mem[w]
      <4>1. e.old = [x \in W |-> mem[x]] BY Zenon
      <4> HIDE DEF e, W
      <4> QED BY <4>1, Zenon
    <3> HIDE DEF e, W
    <3> SUFFICES ASSUME NEW w \in Word
                 PROVE  /\ (\A k \in DOMAIN content' : ~Covers(content'[k], w))
                             => mem'[w] = base[w]
                        /\ \A k \in DOMAIN content' :
                             (/\ Covers(content'[k], w)
                              /\ \A j \in 1 .. k - 1 : ~Covers(content'[j], w))
                             => content'[k].old[w] = base[w]
      BY <2>1, Zenon DEF UndoExact
    <3>4. ASSUME \A k \in DOMAIN content' : ~Covers(content'[k], w)
          PROVE  mem'[w] = base[w]
      <4>1. \A k \in DOMAIN content : ~Covers(content[k], w) BY <3>1, <3>4, Zenon
      <4>2. w \notin W BY <3>1, <3>2, <3>4, Zenon
      <4> QED BY <2>1, <2>2, <4>1, <4>2, Zenon DEF UndoExact
    <3>5. ASSUME NEW k \in DOMAIN content', Covers(content'[k], w),
                 \A j \in 1 .. k - 1 : ~Covers(content'[j], w)
          PROVE  content'[k].old[w] = base[w]
      <4>1. CASE k \in DOMAIN content
        <5>1. \A j \in 1 .. k - 1 : ~Covers(content[j], w)
          <6>1. ASSUME NEW j \in 1 .. k - 1 PROVE j \in DOMAIN content
            BY <3>1, <4>1
          <6> QED BY <3>1, <3>5, <6>1, Zenon
        <5> QED BY <2>1, <3>1, <3>5, <4>1, <5>1, Zenon DEF UndoExact
      <4>2. CASE k = Len(content) + 1
        <5>1. \A j \in DOMAIN content : ~Covers(content[j], w)
          BY <3>1, <3>5, <4>2
        <5>2. mem[w] = base[w] BY <2>1, <5>1, Zenon DEF UndoExact
        <5> QED BY <3>1, <3>2, <3>3, <3>5, <4>2, <5>2, Zenon
      <4> QED BY <3>1, <4>1, <4>2, Zenon
    <3> QED BY <3>4, <3>5, Zenon
  <2> QED BY <1>6, <2>3, <2>4, StoreCases, Zenon
<1>7. ASSUME NEW r \in Stores, NEW v \in Val, StoreUntracked(r, v) PROVE
   UndoExact'
  <2>1. mem' = base' /\ content' = content /\ last_log' = last_log /\ Mapped
    BY <1>7, Zenon DEF StoreUntracked, logVars, Mapped
  <2>2. content = <<>>
    BY <1>7, Zenon DEF StoreUntracked, PcInv
  <2> QED BY <2>1, <2>2 DEF UndoExact
<1>8. ASSUME NEW r \in Ranges, snapshot(r) PROVE UndoExact'
  BY <1>8, Zenon DEF UndoExact, Mapped, snapshot, flush_all, appVars, logVars
<1>9. CASE SetActive
  BY <1>9, SameUndo, Zenon DEF Mapped, SetActive, set_state_flush, appVars, logVars
<1>10. CASE DrainLog
  BY <1>10, SameUndo, Zenon DEF Mapped, DrainLog, drain, appVars, logVars
<1>11. CASE Prepare
  <2>1. Mapped /\ UNCHANGED <<content, mem, base>>
    BY <1>11, Zenon DEF Mapped, Prepare, appVars
  <2> QED BY <2>1, SameUndo, Zenon
<1>12. CASE CopyEntry
  BY <1>12, Zenon DEF UndoExact, Mapped, CopyEntry, appVars, logVars
<1>13. CASE Drain
  BY <1>13, SameUndo, Zenon DEF Mapped, Drain, appVars, logVars
<1>14. CASE SetEmpty
  BY <1>14, SameUndo, Zenon DEF Mapped, SetEmpty, set_state, appVars, logVars
<1>15. CASE Clear
  <2>1. content' = <<>> /\ mem' = base'
    BY <1>15, Zenon DEF Clear, clear, appVars
  <2> QED BY <2>1 DEF UndoExact
<1>16. ASSUME NEW w \in Word, WriteBack(w) PROVE UndoExact'
  BY <1>16, SameUndo, Zenon DEF Mapped, WriteBack, appVars, logVars
<1>17. CASE WriteBackLogHeader
  BY <1>17, SameUndo, Zenon
     DEF Mapped, WriteBackLogHeader, WriteBackHeader, appVars, logVars
<1>18. CASE Failure
  BY <1>18, Zenon DEF UndoExact, Failure, Mapped
<1> QED BY <1>1, <1>2, <1>3, <1>4, <1>5, <1>6, <1>7, <1>8, <1>9, <1>10, <1>11,
           <1>12, <1>13, <1>14, <1>15, <1>16, <1>17, <1>18, Zenon DEF Next, AppStore

(* Every step of the process and of the hardware, and every failure, keeps *)
(* the inductive invariant.                                                *)
LEMMA NextIInv == IInv /\ [Next]_vars => IInv'
<1>1. ASSUME IInv, Next PROVE IInv'
  <2> USE <1>1
  <2>1. /\ TypeFlags /\ TypeImages /\ TypeControl /\ TypeLog
        /\ LogInv /\ PcInv /\ UndoExact
    BY Zenon DEF IInv, TypeOK
  <2>2. TypeFlags' /\ TypeImages' /\ TypeControl' /\ TypeLog'
    BY <2>1, FlagsStep, ImagesStep, ControlStep, LogTypeStep, Zenon
  <2>3. LogInv' /\ PcInv' /\ UndoExact'
    BY <2>1, LogInvStep, PcInvStep, UndoExactStep, Zenon
  <2> QED BY <2>2, <2>3, Zenon DEF IInv, TypeOK
<1>2. ASSUME IInv, UNCHANGED vars PROVE IInv'
  <2> USE <1>2 DEF vars, fileVars, appVars, backingVars, snapVars, logVars
  <2>1. TypeFlags' BY Zenon DEF IInv, TypeOK, TypeFlags
  <2>2. TypeImages' BY Zenon DEF IInv, TypeOK, TypeImages
  <2>3. TypeControl' BY Zenon DEF IInv, TypeOK, TypeControl
  <2>4. TypeLog' BY Zenon DEF IInv, TypeOK, TypeLog
  <2>5. LogInv' BY Zenon DEF IInv, LogInv
  <2>6. PcInv'
    <3>1. UNCHANGED <<Mapped, Committing>> BY Zenon DEF Mapped, Committing
    <3> QED BY <3>1, Zenon DEF IInv, PcInv
  <2>7. UndoExact' BY SameUndo, Zenon DEF IInv, Mapped
  <2> QED BY <2>1, <2>2, <2>3, <2>4, <2>5, <2>6, <2>7, Zenon DEF IInv, TypeOK
<1> QED BY <1>1, <1>2, Zenon

(* The inductive invariant holds. *)
THEOREM Invariance == Spec => []IInv
  BY InitIInv, NextIInv, PTL DEF Spec

(* The variables of snapshot(), recovery and the log keep their types; in   *)
(* particular log_range's flush arithmetic never leaves the naturals.      *)
THEOREM TypeCorrect == Spec => []TypeOK
<1>1. IInv => TypeOK BY Zenon DEF IInv
<1> QED BY <1>1, Invariance, PTL

(* The undo log of log_range is exact at every moment, whatever ranges the *)
(* application stores to, in whatever order, and whatever it snapshots.    *)
THEOREM LogIsExact == Spec => []UndoExact
<1>1. IInv => UndoExact BY Zenon DEF IInv
<1> QED BY <1>1, Invariance, PTL
=============================================================================
