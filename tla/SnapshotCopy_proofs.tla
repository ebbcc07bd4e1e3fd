------------------------ MODULE SnapshotCopy_proofs -------------------------
(***************************************************************************)
(* Proofs about module Snapshot, second part: the block that is written    *)
(* for an entry (AlignedWrite); the copies of the file and                 *)
(* the refinement of Msync, when every snapshot() covers the file and      *)
(* nothing is stored before tracking starts; and what holds of the copies  *)
(* without these restrictions.                                             *)
(***************************************************************************)
EXTENDS SnapshotLog_proofs, AlignedWalk, WellFoundedInduction

-----------------------------------------------------------------------------
(* The aligned write of snapshot() covers its entry, stays in its pages and *)
(* adds few bytes, for every destination and size.                          *)

Units == {1, 2, 4, 8, 16, 32, 64, 128, 256, 512}

(* 1 << k, for the shifts snapshot() makes. *)
LEMMA Shl1Units == \A k \in 0 .. 9 : Shl1(k) \in Units
  BY DEF Shl1, PowersOfTwo, Units

(* A size below 256 lies between two powers of two. *)
LEMMA CappedLogExists ==
  ASSUME NEW bytes \in Nat, bytes >= 8, bytes < 256
  PROVE  \E k \in 1 .. 8 : Shl1(k - 1) <= bytes /\ bytes < Shl1(k)
<1>1. CASE bytes < 16
  <2>1. Shl1(4 - 1) = 8 /\ Shl1(4) = 16 BY DEF Shl1, PowersOfTwo
  <2> QED BY <1>1, <2>1
<1>2. CASE 16 <= bytes /\ bytes < 32
  <2>1. Shl1(5 - 1) = 16 /\ Shl1(5) = 32 BY DEF Shl1, PowersOfTwo
  <2> QED BY <1>2, <2>1
<1>3. CASE 32 <= bytes /\ bytes < 64
  <2>1. Shl1(6 - 1) = 32 /\ Shl1(6) = 64 BY DEF Shl1, PowersOfTwo
  <2> QED BY <1>3, <2>1
<1>4. CASE 64 <= bytes /\ bytes < 128
  <2>1. Shl1(7 - 1) = 64 /\ Shl1(7) = 128 BY DEF Shl1, PowersOfTwo
  <2> QED BY <1>4, <2>1
<1>5. CASE 128 <= bytes /\ bytes < 256
  <2>1. Shl1(8 - 1) = 128 /\ Shl1(8) = 256 BY DEF Shl1, PowersOfTwo
  <2> QED BY <1>5, <2>1
<1> QED BY <1>1, <1>2, <1>3, <1>4, <1>5

(* prev_pwr_2 of snapshot(), capped at 9, is a bit length. *)
LEMMA CappedLogType ==
  ASSUME NEW bytes \in Nat, bytes >= 8
  PROVE  /\ CappedLog(bytes) \in 1 .. 9
         /\ bytes < 256 => bytes < Shl1(CappedLog(bytes))
<1>1. CASE 256 <= bytes
  BY <1>1 DEF CappedLog
<1>2. CASE bytes < 256
  <2>1. CappedLog(bytes) = CHOOSE k \in 1 .. 8 :
                             Shl1(k - 1) <= bytes /\ bytes < Shl1(k)
    BY <1>2 DEF CappedLog
  <2> QED BY <1>2, <2>1, CappedLogExists
<1> QED BY <1>1, <1>2

(* The unit of the alignment is a power of two up to 512.  It is smaller   *)
(* than the entry only when it is 256 or 512, and a small power of two is  *)
(* its own unit.                                                           *)
LEMMA UnitType ==
  ASSUME NEW bytes \in Nat, bytes >= 8
  PROVE  /\ Shl1(align_to(bytes)) \in Units
         /\ Shl1(align_to(bytes)) < bytes => Shl1(align_to(bytes)) \in {256, 512}
         /\ (IsPowerOfTwo(bytes) /\ bytes <= 256) => Shl1(align_to(bytes)) = bytes
<1>1. align_to(bytes) \in 0 .. 9
  BY CappedLogType DEF align_to
<1>2. CASE bytes < 256 /\ ~IsPowerOfTwo(bytes)
  <2>1. align_to(bytes) = CappedLog(bytes) BY <1>2, Zenon DEF align_to
  <2>2. bytes < Shl1(align_to(bytes)) BY <1>2, <2>1, CappedLogType, Zenon
  <2>3. Shl1(align_to(bytes)) \in Units BY <1>1, Shl1Units, Zenon
  <2>4. Shl1(align_to(bytes)) \in Nat BY <2>3 DEF Units
  <2> QED BY <1>2, <2>2, <2>3, <2>4
<1>3. CASE bytes < 256 /\ IsPowerOfTwo(bytes)
  <2>1. PICK k \in 0 .. 21 : bytes = Shl1(k) BY <1>3, Zenon DEF IsPowerOfTwo
  <2>2. bytes \in {8, 16, 32, 64, 128}
    BY <1>3, <2>1 DEF Shl1, PowersOfTwo
  <2>3. CappedLog(bytes) = CHOOSE j \in 1 .. 8 :
                             Shl1(j - 1) <= bytes /\ bytes < Shl1(j)
    BY <1>3 DEF CappedLog
  <2>4. CappedLog(bytes) \in 1 .. 8 /\ Shl1(CappedLog(bytes) - 1) <= bytes
                                    /\ bytes < Shl1(CappedLog(bytes))
    BY <1>3, <2>3, CappedLogExists, Zenon
  <2>5. Shl1(CappedLog(bytes) - 1) = bytes
    BY <2>2, <2>4 DEF Shl1, PowersOfTwo
  <2> QED BY <1>1, <1>3, <2>5, Shl1Units DEF align_to
<1>4. CASE bytes >= 256
  <2>1. CappedLog(bytes) = 9 BY <1>4, Zenon DEF CappedLog
  <2>2. align_to(bytes) \in {8, 9} BY <2>1 DEF align_to
  <2>3. Shl1(8) = 256 /\ Shl1(9) = 512 BY DEF Shl1, PowersOfTwo
  <2>4. IsPowerOfTwo(256) BY <2>3 DEF IsPowerOfTwo
  <2>5. bytes = 256 => align_to(bytes) = 8 BY <2>1, <2>4 DEF align_to
  <2> QED BY <1>4, <2>2, <2>3, <2>5 DEF Units
<1> QED BY <1>2, <1>3, <1>4

(* Rounding to a unit. *)
LEMMA Rounding ==
  ASSUME NEW a \in Nat, NEW unit \in Units
  PROVE  /\ RoundDown(a, unit) \in Nat
         /\ RoundDown(a, unit) <= a
         /\ a < RoundDown(a, unit) + unit
         /\ RoundDown(a, PageSize) <= RoundDown(a, unit)
  BY DEF RoundDown, Units, PageSize

(* The write in the three cases of snapshot(): a small entry as it is, an  *)
(* aligned entry with its size rounded up, an unaligned one with its start *)
(* rounded down.                                                           *)
LEMMA WriteCases ==
  ASSUME NEW dst \in Nat, NEW bytes \in Nat, bytes >= 8,
         NEW unit, unit = Shl1(align_to(bytes))
  PROVE  /\ dst_addr_aligned(dst, bytes) = RoundDown(dst, unit)
         /\ new_sz(dst, bytes) =
              IF dst = RoundDown(dst, unit)
              THEN IF unit >= bytes THEN unit ELSE RoundUp(bytes, 256)
              ELSE bytes + (dst - RoundDown(dst, unit))
  BY DEF dst_addr_aligned, new_sz

(* The start and the size of a write are natural numbers. *)
LEMMA WriteType ==
  ASSUME NEW dst \in Nat, NEW bytes \in Nat \ {0}
  PROVE  dst_addr_aligned(dst, bytes) \in Nat /\ new_sz(dst, bytes) \in Nat
<1>1. CASE bytes < 8
  BY <1>1, Zenon DEF dst_addr_aligned, new_sz
<1>2. CASE bytes >= 8
  <2>1. PICK unit \in Units : unit = Shl1(align_to(bytes)) BY <1>2, UnitType
  <2>2. unit \in Nat BY DEF Units
  <2>3. RoundDown(dst, unit) \in Nat /\ RoundDown(dst, unit) <= dst BY Rounding, Zenon
  <2>4. RoundUp(bytes, 256) \in Nat BY DEF RoundUp, RoundDown
  <2> QED BY <1>2, <2>1, <2>2, <2>3, <2>4, WriteCases
<1> QED BY <1>1, <1>2

(* The streaming write of snapshot() covers the entry it is made for. *)
THEOREM WriteCovers ==
  ASSUME NEW dst \in Nat, NEW bytes \in Nat \ {0}
  PROVE  CoversEntry(dst, bytes)
<1>1. CASE bytes < 8
  BY <1>1 DEF CoversEntry, BlockEnd, dst_addr_aligned, new_sz
<1>2. CASE bytes >= 8
  <2>1. PICK unit \in Units : unit = Shl1(align_to(bytes)) BY <1>2, UnitType, ZenonT(30)
  <2>2. RoundDown(dst, unit) \in Nat /\ RoundDown(dst, unit) <= dst
    BY Rounding, Zenon
  <2>3. RoundUp(bytes, 256) >= bytes /\ RoundUp(bytes, 256) \in Nat
    BY DEF RoundUp, RoundDown
  <2>4. unit \in Nat BY DEF Units
  <2> QED BY <1>2, <2>1, <2>2, <2>3, <2>4, WriteCases DEF CoversEntry, BlockEnd
<1> QED BY <1>1, <1>2

(* The streaming write of snapshot() stays in the pages of its entry, so it *)
(* never leaves the mapping of the backing file.                            *)
THEOREM WriteInPages ==
  ASSUME NEW dst \in Nat, NEW bytes \in Nat \ {0}
  PROVE  StaysInPages(dst, bytes)
<1>0. /\ RoundDown(dst, PageSize) <= dst
      /\ dst + bytes <= RoundUp(dst + bytes, PageSize)
  BY DEF RoundDown, RoundUp, PageSize
<1>1. CASE bytes < 8
  BY <1>0, <1>1, Zenon DEF StaysInPages, BlockEnd, dst_addr_aligned, new_sz
<1>2. CASE bytes >= 8
  <2>1. PICK unit \in Units : unit = Shl1(align_to(bytes)) BY <1>2, UnitType, ZenonT(30)
  <2>2. RoundDown(dst, unit) \in Nat /\ RoundDown(dst, PageSize) <= RoundDown(dst, unit)
    BY Rounding, Zenon
  <2>3. CASE dst # RoundDown(dst, unit)
    BY <1>0, <1>2, <2>1, <2>2, <2>3, WriteCases DEF StaysInPages, BlockEnd
  <2>4. CASE dst = RoundDown(dst, unit) /\ unit >= bytes
    <3>1. dst + unit <= RoundUp(dst + bytes, PageSize)
      BY <2>4 DEF RoundUp, RoundDown, PageSize, Units
    <3> QED BY <1>2, <2>1, <2>2, <2>4, <3>1, WriteCases DEF StaysInPages, BlockEnd
  <2>5. CASE dst = RoundDown(dst, unit) /\ ~(unit >= bytes)
    <3>1. unit \in {256, 512} BY <1>2, <2>1, <2>5, UnitType DEF Units
    <3>2. dst + RoundUp(bytes, 256) <= RoundUp(dst + bytes, PageSize)
      BY <2>5, <3>1 DEF RoundUp, RoundDown, PageSize
    <3> QED BY <1>2, <2>1, <2>2, <2>5, <3>2, WriteCases DEF StaysInPages, BlockEnd
  <2> QED BY <2>3, <2>4, <2>5, Zenon
<1> QED BY <1>1, <1>2

(* The streaming write of snapshot() takes in fewer than 512 bytes next to *)
(* its entry, on one side, and none for an aligned small power of two.     *)
THEOREM WriteNeighbours ==
  ASSUME NEW dst \in Nat, NEW bytes \in Nat \ {0}
  PROVE  FewNeighbours(dst, bytes)
<1>1. CASE bytes < 8
  BY <1>1 DEF FewNeighbours, BlockEnd, dst_addr_aligned, new_sz
<1>2. CASE bytes >= 8
  <2>1. PICK unit \in Units : unit = Shl1(align_to(bytes)) BY <1>2, UnitType, ZenonT(30)
  <2>2. unit \in Nat /\ unit <= 512 BY DEF Units
  <2>3. /\ RoundDown(dst, unit) \in Nat
        /\ RoundDown(dst, unit) <= dst
        /\ dst < RoundDown(dst, unit) + unit
    BY Rounding, Zenon
  <2>4. RoundUp(bytes, 256) \in Nat /\ RoundUp(bytes, 256) < bytes + 256
    BY DEF RoundUp, RoundDown
  <2>5. new_sz(dst, bytes) < bytes + 512
    BY <1>2, <2>1, <2>2, <2>3, <2>4, WriteCases
  <2>6. \/ dst_addr_aligned(dst, bytes) = dst
        \/ BlockEnd(dst, bytes) = dst + bytes
    BY <1>2, <2>1, <2>3, WriteCases DEF BlockEnd
  <2>7. ASSUME IsPowerOfTwo(bytes), bytes <= 256, dst % bytes = 0
        PROVE  new_sz(dst, bytes) = bytes
    <3>1. unit = bytes BY <1>2, <2>1, <2>7, UnitType
    <3>2. RoundDown(dst, unit) = dst BY <2>7, <3>1 DEF RoundDown
    <3>3. new_sz(dst, bytes) =
            IF dst = RoundDown(dst, unit)
            THEN IF unit >= bytes THEN unit ELSE RoundUp(bytes, 256)
            ELSE bytes + (dst - RoundDown(dst, unit))
      BY <1>2, <2>1, WriteCases
    <3> QED BY <3>1, <3>2, <3>3
  <2> QED BY <2>5, <2>6, <2>7, Zenon DEF FewNeighbours
<1> QED BY <1>1, <1>2

(* The destinations walked through are addresses, the sizes entry sizes.   *)
AlInv == dst_addr \in Nat /\ entry_bytes \in Nat \ {0}

(* WriteExtent for every destination and size: the streaming write of      *)
(* snapshot() covers the logged entry, stays in its pages and takes in few *)
(* neighbouring bytes (libc_wrappers.cc).                                  *)
THEOREM WriteExtentHolds == AlSpec => []WriteExtent
<1>1. AlInit => AlInv BY AlignedWalkAssumption, Zenon DEF AlInit, AlInv
<1>2. AlInv /\ [AlNext]_alvars => AlInv' BY DEF AlInv, AlNext, alvars
<1>3. AlInv => WriteExtent
  BY WriteCovers, WriteInPages, WriteNeighbours, Zenon DEF AlInv, WriteExtent
<1> QED BY <1>1, <1>2, <1>3, PTL DEF AlSpec

-----------------------------------------------------------------------------
(* The copies of the file *)

(* The block written for an entry has its words. *)
LEMMA BlockCovers ==
  ASSUME NEW e \in ByteRange
  PROVE  WordsOf(e.addr, e.bytes) \subseteq Block(e)
<1>1. e.addr \in Nat /\ e.bytes \in Nat \ {0} BY Zenon DEF ByteRange
<1>2. CoversEntry(e.addr, e.bytes) BY <1>1, WriteCovers, Zenon
<1>3. /\ dst_addr_aligned(e.addr, e.bytes) \in Nat
      /\ new_sz(e.addr, e.bytes) \in Nat
  BY <1>1, WriteType, Zenon
<1> QED BY <1>1, <1>2, <1>3 DEF WordsOf, Block, CoversEntry, BlockEnd, Word

(* Opening the file with logs that read as empty changes no image. *)
LEMMA RecoverIsNoop ==
  ASSUME TypeImages, PcInv, recover
  PROVE  backing' = backing /\ p_backing' = p_backing
<1>1. ASSUME NEW i \in needs_recovery, backing' = Undo(backing, deps[i]),
             p_backing' = Undo(p_backing, deps[i])
      PROVE  backing' = backing /\ p_backing' = p_backing
  <2>1. deps[i] = <<>> BY <1>1, Zenon DEF PcInv, needs_recovery
  <2> QED BY <1>1, <2>1, UndoEmpty, Zenon DEF TypeImages
<1> QED BY <1>1, Zenon DEF recover

(* Before the file is first opened its copies are in step. *)
LEMMA InitBackInv == Init => BackInv
  BY Zenon DEF Init, BackInv, Committing

(* Every step keeps the copies of the file in step. *)
LEMMA BackInvStep ==
  ASSUME FullRanges, UntrackedStores = FALSE,
         TypeImages, TypeControl, TypeLog, LogInv, PcInv, UndoExact, BackInv,
            Next
  PROVE  BackInv'
<1>1. CASE recover
  <2>1. backing' = backing /\ p_backing' = p_backing BY <1>1, RecoverIsNoop, Zenon
  <2> QED BY <1>1, <2>1, Zenon DEF BackInv, Committing, recover, snapVars
<1>2. CASE create_backing_file
  <2>1. pc = "create_backing_file" /\ pc' = "map_backing_file" /\ pending' =
     pending /\ has_backing'
    BY <1>2 DEF create_backing_file
  <2>2. backing' = file' /\ p_backing' = file'
    BY <1>2, Zenon DEF create_backing_file, BackInv
  <2> QED BY <2>1, <2>2, Zenon DEF BackInv, Committing
<1>3. CASE map_backing_file
  <2>1. \A w \in DataWord : backing'[w] = backing[w]
    BY <1>3, Zenon DEF map_backing_file, TypeImages, DataWord
  <2> QED BY <1>3, <2>1, Zenon DEF BackInv, Committing, map_backing_file, fileVars
<1>4. CASE map_to_page_cache
  BY <1>4, Zenon DEF BackInv, Committing, map_to_page_cache, fileVars, appVars,
     backingVars, snapVars
<1>5. CASE StartTracking
  BY <1>5, Zenon DEF BackInv, Committing, StartTracking, logVars, fileVars, appVars,
     backingVars, snapVars
<1>6. ASSUME NEW r \in Stores, NEW v \in Val, Store(r, v) PROVE BackInv'
  BY <1>6, Zenon DEF BackInv, Committing, Store, fileVars, backingVars, snapVars
<1>7. ASSUME NEW r \in Stores, NEW v \in Val, StoreUntracked(r, v) PROVE
   BackInv'
  BY <1>7, Zenon DEF StoreUntracked
<1>8. ASSUME NEW r \in Ranges, snapshot(r) PROVE BackInv'
  BY <1>8, Zenon DEF BackInv, Committing, snapshot, fileVars, appVars, backingVars,
     snapVars
<1>9. CASE SetActive
  BY <1>9, Zenon DEF BackInv, Committing, SetActive, fileVars, appVars, backingVars,
     snapVars
<1>10. CASE DrainLog
  BY <1>10, Zenon DEF BackInv, Committing, DrainLog, fileVars, appVars, backingVars,
     snapVars
<1>11. CASE Prepare
  <2>1. pc = "prepare" /\ pc' = "copy" /\ pending = {} /\ pending' = {}
        /\ idx' = 1 /\ p_backing' = p_backing /\ base' = base /\ mem' = mem
        /\ has_backing' = has_backing /\ range' = range
    BY <1>11, Zenon DEF Prepare, BackInv, fileVars, appVars
  <2>2. \A w \in DataWord : /\ p_backing[w] = base[w]
                            /\ backing'[w] \in {base[w], mem[w]}
    BY <1>11, <2>1, Zenon DEF Prepare, BackInv
  <2>3. \A m \in DOMAIN entries' : ~(m < 1)
    <3>1. entries' \in Seq(ByteRange) BY LogTypeStep, Zenon DEF TypeLog
    <3> QED BY <3>1
  <2> QED BY <2>1, <2>2, <2>3, Zenon DEF BackInv, Committing
<1>12. CASE CopyEntry
  <2> DEFINE e == entries[idx]
             skip_entry == idx > 1 /\ entries[idx - 1] = e
             W == IF InRange(e) /\ ~skip_entry THEN Block(e) ELSE {}
  <2>1. /\ pc = "copy" /\ pc' = "copy"
        /\ idx \in DOMAIN entries /\ idx' = idx + 1
        /\ UNCHANGED <<base, mem, p_backing, has_backing, range, entries>>
        /\ idx \in Nat \ {0} /\ entries \in Seq(ByteRange)
    <3>1. idx \in Nat \ {0} /\ entries \in Seq(ByteRange)
      BY Zenon DEF TypeControl, TypeLog
    <3>2. /\ pc = "copy" /\ pc' = "copy"
          /\ idx <= Len(entries) /\ idx' = idx + 1
          /\ UNCHANGED <<base, mem, p_backing, has_backing, range, entries>>
      BY <1>12, Zenon DEF CopyEntry, fileVars, appVars, logVars
    <3>3. idx \in DOMAIN entries BY <3>1, <3>2
    <3> QED BY <3>1, <3>2, <3>3, Zenon
  <2>2. /\ backing' = Copy(backing, mem, W)
        /\ pending' = pending \cup W
    BY <1>12, Zenon DEF CopyEntry
  <2>3. W \subseteq Word BY Zenon DEF Block, WordsOf
  <2>4. \A w \in Word : backing'[w] = IF w \in W THEN mem[w] ELSE backing[w]
    BY <2>2, Zenon DEF Copy
  <2>5. WordsOf(e.addr, e.bytes) \subseteq pending'
    <3>1. e \in ByteRange BY <2>1
    <3>2. CASE ~InRange(e)
      <4>1. range.addr = 0 /\ range.bytes >= 8 * NWords /\ range.bytes \in Nat
        BY <2>1, SnapshotAssumption, Zenon DEF BackInv, Committing, FullRanges,
           ByteRange
      <4>2. e.addr \in Nat /\ e.addr > range.bytes
        BY <3>1, <3>2, <4>1 DEF InRange, ByteRange
      <4>3. WordsOf(e.addr, e.bytes) = {}
        BY <4>1, <4>2, SnapshotAssumption DEF WordsOf, Word
      <4> QED BY <4>3, Zenon
    <3>3. CASE InRange(e) /\ skip_entry
      <4>1. idx - 1 \in DOMAIN entries /\ idx - 1 < idx /\ entries[idx - 1] = e
        BY <2>1, <3>3
      <4>2. WordsOf(e.addr, e.bytes) \subseteq pending
        BY <2>1, <4>1, Zenon DEF BackInv
      <4> QED BY <2>2, <4>2, Zenon
    <3>4. CASE InRange(e) /\ ~skip_entry
      <4>1. W = Block(e) BY <3>4, Zenon
      <4>2. WordsOf(e.addr, e.bytes) \subseteq Block(e) BY <3>1, BlockCovers, Zenon
      <4> QED BY <2>2, <4>1, <4>2, Zenon
    <3> QED BY <3>2, <3>3, <3>4, Zenon
  <2> HIDE DEF W
  <2>6. \A w \in DataWord : /\ backing'[w] \in {base[w], mem[w]}
                            /\ p_backing[w] \in {base[w], backing'[w]}
    <3> TAKE w \in DataWord
    <3>1. w \in Word BY Zenon DEF DataWord
    <3>2. /\ backing[w] \in {base[w], mem[w]}
          /\ p_backing[w] \in {base[w], backing[w]}
      BY <2>1, Zenon DEF BackInv
    <3> QED BY <2>4, <3>1, <3>2, Zenon
  <2>7. \A w \in pending' : backing'[w] = mem[w]
    <3> TAKE w \in pending'
    <3>1. w \in Word BY <2>2, <2>3, Zenon DEF TypeControl
    <3>2. w \in pending => backing[w] = mem[w] BY <2>1, Zenon DEF BackInv
    <3> QED BY <2>2, <2>4, <3>1, <3>2, Zenon
  <2>8. \A m \in DOMAIN entries' :
          m < idx' =>
            WordsOf(entries'[m].addr, entries'[m].bytes) \subseteq pending'
    <3> TAKE m \in DOMAIN entries'
    <3>1. CASE m = idx BY <2>1, <2>5, <3>1, Zenon
    <3>2. CASE m < idx
      <4>1. WordsOf(entries[m].addr, entries[m].bytes) \subseteq pending
        BY <2>1, <3>2, Zenon DEF BackInv
      <4> QED BY <2>1, <2>2, <4>1, Zenon
    <3>3. m \in Nat /\ (m < idx + 1 => m = idx \/ m < idx) BY <2>1
    <3> QED BY <2>1, <3>1, <3>2, <3>3, Zenon
  <2> QED BY <2>1, <2>6, <2>7, <2>8, Zenon DEF BackInv, Committing
<1>13. CASE Drain
  <2>1. /\ pc = "copy" /\ pc' = "set_empty" /\ pending' = {}
        /\ UNCHANGED <<base, mem, backing, has_backing, range>>
        /\ idx > Len(entries)
    BY <1>13, Zenon DEF Drain, fileVars, appVars, snapVars
  <2>2. \A w \in Word :
          p_backing'[w] = IF w \in pending THEN backing[w] ELSE p_backing[w]
    BY <1>13, Zenon DEF Drain, Copy
  <2>3. ASSUME NEW w \in DataWord
        PROVE  backing[w] = mem[w] /\ p_backing'[w] = mem[w]
    <3>1. w \in Word BY Zenon DEF DataWord
    <3>2. CASE \E k \in DOMAIN content : Covers(content[k], w)
      <4>1. PICK k \in DOMAIN content : Covers(content[k], w) BY <3>2, Zenon
      <4>2. PICK m \in DOMAIN entries : /\ entries[m].addr = content[k].addr
                                       /\ entries[m].bytes = content[k].bytes
        BY Zenon DEF LogInv
      <4>3. m < idx BY <2>1 DEF TypeLog, TypeControl
      <4>4. w \in WordsOf(entries[m].addr, entries[m].bytes)
        BY <4>1, <4>2, Zenon DEF Covers
      <4>5. w \in pending BY <2>1, <4>3, <4>4, Zenon DEF BackInv
      <4>6. backing[w] = mem[w] BY <2>1, <4>5, Zenon DEF BackInv
      <4> QED BY <2>2, <3>1, <4>5, <4>6, Zenon
    <3>3. CASE \A k \in DOMAIN content : ~Covers(content[k], w)
      <4>1. mem[w] = base[w] BY <2>1, <3>1, <3>3, Zenon DEF UndoExact, Mapped
      <4> QED BY <2>1, <2>2, <3>1, <4>1, Zenon DEF BackInv
    <3> QED BY <3>2, <3>3, Zenon
  <2> QED BY <2>1, <2>3, Zenon DEF BackInv, Committing
<1>14. CASE SetEmpty
  BY <1>14, Zenon DEF BackInv, Committing, SetEmpty, fileVars, appVars, backingVars,
     snapVars
<1>15. CASE Clear
  BY <1>15, Zenon DEF BackInv, Committing, Clear, fileVars, appVars, backingVars
<1>16. ASSUME NEW w \in Word, WriteBack(w) PROVE BackInv'
  <2>1. \A x \in Word :
          p_backing'[x] = IF x = w THEN backing[w] ELSE p_backing[x]
    BY <1>16, Zenon DEF WriteBack, TypeImages
  <2>2. UNCHANGED <<pc, backing, base, mem, file, has_backing, pending, range,
     idx, entries>>
    BY <1>16, Zenon DEF WriteBack, fileVars, appVars, snapVars, logVars
  <2>3. pc \notin {"down", "create_backing_file"}
    BY <1>16, Zenon DEF WriteBack, BackInv
  <2>4. \A x \in DataWord : p_backing'[x] \in {p_backing[x], backing[x]}
    BY <2>1, Zenon DEF DataWord
  <2> QED BY <2>2, <2>3, <2>4, Zenon DEF BackInv, Committing
<1>17. CASE WriteBackLogHeader
  BY <1>17, Zenon DEF BackInv, Committing, WriteBackLogHeader, WriteBackHeader,
     fileVars, appVars, backingVars, snapVars
<1>18. CASE Failure
  BY <1>18, Zenon DEF BackInv, Committing, Failure
<1> QED BY <1>1, <1>2, <1>3, <1>4, <1>5, <1>6, <1>7, <1>8, <1>9, <1>10, <1>11,
           <1>12, <1>13, <1>14, <1>15, <1>16, <1>17, <1>18, Zenon DEF Next, AppStore

(* The inductive invariant with the copies of the file. *)
CInv == IInv /\ BackInv

(* It is inductive when every snapshot() covers the file and nothing is    *)
(* stored before tracking starts.                                          *)
LEMMA NextCInv ==
  ASSUME FullRanges, UntrackedStores = FALSE, CInv, [Next]_vars
  PROVE  CInv'
<1>1. IInv' BY NextIInv, Zenon DEF CInv
<1>2. CASE Next
  <2>1. /\ TypeImages /\ TypeControl /\ TypeLog /\ LogInv /\ PcInv
        /\ UndoExact /\ BackInv
    BY Zenon DEF CInv, IInv, TypeOK
  <2>2. BackInv' BY <1>2, <2>1, BackInvStep, Zenon
  <2> QED BY <1>1, <2>2, Zenon DEF CInv
<1>3. CASE UNCHANGED vars
  <2>1. BackInv'
    BY <1>3, Zenon DEF CInv, BackInv, Committing, vars, fileVars, appVars,
       backingVars, snapVars, logVars
  <2> QED BY <1>1, <2>1, Zenon DEF CInv
<1> QED BY <1>2, <1>3, Zenon

(* The inductive invariant with the copies of the file holds. *)
THEOREM CopyInvariance ==
  ASSUME FullRanges, UntrackedStores = FALSE
  PROVE  Spec => []CInv
<1>1. Init => CInv BY InitIInv, InitBackInv, Zenon DEF CInv
<1>2. CInv /\ [Next]_vars => CInv' BY NextCInv, Zenon
<1> QED BY <1>1, <1>2, PTL DEF Spec

(* Whenever no snapshot() is in progress, the backing file on the media is *)
(* the image of the last completed snapshot().                             *)
THEOREM BackingParity ==
  ASSUME FullRanges, UntrackedStores = FALSE
  PROVE  Spec => []Parity
<1>1. CInv => Parity BY Zenon DEF CInv, BackInv, Parity
<1> QED BY <1>1, CopyInvariance, PTL

(* The logs a failure leaves read as empty, so the next open finds the     *)
(* backing file as it is on the media.                                     *)
LEMMA ImageIs ==
  ASSUME TypeImages, TypeControl, TypeLog, PcInv
  PROVE  Image = IF has_backing THEN p_backing ELSE file
<1>1. LeftLog \in {<<>>, << <<>> >>}
  <2>1. CASE p_state = "ACTIVE"
    <3>1. p_log_offset = 0 BY <2>1, Zenon DEF PcInv
    <3>2. SubSeq(content, 1, Readable) = <<>> BY <3>1, NothingReadable, Zenon
    <3> QED BY <2>1, <3>2, Zenon DEF LeftLog
  <2>2. CASE p_state # "ACTIVE" BY <2>2, Zenon DEF LeftLog
  <2> QED BY <2>1, <2>2, Zenon
<1>2. deps \in Seq(Seq(Entry)) BY Zenon DEF TypeControl
<1>3. deps \o LeftLog # <<>> => Head(deps \o LeftLog) = <<>>
  <2>1. CASE deps = <<>>
    <3>1. deps \o LeftLog = LeftLog BY <1>1, <2>1
    <3> QED BY <1>1, <3>1
  <2>2. CASE deps # <<>>
    <3>1. 1 \in DOMAIN deps BY <1>2, <2>2
    <3>2. deps[1] = <<>> BY <3>1, Zenon DEF PcInv
    <3>3. Head(deps \o LeftLog) = deps[1]
      <4>1. CASE LeftLog = <<>> BY <1>2, <2>2, <4>1
      <4>2. CASE LeftLog = << <<>> >> BY <1>2, <2>2, <4>2
      <4> QED BY <1>1, <4>1, <4>2, Zenon
    <3> QED BY <3>2, <3>3, Zenon
  <2> QED BY <2>1, <2>2, Zenon
<1>4. Recovered(p_backing) = p_backing
  BY <1>3, UndoEmpty, Zenon DEF Recovered, TypeImages
<1> QED BY <1>4, Zenon DEF Image

(* A failure at any moment of a snapshot() leaves in every word the value  *)
(* of the last completed snapshot() or of this one.                        *)
THEOREM FailureOldOrNew ==
  ASSUME FullRanges, UntrackedStores = FALSE
  PROVE  Spec => []OldOrNew
<1>1. CInv => OldOrNew
  <2> SUFFICES ASSUME CInv, Mapped, NEW w \in DataWord
               PROVE  Image[w] \in {base[w], mem[w]}
    BY Zenon DEF OldOrNew
  <2>1. Image = p_backing
    BY ImageIs, Zenon DEF CInv, IInv, TypeOK, BackInv, Mapped
  <2>2. p_backing[w] \in {base[w], mem[w]}
    BY Zenon DEF CInv, IInv, TypeOK, TypeControl, BackInv, Mapped
  <2> QED BY <2>1, <2>2, Zenon
<1> QED BY <1>1, CopyInvariance, PTL

(* A word that some entry covers is covered by a first one. *)
LEMMA FirstCover ==
  ASSUME NEW w, \E k \in DOMAIN content : Covers(content[k], w), TypeLog
  PROVE  \E k \in DOMAIN content :
           /\ Covers(content[k], w)
           /\ \A j \in DOMAIN content : Covers(content[j], w) => k <= j
<1> DEFINE T == {k \in DOMAIN content : Covers(content[k], w)}
           R == OpToRel(<, Nat)
<1>1. T \subseteq Nat /\ T # {} BY DEF TypeLog
<1>2. IsWellFoundedOn(R, Nat) BY NatLessThanWellFounded, Zenon
<1> HIDE DEF R
<1>3. PICK k \in T : \A j \in T : ~(<<j, k>> \in R) BY <1>1, <1>2, WFMin, Zenon
<1>4. \A j \in T : k <= j
  <2> TAKE j \in T
  <2>1. j \in Nat /\ k \in Nat BY <1>1, Zenon
  <2>2. ~(j < k) BY <1>3, <2>1, Zenon DEF R, OpToRel
  <2> QED BY <2>1, <2>2
<1> QED BY <1>3, <1>4, Zenon

(* Write-ahead logging: the backing file is torn on the media only while   *)
(* the entries that undo it are there too (when the log does not end on a  *)
(* cache-line boundary).                                                   *)
THEOREM WriteAhead ==
  ASSUME FullRanges, UntrackedStores = FALSE
  PROVE  Spec => []TornIsUndoable
<1>1. CInv => TornIsUndoable
  <2> SUFFICES ASSUME CInv, Mapped,
                      \E w \in DataWord : p_backing[w] # base[w],
                      \E w \in DataWord : p_backing[w] # mem[w]
               PROVE  /\ p_state = "ACTIVE"
                      /\ tail_ptr % LineSize # 0 =>
                           /\ \A k \in DOMAIN content : OnMedia(content[k], durable)
                           /\ \A w \in DataWord : Undo(p_backing, content)[w] = base[w]
    BY Zenon DEF TornIsUndoable
  <2>1. pc = "copy"
    BY Zenon DEF CInv, IInv, TypeOK, TypeControl, BackInv, Mapped
  <2>2. p_state = "ACTIVE" BY <2>1, Zenon DEF CInv, IInv, PcInv
  <2>3. ASSUME tail_ptr % LineSize # 0, NEW k \in DOMAIN content
        PROVE  OnMedia(content[k], durable)
    <3>1. durable >= HeaderSize + tail_ptr
      BY <2>1, <2>3, Zenon DEF CInv, IInv, PcInv
    <3>2. content[k].off + EntrySize(content[k].bytes) <= tail_ptr
      BY <2>3, Zenon DEF CInv, IInv, LogInv
    <3>3. /\ durable \in Nat /\ tail_ptr \in Nat
          /\ content[k].off \in Nat /\ content[k].bytes \in Nat
      <4>1. TypeLog BY Zenon DEF CInv, IInv, TypeOK
      <4>2. content[k] \in Entry BY <2>3, <4>1 DEF TypeLog
      <4> QED BY <4>1, <4>2, Zenon DEF TypeLog, Entry
    <3> HIDE DEF CInv
    <3> QED
      BY <3>1, <3>2, <3>3
         DEF OnMedia, EntrySize, HeaderSize, EntryHeader
  <2>4. ASSUME NEW w \in DataWord
        PROVE  Undo(p_backing, content)[w] = base[w]
    <3>1. w \in Word BY Zenon DEF DataWord
    <3>2. TypeLog /\ UndoExact BY Zenon DEF CInv, IInv, TypeOK
    <3>3. CASE \A k \in DOMAIN content : ~Covers(content[k], w)
      <4>1. mem[w] = base[w] BY <3>1, <3>2, <3>3, Zenon DEF UndoExact
      <4>2. p_backing[w] \in {base[w], mem[w]}
        BY <2>1, <2>4, Zenon DEF CInv, BackInv
      <4>3. Undo(p_backing, content)[w] = p_backing[w] BY <3>1, <3>3, Zenon DEF Undo
      <4> QED BY <4>1, <4>2, <4>3, Zenon
    <3>4. CASE \E k \in DOMAIN content : Covers(content[k], w)
      <4> DEFINE First(k) == /\ Covers(content[k], w)
                             /\ \A j \in DOMAIN content :
                                  Covers(content[j], w) => k <= j
                 c == CHOOSE k \in DOMAIN content : First(k)
      <4>1. \E k \in DOMAIN content : First(k) BY <3>2, <3>4, FirstCover, Zenon
      <4>2. c \in DOMAIN content /\ First(c) BY <4>1, Zenon
      <4>3. Undo(p_backing, content)[w] = content[c].old[w]
        BY <3>1, <3>4, Zenon DEF Undo
      <4> HIDE DEF c
      <4>4. \A j \in 1 .. c - 1 : ~Covers(content[j], w)
        <5>1. content \in Seq(Entry) BY <3>2, Zenon DEF TypeLog
        <5>2. DOMAIN content = 1 .. Len(content) /\ Len(content) \in Nat
          BY <5>1
        <5> QED BY <4>2, <5>2
      <4>5. content[c].old[w] = base[w]
        BY <3>1, <3>2, <4>2, <4>4, Zenon DEF UndoExact
      <4> QED BY <4>3, <4>5, Zenon
    <3> QED BY <3>3, <3>4, Zenon
  <2> QED BY <2>2, <2>3, <2>4, Zenon
<1> QED BY <1>1, CopyInvariance, PTL

-----------------------------------------------------------------------------
(* The refinement of Msync *)

(* The images of the refinement mapping, without the empty undo. *)
MsyncFacts ==
  /\ DurableImage = [w \in DataWord |-> IF has_backing THEN p_backing[w]
                                                       ELSE file[w]]
  /\ Mapped => /\ has_backing
               /\ VolatileImage = [w \in DataWord |-> mem[w]]
               /\ DurableImage = [w \in DataWord |-> p_backing[w]]
  /\ ~Mapped => VolatileImage = DurableImage
  /\ VolatileImage \in [DataWord -> Val]
  /\ DurableImage \in [DataWord -> Val]

(* They are what the next process and this one see of the file. *)
LEMMA MsyncImages == CInv => MsyncFacts
<1> SUFFICES ASSUME CInv PROVE MsyncFacts
  BY Zenon
<1>1. TypeImages /\ TypeControl /\ TypeLog /\ PcInv /\ BackInv
  BY Zenon DEF CInv, IInv, TypeOK
<1>2. Image = IF has_backing THEN p_backing ELSE file BY <1>1, ImageIs, Zenon
<1>3. DurableImage = [w \in DataWord |-> IF has_backing THEN p_backing[w]
                                                       ELSE file[w]]
  BY <1>2, Zenon DEF DurableImage
<1>4. Mapped => has_backing BY <1>1, Zenon DEF BackInv, Mapped
<1>5. Mapped => VolatileImage = [w \in DataWord |-> mem[w]]
  BY Zenon DEF VolatileImage
<1>6. Mapped => DurableImage = [w \in DataWord |-> p_backing[w]]
  BY <1>3, <1>4, Zenon
<1>7. ~Mapped => VolatileImage = DurableImage
  BY Zenon DEF VolatileImage, DurableImage
<1>8. DurableImage \in [DataWord -> Val]
  BY <1>1, <1>3, Zenon DEF TypeImages, DataWord
<1>9. VolatileImage \in [DataWord -> Val]
  BY <1>1, <1>5, <1>7, <1>8, Zenon DEF TypeImages, DataWord
<1> QED BY <1>3, <1>4, <1>5, <1>6, <1>7, <1>8, <1>9, Zenon DEF MsyncFacts

(* Every step of the process, of the hardware and every failure is a step  *)
(* of Msync or leaves its images alone.                                    *)
LEMMA MsyncStep ==
  ASSUME FullRanges, UntrackedStores = FALSE, CInv, CInv',
         MsyncFacts, MsyncFacts', Next
  PROVE  [M!Next]_(M!vars)
<1>1. ASSUME Mapped, Mapped', Committing' = Committing, mem' = mem,
             p_backing' = p_backing
      PROVE  UNCHANGED M!vars
  BY <1>1, Zenon DEF MsyncFacts, M!vars
<1>2. ASSUME ~Mapped, ~Mapped', UNCHANGED DurableImage
      PROVE  UNCHANGED M!vars
  <2>1. UNCHANGED VolatileImage BY <1>2, Zenon DEF MsyncFacts
  <2>2. Committing = FALSE /\ Committing' = FALSE
    BY <1>2 DEF Mapped, Committing
  <2> QED BY <1>2, <2>1, <2>2, Zenon DEF M!vars
<1>3. TypeImages /\ TypeControl /\ PcInv /\ BackInv
  BY Zenon DEF CInv, IInv, TypeOK
<1>4. CASE recover
  <2>1. p_backing' = p_backing BY <1>3, <1>4, RecoverIsNoop, Zenon
  <2>2. UNCHANGED DurableImage BY <1>4, <2>1, Zenon DEF recover, fileVars, MsyncFacts
  <2>3. ~Mapped /\ ~Mapped' BY <1>4, Zenon DEF recover, Mapped
  <2> QED BY <1>2, <2>2, <2>3, Zenon
<1>5. CASE create_backing_file
  <2>1. UNCHANGED DurableImage BY <1>5, Zenon DEF create_backing_file, MsyncFacts
  <2>2. ~Mapped /\ ~Mapped' BY <1>5, Zenon DEF create_backing_file, Mapped
  <2> QED BY <1>2, <2>1, <2>2, Zenon
<1>6. CASE map_backing_file
  <2>1. UNCHANGED DurableImage
    BY <1>6, Zenon DEF map_backing_file, fileVars, MsyncFacts
  <2>2. ~Mapped /\ ~Mapped' BY <1>6, Zenon DEF map_backing_file, Mapped
  <2> QED BY <1>2, <2>1, <2>2, Zenon
<1>7. CASE map_to_page_cache
  <2>1. /\ pc = "map_to_page_cache" /\ ~Mapped /\ Mapped'
        /\ ~Committing /\ ~Committing'
    BY <1>7, Zenon DEF map_to_page_cache, Mapped, Committing
  <2>2. mem' = file /\ p_backing' = p_backing /\ has_backing' = has_backing
    BY <1>7, Zenon DEF map_to_page_cache, fileVars, backingVars
  <2>3. has_backing /\ \A w \in DataWord : p_backing[w] = file[w]
    BY <1>3, <2>1, Zenon DEF BackInv
  <2>4. /\ DurableImage = [w \in DataWord |-> p_backing[w]]
        /\ VolatileImage = DurableImage
    BY <2>1, <2>3, Zenon DEF MsyncFacts
  <2>5. /\ DurableImage' = [w \in DataWord |-> p_backing[w]]
        /\ VolatileImage' = [w \in DataWord |-> file[w]]
    BY <2>1, <2>2, Zenon DEF MsyncFacts
  <2>6. VolatileImage' = DurableImage' BY <2>3, <2>5, Zenon
  <2>7. UNCHANGED Committing BY <2>1 DEF Committing
  <2> QED BY <2>4, <2>5, <2>6, <2>7, Zenon DEF M!vars
<1>8. CASE StartTracking
  BY <1>1, <1>8, Zenon DEF StartTracking, Mapped, Committing, backingVars
<1>9. ASSUME NEW r \in Stores, NEW v \in Val, Store(r, v) PROVE M!Store
  <2>1. /\ Mapped /\ Mapped' /\ ~Committing /\ ~Committing'
        /\ p_backing' = p_backing
    BY <1>9, Zenon DEF Store, Mapped, Committing, backingVars
  <2>2. UNCHANGED DurableImage BY <2>1, Zenon DEF MsyncFacts
  <2>3. UNCHANGED Committing BY <2>1 DEF Committing
  <2> QED BY <2>1, <2>2, <2>3, Zenon DEF M!Store, MsyncFacts
<1>10. ASSUME NEW r \in Stores, NEW v \in Val, StoreUntracked(r, v) PROVE FALSE
  BY <1>10, Zenon DEF StoreUntracked
<1>11. ASSUME NEW r \in Ranges, snapshot(r) PROVE M!SyncBegin
  <2>1. /\ Mapped /\ Mapped' /\ ~Committing /\ Committing'
        /\ p_backing' = p_backing /\ mem' = mem
    BY <1>11, Zenon DEF snapshot, Mapped, Committing, backingVars, appVars
  <2>2. UNCHANGED <<VolatileImage, DurableImage>> BY <2>1, Zenon DEF MsyncFacts
  <2>3. Committing' = TRUE BY <2>1, Zenon DEF Committing
  <2> QED BY <2>1, <2>2, <2>3, Zenon DEF M!SyncBegin
<1>12. CASE SetActive \/ DrainLog \/ SetEmpty
  BY <1>1, <1>12
     DEF SetActive, DrainLog, SetEmpty, Mapped, Committing, backingVars, appVars
<1>13. CASE Prepare \/ CopyEntry
  <2>1. /\ Mapped /\ Mapped' /\ Committing /\ Committing'
        /\ mem' = mem /\ p_backing' = p_backing
    BY <1>13, Zenon DEF Prepare, CopyEntry, Mapped, Committing, appVars
  <2>2. Committing' = TRUE /\ Committing = TRUE BY <2>1, Zenon DEF Committing
  <2> QED BY <1>1, <2>1, <2>2, Zenon
<1>14. ASSUME Mapped, Mapped', Committing, Committing', mem' = mem,
              \A w \in DataWord : p_backing'[w] \in {p_backing[w], mem[w]}
       PROVE  M!Persist
  <2>1. UNCHANGED VolatileImage BY <1>14, Zenon DEF MsyncFacts
  <2>2. \A w \in DataWord :
          DurableImage'[w] \in {DurableImage[w], VolatileImage[w]}
    <3>1. /\ VolatileImage = [w \in DataWord |-> mem[w]]
          /\ DurableImage = [w \in DataWord |-> p_backing[w]]
          /\ DurableImage' = [w \in DataWord |-> p_backing'[w]]
      BY <1>14, Zenon DEF MsyncFacts
    <3> QED BY <1>14, <3>1, Zenon
  <2>3. UNCHANGED Committing BY <1>14 DEF Committing
  <2> QED BY <1>14, <2>1, <2>2, <2>3, Zenon DEF M!Persist, MsyncFacts
<1>15. CASE Drain
  <2>1. Mapped /\ Mapped' /\ Committing /\ Committing' /\ mem' = mem
    BY <1>15, Zenon DEF Drain, Mapped, Committing, appVars
  <2>2. \A w \in Word :
          p_backing'[w] = IF w \in pending THEN backing[w] ELSE p_backing[w]
    BY <1>15, Zenon DEF Drain, Copy
  <2>3. \A w \in pending : backing[w] = mem[w] BY <1>3, <1>15, Zenon DEF BackInv, Drain
  <2>4. \A w \in DataWord : p_backing'[w] \in {p_backing[w], mem[w]}
    BY <2>2, <2>3, Zenon DEF DataWord
  <2>5. M!Persist BY <1>14, <2>1, <2>4, Zenon
  <2> QED BY <2>5, Zenon DEF M!Next
<1>16. CASE Clear
  <2>1. /\ Mapped /\ Mapped' /\ Committing /\ ~Committing' /\ mem' = mem
        /\ p_backing' = p_backing
    BY <1>16, Zenon DEF Clear, Mapped, Committing, appVars, backingVars
  <2>2. \A w \in DataWord : p_backing[w] = mem[w]
    BY <1>3, <1>16, Zenon DEF BackInv, Clear
  <2>3. UNCHANGED <<VolatileImage, DurableImage>> BY <2>1, Zenon DEF MsyncFacts
  <2>4. DurableImage = VolatileImage BY <2>1, <2>2, Zenon DEF MsyncFacts
  <2>5. Committing' = FALSE BY <2>1 DEF Committing
  <2>6. M!SyncEnd BY <2>1, <2>3, <2>4, <2>5, Zenon DEF M!SyncEnd
  <2> QED BY <2>6, Zenon DEF M!Next
<1>17. ASSUME NEW w \in Word, WriteBack(w) PROVE [M!Next]_(M!vars)
  <2>1. /\ UNCHANGED <<pc, mem, file, has_backing>>
        /\ \A x \in Word :
             p_backing'[x] = IF x = w THEN backing[w] ELSE p_backing[x]
    BY <1>3, <1>17, Zenon DEF WriteBack, TypeImages, fileVars, appVars
  <2>2. UNCHANGED <<Mapped, Committing>> BY <2>1, Zenon DEF Mapped, Committing
  <2>3. CASE pc = "copy"
    <3>1. \A x \in DataWord : p_backing'[x] \in {p_backing[x], mem[x]}
      BY <1>3, <1>17, <2>1, <2>3, ZenonT(30) DEF BackInv, WriteBack, DataWord
    <3>2. Mapped /\ Mapped' /\ Committing /\ Committing'
      BY <2>2, <2>3, Zenon DEF Mapped, Committing
    <3>3. M!Persist BY <1>14, <2>1, <3>1, <3>2, Zenon
    <3> QED BY <3>3, Zenon DEF M!Next
  <2>4. CASE pc # "copy"
    <3>1. \A x \in DataWord : p_backing[x] = backing[x]
      BY <1>3, <1>17, <2>4, Zenon DEF BackInv, WriteBack, TypeControl
    <3>2. \A x \in DataWord : p_backing'[x] = p_backing[x]
      BY <2>1, <3>1, Zenon DEF DataWord
    <3>3. UNCHANGED <<DurableImage, VolatileImage>>
      BY <2>1, <2>2, <3>2, Zenon DEF MsyncFacts
    <3> QED BY <2>2, <3>3, Zenon DEF M!vars
  <2> QED BY <2>3, <2>4, Zenon
<1>18. CASE WriteBackLogHeader
  <2>1. UNCHANGED <<pc, mem, file, has_backing, p_backing>>
    BY <1>18, Zenon DEF WriteBackLogHeader, fileVars, appVars, backingVars
  <2>2. UNCHANGED <<Mapped, Committing>> BY <2>1, Zenon DEF Mapped, Committing
  <2>3. UNCHANGED <<DurableImage, VolatileImage>>
    BY <2>1, <2>2, Zenon DEF MsyncFacts
  <2> QED BY <2>2, <2>3, Zenon DEF M!vars
<1>19. CASE Failure
  <2>1. ~Mapped' /\ ~Committing' BY <1>19, Zenon DEF Failure, Mapped, Committing
  <2>2. UNCHANGED DurableImage BY <1>19, Zenon DEF Failure, MsyncFacts
  <2>3. VolatileImage' = DurableImage BY <2>1, <2>2, Zenon DEF MsyncFacts
  <2>4. Committing' = FALSE BY <2>1 DEF Committing
  <2>5. M!Failure BY <2>2, <2>3, <2>4, Zenon DEF M!Failure
  <2> QED BY <2>5, Zenon DEF M!Next
<1>20. (M!Store => M!Next) /\ (M!SyncBegin => M!Next) BY Zenon DEF M!Next
<1> QED
  BY <1>4, <1>5, <1>6, <1>7, <1>8, <1>9, <1>10, <1>11, <1>12, <1>13, <1>15,
     <1>16, <1>17, <1>18, <1>19, <1>20, Zenon DEF Next, AppStore

(* The library with its log, its backing file, its recovery and failures   *)
(* at any point implements a file whose msync persists word by word.       *)
THEOREM MsyncRefinement ==
  ASSUME FullRanges, UntrackedStores = FALSE
  PROVE  Spec => ImplementsMsync
<1>1. Init => M!Init
  <2> SUFFICES ASSUME Init PROVE M!Init
    BY Zenon
  <2>1. MsyncFacts BY InitIInv, InitBackInv, MsyncImages, Zenon DEF CInv
  <2>2. ~Mapped /\ Committing = FALSE BY DEF Init, Mapped, Committing
  <2> QED BY <2>1, <2>2, Zenon DEF M!Init, MsyncFacts
<1>2. CInv /\ MsyncFacts /\ CInv' /\ MsyncFacts' /\ [Next]_vars
        => [M!Next]_(M!vars)
  <2> SUFFICES ASSUME CInv, MsyncFacts, CInv', MsyncFacts', [Next]_vars
               PROVE  [M!Next]_(M!vars)
    BY Zenon
  <2>1. CASE Next BY <2>1, MsyncStep, Zenon
  <2>2. CASE UNCHANGED vars
    <3>1. UNCHANGED <<pc, mem, file, has_backing, p_backing>>
      BY <2>2, Zenon DEF vars, fileVars, appVars, backingVars
    <3>2. UNCHANGED <<Mapped, Committing>> BY <3>1, Zenon DEF Mapped, Committing
    <3>3. UNCHANGED <<DurableImage, VolatileImage>>
      BY <3>1, <3>2, ZenonT(30) DEF MsyncFacts
    <3> QED BY <3>2, <3>3, Zenon DEF M!vars
  <2> QED BY <2>1, <2>2, Zenon
<1>3. Spec => []CInv BY CopyInvariance, Zenon
<1> QED BY <1>1, <1>2, <1>3, MsyncImages, PTL DEF Spec, ImplementsMsync, M!Spec

-----------------------------------------------------------------------------
(* Any ranges, and stores before tracking starts                           *)

(* What the copy loop has taken of the range it was called for. *)
RangeInv ==
  /\ pc # "copy" => pending = {}
  /\ pc = "copy" =>
       /\ \A w \in pending : backing[w] = mem[w]
       /\ \A m \in DOMAIN entries :
            (m < idx /\ InRange(entries[m]))
              => WordsOf(entries[m].addr, entries[m].bytes) \subseteq pending
  /\ pc \in {"set_empty", "clear"} =>
       \A m \in DOMAIN entries :
         InRange(entries[m]) =>
           \A w \in WordsOf(entries[m].addr, entries[m].bytes) :
             backing[w] = mem[w] /\ p_backing[w] = mem[w]

(* An iteration of the copy loop takes its entry, if it is in the range.   *)
LEMMA RangeCopyStep ==
  ASSUME TypeControl, TypeLog, RangeInv, CopyEntry
  PROVE  RangeInv'
<1> DEFINE e == entries[idx]
           skip_entry == idx > 1 /\ entries[idx - 1] = e
           W == IF InRange(e) /\ ~skip_entry THEN Block(e) ELSE {}
<1>0. idx \in Nat \ {0} /\ entries \in Seq(ByteRange) BY Zenon DEF TypeControl, TypeLog
<1>1. /\ pc = "copy" /\ pc' = "copy" /\ idx <= Len(entries) /\ idx' = idx + 1
      /\ UNCHANGED <<mem, range, entries>>
  BY Zenon DEF CopyEntry, appVars, logVars
<1>2. backing' = Copy(backing, mem, W) /\ pending' = pending \cup W
  BY Zenon DEF CopyEntry
<1>3. idx \in DOMAIN entries /\ e \in ByteRange BY <1>0, <1>1
<1>4. W \subseteq Word BY Zenon DEF Block, WordsOf
<1>5. InRange(e) => WordsOf(e.addr, e.bytes) \subseteq pending'
  <2>1. CASE InRange(e) /\ skip_entry
    <3>1. idx - 1 \in DOMAIN entries /\ idx - 1 < idx /\ entries[idx - 1] = e
      BY <1>0, <1>3, <2>1
    <3>2. WordsOf(e.addr, e.bytes) \subseteq pending BY <1>1, <2>1, <3>1, Zenon DEF RangeInv
    <3> QED BY <1>2, <3>2, Zenon
  <2>2. CASE InRange(e) /\ ~skip_entry
    <3>1. W = Block(e) BY <2>2, Zenon
    <3>2. WordsOf(e.addr, e.bytes) \subseteq Block(e) BY <1>3, BlockCovers, Zenon
    <3> QED BY <1>2, <3>1, <3>2, Zenon
  <2> QED BY <2>1, <2>2, Zenon
<1> HIDE DEF W
<1>6. \A w \in pending' : backing'[w] = mem'[w]
  <2> TAKE w \in pending'
  <2>1. w \in Word BY <1>2, <1>4, Zenon DEF TypeControl
  <2>2. backing'[w] = IF w \in W THEN mem[w] ELSE backing[w] BY <1>2, <2>1, Zenon DEF Copy
  <2>3. w \in pending => backing[w] = mem[w] BY <1>1, Zenon DEF RangeInv
  <2> QED BY <1>1, <1>2, <2>2, <2>3, Zenon
<1>7. ASSUME NEW m \in DOMAIN entries, m < idx + 1, InRange(entries[m])
      PROVE  WordsOf(entries[m].addr, entries[m].bytes) \subseteq pending'
  <2>1. m = idx \/ m < idx BY <1>0, <1>7
  <2>2. CASE m = idx BY <1>5, <1>7, <2>2, Zenon
  <2>3. CASE m < idx
    <3>1. WordsOf(entries[m].addr, entries[m].bytes) \subseteq pending
      BY <1>1, <1>7, <2>3, Zenon DEF RangeInv
    <3> QED BY <1>2, <3>1, Zenon
  <2> QED BY <2>1, <2>2, <2>3, Zenon
<1> QED BY <1>1, <1>6, <1>7, Zenon DEF RangeInv, InRange

(* Every other step keeps what the loop has taken. *)
LEMMA RangeStep ==
  ASSUME IInv, RangeInv, [Next]_vars
  PROVE  RangeInv'
<1>0. TypeImages /\ TypeControl /\ TypeLog BY Zenon DEF IInv, TypeOK
<1>1. CASE CopyEntry BY <1>0, <1>1, RangeCopyStep, Zenon
<1>2. CASE Prepare
  <2>1. /\ pc = "prepare" /\ pc' = "copy" /\ pending' = pending /\ idx' = 1
        /\ pending = {}
    BY <1>2, Zenon DEF Prepare, RangeInv
  <2>2. entries' \in Seq(ByteRange)
    <3>1. LogInv /\ PcInv BY Zenon DEF IInv
    <3>2. Next BY <1>2, Zenon DEF Next, AppStore
    <3>3. TypeLog' BY <1>0, <3>1, <3>2, LogTypeStep, Zenon
    <3> QED BY <3>3, Zenon DEF TypeLog
  <2>3. \A m \in DOMAIN entries' : ~(m < 1) BY <2>2
  <2> QED BY <2>1, <2>3, ZenonT(30) DEF RangeInv
<1>3. CASE Drain
  <2>1. /\ pc = "copy" /\ pc' = "set_empty" /\ pending' = {} /\ idx > Len(entries)
        /\ UNCHANGED <<mem, backing, range, entries>>
    BY <1>3, Zenon DEF Drain, appVars, snapVars, logVars
  <2>2. \A w \in pending : p_backing'[w] = backing[w]
    BY <1>0, <1>3, Zenon DEF Drain, Copy, TypeControl
  <2>3. ASSUME NEW m \in DOMAIN entries, InRange(entries[m]),
               NEW w \in WordsOf(entries[m].addr, entries[m].bytes)
        PROVE  backing[w] = mem[w] /\ p_backing'[w] = mem[w]
    <3>1. m < idx BY <1>0, <2>1 DEF TypeLog, TypeControl
    <3>2. w \in pending BY <2>1, <2>3, <3>1, Zenon DEF RangeInv
    <3> QED BY <2>1, <2>2, <3>2, Zenon DEF RangeInv
  <2> QED BY <2>1, <2>3, ZenonT(30) DEF RangeInv, InRange
<1>4. CASE SetEmpty
  <2>1. /\ pc = "set_empty" /\ pc' = "clear"
        /\ UNCHANGED <<mem, backing, p_backing, pending, range, entries>>
    BY <1>4, Zenon DEF SetEmpty, set_state, appVars, backingVars, snapVars
  <2> QED BY <2>1, Zenon DEF RangeInv, InRange
<1>5. ASSUME NEW w \in Word, WriteBack(w) PROVE RangeInv'
  <2>1. \A x \in Word : p_backing'[x] \in {p_backing[x], backing[x]}
    BY <1>0, <1>5, Zenon DEF WriteBack, TypeImages
  <2>2. UNCHANGED <<pc, mem, backing, pending, range, idx, entries>>
    BY <1>5, Zenon DEF WriteBack, appVars, snapVars, logVars
  <2>3. \A m \in DOMAIN entries : WordsOf(entries[m].addr, entries[m].bytes) \subseteq Word
    BY Zenon DEF WordsOf
  <2>4. ASSUME pc \in {"set_empty", "clear"}, NEW m \in DOMAIN entries,
               InRange(entries[m]), NEW x \in WordsOf(entries[m].addr, entries[m].bytes)
        PROVE  backing[x] = mem[x] /\ p_backing'[x] = mem[x]
    <3>1. backing[x] = mem[x] /\ p_backing[x] = mem[x] BY <2>4, Zenon DEF RangeInv
    <3> QED BY <2>1, <2>3, <3>1, Zenon
  <2> QED BY <2>2, <2>4, Zenon DEF RangeInv, InRange
<1>6. CASE WriteBackLogHeader \/ UNCHANGED vars
  <2>1. UNCHANGED <<pc, mem, backing, p_backing, pending, range, idx, entries>>
    BY <1>6, Zenon DEF WriteBackLogHeader, WriteBackHeader, vars, appVars, backingVars, snapVars,
                logVars
  <2> QED BY <2>1, Zenon DEF RangeInv, InRange
<1>7. ASSUME pc \notin {"copy", "set_empty"}, pc' \notin {"copy", "set_empty", "clear"},
             pending' \in {pending, {}}
      PROVE  RangeInv'
  BY <1>7, Zenon DEF RangeInv
<1>8. CASE Clear
  <2>1. pc = "clear" /\ pc' = "run" /\ pending' = pending BY <1>8, Zenon DEF Clear, backingVars
  <2> QED BY <2>1, <1>7, Zenon
<1>9. CASE Failure BY <1>9, Zenon DEF Failure, RangeInv
<1>10. ASSUME NEW r \in Stores, NEW v \in Val, Store(r, v) \/ StoreUntracked(r, v)
       PROVE  RangeInv'
  <2>1. pc = "run" /\ pc' = "run" /\ pending' = pending
    BY <1>10, Zenon DEF Store, StoreUntracked, backingVars
  <2> QED BY <2>1, <1>7, Zenon
<1>11. ASSUME NEW r \in Ranges, snapshot(r) PROVE RangeInv'
  <2>1. pc = "run" /\ pc' = "set_active" /\ pending' = pending
    BY <1>11, Zenon DEF snapshot, backingVars
  <2> QED BY <2>1, <1>7, Zenon
<1>12. CASE SetActive \/ DrainLog \/ StartTracking
  <2>1. /\ pc \in {"set_active", "drain_log", "run"}
        /\ pc' \in {"drain_log", "prepare", "run"} /\ pending' = pending
    BY <1>12, Zenon DEF SetActive, DrainLog, StartTracking, backingVars
  <2> QED BY <2>1, <1>7, Zenon
<1>13. CASE recover \/ create_backing_file \/ map_backing_file \/ map_to_page_cache
  <2>1. /\ pc \in {"down", "create_backing_file", "map_backing_file", "map_to_page_cache"}
        /\ pc' \in {"create_backing_file", "map_backing_file", "map_to_page_cache", "run"}
        /\ pending' = pending
    BY <1>13, Zenon DEF recover, create_backing_file, map_backing_file, map_to_page_cache,
                 backingVars
  <2> QED BY <2>1, <1>7, Zenon
<1> QED BY <1>1, <1>2, <1>3, <1>4, <1>5, <1>6, <1>8, <1>9, <1>10, <1>11, <1>12, <1>13, Zenon
        DEF Next, AppStore

(* The list of entries names ranges the application stored, and a snapshot *)
(* in progress has one of the ranges it is called on.                      *)
StoredInv ==
  /\ \A m \in DOMAIN entries : entries[m] \in Stores
  /\ Committing => range \in Ranges

LEMMA StoredStep ==
  ASSUME IInv, StoredInv, [Next]_vars
  PROVE  StoredInv'
<1>0. entries \in Seq(ByteRange) /\ Stores \subseteq ByteRange
  BY SnapshotAssumption, Zenon DEF IInv, TypeOK, TypeLog
<1> USE DEF Committing
<1>1. ASSUME NEW r \in Stores, NEW v \in Val, Store(r, v) PROVE StoredInv'
  <2>1. pc = "run" /\ pc' = "run" /\ entries' = Append(entries, [addr |-> r.addr, bytes |-> r.bytes])
    BY <1>1, Zenon DEF Store, log_range
  <2>2. r = [addr |-> r.addr, bytes |-> r.bytes] BY <1>0 DEF ByteRange
  <2>3. entries' = Append(entries, r) BY <2>1, <2>2, Zenon
  <2>4. \A m \in DOMAIN entries' : entries'[m] \in Stores
    BY <1>0, <2>3 DEF StoredInv
  <2> QED BY <2>1, <2>4, Zenon DEF StoredInv
<1>2. CASE Prepare
  <2>1. entries' \in IF Len(entries) > SortThreshold THEN Sorted(entries) ELSE {entries}
    BY <1>2, Zenon DEF Prepare
  <2>2. CASE Len(entries) > SortThreshold
    <3>1. entries' \in Sorted(entries) BY <2>1, <2>2, Zenon
    <3>2. PICK p \in Bijection(DOMAIN entries, DOMAIN entries) :
                entries' = [i \in DOMAIN entries |-> entries[p[i]]]
      BY <3>1, Zenon DEF Sorted
    <3>3. \A i \in DOMAIN entries : p[i] \in DOMAIN entries
      BY <3>2, Zenon DEF Bijection, Injection, Surjection
    <3>4. \A m \in DOMAIN entries' : entries'[m] \in Stores
      BY <3>2, <3>3, Zenon DEF StoredInv
    <3> QED BY <1>2, <3>4, Zenon DEF StoredInv, Prepare
  <2>3. CASE ~(Len(entries) > SortThreshold)
    BY <1>2, <2>1, <2>3, Zenon DEF StoredInv, Prepare
  <2> QED BY <2>2, <2>3, Zenon
<1>3. CASE Clear
  <2>1. entries' = <<>> /\ pc' = "run" BY <1>3, Zenon DEF Clear, clear
  <2>2. DOMAIN entries' = {} BY <2>1
  <2> QED BY <2>1, <2>2, Zenon DEF StoredInv
<1>4. CASE Failure
  <2>1. entries' = <<>> /\ pc' = "down" BY <1>4, Zenon DEF Failure, ReplaceLog
  <2>2. DOMAIN entries' = {} BY <2>1
  <2> QED BY <2>1, <2>2, Zenon DEF StoredInv
<1>5. ASSUME NEW r \in Ranges, snapshot(r) PROVE StoredInv'
  BY <1>5, Zenon DEF StoredInv, snapshot
<1>6. ASSUME entries' = entries, range' = range, Committing' => Committing
      PROVE  StoredInv'
  BY <1>6, Zenon DEF StoredInv
<1>7. CASE SetActive \/ DrainLog \/ SetEmpty \/ CopyEntry \/ Drain
  BY <1>6, <1>7, Zenon DEF SetActive, DrainLog, SetEmpty, CopyEntry, Drain, snapVars, logVars,
                           set_state, set_state_flush, drain
<1>8. CASE StartTracking \/ \E r \in Stores, v \in Val : StoreUntracked(r, v)
  BY <1>6, <1>8, Zenon DEF StartTracking, StoreUntracked, snapVars, logVars
<1>9. CASE recover \/ create_backing_file \/ map_backing_file \/ map_to_page_cache
  BY <1>6, <1>9, Zenon DEF recover, create_backing_file, map_backing_file, map_to_page_cache,
                           snapVars, logVars
<1>10. CASE WriteBackLogHeader \/ UNCHANGED vars \/ \E w \in Word : WriteBack(w)
  BY <1>6, <1>10, Zenon DEF WriteBackLogHeader, WriteBackHeader, WriteBack, vars, snapVars, logVars
<1> QED BY <1>1, <1>2, <1>3, <1>4, <1>5, <1>7, <1>8, <1>9, <1>10, Zenon DEF Next, AppStore

(* RangeDurable for every mapping and log, when no snapshot() starts in    *)
(* the middle of a stored range: once the log is about to be marked EMPTY, *)
(* every logged word of the range is on the media (libc_wrappers.cc).      *)
(* Without NoCut it fails: the loop goes by where an entry starts.         *)
THEOREM RangesAreDurable == ASSUME NoCut PROVE Spec => []RangeDurable
<1>1. Init => RangeInv /\ StoredInv
  <2> SUFFICES ASSUME Init PROVE RangeInv /\ StoredInv
    BY Zenon
  <2>1. entries = <<>> /\ pc = "down" /\ pending = {} BY Zenon DEF Init, FreshLog
  <2>2. DOMAIN entries = {} BY <2>1
  <2> QED BY <2>1, <2>2, Zenon DEF RangeInv, StoredInv, Committing
<1>2. IInv /\ RangeInv /\ StoredInv /\ [Next]_vars => RangeInv' /\ StoredInv'
  BY RangeStep, StoredStep, Zenon
<1>3. IInv /\ RangeInv /\ StoredInv => RangeDurable
  <2> SUFFICES ASSUME IInv, RangeInv, StoredInv, pc \in {"set_empty", "clear"},
                      NEW i \in DOMAIN entries,
                      NEW w \in WordsOf(entries[i].addr, entries[i].bytes),
                      w \in WordsOf(range.addr, range.bytes)
               PROVE  p_backing[w] = mem[w]
    BY Zenon DEF RangeDurable
  <2>1. entries[i] \in Stores /\ range \in Ranges BY Zenon DEF StoredInv, Committing
  <2>2. entries[i] \in ByteRange /\ range \in ByteRange BY <2>1, SnapshotAssumption, Zenon
  <2>3. entries[i].addr < range.addr => entries[i].addr + entries[i].bytes <= range.addr
    BY <2>1, Zenon DEF NoCut
  <2>4. /\ w \in Int /\ entries[i].addr <= 8 * w /\ 8 * w < entries[i].addr + entries[i].bytes
        /\ range.addr <= 8 * w /\ 8 * w < range.addr + range.bytes
    BY SnapshotAssumption DEF WordsOf, Word
  <2>5. InRange(entries[i]) BY <2>2, <2>3, <2>4 DEF InRange, ByteRange
  <2> QED BY <2>5, Zenon DEF RangeInv
<1> QED BY <1>1, <1>2, <1>3, Invariance, PTL DEF Spec

(* The backing file as the processor sees it, when every snapshot() covers *)
(* the mapping: until the first one the copy of the whole mapping is still *)
(* to come, from then on it is in step with the mapping.                   *)
SeenInv ==
  /\ storeInstEnabled => startTracking
  /\ (Committing \/ ~firstSnapshot) => startTracking /\ Mapped
  /\ Committing => range \in Ranges
  /\ (pc \in {"run", "set_active", "drain_log", "prepare"} /\ ~firstSnapshot)
       => backing = base
  /\ pc = "copy" => \A w \in Word : backing[w] \in {base[w], mem[w]}
  /\ pc \in {"set_empty", "clear"} => backing = mem

(* The loop is over: every word is as in the mapping.  A logged one was    *)
(* copied, one that was not logged has not changed.                        *)
LEMMA SeenDrainStep ==
  ASSUME FullRanges, IInv, RangeInv, SeenInv, Drain
  PROVE  backing = mem
<1>0. TypeImages /\ TypeControl /\ TypeLog /\ LogInv /\ UndoExact BY Zenon DEF IInv, TypeOK
<1>1. pc = "copy" /\ idx > Len(entries) BY Zenon DEF Drain
<1>2. ASSUME NEW w \in Word PROVE backing[w] = mem[w]
  <2>1. backing[w] \in {base[w], mem[w]} BY <1>1, Zenon DEF SeenInv
  <2>2. CASE \A k \in DOMAIN content : ~Covers(content[k], w)
    BY <1>0, <1>1, <2>1, <2>2, Zenon DEF UndoExact, Mapped
  <2>3. CASE \E k \in DOMAIN content : Covers(content[k], w)
    <3>1. PICK k \in DOMAIN content : Covers(content[k], w) BY <2>3, Zenon
    <3>2. PICK m \in DOMAIN entries : /\ entries[m].addr = content[k].addr
                                     /\ entries[m].bytes = content[k].bytes
      BY <1>0, Zenon DEF LogInv
    <3>3. w \in WordsOf(entries[m].addr, entries[m].bytes) BY <3>1, <3>2, Zenon DEF Covers
    <3>4. m < idx /\ entries[m] \in ByteRange BY <1>0, <1>1 DEF TypeLog, TypeControl
    <3>5. range.addr = 0 /\ range.bytes >= 8 * NWords /\ range.bytes \in Nat
      BY <1>1, SnapshotAssumption, Zenon DEF SeenInv, Committing, FullRanges, ByteRange
    <3>6. InRange(entries[m])
      <4>1. entries[m].addr \in Nat /\ w \in Nat /\ w < NWords /\ NWords \in Nat
        BY <3>4, SnapshotAssumption DEF ByteRange, Word
      <4>2. entries[m].addr <= 8 * w BY <3>3, Zenon DEF WordsOf
      <4> QED BY <3>5, <4>1, <4>2 DEF InRange
    <3>7. w \in pending BY <1>1, <3>3, <3>4, <3>6, Zenon DEF RangeInv
    <3> QED BY <1>1, <3>7, Zenon DEF RangeInv
  <2> QED BY <2>2, <2>3, Zenon
<1> QED BY <1>0, <1>2 DEF TypeImages

(* SeenInv is inductive beside the other invariants. *)
LEMMA SeenStep ==
  ASSUME FullRanges, IInv, RangeInv, SeenInv, [Next]_vars
  PROVE  SeenInv'
<1>0. TypeFlags /\ TypeImages /\ TypeControl BY Zenon DEF IInv, TypeOK
<1> USE DEF Committing, Mapped
<1>1. CASE recover
  BY <1>1, Zenon DEF SeenInv, recover, appVars, snapVars
<1>2. CASE create_backing_file
  BY <1>2, Zenon DEF SeenInv, create_backing_file, appVars, snapVars
<1>3. CASE map_backing_file
  BY <1>3, Zenon DEF SeenInv, map_backing_file, appVars, snapVars
<1>4. CASE map_to_page_cache
  BY <1>4, Zenon DEF SeenInv, map_to_page_cache, appVars, snapVars
<1>5. CASE StartTracking
  BY <1>5, Zenon DEF SeenInv, StartTracking, backingVars, snapVars
<1>6. ASSUME NEW r \in Stores, NEW v \in Val, Store(r, v) PROVE SeenInv'
  BY <1>6, Zenon DEF SeenInv, Store, backingVars, snapVars
<1>7. ASSUME NEW r \in Stores, NEW v \in Val, StoreUntracked(r, v) PROVE SeenInv'
  BY <1>7, Zenon DEF SeenInv, StoreUntracked, backingVars, snapVars
<1>8. ASSUME NEW r \in Ranges, snapshot(r) PROVE SeenInv'
  BY <1>8, Zenon DEF SeenInv, snapshot, appVars, backingVars
<1>9. CASE SetActive
  BY <1>9, Zenon DEF SeenInv, SetActive, appVars, backingVars, snapVars
<1>10. CASE DrainLog
  BY <1>10, Zenon DEF SeenInv, DrainLog, appVars, backingVars, snapVars
<1>11. CASE Prepare
  <2>1. /\ pc = "prepare" /\ pc' = "copy" /\ UNCHANGED <<range, base, mem, startTracking,
                                                         storeInstEnabled>>
        /\ backing' = IF firstSnapshot THEN mem ELSE backing
    BY <1>11, Zenon DEF Prepare, appVars
  <2>2. \A w \in Word : backing'[w] \in {base[w], mem[w]} BY <2>1, Zenon DEF SeenInv
  <2> QED BY <2>1, <2>2, Zenon DEF SeenInv
<1>12. CASE CopyEntry
  <2>1. /\ pc = "copy" /\ pc' = "copy"
        /\ UNCHANGED <<range, base, mem, startTracking, storeInstEnabled, firstSnapshot>>
    BY <1>12, Zenon DEF CopyEntry, appVars
  <2>2. PICK W : backing' = Copy(backing, mem, W) BY <1>12, Zenon DEF CopyEntry
  <2>3. \A w \in Word : backing'[w] \in {backing[w], mem[w]} BY <2>2, Zenon DEF Copy
  <2> QED BY <2>1, <2>3, Zenon DEF SeenInv
<1>13. CASE Drain
  <2>1. /\ pc = "copy" /\ pc' = "set_empty"
        /\ UNCHANGED <<range, mem, backing, startTracking, storeInstEnabled, firstSnapshot>>
    BY <1>13, Zenon DEF Drain, appVars, snapVars
  <2>2. backing = mem BY <1>13, SeenDrainStep, Zenon
  <2> QED BY <2>1, <2>2, Zenon DEF SeenInv
<1>14. CASE SetEmpty
  BY <1>14, Zenon DEF SeenInv, SetEmpty, appVars, backingVars, snapVars
<1>15. CASE Clear
  BY <1>15, Zenon DEF SeenInv, Clear, appVars, backingVars
<1>16. ASSUME NEW w \in Word, WriteBack(w) PROVE SeenInv'
  BY <1>16, Zenon DEF SeenInv, WriteBack, appVars, snapVars
<1>17. CASE WriteBackLogHeader
  BY <1>17, Zenon DEF SeenInv, WriteBackLogHeader, appVars, backingVars, snapVars
<1>18. CASE Failure
  BY <1>18, Zenon DEF SeenInv, Failure
<1>19. CASE UNCHANGED vars
  BY <1>19, Zenon DEF SeenInv, vars, appVars, backingVars, snapVars
<1> HIDE DEF Committing, Mapped
<1> QED BY <1>1, <1>2, <1>3, <1>4, <1>5, <1>6, <1>7, <1>8, <1>9, <1>10, <1>11,
           <1>12, <1>13, <1>14, <1>15, <1>16, <1>17, <1>18, <1>19, Zenon DEF Next, AppStore

(* VisibleParity for every mapping and log, also when words are stored     *)
(* before tracking starts: after a process's first snapshot() the backing  *)
(* file as the processor sees it is the last committed image, the words    *)
(* nobody logged and the byte that map_backing_file wrote included.        *)
THEOREM BackingVisibleParity ==
  ASSUME FullRanges
  PROVE  Spec => []VisibleParity
<1>1. Init => RangeInv /\ SeenInv BY Zenon DEF Init, RangeInv, SeenInv, Committing
<1>2. IInv /\ RangeInv /\ [Next]_vars => RangeInv' BY RangeStep, Zenon
<1>3. IInv /\ RangeInv /\ SeenInv /\ [Next]_vars => SeenInv' BY SeenStep, Zenon
<1>4. SeenInv => VisibleParity BY Zenon DEF SeenInv, VisibleParity
<1> QED BY <1>1, <1>2, <1>3, <1>4, Invariance, PTL DEF Spec
=============================================================================
