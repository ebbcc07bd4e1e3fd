---------------------------- MODULE AlignedWrite ----------------------------
(***************************************************************************)
(* The block of the backing file that snapshot() overwrites for one log    *)
(* entry when CXLBUF_ALIGN_SNAPSHOT_WRITES is set (the default):           *)
(* src/libstoreinst/libc_wrappers.cc, lines 475-497.  Entries of 8 bytes   *)
(* or more are written by one streaming write whose start is rounded down  *)
(* to a power of two, or whose size is rounded up, so the write may cover  *)
(* bytes next to the entry; smaller entries are copied as they are.        *)
(***************************************************************************)
EXTENDS Integers, Sequences

(* 1 << k; entries are smaller than 2^22 bytes (the assertion in log_range). *)
PowersOfTwo == <<1, 2, 4, 8, 16, 32, 64, 128, 256, 512, 1024, 2048, 4096, 8192,
                 16384, 32768, 65536, 131072, 262144, 524288, 1048576, 2097152>>

Shl1(k) == PowersOfTwo[k + 1]

(* prev_pwr_2 = previousPowerOfTwo(bytes) + 1, cut off at 9: the smallest k *)
(* with bytes < 2^k, or 9.                                                  *)
CappedLog(bytes) ==
  IF 256 <= bytes
  THEN 9
  ELSE CHOOSE k \in 1..8 : Shl1(k - 1) <= bytes /\ bytes < Shl1(k)

(* std::popcount(bytes) == 1 *)
IsPowerOfTwo(bytes) == \E k \in 0..21 : bytes = Shl1(k)

align_to(bytes) ==
  IF IsPowerOfTwo(bytes) THEN CappedLog(bytes) - 1 ELSE CappedLog(bytes)

RoundDown(n, unit) == n - (n % unit)
RoundUp(n, unit) == RoundDown(n + unit - 1, unit)

dst_addr_aligned(dst, bytes) ==
  IF bytes < 8 THEN dst ELSE RoundDown(dst, Shl1(align_to(bytes)))

\* Mutant: the size is not extended by what the start was rounded down.
new_sz_Unextended(dst, bytes) == bytes

new_sz(dst, bytes) ==
  LET unit        == Shl1(align_to(bytes))
      new_sz_sfx_al == IF unit >= bytes THEN unit ELSE RoundUp(bytes, 256)
      new_sz_pfx_al == bytes + (dst - dst_addr_aligned(dst, bytes))
  IN  IF bytes < 8 THEN bytes
      ELSE IF dst = dst_addr_aligned(dst, bytes)
           THEN new_sz_sfx_al
           ELSE new_sz_pfx_al

-----------------------------------------------------------------------------
(* Properties of one write *)

PageSize == 4096

BlockEnd(dst, bytes) == dst_addr_aligned(dst, bytes) + new_sz(dst, bytes)

(* The write covers the entry. *)
CoversEntry(dst, bytes) ==
  /\ dst_addr_aligned(dst, bytes) <= dst
  /\ dst + bytes <= BlockEnd(dst, bytes)

(* The write stays in the pages the entry touches, so it never leaves the  *)
(* mapping of the backing file, which is made of whole pages.              *)
StaysInPages(dst, bytes) ==
  /\ RoundDown(dst, PageSize) <= dst_addr_aligned(dst, bytes)
  /\ BlockEnd(dst, bytes) <= RoundUp(dst + bytes, PageSize)

(* The write adds fewer than 512 bytes of neighbouring data, on one side   *)
(* of the entry only, and none to an entry that is a power of two of at    *)
(* most 256 bytes at a multiple of its size.                               *)
FewNeighbours(dst, bytes) ==
  /\ new_sz(dst, bytes) < bytes + 512
  /\ \/ dst_addr_aligned(dst, bytes) = dst
     \/ BlockEnd(dst, bytes) = dst + bytes
  /\ (IsPowerOfTwo(bytes) /\ bytes <= 256 /\ dst % bytes = 0)
       => new_sz(dst, bytes) = bytes

=============================================================================
