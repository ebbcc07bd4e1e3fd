---------------------------- MODULE AlignedWalk ----------------------------
(***************************************************************************)
(* The aligned writes of snapshot(), walked through: every destination of  *)
(* a range with every entry size of a set.                                 *)
(***************************************************************************)
EXTENDS AlignedWrite

CONSTANTS FirstDst, LastDst, Sizes

ASSUME AlignedWalkAssumption ==
  FirstDst \in Nat /\ LastDst \in Nat /\ Sizes \subseteq Nat \ {0}

VARIABLES
  dst_addr,     \* where the entry goes
  entry_bytes   \* its size

alvars == <<dst_addr, entry_bytes>>

AlInit == dst_addr = FirstDst /\ entry_bytes \in Sizes

AlNext == dst_addr < LastDst /\ dst_addr' = dst_addr + 1 /\ UNCHANGED entry_bytes

AlSpec == AlInit /\ [][AlNext]_alvars

(* The streaming write of snapshot() covers the logged entry, stays in the *)
(* entry's pages and takes in few neighbouring bytes.                      *)
WriteExtent ==
  /\ CoversEntry(dst_addr, entry_bytes)
  /\ StaysInPages(dst_addr, entry_bytes)
  /\ FewNeighbours(dst_addr, entry_bytes)
=============================================================================
