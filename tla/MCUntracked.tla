----------------------------- MODULE MCUntracked -----------------------------
(* An instance of Snapshot with stores before startTracking is set, under    *)
(* names of its own, for use beside the other parts.                         *)
EXTENDS Integers, Sequences

VARIABLES
  u_pc, u_file, u_has_backing, u_backing, u_p_backing, u_deps, u_mem,
  u_startTracking, u_storeInstEnabled, u_firstSnapshot, u_range, u_idx,
  u_pending, u_base, u_crashes, u_entries, u_last_log, u_content, u_log_offset,
  u_tail_ptr, u_last_flush_offset, u_state, u_flushed, u_durable, u_p_state,
  u_p_log_offset

uvars ==
  <<u_pc, u_file, u_has_backing, u_backing, u_p_backing, u_deps, u_mem,
    u_startTracking, u_storeInstEnabled, u_firstSnapshot, u_range, u_idx,
    u_pending, u_base, u_crashes, u_entries, u_last_log, u_content, u_log_offset,
    u_tail_ptr, u_last_flush_offset, u_state, u_flushed, u_durable, u_p_state,
    u_p_log_offset>>

\* Words 1 and 2 of three, or word 2 alone, written; snapshots of the file.
U == INSTANCE Snapshot WITH
  NWords <- 3, Val <- {0, 1}, Touched <- 1,
  Stores <- {[addr |-> 8, bytes |-> 16], [addr |-> 16, bytes |-> 8]},
  Ranges <- {[addr |-> 0, bytes |-> 24]},
  SortThreshold <- 1, UntrackedStores <- TRUE, MaxLog <- 2, MaxCrashes <- 1,
  pc <- u_pc, file <- u_file, has_backing <- u_has_backing, backing <- u_backing,
  p_backing <- u_p_backing, deps <- u_deps, mem <- u_mem,
  startTracking <- u_startTracking, storeInstEnabled <- u_storeInstEnabled,
  firstSnapshot <- u_firstSnapshot, range <- u_range, idx <- u_idx,
  pending <- u_pending, base <- u_base, crashes <- u_crashes, entries <- u_entries,
  last_log <- u_last_log, content <- u_content, log_offset <- u_log_offset,
  tail_ptr <- u_tail_ptr, last_flush_offset <- u_last_flush_offset, state <- u_state,
  flushed <- u_flushed, durable <- u_durable, p_state <- u_p_state,
  p_log_offset <- u_p_log_offset

\* Snapshot!VisibleParity of this instance: from the first snapshot of a process
\* on, the backing file as the processor sees it is on parity with the last
\* committed image, for stores made before tracking started too, which only the
\* first snapshot's copy of the whole mapping (libc_wrappers.cc) catches up with.
UntrackedParity == U!VisibleParity
=============================================================================
