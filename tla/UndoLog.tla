------------------------------ MODULE UndoLog ------------------------------
(***************************************************************************)
(* One thread's undo log: class Log of src/libstoreinst/log.{hh,cc}.       *)
(*                                                                         *)
(* A Log object has a volatile list of the logged ranges (entries), the    *)
(* last range logged, and a log area in persistent memory: a 24-byte       *)
(* header (state, log_offset, tail_ptr) followed by the entries, each a    *)
(* 10-byte entry header and the old bytes of the range.  All offsets are   *)
(* bytes.  Every method of the class is an action on these variables;      *)
(* module Snapshot says in which order snapshot() calls them.              *)
(*                                                                         *)
(* The log area is cached.  "flushed" is how much of the area, counted     *)
(* from its start, has been handed to clwb since it was written, "durable" *)
(* how much of it a fence has then pushed to the media; p_state and        *)
(* p_log_offset are the header fields on the media.  The media also takes  *)
(* a line that the cache evicts on its own (WriteBackHeader).              *)
(***************************************************************************)
EXTENDS Integers, Sequences

VARIABLES
  entries,            \* volatile list of [addr, bytes]
  last_log,           \* the last range written to the log area, or NoLog
  content,            \* the entries of the log area, oldest first
  log_offset,         \* header: bytes of entries recovery will read
  tail_ptr,           \* header: offset of the next entry
  last_flush_offset,
  state,              \* header: "EMPTY" or "ACTIVE"
  flushed,
  durable,
  p_state,
  p_log_offset

logVars == <<entries, last_log, content, log_offset, tail_ptr,
             last_flush_offset, state, flushed, durable, p_state,
             p_log_offset>>

LineSize    == 64
HeaderSize  == 24     \* sizeof(log_layout_t)
EntryHeader == 10     \* sizeof(log_entry_t), packed

NoLog == [addr |-> 0, bytes |-> 0]

EntrySize(bytes) == EntryHeader + bytes

\* The state a new Log object and its zero-filled log file start in
\* (init_thread_buf).
FreshLog ==
  /\ entries = <<>>
  /\ last_log = NoLog
  /\ content = <<>>
  /\ log_offset = 0
  /\ tail_ptr = 0
  /\ last_flush_offset = 0
  /\ state = "EMPTY"
  /\ flushed = 0
  /\ durable = 0
  /\ p_state = "EMPTY"
  /\ p_log_offset = 0

\* The next process has a log of its own.
ReplaceLog ==
  /\ entries' = <<>>
  /\ last_log' = NoLog
  /\ content' = <<>>
  /\ log_offset' = 0
  /\ tail_ptr' = 0
  /\ last_flush_offset' = 0
  /\ state' = "EMPTY"
  /\ flushed' = 0
  /\ durable' = 0
  /\ p_state' = "EMPTY"
  /\ p_log_offset' = 0

-----------------------------------------------------------------------------
(* Cache lines handed to clwb when the entry that ends at offset "end" has *)
(* been written: all of them if it ends on a line boundary, all but the    *)
(* last one otherwise.  The result is the new last_flush_offset.           *)

\* Mutant: the number of lines is rounded down.
FlushOffset_Floor(end) ==
  LET cls_to_flush == (end - last_flush_offset) \div LineSize
  IN  IF end % LineSize = 0
      THEN end
      ELSE last_flush_offset + (cls_to_flush - 1) * LineSize

FlushOffset(end) ==
  LET cls_to_flush == (end - last_flush_offset + (LineSize - 1)) \div LineSize
  IN  IF end % LineSize = 0
      THEN end
      ELSE last_flush_offset + (cls_to_flush - 1) * LineSize

\* Mutant: a range is taken for the last one when it starts where that did.
log_range_AddrOnly(addr, bytes, old) ==
  LET lean == [addr |-> addr, bytes |-> bytes]
      end  == log_offset + EntrySize(bytes)
  IN  /\ entries' = Append(entries, lean)
      /\ IF last_log.addr = addr
         THEN UNCHANGED <<last_log, content, log_offset, tail_ptr,
                          last_flush_offset, flushed>>
         ELSE /\ last_log' = lean
              /\ content' = Append(content, [off   |-> tail_ptr, addr |-> addr,
                                             bytes |-> bytes, old |-> old])
              /\ log_offset' = end
              /\ tail_ptr' = tail_ptr + EntrySize(bytes)
              /\ last_flush_offset' = FlushOffset(end)
              /\ flushed' = FlushOffset(end)
      /\ UNCHANGED <<state, durable, p_state, p_log_offset>>

(* Log the old bytes of a range before it is overwritten.  A range equal to *)
(* the last one logged only goes to the volatile list.                      *)
log_range(addr, bytes, old) ==
  LET lean == [addr |-> addr, bytes |-> bytes]
      end  == log_offset + EntrySize(bytes)
  IN  /\ entries' = Append(entries, lean)
      /\ \/ /\ last_log = lean
            /\ UNCHANGED <<last_log, content, log_offset, tail_ptr,
                           last_flush_offset, flushed>>
         \/ /\ last_log # lean
            /\ last_log' = lean
            /\ content' = Append(content, [off   |-> tail_ptr, addr |-> addr,
                                           bytes |-> bytes, old |-> old])
            /\ log_offset' = end
            /\ tail_ptr' = tail_ptr + EntrySize(bytes)
            /\ last_flush_offset' = FlushOffset(end)
            /\ flushed' = FlushOffset(end)
      /\ UNCHANGED <<state, durable, p_state, p_log_offset>>

\* Mutant: the tail of the log stays in the cache.
flush_all_Nothing == flushed' = flushed

(* Flush what log_range left unflushed.  The flush starts at an offset in  *)
(* the entries, log_range's flushes start at one in the whole area.        *)
flush_all ==
  flushed' = IF last_flush_offset # log_offset
             THEN HeaderSize + log_offset
             ELSE flushed

(* set_state(s, true): a plain store and a flush of the header, which is   *)
(* the area's first cache line.  The fence is a step of its own (drain).   *)
set_state_flush(s) ==
  /\ state' = s
  /\ flushed' = IF flushed < LineSize THEN LineSize ELSE flushed
  /\ UNCHANGED <<entries, last_log, content, log_offset, tail_ptr,
                 last_flush_offset, durable, p_state, p_log_offset>>

(* The fence: flushed lines, the header among them, are on the media.      *)
drain ==
  /\ durable' = flushed
  /\ p_state' = state
  /\ p_log_offset' = log_offset
  /\ UNCHANGED <<entries, last_log, content, log_offset, tail_ptr,
                 last_flush_offset, state, flushed>>

(* set_state(s): a streaming write of the state and a fence.               *)
set_state(s) ==
  /\ state' = s
  /\ p_state' = s
  /\ p_log_offset' = log_offset
  /\ UNCHANGED <<entries, last_log, content, log_offset, tail_ptr,
                 last_flush_offset, flushed, durable>>

clear ==
  /\ log_offset' = 0
  /\ tail_ptr' = 0
  /\ last_flush_offset' = 0
  /\ last_log' = NoLog
  /\ entries' = <<>>
  /\ content' = <<>>          \* the next entry overwrites the area's start
  /\ flushed' = 0
  /\ durable' = 0
  /\ UNCHANGED <<state, p_state, p_log_offset>>

(* The cache evicts the header's line on its own.                          *)
WriteBackHeader ==
  /\ <<p_state, p_log_offset>> # <<state, log_offset>>
  /\ p_state' = state
  /\ p_log_offset' = log_offset
  /\ UNCHANGED <<entries, last_log, content, log_offset, tail_ptr,
                 last_flush_offset, state, flushed, durable>>

-----------------------------------------------------------------------------
(* An entry is on the media when all of its bytes are. *)
OnMedia(e, upto) == HeaderSize + e.off + EntrySize(e.bytes) <= upto

=============================================================================
