----------------------------- MODULE MCRecovery -----------------------------
(* Small instances of Recovery for TLC: a file of two words. *)
EXTENDS Recovery

E(off, addr, words, v) ==
  [off |-> off, addr |-> addr, words |-> words,
   old |-> [w \in {x \in Word : addr <= x /\ x < addr + words} |-> v]]

Log(exists, state, log_offset, entries) ==
  [exists |-> exists, state |-> state, log_offset |-> log_offset,
   content |-> entries]

\* Entries of one word take 18 bytes, of two words 26.  The contents have an
\* overlap, a repetition, and an entry of another file (word 2).
Contents == {
  <<E(0, 0, 1, 1), E(18, 0, 2, 2), E(44, 1, 1, 1)>>,
  <<E(0, 1, 1, 2), E(18, 2, 1, 1), E(36, 1, 1, 1)>>,
  <<E(0, 0, 2, 1), E(26, 0, 1, 2), E(44, 0, 2, 2)>> }

\* log_offset at the start, between two entries, at the end; of the logs that
\* are EMPTY or whose file is gone, the longest.
Logs ==
  {Log(TRUE, "ACTIVE", o, c) : o \in {0, 44, 54}, c \in Contents}
    \cup {Log(TRUE, "EMPTY", 54, c) : c \in Contents}
    \cup {Log(FALSE, "ACTIVE", 54, c) : c \in Contents}
=============================================================================
