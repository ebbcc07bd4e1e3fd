---------------------------- MODULE MCSnapshot ----------------------------
(* Small instances of Snapshot for TLC. *)
EXTENDS Snapshot

R(addr, bytes) == [addr |-> addr, bytes |-> bytes]

\* Words 1 and 2 of three, written apart or together.
SmallStores == {R(8, 8), R(8, 16), R(16, 8)}

\* Ranges whose log entries can end on a cache line: 3 of 34 bytes and one
\* of 26 are 128 bytes.
LineStores == {R(0, 24), R(8, 24), R(8, 16)}

WholeFile == {R(0, 8 * NWords)}

\* msync() of one word at a time, and of all of them.
PartRanges == {R(8, 8), R(16, 8), R(0, 8 * NWords)}
=============================================================================
