---------------------------- MODULE MCPageCache ----------------------------
(* The page cache for TLC: one or two threads, three pages. *)
EXTENDS PageCache

CONSTANTS t1, t2
=============================================================================
