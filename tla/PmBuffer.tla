------------------------------ MODULE PmBuffer ------------------------------
(***************************************************************************)
(* libpmbuffer: the constructor sizes and maps the buffer's file, forks a  *)
(* process that reserves cache, clears the buffer and signals the parent,  *)
(* and waits for that signal in pause().                                   *)
(***************************************************************************)

VARIABLES
  bfile,        \* the file: "unseen", "absent", "wrong" or "right" (its size)
  perst_buf,    \* "null", "mapped" or "failed" (MAP_FAILED)
  contents,     \* "old", "zero", or "app" once the program wrote to it
  parent,       \* where the constructor is
  child,        \* where the forked process is
  early         \* history: the signal came before the parent called pause

pbvars == <<bfile, perst_buf, contents, parent, child, early>>

PbInit ==
  /\ bfile = "unseen" /\ perst_buf = "null" /\ contents = "old"
  /\ parent = "start" /\ child = "none" /\ early = FALSE

\* fs::file_size throws for a file that is absent; one of the wrong size is
\* removed and made again
perst_buf_fallocate(found) ==
  /\ parent = "start" /\ bfile = "unseen"
  /\ bfile' = IF found = "absent" THEN "absent" ELSE "right"
  /\ contents' = IF found = "wrong" THEN "zero" ELSE contents
  /\ parent' = IF found = "absent" THEN "dead" ELSE "mount"
  /\ UNCHANGED <<perst_buf, child, early>>

\* a mapping that failed is reported and kept
mount_perst_buf(outcome) ==
  /\ parent = "mount"
  /\ parent' = IF outcome = "null" THEN "dead" ELSE "fork"
  /\ perst_buf' = outcome
  /\ UNCHANGED <<bfile, contents, child, early>>

\* fork may fail: nobody will send the signal
Fork(ok) ==
  /\ parent = "fork" /\ parent' = "forked"
  /\ child' = IF ok THEN "reserve" ELSE "none"
  /\ UNCHANGED <<bfile, perst_buf, contents, early>>

reserve_cache ==
  /\ child = "reserve" /\ child' = "memset"
  /\ UNCHANGED <<bfile, perst_buf, contents, parent, early>>

Wake == /\ parent' = IF parent = "paused" THEN "done" ELSE parent
        /\ early' = (parent # "paused")

\* the store to a failed mapping faults, and the handler returns to it
ClearBuffer ==
  /\ child = "memset" /\ perst_buf = "mapped"
  /\ contents' = "zero" /\ child' = "kill"
  /\ UNCHANGED <<bfile, perst_buf, parent, early>>

\* mutant: the parent is notified before the buffer is cleared
NotifyParent_First ==
  /\ child = "memset" /\ Wake /\ UNCHANGED <<bfile, perst_buf, contents, child>>
\* mutant: the signal is not sent
NotifyParent_Not ==
  /\ child = "kill" /\ child' = "read"
  /\ UNCHANGED <<bfile, perst_buf, contents, parent, early>>
\* the handler does nothing: a signal that comes before pause() is used up
NotifyParent ==
  /\ child = "kill" /\ child' = "read" /\ Wake
  /\ UNCHANGED <<bfile, perst_buf, contents>>

Pause ==
  /\ parent = "forked" /\ parent' = "paused"
  /\ UNCHANGED <<bfile, perst_buf, contents, child, early>>

\* get_pmbuffer, and a store of the program to what it returns
get_pmbuffer ==
  /\ parent = "done" /\ perst_buf # "null"
  /\ contents' = "app"
  /\ UNCHANGED <<bfile, perst_buf, parent, child, early>>

PbSteps == Pause \/ reserve_cache \/ ClearBuffer \/ NotifyParent

PbNext ==
  \/ \E found \in {"absent", "wrong", "right"} : perst_buf_fallocate(found)
  \/ \E outcome \in {"null", "mapped", "failed"} : mount_perst_buf(outcome)
  \/ \E ok \in BOOLEAN : Fork(ok)
  \/ PbSteps \/ get_pmbuffer

PbSpec == PbInit /\ [][PbNext]_pbvars

-----------------------------------------------------------------------------
(* Properties.                                                             *)

\* What the program writes to the buffer is never cleared by the constructor's
\* child, which shares the mapping, and the program starts on a mapped and
\* cleared buffer: the child signals only once it is done.
BufferKept ==
  [][/\ contents = "app" => contents' = "app"
     /\ contents' = "app" => perst_buf = "mapped" /\ contents # "old"]_pbvars

\* A constructor that has forked over a mapped buffer returns, unless the
\* signal came before it called pause().
ConstructorReturns ==
  (parent \in {"forked", "paused"} /\ child # "none" /\ perst_buf = "mapped")
    ~> (parent = "done" \/ early)
=============================================================================
