------------------------------- MODULE Msync -------------------------------
(***************************************************************************)
(* What a user of the library is promised about one mapped file.  volatile *)
(* is the mapping, durable the file as the next process will find it.      *)
(* Stores change the mapping only; while an msync is in progress words are *)
(* made durable one after the other; it returns when all of them are.  A   *)
(* failure discards what is not durable.                                   *)
(***************************************************************************)
CONSTANTS Word, Val

VARIABLES volatile, durable, syncing

vars == <<volatile, durable, syncing>>

Init ==
  /\ durable \in [Word -> Val]
  /\ volatile = durable
  /\ syncing = FALSE

Store ==
  /\ ~syncing
  /\ volatile' \in [Word -> Val]
  /\ UNCHANGED <<durable, syncing>>

SyncBegin ==
  /\ ~syncing
  /\ syncing' = TRUE
  /\ UNCHANGED <<volatile, durable>>

Persist ==
  /\ syncing
  /\ durable' \in [Word -> Val]
  /\ \A w \in Word : durable'[w] \in {durable[w], volatile[w]}
  /\ UNCHANGED <<volatile, syncing>>

SyncEnd ==
  /\ syncing
  /\ durable = volatile
  /\ syncing' = FALSE
  /\ UNCHANGED <<volatile, durable>>

Failure ==
  /\ volatile' = durable
  /\ syncing' = FALSE
  /\ UNCHANGED durable

Next == Store \/ SyncBegin \/ Persist \/ SyncEnd \/ Failure

Spec == Init /\ [][Next]_vars
=============================================================================
