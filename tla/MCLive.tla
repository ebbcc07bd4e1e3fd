------------------------------- MODULE MCLive -------------------------------
(* The parts with something that must happen in the end, side by side: a    *)
(* behaviour is about the recovery of a file, the sampling thread, the      *)
(* processes of the page buffer, the flush queue or the hand-over-hand      *)
(* list, as its first state chooses.                                        *)
EXTENDS MCRecovery, Sampling, PmBuffer, FlushQueue, Hoh

VARIABLE part

(* The constructor of PmemFile returns, however often failures made it     *)
(* start over: both loops of recover() end, since every entry advances the *)
(* scan and every replayed entry leaves the list.                          *)
RecoveryEnds == part = "recovery" ~> pc = "done"

all == <<part, vars, smvars, pbvars, fqvars, hvars>>

MCInit ==
  /\ part \in {"recovery", "sampling", "pmbuffer", "queue", "hoh"}
  /\ Init /\ (part = "recovery" \/ (deps = <<>> /\ img = [w \in Word |-> 0]))
  /\ SmInit /\ PbInit /\ FqInit /\ HInit

Replay   == part = "recovery" /\ Next /\ UNCHANGED <<part, smvars, pbvars, fqvars, hvars>>
Sampler  == part = "sampling" /\ SmNext /\ UNCHANGED <<part, vars, pbvars, fqvars, hvars>>
Buffer   == part = "pmbuffer" /\ PbNext /\ UNCHANGED <<part, vars, smvars, fqvars, hvars>>
JobQueue == part = "queue" /\ FqNext /\ UNCHANGED <<part, vars, smvars, pbvars, hvars>>
Hands    == part = "hoh" /\ HNext /\ UNCHANGED <<part, vars, smvars, pbvars, fqvars>>

MCSpec ==
  /\ MCInit /\ [][Replay \/ Sampler \/ Buffer \/ JobQueue \/ Hands]_all
  /\ WF_all(Replay /\ Step)
  /\ WF_all(Sampler /\ Reader)
  /\ WF_all(Buffer /\ Pause)
  /\ WF_all(Buffer /\ (reserve_cache \/ ClearBuffer \/ NotifyParent))
  /\ WF_all(JobQueue /\ Worker)
  /\ WF_all(Hands)
=============================================================================
