----------------------------- MODULE FlatMemory -----------------------------
(***************************************************************************)
(* What the memory handed out by libcxlfs promises a program: every page   *)
(* holds what was last stored into it, whether it is resident, on the      *)
(* device or on its way there.  Only an instruction the program has issued *)
(* changes a page; faults, evictions, flushes and resizes do not show.     *)
(* Once a command of the device has failed, nothing is promised.           *)
(***************************************************************************)
CONSTANTS Thread, Page, Val

(* Instructions of the program: a store to a page, a copy between two.     *)
Instr == [op : {"store"}, dst : Page, val : Val]
           \cup {c \in [op : {"copy"}, src : Page, dst : Page] : c.src # c.dst}

NoInstr == [op |-> "none"]

VARIABLES flat, instr, failed

vars == <<flat, instr, failed>>

Init ==
  /\ flat \in [Page -> Val]    \* what the device held
  /\ instr = [t \in Thread |-> NoInstr]
  /\ failed = FALSE

Issue(t, i) ==
  /\ instr[t] = NoInstr
  /\ instr' = [instr EXCEPT ![t] = i]
  /\ UNCHANGED flat

Store(t) ==
  /\ instr[t].op = "store"
  /\ flat' = [flat EXCEPT ![instr[t].dst] = instr[t].val]
  /\ instr' = [instr EXCEPT ![t] = NoInstr]

Copy(t) ==
  /\ instr[t].op = "copy"
  /\ flat' = [flat EXCEPT ![instr[t].dst] = flat[instr[t].src]]
  /\ instr' = [instr EXCEPT ![t] = NoInstr]

(* The device fails, or has failed before. *)
Lose ==
  /\ failed' = TRUE
  /\ flat' \in [Page -> Val]
  /\ instr' \in [Thread -> Instr \cup {NoInstr}]

Next ==
  \/ /\ ~failed
     /\ \E t \in Thread : (\E i \in Instr : Issue(t, i)) \/ Store(t) \/ Copy(t)
     /\ UNCHANGED failed
  \/ Lose

Spec == Init /\ [][Next]_vars
=============================================================================
