----------------------------- MODULE NumaBinder -----------------------------
(***************************************************************************)
(* NumaBinder: several processes bind themselves to CPUs of a NUMA node.   *)
(* A process learns which CPUs are taken by reading the status of every    *)
(* process, one after the other, and only then sets its own affinity.      *)
(***************************************************************************)
EXTENDS Integers, FiniteSets

CONSTANTS
  Procs,        \* processes that bind themselves
  Online,       \* _SC_NPROCESSORS_ONLN: CPUs 0..Online-1 may be bound to
  Conf,         \* _SC_NPROCESSORS_CONF: CPUs 0..Conf-1 are on some node
  NodeOf        \* numa_node_of_cpu

ASSUME NumaAssumption == Online \in Nat /\ Conf \in Nat /\ Online <= Conf

VARIABLES
  allowed,      \* process -> its Cpus_allowed_list
  npc,          \* process -> "idle", "next", "scan" or "bind"
  target,       \* process -> the node it is binding to
  cpus,         \* process -> CPUs of numa_map it has not tried
  cpu,          \* process -> the CPU it tries
  toread,       \* process -> processes whose status it has not read
  cpu_used,     \* process -> CPUs it found taken
  returned,     \* process -> result of its last bind_to_node, or "none"
  moved         \* history: processes that bound themselves during its scan

nbvars == <<allowed, npc, target, cpus, cpu, toread, cpu_used, returned, moved>>

CPUs == 0..(Conf - 1)
get_numa_map(node) == {c \in CPUs : NodeOf[c] = node}

NbInit ==
  /\ allowed = [p \in Procs |-> 0..(Online - 1)]
  /\ npc = [p \in Procs |-> "idle"] /\ target = [p \in Procs |-> 0]
  /\ cpus = [p \in Procs |-> {}] /\ cpu = [p \in Procs |-> 0]
  /\ toread = [p \in Procs |-> {}] /\ cpu_used = [p \in Procs |-> {}]
  /\ returned = [p \in Procs |-> "none"]
  /\ moved = [p \in Procs |-> {}]

bind_to_node(p, tgt_node) ==
  /\ npc[p] = "idle" /\ npc' = [npc EXCEPT ![p] = "next"]
  /\ target' = [target EXCEPT ![p] = tgt_node]
  /\ cpus' = [cpus EXCEPT ![p] = get_numa_map(tgt_node)]
  /\ returned' = [returned EXCEPT ![p] = "none"]
  /\ UNCHANGED <<allowed, cpu, toread, cpu_used, moved>>

\* the loop of bind_to_node: CPUs in order; none left is a failure
NextCpu(p) ==
  /\ npc[p] = "next"
  /\ IF cpus[p] = {}
     THEN /\ returned' = [returned EXCEPT ![p] = "failed"]
          /\ npc' = [npc EXCEPT ![p] = "idle"]
          /\ UNCHANGED <<cpu, cpus, toread, cpu_used, moved>>
     ELSE LET c == CHOOSE c \in cpus[p] : \A d \in cpus[p] : c <= d
          IN  /\ cpu' = [cpu EXCEPT ![p] = c] /\ cpus' = [cpus EXCEPT ![p] = @ \ {c}]
              /\ npc' = [npc EXCEPT ![p] = IF Online < 2 THEN "next" ELSE "scan"]
              /\ toread' = [toread EXCEPT ![p] = Procs]
              /\ cpu_used' = [cpu_used EXCEPT ![p] = {}]
              /\ moved' = [moved EXCEPT ![p] = {}]
              /\ UNCHANGED returned
  /\ UNCHANGED <<allowed, target>>

\* mutant: a process that is bound is not noticed
ReadStatus_Blind(p, q) ==
  /\ npc[p] = "scan" /\ q \in toread[p] /\ toread' = [toread EXCEPT ![p] = @ \ {q}]
  /\ UNCHANGED <<allowed, npc, target, cpus, cpu, cpu_used, returned, moved>>
\* the status of q, p's own included: a list of one CPU makes it taken
ReadStatus(p, q) ==
  /\ npc[p] = "scan" /\ q \in toread[p] /\ toread' = [toread EXCEPT ![p] = @ \ {q}]
  /\ cpu_used' = [cpu_used EXCEPT ![p] =
                    IF Cardinality(allowed[q]) = 1 THEN @ \cup allowed[q] ELSE @]
  /\ UNCHANGED <<allowed, npc, target, cpus, cpu, returned, moved>>

\* the scan is over: a CPU that is not online or taken is given up
CheckCpu(p) ==
  /\ npc[p] = "scan" /\ toread[p] = {}
  /\ npc' = [npc EXCEPT ![p] = IF cpu[p] >= Online \/ cpu[p] \in cpu_used[p]
                               THEN "next" ELSE "bind"]
  /\ UNCHANGED <<allowed, target, cpus, cpu, toread, cpu_used, returned, moved>>

\* sched_setaffinity may fail (cpu_aff, set before it, is never read)
SetAffinity(p, ok) ==
  /\ npc[p] = "bind"
  /\ IF ok
     THEN /\ allowed' = [allowed EXCEPT ![p] = {cpu[p]}]
          /\ moved' = [q \in Procs |-> moved[q] \cup {p}]
          /\ returned' = [returned EXCEPT ![p] = "bound"]
          /\ npc' = [npc EXCEPT ![p] = "idle"]
     ELSE npc' = [npc EXCEPT ![p] = "next"] /\ UNCHANGED <<allowed, moved, returned>>
  /\ UNCHANGED <<target, cpus, cpu, toread, cpu_used>>

NbNext ==
  \E p \in Procs :
    \/ \E node \in {NodeOf[c] : c \in CPUs} : bind_to_node(p, node)
    \/ NextCpu(p) \/ CheckCpu(p)
    \/ \E q \in Procs : ReadStatus(p, q)
    \/ \E ok \in BOOLEAN : SetAffinity(p, ok)

NbSpec == NbInit /\ [][NbNext]_nbvars

-----------------------------------------------------------------------------
(* Properties.                                                             *)

\* A process binds itself to a CPU that another is bound to only if the other
\* bound itself while the first was scanning: the scan misses nobody who was
\* there before it, and never shares a CPU otherwise.
ShareOnlyByRace ==
  [][\A p, q \in Procs :
       /\ p # q /\ allowed'[p] # allowed[p] /\ allowed'[p] = allowed[q]
       => q \in moved[p]]_nbvars
=============================================================================
