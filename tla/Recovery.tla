------------------------------ MODULE Recovery ------------------------------
(***************************************************************************)
(* PmemFile's constructor: needs_recovery() and recover() of               *)
(* src/libstoreinst/recovery.cc, run when a file is mapped, and run again  *)
(* from the start when a failure interrupts it.                            *)
(*                                                                         *)
(* The dependency file names logs; each has a state and its entries, laid  *)
(* out one after the other, of which those that start below log_offset     *)
(* count.  Entries have word addresses here: words 0..NWords-1 belong to   *)
(* the file being opened, others to files mapped after it.                 *)
(***************************************************************************)
EXTENDS Integers, Sequences

CONSTANTS
  NWords,      \* words of the file
  Val,         \* values of a word
  LogSet,      \* logs: [exists, state, log_offset, content]
  MaxDeps,     \* bound: logs in the dependency file
  MaxCrashes   \* bound: failures

Word == 0 .. NWords - 1

EntryHeader == 10     \* sizeof(log_entry_t)

EntrySize(e) == EntryHeader + 8 * e.words

WordsOf(e) == {w \in Word : e.addr <= w /\ w < e.addr + e.words}

(* A log as log_range leaves it: entries one after the other, log_offset   *)
(* within them.                                                            *)
IsLog(lg) ==
  /\ lg.exists \in BOOLEAN
  /\ lg.state \in {"EMPTY", "ACTIVE"}
  /\ lg.content \in Seq([off : Nat, addr : Nat, words : Nat \ {0},
                         old : UNION {[S -> Val] : S \in SUBSET Word}])
  /\ \A k \in DOMAIN lg.content :
       /\ DOMAIN lg.content[k].old = WordsOf(lg.content[k])
       /\ lg.content[k].off =
            IF k = 1 THEN 0
            ELSE lg.content[k - 1].off + EntrySize(lg.content[k - 1])
  /\ lg.log_offset \in Nat
  /\ lg.log_offset > 0 =>
       \E k \in DOMAIN lg.content :
         lg.log_offset <= lg.content[k].off + EntrySize(lg.content[k])

ASSUME RecoveryAssumption ==
  /\ NWords \in Nat \ {0}
  /\ MaxDeps \in Nat
  /\ MaxCrashes \in Nat
  /\ \A lg \in LogSet : IsLog(lg)

VARIABLES
  pc,
  deps,         \* the logs the dependency file names
  img,          \* the backing file, as the processor sees it
  p_img,        \* the backing file on the media
  i,            \* needs_recovery's position in deps
  result,       \* the logs needs_recovery has found
  n,            \* number of entries the scan has passed
  cur_off,      \* their size in bytes
  log_entries,  \* the entries found to belong to this file
  img0,         \* history: the backing file when recovery began
  crashes

vars == <<pc, deps, img, p_img, i, result, n, cur_off, log_entries, img0,
          crashes>>

Init ==
  /\ pc = "needs_recovery"
  /\ deps \in UNION {[1 .. m -> LogSet] : m \in 0 .. MaxDeps}
  /\ img \in [Word -> Val]
  /\ p_img = img
  /\ i = 1
  /\ result = <<>>
  /\ n = 0
  /\ cur_off = 0
  /\ log_entries = <<>>
  /\ img0 = img
  /\ crashes = 0

(* One line of the dependency file: the search ends with the first ACTIVE  *)
(* log; a log whose file is gone is passed over.                           *)
needs_recovery ==
  /\ pc = "needs_recovery"
  /\ i <= Len(deps)
  /\ IF deps[i].exists /\ deps[i].state = "ACTIVE"
     THEN /\ result' = Append(result, i)
          /\ pc' = "scan"
          /\ UNCHANGED i
     ELSE /\ i' = i + 1
          /\ UNCHANGED <<result, pc>>
  /\ UNCHANGED <<deps, img, p_img, n, cur_off, log_entries, img0, crashes>>

NothingFound ==
  /\ pc = "needs_recovery"
  /\ i > Len(deps)
  /\ pc' = "done"
  /\ UNCHANGED <<deps, img, p_img, i, result, n, cur_off, log_entries, img0,
                 crashes>>

content == deps[i].content

(* recover, first loop: collect the entries that start in this file. *)
Scan ==
  /\ pc = "scan"
  /\ cur_off < deps[i].log_offset
  /\ LET e == content[n + 1] IN
       /\ log_entries' = IF e.addr \in Word THEN Append(log_entries, n + 1)
                                            ELSE log_entries
       /\ cur_off' = cur_off + EntrySize(e)
  /\ n' = n + 1
  /\ UNCHANGED <<pc, deps, img, p_img, i, result, img0, crashes>>

ScanDone ==
  /\ pc = "scan"
  /\ cur_off >= deps[i].log_offset
  /\ pc' = "apply"
  /\ UNCHANGED <<deps, img, p_img, i, result, n, cur_off, log_entries, img0,
                 crashes>>

\* Mutant: the entries are applied first one first.
Apply_Forward ==
  /\ pc = "apply"
  /\ log_entries # <<>>
  /\ LET e == content[Head(log_entries)] IN
       img' = [w \in Word |-> IF w \in WordsOf(e) THEN e.old[w] ELSE img[w]]
  /\ pc' = "drain"
  /\ UNCHANGED <<deps, p_img, i, result, n, cur_off, log_entries, img0,
                 crashes>>

(* Second loop, last entry first: write the old words back and flush ... *)
Apply ==
  /\ pc = "apply"
  /\ log_entries # <<>>
  /\ LET e == content[log_entries[Len(log_entries)]] IN
       img' = [w \in Word |-> IF w \in WordsOf(e) THEN e.old[w] ELSE img[w]]
  /\ pc' = "drain"
  /\ UNCHANGED <<deps, p_img, i, result, n, cur_off, log_entries, img0,
                 crashes>>

\* Mutant: the replayed entry stays in the list.
Drain_Keep ==
  /\ pc = "drain"
  /\ p_img' = img
  /\ pc' = "apply"
  /\ UNCHANGED <<deps, img, i, result, n, cur_off, log_entries, img0, crashes>>

(* ... and drain. *)
Drain ==
  /\ pc = "drain"
  /\ p_img' = img
  /\ log_entries' = SubSeq(log_entries, 1, Len(log_entries) - 1)
  /\ pc' = "apply"
  /\ UNCHANGED <<deps, img, i, result, n, cur_off, img0, crashes>>

ApplyDone ==
  /\ pc = "apply"
  /\ log_entries = <<>>
  /\ pc' = "done"
  /\ UNCHANGED <<deps, img, p_img, i, result, n, cur_off, log_entries, img0,
                 crashes>>

(* A failure keeps what is on the media and any part of what is not yet;   *)
(* the next open starts over.                                              *)
Failure ==
  /\ pc # "done"
  /\ crashes < MaxCrashes
  /\ crashes' = crashes + 1
  /\ \E S \in SUBSET Word :
       p_img' = [w \in Word |-> IF w \in S THEN img[w] ELSE p_img[w]]
  /\ img' = p_img'
  /\ pc' = "needs_recovery"
  /\ i' = 1
  /\ result' = <<>>
  /\ n' = 0
  /\ cur_off' = 0
  /\ log_entries' = <<>>
  /\ UNCHANGED <<deps, img0>>

Step == \/ needs_recovery \/ NothingFound \/ Scan \/ ScanDone \/ Apply \/ Drain
        \/ ApplyDone

Next == Step \/ Failure

Spec == Init /\ [][Next]_vars /\ WF_vars(Step)

-----------------------------------------------------------------------------
(* Properties *)

NeedsRecovery(j) == deps[j].exists /\ deps[j].state = "ACTIVE"

(* The entries of a log that undo something in this file. *)
Effective(lg) ==
  {k \in DOMAIN lg.content : /\ lg.content[k].off < lg.log_offset
                             /\ lg.content[k].addr \in Word}

(* x is the image before with log lg undone: a word has the old value of   *)
(* the first effective entry that covers it.                               *)
IsUndone(x, before, lg) ==
  \A w \in Word :
    /\ (\A k \in Effective(lg) : w \notin WordsOf(lg.content[k]))
         => x[w] = before[w]
    /\ \A k \in Effective(lg) :
         (/\ w \in WordsOf(lg.content[k])
          /\ \A j \in Effective(lg) : w \in WordsOf(lg.content[j]) => k <= j)
         => x[w] = lg.content[k].old[w]

(* When the constructor returns, the backing file is on the media what it  *)
(* was before, with the first ACTIVE log undone, however often a failure   *)
(* in the middle of a replay made it start over on a half-undone file.     *)
ReplayIsUndo ==
  pc = "done" =>
    /\ p_img = img
    /\ (\A j \in DOMAIN deps : ~NeedsRecovery(j)) => img = img0
    /\ \A j \in DOMAIN deps :
         (NeedsRecovery(j) /\ \A m \in 1 .. j - 1 : ~NeedsRecovery(m))
           => IsUndone(img, img0, deps[j])

(* recovery.hh: recover() recovers "all the outstanding logs in the file". *)
AllRecovered ==
  pc = "done" =>
    \A j \in DOMAIN deps :
      NeedsRecovery(j) => \E m \in DOMAIN result : result[m] = j
=============================================================================
