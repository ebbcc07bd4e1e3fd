--------------------------- MODULE Backing_proofs ---------------------------
(***************************************************************************)
(* What reaches the backing file, for every value of the constants.  For   *)
(* any number of threads, words, stores and snapshots: what is not in the  *)
(* backing file is still in a log (Threads, UpdatesTracked), and a         *)
(* snapshot that nobody disturbs takes everything (SnapshotTakesAll).  For *)
(* any number of pages, opens and snapshots: a process that has mapped its *)
(* file sees what the last snapshots wrote (BackingFile, ReopenRestores),  *)
(* and its backing file agrees with it (BackingAgrees).                    *)
(***************************************************************************)
EXTENDS Threads, BackingFile, SequenceTheorems, WellFoundedInduction, TLAPS

-----------------------------------------------------------------------------
(* Threads: the inductive invariant is ThInv of module Threads.            *)

\* No thread has stored anything yet.
LEMMA ThInitial == ThInit => ThInv
  <1> SUFFICES ASSUME ThInit PROVE ThInv BY Zenon
  <1>1. ThTypeOK BY DEF ThInit, ThTypeOK
  <1>2. WalkOK BY ThreadsAssumption, Zenon DEF ThInit, WalkOK
  <1>3. Unregistered BY Zenon DEF ThInit, Unregistered
  <1>4. CalmWalk BY Zenon DEF ThInit, CalmWalk
  <1>5. UpdatesTracked BY Zenon DEF ThInit, UpdatesTracked
  <1> QED BY <1>1, <1>2, <1>3, <1>4, <1>5, Zenon DEF ThInv

\* The words of the log that is being walked, and of the others.
LEMMA AheadOf ==
  ASSUME NEW t \in Thr
  PROVE  /\ ~ (phase \in {"copy", "clear"} /\ tls_logs[nth] = t)
              => Ahead(t) = {entries[t][i] : i \in DOMAIN entries[t]}
         /\ phase = "copy" /\ tls_logs[nth] = t
              => Ahead(t) = {entries[t][i] : i \in {j \in DOMAIN entries[t] :
                                                    j > pos /\ ~ Skip(entries[t], j)}}
         /\ phase = "clear" /\ tls_logs[nth] = t => Ahead(t) = {}
  BY Zenon DEF Ahead

\* A step that leaves the logs and the walk alone leaves Ahead alone.
LEMMA AheadSame ==
  ASSUME UNCHANGED <<entries, phase, nth, pos>>,
         phase \in {"copy", "clear"} => tls_logs'[nth] = tls_logs[nth],
         NEW t \in Thr
  PROVE  Ahead(t)' = Ahead(t)
  BY Zenon DEF Ahead

\* A run of equal entries has a first one, which is not skipped.
LEMMA FirstOfRun ==
  ASSUME NEW s \in Seq(TWords), NEW j \in DOMAIN s
  PROVE  \E i \in DOMAIN s : s[i] = s[j] /\ ~ Skip(s, i)
  <1> DEFINE R == OpToRel(<, Nat)
             T == {i \in 1..j : \A k \in i..j : s[k] = s[j]}
  <1>0. j \in Nat /\ 1 <= j /\ j <= Len(s) /\ Len(s) \in Nat /\ DOMAIN s = 1..Len(s) OBVIOUS
  <1>1. j \in T
    <2>1. \A k \in j..j : k = j BY <1>0
    <2> QED BY <2>1, <1>0
  <1>2. T \subseteq Nat /\ T # {} BY <1>1
  <1>3. IsWellFoundedOn(R, Nat) BY NatLessThanWellFounded, Zenon
  <1> HIDE DEF T
  <1>4. PICK i \in T : \A k \in T : ~(<<k, i>> \in R) BY <1>2, <1>3, WFMin, Zenon
  <1>5. i \in 1..j /\ \A k \in i..j : s[k] = s[j] BY <1>4, Zenon DEF T
  <1>6. i \in DOMAIN s /\ s[i] = s[j]
    <2>1. i \in i..j BY <1>5, <1>0
    <2> QED BY <2>1, <1>5, <1>0
  <1>7. ASSUME Skip(s, i) PROVE FALSE
    <2>1. i > 1 /\ s[i] = s[i - 1] BY <1>7, Zenon DEF Skip
    <2>2. i - 1 \in 1..j /\ i - 1 \in Nat /\ i \in Nat /\ i - 1 < i BY <2>1, <1>5, <1>0
    <2>3. ASSUME NEW k \in (i - 1)..j PROVE s[k] = s[j]
      <3>1. k = i - 1 \/ k \in i..j BY <2>2, <1>0
      <3> QED BY <3>1, <2>1, <1>5, <1>6, Zenon
    <2>4. i - 1 \in T BY <2>2, <2>3, Zenon DEF T
    <2>5. <<i - 1, i>> \in R BY <2>2 DEF OpToRel
    <2> QED BY <2>4, <2>5, <1>4, Zenon
  <1> QED BY <1>6, <1>7, Zenon

\* A walk begins with every word of its log ahead, sorted or not.
LEMMA WalkBegins ==
  ASSUME ThTypeOK, NEW list \in Seq(TWords), NEW l \in [DOMAIN list -> TWords],
         Sorted(l, list) \/ l = list
  PROVE  /\ l \in Seq(TWords)
         /\ \A j \in DOMAIN list : \E i \in DOMAIN l : l[i] = list[j] /\ ~ Skip(l, i) /\ i > 0
  <1>1. l \in Seq(TWords) BY IsASeq
  <1>2. ASSUME NEW j \in DOMAIN list PROVE \E k \in DOMAIN l : l[k] = list[j]
    <2>1. CASE l = list BY <2>1, Zenon
    <2>2. CASE Sorted(l, list)
      <3>1. PICK f \in [DOMAIN list -> DOMAIN list] :
              /\ \A m \in DOMAIN list : \E i \in DOMAIN list : f[i] = m
              /\ l = [i \in DOMAIN list |-> list[f[i]]]
        BY <2>2, Zenon DEF Sorted
      <3>2. PICK i \in DOMAIN list : f[i] = j BY <3>1, Zenon
      <3>3. l[i] = list[j] /\ i \in DOMAIN l BY <3>1, <3>2, Zenon
      <3> QED BY <3>3, Zenon
    <2> QED BY <2>1, <2>2, Zenon
  <1>3. ASSUME NEW j \in DOMAIN list
        PROVE  \E i \in DOMAIN l : l[i] = list[j] /\ ~ Skip(l, i) /\ i > 0
    <2>1. PICK k \in DOMAIN l : l[k] = list[j] BY <1>2, Zenon
    <2>2. PICK i \in DOMAIN l : l[i] = l[k] /\ ~ Skip(l, i) BY <1>1, FirstOfRun, Zenon
    <2>3. i > 0 BY <1>1
    <2> QED BY <2>1, <2>2, <2>3, Zenon
  <1> QED BY <1>1, <1>3, Zenon

\* UpdatesTracked survives a step that changes no word and drops no entry.
LEMMA TrackedKept ==
  ASSUME UpdatesTracked, UNCHANGED <<tmem, tback, raced>>,
         \A t \in Thr : Ahead(t) \subseteq Ahead(t)'
  PROVE  UpdatesTracked'
  BY Zenon DEF UpdatesTracked

\* A thread makes its log.
LEMMA RegisterStep ==
  ASSUME ThInv, NEW t \in Thr, cxlbuf_reg_tls_log(t)
  PROVE  ThInv'
  <1> USE DEF ThInv, cxlbuf_reg_tls_log, snvars
  <1>0. phase = "none" BY Zenon DEF WalkOK
  <1>1. ThTypeOK' BY DEF ThTypeOK
  <1>2. WalkOK' BY <1>0, Zenon DEF WalkOK
  <1>3. Registered \subseteq Registered'
    <2>1. \A i \in DOMAIN tls_logs : i \in DOMAIN tls_logs' /\ tls_logs'[i] = tls_logs[i]
      BY DEF ThTypeOK
    <2> QED BY <2>1, Zenon DEF Registered
  <1>4. Unregistered' BY <1>3, Zenon DEF Unregistered
  <1>5. CalmWalk' BY <1>0, Zenon DEF CalmWalk
  <1>6. UpdatesTracked' BY <1>0, AheadSame, TrackedKept, Zenon
  <1> QED BY <1>1, <1>2, <1>4, <1>5, <1>6, Zenon

\* checkMemory appends an entry.
LEMMA CheckStep ==
  ASSUME ThInv, NEW t \in Thr, NEW w \in TWords, checkMemory(t, w)
  PROVE  ThInv'
  <1> USE DEF ThInv, checkMemory, snvars
  <1>1. ThTypeOK' BY DEF ThTypeOK
  <1>2. WalkOK' BY Zenon DEF WalkOK
  <1>3. Unregistered'
    <2>1. Registered' = Registered BY Zenon DEF Registered
    <2> QED BY <2>1, Zenon DEF Unregistered, ThTypeOK
  <1>4. CalmWalk' BY Zenon DEF CalmWalk
  <1>5. ASSUME NEW u \in Thr PROVE Ahead(u) \subseteq Ahead(u)'
    <2>1. \A i \in DOMAIN entries[u] : i \in DOMAIN entries'[u] /\ entries'[u][i] = entries[u][i]
      BY SMTT(30) DEF ThTypeOK
    <2>2. \A i \in DOMAIN entries[u] : i > 1 => i - 1 \in DOMAIN entries[u] BY DEF ThTypeOK
    <2>3. \A i \in DOMAIN entries[u] : Skip(entries'[u], i) => Skip(entries[u], i)
      BY <2>1, <2>2, Zenon DEF Skip
    <2> QED BY <2>1, <2>3, Zenon DEF Ahead
  <1>6. UpdatesTracked' BY <1>5, TrackedKept, Zenon
  <1> QED BY <1>1, <1>2, <1>3, <1>4, <1>6, Zenon

\* The store itself: its word is ahead of the walk, or raced.
LEMMA StoreStep ==
  ASSUME ThInv, NEW t \in Thr, TStore(t)
  PROVE  ThInv'
  <1> USE DEF ThInv, TStore, snvars
  <1>1. ThTypeOK' BY DEF ThTypeOK
  <1>2. WalkOK' BY Zenon DEF WalkOK
  <1>3. Unregistered'
    <2>1. Registered' = Registered BY Zenon DEF Registered
    <2> QED BY <2>1, Zenon DEF Unregistered, ThTypeOK
  <1>4. CalmWalk' BY Zenon DEF CalmWalk
  <1>5. \A u \in Thr : Ahead(u)' = Ahead(u) BY AheadSame, Zenon
  <1>6. ASSUME NEW w \in TWords
        PROVE  tback'[w] = tmem'[w] \/ w \in raced' \/ \E u \in Thr : w \in Ahead(u)'
    <2>1. CASE w = pend[t] BY <2>1, <1>5, Zenon
    <2>2. CASE w # pend[t]
      <3>1. tmem'[w] = tmem[w] BY <2>2, Zenon DEF ThTypeOK
      <3>2. raced \subseteq raced' BY Zenon
      <3> QED BY <3>1, <3>2, <1>5, Zenon DEF UpdatesTracked
    <2> QED BY <2>1, <2>2, Zenon
  <1>7. UpdatesTracked' BY <1>6, Zenon DEF UpdatesTracked
  <1> QED BY <1>1, <1>2, <1>3, <1>4, <1>7, Zenon

\* snapshot() is called.
LEMMA CallStep ==
  ASSUME ThInv, NEW t \in Thr, snapshot(t)
  PROVE  ThInv'
  <1> USE DEF ThInv, snapshot
  <1>0. phase = "none" BY Zenon DEF WalkOK
  <1>1. ThTypeOK' BY Zenon DEF ThTypeOK
  <1>2. WalkOK' BY ThreadsAssumption DEF WalkOK
  <1>3. Unregistered'
    <2>1. Registered' = Registered BY Zenon DEF Registered
    <2> QED BY <2>1, Zenon DEF Unregistered
  <1>4. CalmWalk'
    <2>1. \A i \in DOMAIN tls_logs : ~ (i < 1) BY DEF ThTypeOK
    <2> QED BY <2>1, Zenon DEF CalmWalk
  <1>5. \A u \in Thr : Ahead(u)' = Ahead(u) BY <1>0, Zenon DEF Ahead
  <1>6. UpdatesTracked' BY <1>5, TrackedKept, Zenon
  <1> QED BY <1>1, <1>2, <1>3, <1>4, <1>6, Zenon

\* The walk goes on to the next log, or ends.
LEMMA NextLogStep ==
  ASSUME ThInv, NextLog
  PROVE  ThInv'
  <1> USE DEF ThInv
  <1> DEFINE c == tls_logs[nth]
  <1>0. /\ phase = "log" /\ pos' = 0
        /\ UNCHANGED <<tmem, tls_logs, pend, nth, tstores, calm>>
    BY Zenon DEF NextLog
  <1>1. nth \in Nat /\ Len(tls_logs) \in Nat /\ nth >= 1 BY <1>0 DEF ThTypeOK, WalkOK
  <1>2. Registered' = Registered BY <1>0, Zenon DEF Registered
  <1>3. CASE nth > Len(tls_logs)
    <2>1. caller' = NoThread /\ phase' = "none" /\ UNCHANGED <<tback, entries, raced>>
      BY <1>3, Zenon DEF NextLog
    <2>2. ThTypeOK' BY <1>0, <2>1, Zenon DEF ThTypeOK
    <2>3. WalkOK' BY <2>1, Zenon DEF WalkOK
    <2>4. Unregistered' BY <1>0, <1>2, <2>1, Zenon DEF Unregistered
    <2>5. CalmWalk' BY <2>1, Zenon DEF CalmWalk
    <2>6. ASSUME NEW u \in Thr PROVE Ahead(u) \subseteq Ahead(u)'
      BY <1>0, <2>1, Zenon DEF Ahead
    <2>7. UpdatesTracked' BY <1>0, <2>1, <2>6, TrackedKept, Zenon
    <2> QED BY <2>2, <2>3, <2>4, <2>5, <2>7, Zenon
  <1>4. CASE ~ (nth > Len(tls_logs))
    <2>0. nth \in DOMAIN tls_logs /\ c \in Thr /\ entries[c] \in Seq(TWords)
      BY <1>1, <1>4 DEF ThTypeOK
    <2>1. PICK l \in [DOMAIN entries[c] -> TWords] :
            /\ Sorted(l, entries[c]) \/ l = entries[c]
            /\ entries' = [entries EXCEPT ![c] = l]
      BY <1>4, Zenon DEF NextLog
    <2>2. /\ phase' = "copy" /\ UNCHANGED caller
          /\ tback' = IF firstSnapshot THEN tmem ELSE tback
          /\ raced' = IF firstSnapshot THEN {} ELSE raced
      BY <1>4, Zenon DEF NextLog
    <2>3. /\ l \in Seq(TWords)
          /\ \A j \in DOMAIN entries[c] :
               \E i \in DOMAIN l : l[i] = entries[c][j] /\ ~ Skip(l, i) /\ i > 0
      BY <2>0, <2>1, WalkBegins, Zenon
    <2>4. ThTypeOK'
      <3>1. entries' \in [Thr -> Seq(TWords)] BY <2>1, <2>3, Zenon DEF ThTypeOK
      <3>2. tback' \in [TWords -> Int] BY <2>2, Zenon DEF ThTypeOK
      <3>3. pos' \in Nat BY <1>0
      <3> QED BY <1>0, <3>1, <3>2, <3>3, Zenon DEF ThTypeOK
    <2>5. WalkOK'
      <3>1. nth <= Len(tls_logs) BY <1>1, <1>4
      <3> QED BY <1>0, <2>2, <3>1, Zenon DEF WalkOK
    <2>6. \A t \in Thr : t # c => entries'[t] = entries[t] BY <2>1, Zenon DEF ThTypeOK
    <2>7. entries'[c] = l BY <2>0, <2>1, Zenon DEF ThTypeOK
    <2>8. Unregistered'
      <3>1. c \in Registered BY <2>0, Zenon DEF Registered
      <3> QED BY <1>0, <1>2, <2>6, <3>1, Zenon DEF Unregistered
    <2>9. CalmWalk'
      <3> SUFFICES ASSUME calm, NEW i \in DOMAIN tls_logs, i < nth, tls_logs[i] \in Thr
                   PROVE  entries'[tls_logs[i]] = <<>>
        <4>1. \A i \in DOMAIN tls_logs : tls_logs[i] \in Thr BY DEF ThTypeOK
        <4> QED BY <4>1, <1>0, Zenon DEF CalmWalk
      <3>1. entries[tls_logs[i]] = <<>> BY <1>0, Zenon DEF CalmWalk
      <3>2. CASE tls_logs[i] # c BY <3>1, <3>2, <2>6, Zenon
      <3>3. CASE tls_logs[i] = c
        <4>1. entries[c] = <<>> BY <3>1, <3>3, Zenon
        <4>2. DOMAIN l = {} BY <4>1, <2>1
        <4> QED BY <4>2, <2>3, <2>7, <3>3
      <3> QED BY <3>2, <3>3, Zenon
    <2>10. ASSUME NEW u \in Thr PROVE Ahead(u) \subseteq Ahead(u)'
      <3>1. CASE u # c BY <3>1, <1>0, <2>6, Zenon DEF Ahead
      <3>2. CASE u = c
        <4> SUFFICES ASSUME NEW x \in Ahead(u) PROVE x \in Ahead(u)' BY Zenon
        <4>1. PICK j \in DOMAIN entries[c] : x = entries[c][j] BY <3>2, Zenon DEF Ahead
        <4>2. PICK i \in DOMAIN l : l[i] = x /\ ~ Skip(l, i) /\ i > 0 BY <4>1, <2>3, Zenon
        <4>3. entries'[u] = l BY <2>7, <3>2, Zenon
        <4> QED BY <4>2, <4>3, <2>2, <1>0, Zenon DEF Ahead
      <3> QED BY <3>1, <3>2, Zenon
    <2>11. UpdatesTracked' BY <1>0, <2>2, <2>10, Zenon DEF UpdatesTracked
    <2> QED BY <2>4, <2>5, <2>8, <2>9, <2>11, Zenon
  <1> QED BY <1>3, <1>4, Zenon

\* One entry is copied, or the end of the list is reached.
LEMMA CopyStep ==
  ASSUME ThInv, CopyEntry
  PROVE  ThInv'
  <1> USE DEF ThInv, CopyEntry
  <1> DEFINE c == tls_logs[nth]
  <1>0. nth \in DOMAIN tls_logs /\ c \in Thr /\ entries[c] \in Seq(TWords)
    BY DEF WalkOK, ThTypeOK
  <1>1. ThTypeOK'
    <2>1. UNCHANGED <<tmem, entries, tls_logs, pend, nth, tstores>> BY Zenon
    <2>2. pos' \in Nat BY SMTT(30) DEF ThTypeOK
    <2>3. tback' \in [TWords -> Int]
      <3>1. CASE pos < Len(entries[c])
        <4>1. entries[c][pos + 1] \in TWords BY <1>0, <3>1 DEF ThTypeOK
        <4>2. \/ tback' = [tback EXCEPT ![entries[c][pos + 1]] = tmem[entries[c][pos + 1]]]
              \/ tback' = tback
          BY <3>1, Zenon
        <4> QED BY <4>1, <4>2, Zenon DEF ThTypeOK
      <3>2. CASE ~ (pos < Len(entries[c])) BY <3>2, Zenon DEF ThTypeOK
      <3> QED BY <3>1, <3>2, Zenon
    <2> QED BY <2>1, <2>2, <2>3, Zenon DEF ThTypeOK
  <1>2. WalkOK'
    <2>1. phase = "copy" /\ phase' \in {"copy", "clear"} /\ UNCHANGED <<caller, nth, tls_logs>>
      BY Zenon
    <2> QED BY <2>1, Zenon DEF WalkOK
  <1>3. Unregistered'
    <2>1. Registered' = Registered BY Zenon DEF Registered
    <2> QED BY <2>1, Zenon DEF Unregistered
  <1>4. CalmWalk' BY Zenon DEF CalmWalk
  <1>5. CASE pos < Len(entries[c]) /\ ~ Skip(entries[c], pos + 1)
    <2> DEFINE e == entries[c][pos + 1]
    <2>1. e \in TWords BY <1>0, <1>5 DEF ThTypeOK
    <2>2. tback' = [tback EXCEPT ![e] = tmem[e]] /\ raced' = raced \ {e} /\ pos' = pos + 1
      BY <1>5, Zenon
    <2>3. phase = "copy" /\ phase' = "copy" BY <1>5, Zenon
    <2>4. ASSUME NEW u \in Thr PROVE Ahead(u) \subseteq Ahead(u)' \cup {e}
      <3>1. CASE u # c BY <3>1, <2>3, Zenon DEF Ahead
      <3>2. CASE u = c
        <4> SUFFICES ASSUME NEW x \in Ahead(c), x # e PROVE x \in Ahead(c)'
          BY <3>2, Zenon
        <4>1. PICK j \in DOMAIN entries[c] :
                j > pos /\ x = entries[c][j] /\ ~ Skip(entries[c], j)
          <5>1. Ahead(c) = {entries[c][i] : i \in {k \in DOMAIN entries[c] :
                                                    k > pos /\ ~ Skip(entries[c], k)}}
            BY <2>3, Zenon DEF Ahead
          <5> QED BY <5>1, Zenon
        <4>2. j > pos + 1
          <5>1. j # pos + 1 BY <4>1, Zenon
          <5>2. pos \in Nat BY Zenon DEF ThTypeOK
          <5> HIDE DEF CopyEntry, ThInv, e, c
          <5>3. j \in 1..Len(entries[c]) /\ Len(entries[c]) \in Nat BY <1>0
          <5> QED BY <5>1, <5>2, <5>3, <4>1
        <4>3. Ahead(c)' = {entries[c][i] : i \in {k \in DOMAIN entries[c] :
                                                   k > pos + 1 /\ ~ Skip(entries[c], k)}}
          BY <2>2, <2>3, Zenon DEF Ahead
        <4> QED BY <4>1, <4>2, <4>3, Zenon
      <3> QED BY <3>1, <3>2, Zenon
    <2>5. ASSUME NEW w \in TWords
          PROVE  tback'[w] = tmem'[w] \/ w \in raced' \/ \E u \in Thr : w \in Ahead(u)'
      <3>1. CASE w = e BY <3>1, <2>1, <2>2, Zenon DEF ThTypeOK
      <3>2. CASE w # e
        <4>1. tback'[w] = tback[w] BY <3>2, <2>2, Zenon DEF ThTypeOK
        <4> QED BY <4>1, <3>2, <2>2, <2>4, Zenon DEF UpdatesTracked
      <3> QED BY <3>1, <3>2, Zenon
    <2>6. UpdatesTracked' BY <2>5, Zenon DEF UpdatesTracked
    <2> QED BY <1>1, <1>2, <1>3, <1>4, <2>6, Zenon
  <1>6. CASE ~ (pos < Len(entries[c]))
    <2>1. ASSUME NEW u \in Thr PROVE Ahead(u) \subseteq Ahead(u)'
      <3>1. ~ \E j \in DOMAIN entries[c] : j > pos BY <1>0, <1>6 DEF ThTypeOK
      <3> QED BY <3>1, <1>6, Zenon DEF Ahead
    <2>2. UpdatesTracked' BY <1>6, <2>1, Zenon DEF UpdatesTracked
    <2> QED BY <1>1, <1>2, <1>3, <1>4, <2>2, Zenon
  <1>7. CASE pos < Len(entries[c]) /\ Skip(entries[c], pos + 1)
    <2>1. UNCHANGED <<tback, raced, tmem, entries, tls_logs, nth>> /\ pos' = pos + 1
      BY <1>7, Zenon
    <2>2. phase = "copy" /\ phase' = "copy" BY <1>7, Zenon
    <2>3. ASSUME NEW u \in Thr PROVE Ahead(u) \subseteq Ahead(u)'
      <3>1. CASE u # c BY <3>1, <2>1, <2>2, Zenon DEF Ahead
      <3>2. CASE u = c
        <4> SUFFICES ASSUME NEW x \in Ahead(c) PROVE x \in Ahead(c)' BY <3>2, Zenon
        <4>1. PICK j \in DOMAIN entries[c] :
                j > pos /\ x = entries[c][j] /\ ~ Skip(entries[c], j)
          <5>1. Ahead(c) = {entries[c][i] : i \in {k \in DOMAIN entries[c] :
                                                    k > pos /\ ~ Skip(entries[c], k)}}
            BY <2>2, Zenon DEF Ahead
          <5> QED BY <5>1, Zenon
        <4>2. j > pos + 1
          <5>1. j # pos + 1 BY <4>1, <1>7, Zenon
          <5>2. pos \in Nat BY Zenon DEF ThTypeOK
          <5> HIDE DEF CopyEntry, ThInv, c
          <5>3. j \in 1..Len(entries[c]) /\ Len(entries[c]) \in Nat BY <1>0
          <5> QED BY <5>1, <5>2, <5>3, <4>1
        <4>3. Ahead(c)' = {entries[c][i] : i \in {k \in DOMAIN entries[c] :
                                                   k > pos + 1 /\ ~ Skip(entries[c], k)}}
          BY <2>1, <2>2, Zenon DEF Ahead
        <4> QED BY <4>1, <4>2, <4>3, Zenon
      <3> QED BY <3>1, <3>2, Zenon
    <2>4. UpdatesTracked' BY <2>1, <2>3, TrackedKept, Zenon
    <2> QED BY <1>1, <1>2, <1>3, <1>4, <2>4, Zenon
  <1> QED BY <1>5, <1>6, <1>7, Zenon

\* The log is emptied: everything that was ahead in it has been copied.
LEMMA ClearStep ==
  ASSUME ThInv, ClearLog
  PROVE  ThInv'
  <1> USE DEF ThInv, ClearLog
  <1> DEFINE c == tls_logs[nth]
  <1>0. nth \in DOMAIN tls_logs /\ c \in Thr BY DEF WalkOK, ThTypeOK
  <1>1. ThTypeOK' BY <1>0 DEF ThTypeOK
  <1>2. WalkOK'
    <2>1. nth' >= 1 BY DEF WalkOK, ThTypeOK
    <2> QED BY <2>1, Zenon DEF WalkOK
  <1>3. Unregistered'
    <2>1. Registered' = Registered BY Zenon DEF Registered
    <2> QED BY <2>1, <1>0, Zenon DEF Unregistered, ThTypeOK
  <1>4. CalmWalk'
    <2> SUFFICES ASSUME calm
                 PROVE  /\ \A t \in Thr : pend[t] = NoWord
                        /\ \A i \in DOMAIN tls_logs : i < nth + 1 => entries'[tls_logs[i]] = <<>>
      BY Zenon DEF CalmWalk
    <2>1. \A t \in Thr : pend[t] = NoWord BY Zenon DEF CalmWalk
    <2>2. ASSUME NEW i \in DOMAIN tls_logs, i < nth + 1 PROVE entries'[tls_logs[i]] = <<>>
      <3>0. tls_logs[i] \in Thr BY DEF ThTypeOK
      <3>1. CASE i = nth BY <3>1, <3>0, Zenon DEF ThTypeOK
      <3>2. CASE i # nth
        <4>1. i < nth BY <2>2, <3>2 DEF ThTypeOK
        <4>2. entries[tls_logs[i]] = <<>> BY <4>1, Zenon DEF CalmWalk
        <4> QED BY <4>2, <3>0, Zenon DEF ThTypeOK
      <3> QED BY <3>1, <3>2, Zenon
    <2> QED BY <2>1, <2>2, Zenon
  <1>5. ASSUME NEW u \in Thr PROVE Ahead(u) \subseteq Ahead(u)'
    BY <1>0, Zenon DEF Ahead, ThTypeOK
  <1>6. UpdatesTracked' BY <1>5, TrackedKept, Zenon
  <1> QED BY <1>1, <1>2, <1>3, <1>4, <1>6, Zenon

\* ThInv is inductive.
LEMMA ThStep == ThInv /\ [ThNext]_thvars => ThInv'
  <1> SUFFICES ASSUME ThInv, [ThNext]_thvars PROVE ThInv' BY Zenon
  <1>1. CASE UNCHANGED thvars
    <2> USE <1>1 DEF thvars, ThInv
    <2>1. ThTypeOK' BY Zenon DEF ThTypeOK
    <2>2. WalkOK' BY Zenon DEF WalkOK
    <2>3. Unregistered' BY Zenon DEF Unregistered, Registered
    <2>4. CalmWalk' BY Zenon DEF CalmWalk
    <2>5. UpdatesTracked' BY AheadSame, TrackedKept, Zenon
    <2> QED BY <2>1, <2>2, <2>3, <2>4, <2>5, Zenon
  <1>2. CASE ThNext
    BY <1>2, RegisterStep, CheckStep, StoreStep, CallStep, NextLogStep, CopyStep, ClearStep, Zenon
       DEF ThNext
  <1> QED BY <1>1, <1>2, Zenon

\* UpdatesTracked, for every number of threads and words and any run of stores
\* and snapshots: what the backing file lacks is in some log still to be copied,
\* or a snapshot had passed its entry, or was to skip it, when the store came.
THEOREM TrackedAlways == ThSpec => []UpdatesTracked
  <1>1. ThInv => UpdatesTracked BY Zenon DEF ThInv
  <1> QED BY ThInitial, ThStep, <1>1, PTL DEF ThSpec

\* SnapshotTakesAll: at the end of a snapshot that no other thread disturbed
\* all logs are empty, so nothing can be missing in the backing file.
THEOREM CalmSnapshotComplete == ThSpec => SnapshotTakesAll
  <1> DEFINE TakesAll == caller # NoThread /\ caller' = NoThread /\ calm /\ raced = {}
                           => tback' = tmem'
  <1>1. ASSUME ThInv, [ThNext]_thvars PROVE [TakesAll]_thvars
    <2> SUFFICES ASSUME ThNext, caller # NoThread, caller' = NoThread, calm, raced = {}
                 PROVE  tback' = tmem'
      BY <1>1, Zenon
    <2> USE <1>1 DEF ThInv
    <2>1. NextLog
      BY ThreadsAssumption, Zenon
         DEF ThNext, cxlbuf_reg_tls_log, checkMemory, TStore, snapshot, CopyEntry, ClearLog, snvars
    <2>2. phase = "log" /\ nth > Len(tls_logs) /\ UNCHANGED <<tmem, tback>>
      BY <2>1, Zenon DEF NextLog
    <2>3. ASSUME NEW t \in Thr PROVE entries[t] = <<>>
      <3>1. CASE t \in Registered
        <4>1. PICK i \in DOMAIN tls_logs : tls_logs[i] = t BY <3>1, Zenon DEF Registered
        <4>2. i < nth BY <2>2 DEF ThTypeOK
        <4> QED BY <4>1, <4>2, <2>2, Zenon DEF CalmWalk
      <3>2. CASE t \notin Registered BY <3>2, Zenon DEF Unregistered
      <3> QED BY <3>1, <3>2, Zenon
    <2>4. \A t \in Thr : Ahead(t) = {} BY <2>2, <2>3 DEF Ahead
    <2>5. \A w \in TWords : tback[w] = tmem[w] BY <2>4, Zenon DEF UpdatesTracked
    <2> QED BY <2>2, <2>5 DEF ThTypeOK
  <1>2. QED BY ThInitial, ThStep, <1>1, PTL DEF ThSpec, SnapshotTakesAll

-----------------------------------------------------------------------------
(* BackingFile: the inductive invariant is BkInv of module BackingFile.    *)

\* A file is a function from 1 to its length.
LEMMA PageSeq ==
  ASSUME NEW n \in Nat, NEW f \in [1..n -> Page]
  PROVE  f \in Seq(Page) /\ Len(f) = n
  OBVIOUS

\* A backing file that exists, empty or not, is not an absent one.
LEMMA NotAbsent ==
  ASSUME NEW s \in Seq(Page)
  PROVE  s # Absent
  <1> SUFFICES ASSUME s = Absent PROVE FALSE BY Zenon
  <1>1. Len(s) = 1 /\ s[1] = -2 BY Zenon DEF Absent
  <1>2. s[1] \in Page BY <1>1, ElementOfSeq
  <1> QED BY <1>1, <1>2 DEF Page, Spoilt

\* Before the first open nothing has been committed.
LEMMA BkInitial == BkInit => BkInv
  <1> SUFFICES ASSUME BkInit PROVE BkInv BY Zenon
  <1> USE BackingAssumption
  <1>1. PICK n \in Nat : orig = Zeros(n) BY DEF BkInit
  <1>2. orig \in Seq(Page) /\ Len(orig) = n /\ \A p \in 1..n : orig[p] = 0
    <2>1. orig \in [1..n -> Page] BY <1>1, Zenon DEF Zeros, Page
    <2> QED BY <1>1, <2>1, PageSeq, Zenon DEF Zeros
  <1>3. committed \in [1..MapPages -> Page] /\ \A p \in 1..MapPages : committed[p] = 0
    BY Zenon DEF BkInit, Zeros, Page
  <1>4. BkTypeOK BY <1>2, <1>3, EmptySeq, Zenon DEF BkInit, BkTypeOK
  <1>5. FirstMaking BY <1>2, <1>3, Zenon DEF BkInit, FirstMaking, Untouched
  <1>6. Made BY Zenon DEF BkInit, Made
  <1>7. NotInFile BY <1>3 DEF NotInFile, DataPages
  <1>8. InBacking BY Zenon DEF BkInit, InBacking
  <1>9. InFile BY Zenon DEF BkInit, InFile
  <1> QED BY <1>4, <1>5, <1>6, <1>7, <1>8, <1>9, Zenon DEF BkInv

\* mmap begins.
LEMMA CreateStep ==
  ASSUME BkInv, create_backing_file
  PROVE  BkInv'
  <1> USE DEF BkInv, create_backing_file
  <1>1. BkTypeOK' BY Zenon DEF BkTypeOK
  <1>2. FirstMaking' BY Zenon DEF FirstMaking, Untouched
  <1>3. Made'
    <2>1. CASE bkup = Absent BY <2>1, Zenon DEF Made
    <2>2. CASE bkup # Absent
      <3>1. bkup \in Seq(Page) BY <2>2, Zenon DEF BkTypeOK
      <3>2. Len(bkup) \in Nat /\ Len(orig) \in Nat BY <3>1, LenProperties, Zenon DEF BkTypeOK
      <3> QED BY <2>2, <3>2, BackingAssumption DEF Made
    <2> QED BY <2>1, <2>2, Zenon
  <1>4. NotInFile' BY Zenon DEF NotInFile, DataPages
  <1>5. InBacking' BY Zenon DEF InBacking, DataPages
  <1>6. InFile' BY DEF InFile, DataPages
  <1> QED BY <1>1, <1>2, <1>3, <1>4, <1>5, <1>6, Zenon

\* The backing file of an empty file is made, then sized.
LEMMA AllocateStep ==
  ASSUME BkInv, AllocateBacking
  PROVE  BkInv'
  <1> USE DEF BkInv, AllocateBacking
  <1>0. Untouched BY Zenon DEF FirstMaking
  <1>1. bkup' \in Seq(Page) /\ \A p \in 1..Len(bkup') : bkup'[p] = 0
    <2>1. Zeros(MapPages) \in [1..MapPages -> Page] BY Zenon DEF Zeros, Page
    <2>2. Zeros(MapPages) \in Seq(Page) /\ Len(Zeros(MapPages)) = MapPages
      BY <2>1, PageSeq, BackingAssumption, Zenon
    <2>3. \A p \in 1..MapPages : Zeros(MapPages)[p] = 0 BY Zenon DEF Zeros
    <2>4. CASE bkup = Absent BY <2>4, EmptySeq
    <2>5. CASE bkup # Absent
      <3>1. bkup' = Zeros(MapPages) BY <2>5, Zenon
      <3> QED BY <2>2, <2>3, <3>1, Zenon
    <2> QED BY <2>4, <2>5, Zenon
  <1>2. bkup' # Absent BY <1>1, NotAbsent, Zenon
  <1>3. BkTypeOK' BY <1>1, Zenon DEF BkTypeOK
  <1>4. Untouched' BY <1>0, <1>1, Zenon DEF Untouched
  <1>5. FirstMaking' BY <1>4, Zenon DEF FirstMaking
  <1>6. Made' BY <1>2, Zenon DEF Made
  <1>7. NotInFile' BY Zenon DEF NotInFile, DataPages
  <1>8. Len(orig) \in Nat /\ Len(bkup') \in Nat BY <1>1, LenProperties, Zenon DEF BkTypeOK
  <1>9. InBacking' BY <1>4, <1>8, BackingAssumption DEF Untouched, InBacking, DataPages
  <1>10. InFile' BY <1>4, <1>8, BackingAssumption DEF Untouched, InFile, DataPages
  <1> QED BY <1>3, <1>5, <1>6, <1>7, <1>9, <1>10, Zenon

\* fs::copy_file makes the backing file or appends a page to it.
LEMMA CopyFileStep ==
  ASSUME BkInv, CopyFile
  PROVE  BkInv'
  <1> USE DEF BkInv
  <1>0. Untouched BY Zenon DEF FirstMaking, CopyFile
  <1>1. bkup' \in Seq(Page) /\ \A p \in 1..Len(bkup') : bkup'[p] = 0
    <2>1. CASE bkup = Absent BY <2>1, EmptySeq DEF CopyFile
    <2>2. CASE bkup # Absent /\ Len(bkup) < Len(orig)
      <3>1. bkup \in Seq(Page) /\ orig \in Seq(Page) BY <2>2, Zenon DEF BkTypeOK
      <3>2. Len(bkup) \in Nat /\ Len(orig) \in Nat BY <3>1, LenProperties, Zenon
      <3>3. orig[Len(bkup) + 1] = 0 BY <1>0, <2>2, <3>2 DEF Untouched
      <3>4. bkup' = Append(bkup, 0) BY <2>2, <3>3, Zenon DEF CopyFile
      <3>5. \A p \in 1..Len(bkup) : bkup[p] = 0 BY <1>0, <2>2, Zenon DEF Untouched
      <3>6. 0 \in Page BY Zenon DEF Page
      <3> QED BY <3>1, <3>2, <3>4, <3>5, <3>6, AppendProperties
    <2>3. CASE bkup # Absent /\ ~ (Len(bkup) < Len(orig))
      BY <1>0, <2>3 DEF Untouched, CopyFile, BkTypeOK
    <2> QED BY <2>1, <2>2, <2>3, Zenon
  <1>2. bkup' # Absent BY <1>1, NotAbsent, Zenon
  <1> USE DEF CopyFile
  <1>3. BkTypeOK'
    <2>1. bpc' \in {"copy", "map"} BY Zenon
    <2> QED BY <1>1, <2>1, Zenon DEF BkTypeOK
  <1>4. Untouched' BY <1>0, <1>1, Zenon DEF Untouched
  <1>5. FirstMaking' BY <1>4, Zenon DEF FirstMaking
  <1>6. Made' BY <1>2, Zenon DEF Made
  <1>7. NotInFile' BY Zenon DEF NotInFile, DataPages
  <1>8. Len(orig) \in Nat /\ Len(bkup') \in Nat BY <1>1, LenProperties, Zenon DEF BkTypeOK
  <1>9. InBacking' BY <1>4, <1>8, BackingAssumption DEF Untouched, InBacking, DataPages
  <1>10. InFile' BY <1>4, <1>8, BackingAssumption DEF Untouched, InFile, DataPages
  <1> QED BY <1>3, <1>5, <1>6, <1>7, <1>9, <1>10, Zenon

\* sendfile copies a page.
LEMMA SendPageStep ==
  ASSUME BkInv, SendFile, sent' = sent + 1
  PROVE  BkInv'
  <1> DEFINE n == IF Len(orig) > sent THEN Len(orig) ELSE sent + 1
  <1>0. /\ bpc = "send" /\ sent < MapPages /\ sent < Len(bkup)
        /\ orig' = [p \in 1..n |-> IF p = sent + 1 THEN bkup[p] ELSE orig[p]]
        /\ UNCHANGED <<bpc, short, bkup, view, commits, committed>>
    BY DEF SendFile, BkInv, BkTypeOK
  <1>1. /\ bkup # Absent /\ bkup \in Seq(Page) /\ orig \in Seq(Page)
        /\ sent \in Nat /\ MapPages \in Nat /\ sent <= Len(orig)
    BY <1>0, BackingAssumption, Zenon DEF BkInv, BkTypeOK, Made
  <1>2. Len(bkup) \in Nat /\ Len(orig) \in Nat /\ n \in Nat BY <1>1, LenProperties
  <1>3. orig' \in [1..n -> Page]
    <2>1. bkup[sent + 1] \in Page BY <1>0, <1>1, <1>2, ElementOfSeq
    <2>2. \A p \in 1..n : p # sent + 1 => p \in 1..Len(orig) BY <1>1, <1>2
    <2>3. \A p \in 1..Len(orig) : orig[p] \in Page BY <1>1, ElementOfSeq, Zenon
    <2> QED BY <1>0, <2>1, <2>2, <2>3, Zenon
  <1>4. orig' \in Seq(Page) /\ Len(orig') = n BY <1>2, <1>3, PageSeq, Zenon
  <1>5. /\ orig'[sent + 1] = bkup[sent + 1]
        /\ \A p \in 1..n : p # sent + 1 => p <= Len(orig) /\ orig'[p] = orig[p]
    BY <1>0, <1>1, <1>2
  <1> HIDE DEF n
  <1>6. n >= Len(orig) /\ sent + 1 <= n BY <1>1, <1>2 DEF n
  <1>7. BkTypeOK' BY <1>0, <1>1, <1>4 DEF BkInv, BkTypeOK
  <1>8. FirstMaking' BY <1>0, <1>1, Zenon DEF FirstMaking
  <1>9. Made' BY <1>0, <1>1, <1>2, <1>4, <1>6 DEF Made
  <1>10. NotInFile' BY <1>0, <1>1, <1>2, <1>4, <1>6 DEF BkInv, NotInFile, DataPages
  <1>11. InBacking'
    <2> SUFFICES ASSUME ~ short, NEW p \in DataPages
                 PROVE  IF p <= Len(bkup) THEN bkup[p] = committed[p]
                        ELSE p <= n => orig'[p] = committed[p]
      BY <1>0, <1>4, Zenon DEF InBacking, DataPages
    <2>1. IF p <= Len(bkup) THEN bkup[p] = committed[p]
          ELSE p <= Len(orig) => orig[p] = committed[p]
      BY <1>1, Zenon DEF BkInv, InBacking
    <2> QED BY <1>0, <1>1, <1>2, <1>5, <2>1 DEF DataPages
  <1>12. InFile'
    <2> SUFFICES ASSUME ~ short, NEW p \in DataPages, p <= sent + 1
                 PROVE  orig'[p] = committed[p]
      BY <1>0, Zenon DEF InFile, DataPages
    <2>1. CASE p = sent + 1
      <3>1. p <= Len(bkup) BY <1>0, <1>1, <1>2, <2>1
      <3> QED BY <1>1, <1>5, <2>1, <3>1, Zenon DEF BkInv, InBacking
    <2>2. CASE p # sent + 1
      <3>1. p <= sent /\ p \in 1..n BY <1>1, <1>2, <1>6, <2>2 DEF DataPages
      <3>2. orig[p] = committed[p] BY <1>0, <3>1, Zenon DEF BkInv, InFile
      <3> QED BY <1>5, <2>2, <3>1, <3>2, Zenon
    <2> QED BY <2>1, <2>2, Zenon
  <1> QED BY <1>7, <1>8, <1>9, <1>10, <1>11, <1>12, Zenon DEF BkInv

\* sendfile returns, perhaps too early.
LEMMA SendEndStep ==
  ASSUME BkInv, SendFile, bpc' = "map"
  PROVE  BkInv'
  <1>0. /\ bpc = "send" /\ bpc' = "map"
        /\ short' = (short \/ (sent < MapPages /\ sent < Len(bkup)))
        /\ UNCHANGED <<orig, sent, bkup, view, commits, committed>>
    BY Zenon DEF SendFile
  <1>1. /\ bkup # Absent /\ bkup \in Seq(Page) /\ orig \in Seq(Page)
        /\ sent \in Nat /\ MapPages \in Nat /\ short \in BOOLEAN
    BY <1>0, BackingAssumption, Zenon DEF BkInv, BkTypeOK, Made
  <1>2. Len(bkup) \in Nat /\ Len(orig) \in Nat BY <1>1, LenProperties, Zenon
  <1>3. ~ short' => ~ short /\ (sent >= MapPages \/ sent >= Len(bkup))
    <2>1. ~ short' => ~ short /\ ~ (sent < MapPages /\ sent < Len(bkup)) BY <1>0, Zenon
    <2>2. ~ (sent < MapPages /\ sent < Len(bkup)) => sent >= MapPages \/ sent >= Len(bkup)
      BY <1>1, <1>2
    <2> QED BY <2>1, <2>2, Zenon
  <1>4. short' \in BOOLEAN BY <1>0, <1>1, Zenon
  <1>5. BkTypeOK' BY <1>0, <1>4, Zenon DEF BkInv, BkTypeOK
  <1>6. FirstMaking' BY <1>0, <1>1, Zenon DEF FirstMaking
  <1>7. Made' BY <1>0, <1>1, Zenon DEF Made
  <1>8. NotInFile' BY <1>0, Zenon DEF BkInv, NotInFile, DataPages
  <1>9. InBacking'
    <2> SUFFICES ASSUME ~ short', NEW p \in DataPages
                 PROVE  IF p <= Len(bkup) THEN bkup[p] = committed[p]
                        ELSE p <= Len(orig) => orig[p] = committed[p]
      BY <1>0, Zenon DEF InBacking, DataPages
    <2> QED BY <1>1, <1>3, Zenon DEF BkInv, InBacking
  <1>10. InFile'
    <2> SUFFICES ASSUME ~ short', NEW p \in DataPages, p <= Len(orig)
                 PROVE  orig[p] = committed[p]
      BY <1>0, Zenon DEF InFile, DataPages
    <2>1. CASE p <= sent BY <1>0, <1>3, <2>1, Zenon DEF BkInv, InFile
    <2>2. CASE ~ (p <= sent)
      <3>1. ~ (p <= Len(bkup)) BY <1>1, <1>2, <1>3, <2>2 DEF DataPages
      <3> QED BY <1>1, <1>3, <3>1, Zenon DEF BkInv, InBacking
    <2> QED BY <2>1, <2>2, Zenon
  <1> QED BY <1>5, <1>6, <1>7, <1>8, <1>9, <1>10, Zenon DEF BkInv

\* The backing file and the file are mapped.
LEMMA MapStep ==
  ASSUME BkInv, map_backing_file
  PROVE  BkInv'
  <1> DEFINE m == IF Len(orig) < MapPages THEN Len(orig) ELSE MapPages
  <1>0. bpc = "map" /\ UNCHANGED <<orig, sent, commits, committed, short>>
    BY Zenon DEF map_backing_file
  <1>1. bkup # Absent /\ bkup \in Seq(Page) /\ orig \in Seq(Page) /\ MapPages \in Nat
    BY <1>0, BackingAssumption, Zenon DEF BkInv, BkTypeOK, Made
  <1>2. Len(bkup) \in Nat /\ Len(orig) \in Nat /\ m \in 0..Len(orig) /\ m <= MapPages
    BY <1>1, LenProperties
  <1>3. CASE bkup = <<>>
    <2>1. bpc' = "closed" /\ UNCHANGED <<bkup, view>> BY <1>3, Zenon DEF map_backing_file
    <2>2. BkTypeOK' BY <1>0, <2>1, Zenon DEF BkInv, BkTypeOK
    <2>3. FirstMaking' /\ Made' /\ InFile' BY <1>1, <2>1, Zenon DEF FirstMaking, Made, InFile
    <2>4. NotInFile' BY <1>0, Zenon DEF BkInv, NotInFile, DataPages
    <2>5. InBacking' BY <1>0, <2>1, Zenon DEF BkInv, InBacking, DataPages
    <2> QED BY <2>2, <2>3, <2>4, <2>5, Zenon DEF BkInv
  <1>4. CASE bkup # <<>>
    <2>1. /\ bkup' = [bkup EXCEPT ![1] = Spoilt] /\ view' = SubSeq(orig, 1, m)
          /\ bpc' = "run"
      BY <1>4, Zenon DEF map_backing_file
    <2>2. /\ bkup' \in Seq(Page) /\ Len(bkup') = Len(bkup)
          /\ \A p \in DataPages : p <= Len(bkup) => bkup'[p] = bkup[p]
      <3>1. DOMAIN bkup = 1..Len(bkup) BY <1>1, LenProperties, Zenon
      <3>2. Spoilt \in Page BY Zenon DEF Page
      <3>3. bkup \in [1..Len(bkup) -> Page] BY <1>1
      <3>4. bkup' \in [1..Len(bkup) -> Page] BY <2>1, <3>2, <3>3, Zenon
      <3>5. bkup' \in Seq(Page) /\ Len(bkup') = Len(bkup) BY <1>2, <3>4, PageSeq, Zenon
      <3>6. \A p \in DataPages : p # 1 BY <1>1 DEF DataPages
      <3>7. \A p \in DataPages : p <= Len(bkup) => p \in DOMAIN bkup
        BY <1>1, <1>2, <3>1 DEF DataPages
      <3> QED BY <2>1, <3>5, <3>6, <3>7, Zenon
    <2>3. /\ view' \in Seq(Page) /\ Len(view') = m
          /\ \A p \in 1..m : view'[p] = orig[p]
      BY <1>1, <1>2, <2>1, SubSeqProperties, SMTT(30)
    <2>4. bkup' # Absent BY <2>2, NotAbsent, Zenon
    <2>5. BkTypeOK' BY <1>0, <2>1, <2>2, <2>3, Zenon DEF BkInv, BkTypeOK
    <2>6. FirstMaking' BY <2>1, <2>4, Zenon DEF FirstMaking
    <2>7. Made' BY <1>0, <2>1, <2>3, <2>4, Zenon DEF Made
    <2>8. NotInFile' BY <1>0, Zenon DEF BkInv, NotInFile, DataPages
    <2>9. InBacking' BY <1>0, <1>1, <2>2, Zenon DEF BkInv, InBacking, DataPages
    <2>10. InFile'
      <3> SUFFICES ASSUME ~ short, NEW p \in DataPages, p <= m
                   PROVE  view'[p] = committed[p]
        BY <1>0, <2>1, <2>3, Zenon DEF InFile, DataPages
      <3>1. p \in 1..m /\ p <= Len(orig) BY <1>1, <1>2 DEF DataPages
      <3>2. orig[p] = committed[p] BY <1>0, <3>1, Zenon DEF BkInv, InFile
      <3> QED BY <2>3, <3>1, <3>2, Zenon
    <2> QED BY <2>5, <2>6, <2>7, <2>8, <2>9, <2>10, Zenon DEF BkInv
  <1> QED BY <1>3, <1>4, Zenon

\* The program sizes its file.
LEMMA FtruncateStep ==
  ASSUME BkInv, Ftruncate
  PROVE  BkInv'
  <1> DEFINE z == Zeros(MapPages - Len(orig))
  <1>0. /\ bpc = "run" /\ Len(orig) < MapPages
        /\ UNCHANGED <<bkup, bpc, sent, commits, committed, short>>
    BY Zenon DEF Ftruncate
  <1>1. /\ bkup # Absent /\ orig \in Seq(Page) /\ view \in Seq(Page) /\ MapPages \in Nat
        /\ Len(view) = Len(orig)
    BY <1>0, BackingAssumption, Zenon DEF BkInv, BkTypeOK, Made
  <1>2. Len(orig) \in Nat /\ MapPages - Len(orig) \in Nat BY <1>0, <1>1, LenProperties
  <1>3. /\ z \in Seq(Page) /\ Len(z) = MapPages - Len(orig)
        /\ \A p \in 1..(MapPages - Len(orig)) : z[p] = 0
    <2>1. z \in [1..(MapPages - Len(orig)) -> Page] BY Zenon DEF Zeros, Page
    <2>2. z \in Seq(Page) /\ Len(z) = MapPages - Len(orig) BY ONLY <1>2, <2>1, PageSeq, Zenon
    <2>3. \A p \in 1..(MapPages - Len(orig)) : z[p] = 0 BY Zenon DEF Zeros
    <2> QED BY <2>2, <2>3, Zenon
  <1>4. orig' = orig \o z /\ view' = view \o z BY <1>1, Zenon DEF Ftruncate
  <1> HIDE DEF z
  <1>5. /\ orig' \in Seq(Page) /\ Len(orig') = MapPages
        /\ view' \in Seq(Page) /\ Len(view') = MapPages
    <2>1. /\ orig' \in Seq(Page) /\ Len(orig') = Len(orig) + Len(z)
          /\ view' \in Seq(Page) /\ Len(view') = Len(view) + Len(z)
      BY <1>1, <1>3, <1>4, ConcatProperties, Zenon
    <2>2. Len(orig) + (MapPages - Len(orig)) = MapPages BY <1>1, <1>2
    <2> QED BY <1>1, <1>3, <2>1, <2>2, Zenon
  <1>6. \A p \in 1..MapPages :
          /\ orig'[p] = IF p <= Len(orig) THEN orig[p] ELSE 0
          /\ view'[p] = IF p <= Len(orig) THEN view[p] ELSE 0
    <2> SUFFICES ASSUME NEW p \in 1..MapPages
                 PROVE  /\ orig'[p] = IF p <= Len(orig) THEN orig[p] ELSE 0
                        /\ view'[p] = IF p <= Len(orig) THEN view[p] ELSE 0
      BY Zenon
    <2>1. /\ orig'[p] = IF p <= Len(orig) THEN orig[p] ELSE z[p - Len(orig)]
          /\ view'[p] = IF p <= Len(orig) THEN view[p] ELSE z[p - Len(orig)]
      <3>1. /\ orig \in Seq(Page) /\ view \in Seq(Page) /\ z \in Seq(Page)
            /\ Len(view) = Len(orig) /\ p \in 1..(Len(orig) + Len(z))
        BY <1>1, <1>2, <1>3
      <3>2. /\ (orig \o z)[p] = IF p <= Len(orig) THEN orig[p] ELSE z[p - Len(orig)]
            /\ (view \o z)[p] = IF p <= Len(view) THEN view[p] ELSE z[p - Len(view)]
        BY ONLY <3>1, ConcatProperties
      <3> QED BY <1>4, <3>1, <3>2, Zenon
    <2> QED BY <1>1, <1>2, <1>3, <2>1
  <1>7. BkTypeOK' BY <1>0, <1>5, Zenon DEF BkInv, BkTypeOK
  <1>8. FirstMaking' BY <1>0, <1>1, Zenon DEF FirstMaking
  <1>9. Made' BY <1>0, <1>1, <1>5, Zenon DEF Made
  <1>10. NotInFile' BY <1>1, <1>5 DEF NotInFile, DataPages
  <1>11. \A p \in DataPages : p \in 1..MapPages /\ (~ (p <= Len(orig)) => committed[p] = 0)
    BY <1>1, <1>2 DEF BkInv, NotInFile, DataPages
  <1>12. InBacking'
    <2> SUFFICES ASSUME ~ short, NEW p \in DataPages
                 PROVE  IF p <= Len(bkup) THEN bkup[p] = committed[p]
                        ELSE orig'[p] = committed[p]
      BY <1>0, Zenon DEF InBacking, DataPages
    <2>1. IF p <= Len(bkup) THEN bkup[p] = committed[p]
          ELSE p <= Len(orig) => orig[p] = committed[p]
      BY <1>1, Zenon DEF BkInv, InBacking
    <2> QED BY <1>6, <1>11, <2>1, Zenon
  <1>13. InFile'
    <2> SUFFICES ASSUME ~ short, NEW p \in DataPages PROVE view'[p] = committed[p]
      BY <1>0, Zenon DEF InFile, DataPages
    <2>1. p <= Len(orig) => view[p] = committed[p] BY <1>0, <1>1, Zenon DEF BkInv, InFile
    <2> QED BY <1>6, <1>11, <2>1
  <1> QED BY <1>7, <1>8, <1>9, <1>10, <1>12, <1>13, Zenon DEF BkInv

\* The length of the mapping is the smaller of two.
LEMMA Shorter ==
  ASSUME NEW a \in Nat, NEW b \in Nat, NEW m \in Nat, a = IF b < m THEN b ELSE m
  PROVE  a <= m /\ a <= b
  OBVIOUS

\* A store and a snapshot.
LEMMA CommitStep ==
  ASSUME BkInv, NEW p \in 1..MapPages, Commit(p)
  PROVE  BkInv' /\ bkup' # Absent
  <1> DEFINE new   == [view EXCEPT ![p] = commits + 1]
             taken == IF firstCopy THEN DOMAIN orig ELSE {p}
             there == DOMAIN view \cap DOMAIN bkup
  <1>0. /\ bpc = "run" /\ p \in DOMAIN view
        /\ UNCHANGED <<orig, sent, short>> /\ commits' = commits + 1
        /\ bkup' = [q \in DOMAIN bkup |-> IF q \in taken \cap there THEN new[q] ELSE bkup[q]]
        /\ committed' = [q \in 1..MapPages |-> IF q \in taken \cap there THEN new[q]
                                                ELSE committed[q]]
        /\ IF taken \subseteq there THEN view' = new /\ UNCHANGED bpc
           ELSE bpc' = "closed" /\ UNCHANGED view
    BY Zenon DEF Commit
  <1>1. /\ bkup # Absent /\ bkup \in Seq(Page) /\ orig \in Seq(Page) /\ view \in Seq(Page)
        /\ MapPages \in Nat /\ commits \in Nat /\ committed \in [1..MapPages -> Page]
    BY <1>0, BackingAssumption, Zenon DEF BkInv, BkTypeOK, Made
  <1>2. /\ Len(bkup) \in Nat /\ DOMAIN bkup = 1..Len(bkup)
        /\ Len(orig) \in Nat /\ Len(view) \in Nat /\ DOMAIN view = 1..Len(view)
    BY <1>1, LenProperties, Zenon
  <1>3. /\ Len(view) <= MapPages /\ Len(view) <= Len(orig)
        /\ Len(view) = IF Len(orig) < MapPages THEN Len(orig) ELSE MapPages
    <2>1. Len(view) = IF Len(orig) < MapPages THEN Len(orig) ELSE MapPages
      BY <1>0, Zenon DEF BkInv, Made
    <2> QED BY <2>1, <1>1, <1>2, Shorter, Zenon
  <1>4. new \in [1..Len(view) -> Page] /\ \A q \in 1..Len(view) : q # p => new[q] = view[q]
    <2>1. view \in [1..Len(view) -> Page] BY <1>1
    <2>2. commits + 1 \in Page BY <1>1 DEF Page
    <2> QED BY <2>1, <2>2, Zenon
  <1> HIDE DEF new
  <1>5. bkup' \in Seq(Page) /\ Len(bkup') = Len(bkup)
    <2>1. \A q \in 1..Len(bkup) : bkup[q] \in Page BY <1>1, ElementOfSeq, Zenon
    <2>2. \A q \in taken \cap there : new[q] \in Page BY <1>2, <1>4, Zenon
    <2>3. bkup' \in [1..Len(bkup) -> Page] BY <1>0, <1>2, <2>1, <2>2, Zenon
    <2> QED BY <1>2, <2>3, PageSeq, Zenon
  <1>6. committed' \in [1..MapPages -> Page]
    <2>1. \A q \in taken \cap there : new[q] \in Page BY <1>2, <1>4, Zenon
    <2> QED BY <1>0, <1>1, <1>2, <2>1, Zenon
  <1>7. view' \in Seq(Page) /\ Len(view') = Len(view)
    <2>1. new \in Seq(Page) /\ Len(new) = Len(view) BY <1>2, <1>4, PageSeq, Zenon
    <2> QED BY <1>0, <1>1, <2>1, Zenon
  <1>8. bkup' # Absent BY <1>5, NotAbsent, Zenon
  <1>9. bpc' \in {"run", "closed"} /\ commits' \in Nat BY <1>0, <1>1
  <1>10. BkTypeOK' BY <1>0, <1>5, <1>6, <1>7, <1>9, Zenon DEF BkInv, BkTypeOK
  <1>11. FirstMaking' BY <1>8, <1>9, Zenon DEF FirstMaking
  <1>12. Made' BY <1>0, <1>3, <1>7, <1>8, <1>9, Zenon DEF Made
  <1>13. NotInFile'
    <2> SUFFICES ASSUME NEW q \in DataPages, q > Len(orig) PROVE committed'[q] = 0
      BY <1>0, Zenon DEF NotInFile, DataPages
    <2>1. q \in 1..MapPages /\ ~ (q \in DOMAIN view) BY <1>1, <1>2, <1>3 DEF DataPages
    <2>2. committed[q] = 0 BY Zenon DEF BkInv, NotInFile
    <2> QED BY <1>0, <2>1, <2>2, Zenon
  <1>14. InBacking'
    <2> SUFFICES ASSUME ~ short, NEW q \in DataPages
                 PROVE  IF q <= Len(bkup) THEN bkup'[q] = committed'[q]
                        ELSE q <= Len(orig) => orig[q] = committed'[q]
      BY <1>0, <1>5, Zenon DEF InBacking, DataPages
    <2>1. IF q <= Len(bkup) THEN bkup[q] = committed[q]
          ELSE q <= Len(orig) => orig[q] = committed[q]
      BY <1>1, Zenon DEF BkInv, InBacking
    <2>2. q \in 1..MapPages BY <1>1 DEF DataPages
    <2>3. q <= Len(bkup) <=> q \in DOMAIN bkup BY <1>1, <1>2 DEF DataPages
    <2> HIDE DEF taken
    <2>4. CASE q \in DOMAIN bkup BY <1>0, <2>1, <2>2, <2>3, <2>4, Zenon
    <2>5. CASE q \notin DOMAIN bkup
      <3>1. committed'[q] = committed[q] BY <1>0, <2>2, <2>5, Zenon
      <3> QED BY <2>1, <2>3, <2>5, <3>1, Zenon
    <2> QED BY <2>4, <2>5, Zenon
  <1>15. InFile'
    <2> SUFFICES ASSUME ~ short, bpc' = "run", NEW q \in DataPages, q <= Len(view)
                 PROVE  view'[q] = committed'[q]
      BY <1>0, <1>7, <1>9, Zenon DEF InFile, DataPages
    <2>1. taken \subseteq there /\ view' = new BY <1>0, Zenon
    <2>2. q \in 1..MapPages /\ q \in 1..Len(view) BY <1>1, <1>2 DEF DataPages
    <2>3. CASE q \in taken BY <1>0, <1>2, <2>1, <2>2, <2>3, Zenon
    <2>4. CASE q \notin taken
      <3>1. q # p
        <4>1. CASE firstCopy
          <5>1. q \in DOMAIN orig BY <1>1, <1>2, <1>3, <2>2, LenProperties
          <5> QED BY <2>4, <4>1, <5>1, Zenon
        <4>2. CASE ~ firstCopy BY <2>4, <4>2, Zenon
        <4> QED BY <4>1, <4>2, Zenon
      <3>2. view[q] = committed[q] BY <1>0, <2>2, Zenon DEF BkInv, InFile
      <3>3. committed'[q] = committed[q] BY <1>0, <1>2, <2>2, <2>4, Zenon
      <3> QED BY <1>4, <2>1, <2>2, <3>1, <3>2, <3>3, Zenon
    <2> QED BY <2>3, <2>4, Zenon
  <1> QED BY <1>8, <1>10, <1>11, <1>12, <1>13, <1>14, <1>15, Zenon DEF BkInv

\* The process ends or is killed.
LEMMA KilledStep ==
  ASSUME BkInv, Killed
  PROVE  BkInv'
  <1> USE DEF BkInv, Killed
  <1>1. BkTypeOK' BY Zenon DEF BkTypeOK
  <1>2. FirstMaking' BY Zenon DEF FirstMaking, Untouched
  <1>3. Made' /\ InFile' BY Zenon DEF Made, InFile
  <1>4. NotInFile' BY Zenon DEF NotInFile, DataPages
  <1>5. InBacking' BY Zenon DEF InBacking, DataPages
  <1> QED BY <1>1, <1>2, <1>3, <1>4, <1>5, Zenon

\* BkInv is inductive.
LEMMA BkStep == BkInv /\ [BkNext]_bkvars => BkInv'
  <1> SUFFICES ASSUME BkInv, [BkNext]_bkvars PROVE BkInv' BY Zenon
  <1>1. CASE create_backing_file BY <1>1, CreateStep, Zenon
  <1>2. CASE AllocateBacking BY <1>2, AllocateStep, Zenon
  <1>3. CASE CopyFile BY <1>3, CopyFileStep, Zenon
  <1>4. CASE SendFile
    <2>1. sent' = sent + 1 \/ bpc' = "map" BY <1>4, Zenon DEF SendFile
    <2> QED BY <1>4, <2>1, SendPageStep, SendEndStep, Zenon
  <1>5. CASE map_backing_file BY <1>5, MapStep, Zenon
  <1>6. CASE Ftruncate BY <1>6, FtruncateStep, Zenon
  <1>7. CASE \E p \in 1..MapPages : Commit(p) BY <1>7, CommitStep, Zenon
  <1>8. CASE Killed BY <1>8, KilledStep, Zenon
  <1>9. CASE UNCHANGED bkvars
    BY <1>9, Zenon DEF bkvars, BkInv, BkTypeOK, FirstMaking, Untouched, Made, NotInFile, InBacking,
                InFile, DataPages
  <1> QED BY <1>1, <1>2, <1>3, <1>4, <1>5, <1>6, <1>7, <1>8, <1>9, Zenon DEF BkNext

\* ReopenRestores for every number of pages: whatever mix of kills, opens and
\* snapshots came before, a process whose sendfiles were whole starts on the
\* pages that the last snapshots wrote (create_backing_file, recovery.cc).
THEOREM ReopenAlwaysRestores == BkSpec => []ReopenRestores
  <1>1. BkInv => ReopenRestores
    <2> SUFFICES ASSUME BkInv, bpc = "run", ~ short, NEW p \in 2..Len(view)
                 PROVE  view[p] = committed[p]
      BY Zenon DEF ReopenRestores
    <2>1. Len(view) \in Nat /\ MapPages \in Nat /\ Len(orig) \in Nat
      BY BackingAssumption, LenProperties, Zenon DEF BkInv, BkTypeOK
    <2>2. p \in DataPages /\ p <= Len(view) BY <2>1 DEF BkInv, Made, DataPages
    <2> QED BY <2>2, Zenon DEF BkInv, InFile
  <1> QED BY <1>1, BkInitial, BkStep, PTL DEF BkSpec

\* The strengthening behind BackingAgrees: a backing file that exists outside of
\* its making reaches to the end of the mapping, unless a process died while it
\* was made or it was copied from a shorter file.
Whole ==
  /\ cut \in BOOLEAN /\ thin \in BOOLEAN
  /\ (~ cut /\ ~ thin /\ bkup # Absent /\ bpc \notin {"allocate", "copy"})
       => Len(bkup) >= MapPages

\* What sendfile writes and a snapshot keep the length of the backing file.
LEMMA WholeStep == BkInv /\ Whole /\ [BkNext]_bkvars => Whole'
  <1> SUFFICES ASSUME BkInv, Whole, [BkNext]_bkvars PROVE Whole' BY Zenon
  <1>0. /\ orig \in Seq(Page) /\ Len(orig) \in Nat /\ MapPages \in Nat
        /\ bkup # Absent => bkup \in Seq(Page) /\ Len(bkup) \in Nat
    BY BackingAssumption, LenProperties, Zenon DEF BkInv, BkTypeOK
  <1>1. CASE create_backing_file
    <2>1. orig = <<>> <=> Len(orig) = 0 BY <1>0, EmptySeq, Zenon
    <2>2. /\ UNCHANGED <<orig, bkup, cut, thin>> /\ bpc = "closed"
          /\ bpc' = IF bkup = Absent THEN (IF orig = <<>> THEN "allocate" ELSE "copy") ELSE "send"
      BY <1>1, Zenon DEF create_backing_file
    <2> QED BY <2>1, <2>2, Zenon DEF Whole
  <1>2. CASE AllocateBacking
    <2>1. Len(Zeros(MapPages)) = MapPages
      <3>1. Zeros(MapPages) \in [1..MapPages -> Page] BY Zenon DEF Zeros, Page
      <3> QED BY <1>0, <3>1, PageSeq, Zenon
    <2>2. bkup' # Absent
      <3>1. Zeros(MapPages) \in [1..MapPages -> Page] BY Zenon DEF Zeros, Page
      <3>2. Zeros(MapPages) \in Seq(Page) /\ <<>> \in Seq(Page) BY <1>0, <3>1, PageSeq, EmptySeq, Zenon
      <3> QED BY <1>2, <3>2, NotAbsent, Zenon DEF AllocateBacking
    <2> QED BY <1>0, <1>2, <2>1, <2>2 DEF Whole, AllocateBacking
  <1>3. CASE CopyFile
    <2>0. bpc = "copy" /\ UNCHANGED <<orig, cut>> /\ thin' = (Len(orig) < MapPages)
      BY <1>3, Zenon DEF CopyFile
    <2>1. bpc' = "copy" \/ (bpc' = "map" /\ bkup' = bkup /\ ~ (Len(bkup) < Len(orig))
                            /\ bkup # Absent)
      BY <1>3, Zenon DEF CopyFile
    <2>2. bpc' = "map" /\ ~ thin' => Len(bkup') >= MapPages
      <3>1. ~ thin' => ~ (Len(orig) < MapPages) BY <2>0, Zenon
      <3>2. bpc' = "map" => bkup' = bkup /\ ~ (Len(bkup) < Len(orig)) /\ bkup # Absent
        BY <2>1
      <3>3. bpc' = "map" => Len(bkup) \in Nat BY <1>0, <3>2, Zenon
      <3> QED BY <1>0, <3>1, <3>2, <3>3
    <2>3. thin' \in BOOLEAN BY <2>0
    <2> QED BY <2>0, <2>1, <2>2, <2>3, Zenon DEF Whole
  <1>4. CASE SendFile
    <2>1. bpc = "send" /\ bpc' \in {"send", "map"} /\ UNCHANGED <<bkup, cut, thin>>
      BY <1>4, Zenon DEF SendFile
    <2>2. bkup # Absent BY <2>1, Zenon DEF BkInv, Made
    <2> QED BY <2>1, <2>2, Zenon DEF Whole
  <1>5. CASE map_backing_file
    <2>1. bpc = "map" /\ bpc' \in {"closed", "run"} /\ UNCHANGED <<orig, cut, thin>>
      BY <1>5, Zenon DEF map_backing_file
    <2>2. bkup # Absent /\ bkup \in Seq(Page) BY <1>0, <2>1, Zenon DEF BkInv, Made
    <2>3. Len(bkup') = Len(bkup) /\ bkup' # Absent
      <3>1. BkInv' BY <1>5, MapStep, Zenon
      <3>2. CASE bkup = <<>> BY <1>5, <2>2, <3>2, Zenon DEF map_backing_file
      <3>3. CASE bkup # <<>>
        <4>1. bkup' = [bkup EXCEPT ![1] = Spoilt] /\ bpc' = "run"
          BY <1>5, <3>3, Zenon DEF map_backing_file
        <4>2. bkup' # Absent BY <3>1, <4>1, Zenon DEF BkInv, Made
        <4>3. bkup' \in Seq(Page) BY <3>1, <4>2, Zenon DEF BkInv, BkTypeOK
        <4>4. DOMAIN bkup' = DOMAIN bkup BY <4>1, Zenon
        <4>5. Len(bkup') = Len(bkup) BY <2>2, <4>3, <4>4, LenProperties
        <4> QED BY <4>2, <4>5, Zenon
      <3> QED BY <3>2, <3>3, Zenon
    <2> QED BY <2>1, <2>2, <2>3, Zenon DEF Whole
  <1>6. CASE Ftruncate
    <2>1. bpc = "run" /\ UNCHANGED <<bkup, bpc, cut, thin>> BY <1>6, Zenon DEF Ftruncate
    <2>2. bkup # Absent BY <2>1, Zenon DEF BkInv, Made
    <2> QED BY <2>1, <2>2, Zenon DEF Whole
  <1>7. CASE \E p \in 1..MapPages : Commit(p)
    <2>0. PICK p \in 1..MapPages : Commit(p) BY <1>7, Zenon
    <2>1. /\ bpc = "run" /\ bpc' \in {"run", "closed"} /\ UNCHANGED <<orig, cut, thin>>
          /\ DOMAIN bkup' = DOMAIN bkup
      BY <2>0, Zenon DEF Commit
    <2>2. bkup # Absent /\ bkup \in Seq(Page) BY <1>0, <2>1, Zenon DEF BkInv, Made
    <2>4. BkInv' /\ bkup' # Absent BY <2>0, CommitStep, Zenon
    <2>5. Len(bkup') = Len(bkup)
      <3>1. bkup' \in Seq(Page) BY <2>4, Zenon DEF BkInv, BkTypeOK
      <3> QED BY <2>1, <2>2, <3>1, LenProperties
    <2> QED BY <2>1, <2>2, <2>4, <2>5, Zenon DEF Whole
  <1>8. CASE Killed BY <1>8, Zenon DEF Killed, Whole
  <1>9. CASE UNCHANGED bkvars BY <1>9, Zenon DEF bkvars, Whole
  <1> QED BY <1>1, <1>2, <1>3, <1>4, <1>5, <1>6, <1>7, <1>8, <1>9, Zenon DEF BkNext

\* BackingAgrees for every number of pages: the backing file of a running
\* program agrees with its mapping as far as it reaches, and it reaches to the
\* end unless a process was killed while it made the backing file or it was
\* copied from a shorter file (create_backing_file and map_backing_file,
\* recovery.cc).
THEOREM BackingAlwaysAgrees == BkSpec => []BackingAgrees
  <1>1. BkInit => Whole BY Zenon DEF BkInit, Whole
  <1>2. BkInv /\ Whole => BackingAgrees
    <2> SUFFICES ASSUME BkInv, Whole, bpc = "run", ~ short
                 PROVE  /\ \A p \in 2..Len(view) : p <= Len(bkup) => bkup[p] = view[p]
                        /\ (~ cut /\ ~ thin) => Len(bkup) >= MapPages
      BY Zenon DEF BackingAgrees
    <2>1. bkup # Absent /\ bkup \in Seq(Page) BY Zenon DEF BkInv, Made, BkTypeOK
    <2>2. (~ cut /\ ~ thin) => Len(bkup) >= MapPages BY <2>1, Zenon DEF Whole
    <2>3. /\ Len(view) \in Nat /\ MapPages \in Nat /\ Len(orig) \in Nat
          /\ Len(view) <= MapPages
      BY BackingAssumption, LenProperties DEF BkInv, BkTypeOK, Made
    <2>4. ASSUME NEW p \in 2..Len(view), p <= Len(bkup) PROVE bkup[p] = view[p]
      <3>1. p \in DataPages /\ p <= Len(view) BY <2>3 DEF DataPages
      <3> QED BY <2>1, <2>4, <3>1, Zenon DEF BkInv, InFile, InBacking
    <2> QED BY <2>2, <2>4, Zenon
  <1> QED BY <1>1, <1>2, BkInitial, BkStep, WholeStep, PTL DEF BkSpec
=============================================================================
