-------------------------- MODULE Recovery_proofs --------------------------
EXTENDS Recovery, SequenceTheorems, WellFoundedInduction, TLAPS

(* Recovery.  The inductive invariant says how far the constructor is: the *)
(* log it is at is the first one that needs recovery; the scan has         *)
(* collected the entries of this file among those it has passed; the       *)
(* replay has restored the words of the entries that have left the list;   *)
(* and words that no entry covers have never changed.                      *)

First(j) ==
  /\ j \in DOMAIN deps
  /\ NeedsRecovery(j)
  /\ \A m \in 1 .. j - 1 : ~NeedsRecovery(m)

Increasing(s) == \A x, y \in DOMAIN s : x < y => s[x] < s[y]

Members(s) == {s[x] : x \in DOMAIN s}

Pending == Members(log_entries)

EndOf(lg, k) == lg.content[k].off + EntrySize(lg.content[k])

(* x has the words of the entries S of a log as the first of them has them. *)
Restored(x, lg, S) ==
  \A w \in Word : \A k \in S :
    (/\ w \in WordsOf(lg.content[k])
     /\ \A j \in S : w \in WordsOf(lg.content[j]) => k <= j)
    => x[w] = lg.content[k].old[w]

RecPcs == {"needs_recovery", "scan", "apply", "drain", "done"}

RecTypeOK ==
  /\ pc \in RecPcs
  /\ deps \in Seq(LogSet)
  /\ img \in [Word -> Val] /\ p_img \in [Word -> Val] /\ img0 \in [Word -> Val]
  /\ i \in Nat \ {0} /\ n \in Nat /\ cur_off \in Nat
  /\ log_entries \in Seq(Nat)

(* needs_recovery has passed over the logs before i. *)
SearchInv ==
  /\ \A m \in 1 .. i - 1 : m \in DOMAIN deps => ~NeedsRecovery(m)
  /\ pc = "needs_recovery" => n = 0 /\ cur_off = 0 /\ log_entries = <<>>
  /\ pc \in {"scan", "apply", "drain"} => First(i)

(* What no entry covers is as it was; only between the stores of an entry  *)
(* and the drain does the media lag behind.                                *)
KeptInv ==
  /\ pc # "drain" => p_img = img
  /\ \A w \in Word :
       (\A j \in DOMAIN deps : First(j) =>
          \A k \in Effective(deps[j]) : w \notin WordsOf(deps[j].content[k]))
       => img[w] = img0[w] /\ p_img[w] = img0[w]

ScanInv ==
  pc = "scan" =>
    /\ n <= Len(content)
    /\ cur_off = IF n = 0 THEN 0 ELSE EndOf(deps[i], n)
    /\ Increasing(log_entries)
    /\ Pending = {k \in 1 .. n : content[k].addr \in Word}
    /\ \A k \in 1 .. n : content[k].off < deps[i].log_offset

ReplayInv ==
  pc \in {"apply", "drain"} =>
    /\ Increasing(log_entries)
    /\ Pending \subseteq Effective(deps[i])
    /\ \A j \in Pending : \A k \in Effective(deps[i]) \ Pending : j < k
    /\ pc = "apply" => Restored(img, deps[i], Effective(deps[i]) \ Pending)
    /\ pc = "drain" =>
         /\ log_entries # <<>>
         /\ Restored(img, deps[i],
                     (Effective(deps[i]) \ Pending) \cup {log_entries[Len(log_entries)]})

RecInv == RecTypeOK /\ SearchInv /\ KeptInv /\ ScanInv /\ ReplayInv /\ ReplayIsUndo

(* The entries of a log, as RecoveryAssumption has them. *)
LEMMA EntryFacts ==
  ASSUME NEW lg \in LogSet
  PROVE  /\ Len(lg.content) \in Nat /\ DOMAIN lg.content = 1 .. Len(lg.content)
         /\ lg.log_offset \in Nat
         /\ lg.log_offset > 0 => \E k \in DOMAIN lg.content : lg.log_offset <= EndOf(lg, k)
         /\ \A k \in DOMAIN lg.content :
              /\ lg.content[k].off \in Nat /\ lg.content[k].words \in Nat
              /\ lg.content[k].off = IF k = 1 THEN 0 ELSE EndOf(lg, k - 1)
              /\ EntrySize(lg.content[k]) \in Nat \ {0}
              /\ \A w \in WordsOf(lg.content[k]) : lg.content[k].old[w] \in Val
  <1> DEFINE Olds == UNION {[S -> Val] : S \in SUBSET Word}
             Rec == [off : Nat, addr : Nat, words : Nat \ {0}, old : Olds]
  <1>1. IsLog(lg) BY RecoveryAssumption
  <1>2. lg.content \in Seq(Rec) BY <1>1 DEF IsLog
  <1>3. Len(lg.content) \in Nat /\ DOMAIN lg.content = 1 .. Len(lg.content)
    BY <1>2, LenProperties
  <1>4. \A k \in DOMAIN lg.content : lg.content[k] \in Rec BY <1>2, ElementOfSeq, <1>3, Zenon
  <1>5. \A k \in DOMAIN lg.content :
          /\ lg.content[k].off \in Nat /\ lg.content[k].words \in Nat \ {0}
          /\ lg.content[k].old \in Olds
    BY <1>4
  <1>6. ASSUME NEW k \in DOMAIN lg.content, NEW w \in WordsOf(lg.content[k])
        PROVE  lg.content[k].old[w] \in Val
    <2>1. DOMAIN lg.content[k].old = WordsOf(lg.content[k]) BY <1>1 DEF IsLog
    <2>2. PICK S \in SUBSET Word : lg.content[k].old \in [S -> Val] BY <1>5, ZenonT(30)
    <2> QED BY <2>1, <2>2
  <1>7. \A k \in DOMAIN lg.content : EntrySize(lg.content[k]) \in Nat \ {0}
    BY <1>5 DEF EntrySize, EntryHeader
  <1>8. \A k \in DOMAIN lg.content :
          lg.content[k].off = IF k = 1 THEN 0 ELSE EndOf(lg, k - 1)
    BY <1>1 DEF IsLog, EndOf
  <1>9. /\ lg.log_offset \in Nat
        /\ lg.log_offset > 0 => \E k \in DOMAIN lg.content : lg.log_offset <= EndOf(lg, k)
    BY <1>1 DEF IsLog, EndOf
  <1> QED BY <1>3, <1>5, <1>6, <1>7, <1>8, <1>9

(* Entries lie one after the other: by the least entry that would not. *)
LEMMA EntryOrder ==
  ASSUME NEW lg \in LogSet
  PROVE  \A j, k \in DOMAIN lg.content : j < k => EndOf(lg, j) <= lg.content[k].off
  <1> DEFINE D == DOMAIN lg.content
             Bad == {k \in D : \E j \in D : j < k /\ ~ (EndOf(lg, j) <= lg.content[k].off)}
             R == OpToRel(<, Nat)
  <1>1. D \subseteq Nat /\ Bad \subseteq Nat BY EntryFacts
  <1>2. SUFFICES ASSUME Bad # {} PROVE FALSE
    <2>1. Bad = {} BY <1>2
    <2> QED BY <2>1
  <1>3. IsWellFoundedOn(R, Nat) BY NatLessThanWellFounded, Zenon
  <1> HIDE DEF R
  <1>4. PICK k \in Bad : \A j \in Bad : ~(<<j, k>> \in R) BY <1>1, <1>2, <1>3, WFMin, Zenon
  <1>5. \A j \in Bad : ~ (j < k)
    <2> TAKE j \in Bad
    <2>1. j \in Nat /\ k \in Nat BY <1>1
    <2> QED BY <1>4, <2>1, Zenon DEF R, OpToRel
  <1>6. PICK j \in D : j < k /\ ~ (EndOf(lg, j) <= lg.content[k].off) OBVIOUS
  <1>7. D = 1 .. Len(lg.content) /\ Len(lg.content) \in Nat BY EntryFacts
  <1>8. k \in D /\ k \in Nat /\ j \in Nat /\ k - 1 \in D /\ k # 1 BY <1>6, <1>7
  <1>9. lg.content[k].off = EndOf(lg, k - 1) BY <1>8, EntryFacts, ZenonT(30)
  <1>10. /\ lg.content[k - 1].off \in Nat /\ EntrySize(lg.content[k - 1]) \in Nat
         /\ lg.content[j].off \in Nat /\ EntrySize(lg.content[j]) \in Nat
    BY <1>6, <1>8, EntryFacts, ZenonT(30)
  <1>11. CASE j = k - 1 BY <1>6, <1>9, <1>10, <1>11 DEF EndOf
  <1>12. CASE j # k - 1
    <2>1. j < k - 1 /\ ~ (k - 1 \in Bad) BY <1>5, <1>6, <1>8, <1>12
    <2>2. EndOf(lg, j) <= lg.content[k - 1].off BY <1>6, <1>8, <2>1
    <2> QED BY <1>6, <1>9, <1>10, <2>2 DEF EndOf
  <1> QED BY <1>11, <1>12

(* The log that the search is at, when it has found one. *)
LEMMA FirstIs ==
  ASSUME RecInv, pc \in {"scan", "apply", "drain"}
  PROVE  /\ i \in DOMAIN deps /\ deps[i] \in LogSet /\ First(i)
         /\ \A j \in DOMAIN deps : First(j) => j = i
  <1>1. First(i) /\ i \in DOMAIN deps BY DEF RecInv, SearchInv, First
  <1>2. deps[i] \in LogSet BY <1>1 DEF RecInv, RecTypeOK
  <1>3. ASSUME NEW j \in DOMAIN deps, First(j) PROVE j = i
    <2>1. i \in Nat /\ j \in Nat /\ i >= 1 /\ j >= 1 BY <1>1 DEF RecInv, RecTypeOK
    <2>2. ~ (j < i) BY <1>1, <1>3, <2>1 DEF First
    <2>3. ~ (i < j) BY <1>1, <1>3, <2>1 DEF First
    <2> QED BY <2>1, <2>2, <2>3
  <1> QED BY <1>1, <1>2, <1>3

(* Nothing has been read and nothing has changed. *)
LEMMA RecInitial == Init => RecInv
  <1> SUFFICES ASSUME Init PROVE RecInv OBVIOUS
  <1>1. deps \in Seq(LogSet)
    <2>1. PICK m \in 0 .. MaxDeps : deps \in [1 .. m -> LogSet] BY DEF Init
    <2>2. m \in Nat BY RecoveryAssumption
    <2> QED BY <2>1, <2>2
  <1>2. RecTypeOK BY <1>1, EmptySeq DEF Init, RecTypeOK, RecPcs
  <1>3. SearchInv BY DEF Init, SearchInv
  <1>4. KeptInv /\ ScanInv /\ ReplayInv /\ ReplayIsUndo
    BY DEF Init, KeptInv, ScanInv, ReplayInv, ReplayIsUndo
  <1> QED BY <1>2, <1>3, <1>4 DEF RecInv

(* needs_recovery reads a line: the log is passed over, or it is the first *)
(* one that needs recovery.                                                *)
LEMMA SearchStep ==
  ASSUME RecInv, needs_recovery
  PROVE  RecInv'
  <1>0. /\ pc = "needs_recovery" /\ i <= Len(deps)
        /\ UNCHANGED <<deps, img, p_img, n, cur_off, log_entries, img0>>
    BY DEF needs_recovery
  <1>1. RecTypeOK /\ SearchInv /\ KeptInv BY DEF RecInv
  <1>2. i \in DOMAIN deps /\ DOMAIN deps = 1 .. Len(deps) /\ Len(deps) \in Nat
    BY <1>0, <1>1 DEF RecTypeOK
  <1>3. CASE NeedsRecovery(i)
    <2>1. pc' = "scan" /\ i' = i BY <1>3 DEF needs_recovery, NeedsRecovery
    <2>2. RecTypeOK' BY <1>0, <1>1, <2>1 DEF RecTypeOK, RecPcs
    <2>3. First(i)
      <3>1. \A m \in 1 .. i - 1 : m \in DOMAIN deps BY <1>0, <1>1, <1>2 DEF RecTypeOK
      <3> QED BY <1>1, <1>2, <1>3, <3>1 DEF SearchInv, First
    <2>4. SearchInv' BY <1>0, <1>1, <2>1, <2>3 DEF SearchInv, First, NeedsRecovery
    <2>5. KeptInv' BY <1>0, <1>1, <2>1 DEF KeptInv, First, NeedsRecovery
    <2>6. ScanInv'
      <3>1. n' = 0 /\ cur_off' = 0 /\ log_entries' = <<>> BY <1>0, <1>1 DEF SearchInv
      <3>2. Len(content') \in Nat
        <4>1. deps[i] \in LogSet BY <1>1, <1>2 DEF RecTypeOK
        <4>2. Len(deps[i].content) \in Nat BY <4>1, EntryFacts
        <4> QED BY <1>0, <2>1, <4>2 DEF content
      <3>3. Increasing(log_entries)' BY <3>1 DEF Increasing
      <3>4. Pending' = {} BY <3>1 DEF Pending, Members
      <3> QED BY <3>1, <3>2, <3>3, <3>4 DEF ScanInv
    <2>7. ReplayInv' /\ ReplayIsUndo' BY <2>1 DEF ReplayInv, ReplayIsUndo
    <2> QED BY <2>2, <2>4, <2>5, <2>6, <2>7 DEF RecInv
  <1>4. CASE ~ NeedsRecovery(i)
    <2>1. pc' = pc /\ i' = i + 1 BY <1>4 DEF needs_recovery, NeedsRecovery
    <2>2. RecTypeOK' BY <1>0, <1>1, <2>1 DEF RecTypeOK
    <2>3. SearchInv'
      <3>1. \A m \in 1 .. i' - 1 : m \in 1 .. i - 1 \/ m = i
        BY <1>1, <2>1 DEF RecTypeOK
      <3>2. \A m \in 1 .. i' - 1 : m \in DOMAIN deps => ~ NeedsRecovery(m)
        BY <1>1, <1>4, <3>1 DEF SearchInv
      <3> QED BY <1>0, <1>1, <2>1, <3>2 DEF SearchInv, NeedsRecovery
    <2>4. KeptInv' BY <1>0, <1>1, <2>1 DEF KeptInv, First, NeedsRecovery
    <2>5. ScanInv' /\ ReplayInv' /\ ReplayIsUndo'
      BY <1>0, <2>1 DEF ScanInv, ReplayInv, ReplayIsUndo
    <2> QED BY <2>2, <2>3, <2>4, <2>5 DEF RecInv
  <1> QED BY <1>3, <1>4

(* No log needs recovery: no word has changed. *)
LEMMA NothingStep ==
  ASSUME RecInv, NothingFound
  PROVE  RecInv'
  <1>0. /\ pc = "needs_recovery" /\ pc' = "done" /\ i > Len(deps)
        /\ UNCHANGED <<deps, img, p_img, i, n, cur_off, log_entries, img0>>
    BY DEF NothingFound
  <1>1. RecTypeOK /\ SearchInv /\ KeptInv BY DEF RecInv
  <1>2. \A j \in DOMAIN deps : ~ NeedsRecovery(j)
    <2>1. DOMAIN deps = 1 .. Len(deps) /\ Len(deps) \in Nat BY <1>1 DEF RecTypeOK
    <2>2. \A j \in DOMAIN deps : j \in 1 .. i - 1 BY <1>0, <1>1, <2>1 DEF RecTypeOK
    <2> QED BY <1>1, <2>2 DEF SearchInv
  <1>3. \A w \in Word : img[w] = img0[w] BY <1>1, <1>2 DEF KeptInv, First
  <1>4. img = img0 /\ p_img = img BY <1>0, <1>1, <1>3 DEF KeptInv, RecTypeOK
  <1>5. ReplayIsUndo' BY <1>0, <1>2, <1>4 DEF ReplayIsUndo, NeedsRecovery
  <1>6. RecTypeOK' BY <1>0, <1>1 DEF RecTypeOK, RecPcs
  <1>7. SearchInv' BY <1>0, <1>1 DEF SearchInv, NeedsRecovery
  <1>8. KeptInv' BY <1>0, <1>1 DEF KeptInv, First, NeedsRecovery
  <1>9. ScanInv' /\ ReplayInv' BY <1>0 DEF ScanInv, ReplayInv
  <1> QED BY <1>5, <1>6, <1>7, <1>8, <1>9 DEF RecInv

(* A failure anywhere: the covered words are any mixture, the others are   *)
(* as they were, and the search starts over.                               *)
LEMMA FailureStep ==
  ASSUME RecInv, Failure
  PROVE  RecInv'
  <1>1. RecTypeOK /\ KeptInv BY DEF RecInv
  <1>2. /\ pc' = "needs_recovery" /\ i' = 1 /\ n' = 0 /\ cur_off' = 0
        /\ log_entries' = <<>> /\ UNCHANGED <<deps, img0>> /\ img' = p_img'
    BY DEF Failure
  <1>3. PICK S \in SUBSET Word :
          p_img' = [w \in Word |-> IF w \in S THEN img[w] ELSE p_img[w]]
    BY DEF Failure
  <1>4. p_img' \in [Word -> Val] BY <1>1, <1>3 DEF RecTypeOK
  <1>5. RecTypeOK' BY <1>1, <1>2, <1>4, EmptySeq DEF RecTypeOK, RecPcs
  <1>6. SearchInv' BY <1>2 DEF SearchInv
  <1>7. \A w \in Word : img'[w] \in {img[w], p_img[w]} BY <1>2, <1>3
  <1>8. KeptInv' BY <1>1, <1>2, <1>7 DEF KeptInv, First, NeedsRecovery
  <1>9. ScanInv' /\ ReplayInv' /\ ReplayIsUndo'
    BY <1>2 DEF ScanInv, ReplayInv, ReplayIsUndo
  <1> QED BY <1>5, <1>6, <1>8, <1>9 DEF RecInv

(* Appending a larger position keeps a list of positions increasing. *)
LEMMA AppendIncreasing ==
  ASSUME NEW s \in Seq(Nat), NEW e \in Nat, Increasing(s), \A x \in DOMAIN s : s[x] < e
  PROVE  /\ Increasing(Append(s, e)) /\ Append(s, e) \in Seq(Nat)
         /\ Members(Append(s, e)) = Members(s) \cup {e}
  <1> DEFINE t == Append(s, e)
  <1>1. /\ t \in Seq(Nat) /\ Len(s) \in Nat /\ DOMAIN s = 1 .. Len(s)
        /\ DOMAIN t = 1 .. (Len(s) + 1) /\ t[Len(s) + 1] = e
        /\ \A x \in 1 .. Len(s) : t[x] = s[x]
    OBVIOUS
  <1> HIDE DEF t
  <1>2. Increasing(t)
    <2> SUFFICES ASSUME NEW x \in DOMAIN t, NEW y \in DOMAIN t, x < y
                 PROVE  t[x] < t[y]
      BY DEF Increasing
    <2>1. x \in 1 .. Len(s) BY <1>1
    <2>2. CASE y = Len(s) + 1 BY <1>1, <2>1, <2>2
    <2>3. CASE y # Len(s) + 1
      <3>1. y \in 1 .. Len(s) BY <1>1, <2>3
      <3> QED BY <1>1, <2>1, <3>1 DEF Increasing
    <2> QED BY <2>2, <2>3
  <1>3. {t[x] : x \in DOMAIN t} \subseteq {s[x] : x \in DOMAIN s} \cup {e}
    <2> SUFFICES ASSUME NEW x \in DOMAIN t
                 PROVE  t[x] \in {s[y] : y \in DOMAIN s} \cup {e}
      OBVIOUS
    <2>1. x \in 1 .. Len(s) \/ x = Len(s) + 1 BY <1>1
    <2> QED BY <1>1, <2>1
  <1>4. {s[x] : x \in DOMAIN s} \cup {e} \subseteq {t[x] : x \in DOMAIN t}
    <2>1. \A x \in DOMAIN s : x \in DOMAIN t /\ t[x] = s[x] BY <1>1
    <2>2. Len(s) + 1 \in DOMAIN t BY <1>1
    <2> QED BY <1>1, <2>1, <2>2, Zenon
  <1>5. t \in Seq(Nat) BY <1>1
  <1>6. Members(t) = Members(s) \cup {e} BY <1>3, <1>4, Zenon DEF Members
  <1> QED BY <1>2, <1>5, <1>6 DEF t

(* recover() passes an entry: it starts where the last one ended, and as   *)
(* long as the scan is below log_offset there is one.                      *)
LEMMA ScanStep ==
  ASSUME RecInv, Scan
  PROVE  RecInv'
  <1>0. /\ pc = "scan" /\ cur_off < deps[i].log_offset /\ n' = n + 1
        /\ UNCHANGED <<pc, deps, img, p_img, i, img0>>
        /\ log_entries' = IF content[n + 1].addr \in Word THEN Append(log_entries, n + 1)
                          ELSE log_entries
        /\ cur_off' = cur_off + EntrySize(content[n + 1])
    BY DEF Scan
  <1>1. RecTypeOK /\ SearchInv /\ KeptInv /\ ScanInv BY DEF RecInv
  <1>2. PICK lg \in LogSet : lg = deps[i] BY <1>0, FirstIs
  <1>3. content = lg.content /\ content' = lg.content BY <1>0, <1>2 DEF content
  <1>4. /\ Len(lg.content) \in Nat /\ DOMAIN lg.content = 1 .. Len(lg.content)
        /\ lg.log_offset \in Nat /\ n \in Nat /\ cur_off \in Nat
        /\ log_entries \in Seq(Nat) /\ n <= Len(lg.content)
        /\ cur_off = (IF n = 0 THEN 0 ELSE EndOf(lg, n))
        /\ Increasing(log_entries)
        /\ Pending = {k \in 1 .. n : lg.content[k].addr \in Word}
        /\ \A k \in 1 .. n : lg.content[k].off < lg.log_offset
    BY <1>0, <1>1, <1>2, <1>3, EntryFacts DEF RecTypeOK, ScanInv
  <1>5. n + 1 \in DOMAIN lg.content
    <2> SUFFICES ASSUME n = Len(lg.content) PROVE FALSE BY <1>4
    <2>0. cur_off < lg.log_offset BY <1>0, <1>2
    <2>1. PICK k \in DOMAIN lg.content : lg.log_offset <= EndOf(lg, k)
      <3>1. lg.log_offset > 0 BY <1>4, <2>0
      <3> QED BY <3>1, EntryFacts
    <2>2. k \in 1 .. n /\ n # 0 /\ n \in DOMAIN lg.content BY <1>4
    <2>3. /\ lg.content[k].off \in Nat /\ EntrySize(lg.content[k]) \in Nat
          /\ lg.content[n].off \in Nat /\ EntrySize(lg.content[n]) \in Nat
      BY <2>2, EntryFacts
    <2>4. k < n => EndOf(lg, k) <= lg.content[n].off BY <2>2, EntryOrder
    <2>5. EndOf(lg, k) <= EndOf(lg, n)
      <3>1. CASE k = n BY <2>3, <3>1 DEF EndOf
      <3>2. CASE k # n BY <1>4, <2>2, <2>3, <2>4, <3>2, SMTT(30) DEF EndOf
      <3> QED BY <3>1, <3>2
    <2>6. cur_off = EndOf(lg, n) BY <1>4, <2>2
    <2>7. EndOf(lg, k) \in Nat /\ EndOf(lg, n) \in Nat BY <2>3, SMTT(30) DEF EndOf
    <2> QED BY <1>4, <2>0, <2>1, <2>5, <2>6, <2>7
  <1>6. lg.content[n + 1].off = cur_off /\ EntrySize(lg.content[n + 1]) \in Nat
    <2>1. n + 1 = 1 <=> n = 0 BY <1>4
    <2>2. (n + 1) - 1 = n BY <1>4
    <2> QED BY <1>4, <1>5, <2>1, <2>2, EntryFacts, ZenonT(30)
  <1>7. cur_off' = EndOf(lg, n + 1) BY <1>0, <1>3, <1>6 DEF EndOf
  <1>8. \A x \in DOMAIN log_entries : log_entries[x] < n + 1
    <2>1. \A x \in DOMAIN log_entries : log_entries[x] \in 1 .. n BY <1>4 DEF Pending, Members
    <2> QED BY <1>4, <2>1
  <1>9. /\ Increasing(log_entries') /\ log_entries' \in Seq(Nat)
        /\ Pending' = {k \in 1 .. (n + 1) : lg.content[k].addr \in Word}
    <2>0. \A k : k \in 1 .. (n + 1) <=> k \in 1 .. n \/ k = n + 1 BY <1>4
    <2>1. CASE lg.content[n + 1].addr \in Word
      <3>1. log_entries' = Append(log_entries, n + 1) BY <1>0, <1>3, <2>1
      <3>2. n + 1 \in Nat BY <1>4
      <3>3. PICK t : t = Append(log_entries, n + 1) BY Zenon
      <3>5. Increasing(t) /\ t \in Seq(Nat)
        BY <1>4, <1>8, <3>2, <3>3, AppendIncreasing
      <3>6. Members(t) = Members(log_entries) \cup {n + 1}
        BY <1>4, <1>8, <3>2, <3>3, AppendIncreasing
      <3>4. Pending' = Pending \cup {n + 1} BY <3>1, <3>3, <3>6 DEF Pending
      <3> QED BY <1>4, <2>0, <2>1, <3>1, <3>3, <3>5, <3>4
    <2>2. CASE lg.content[n + 1].addr \notin Word
      <3>1. log_entries' = log_entries /\ Pending' = Pending BY <1>0, <1>3, <2>2 DEF Pending
      <3> QED BY <1>4, <2>0, <2>2, <3>1
    <2> QED BY <2>1, <2>2
  <1>10. RecTypeOK'
    <2>1. n' \in Nat /\ cur_off' \in Nat BY <1>0, <1>3, <1>4, <1>6
    <2> QED BY <1>0, <1>1, <1>9, <2>1 DEF RecTypeOK
  <1>11. SearchInv' BY <1>0, <1>1 DEF SearchInv, First, NeedsRecovery
  <1>12. KeptInv' BY <1>0, <1>1 DEF KeptInv, First, NeedsRecovery
  <1>13. ScanInv'
    <2>1. Increasing(log_entries)' BY <1>9 DEF Increasing
    <2>2. n' <= Len(content') /\ n' # 0 /\ deps'[i'] = lg
      <3>1. n + 1 <= Len(lg.content) /\ n + 1 # 0 BY <1>4, <1>5
      <3> QED BY <1>0, <1>2, <1>3, <3>1
    <2>3. \A k \in 1 .. n' : content'[k].off < deps'[i'].log_offset
      <3>1. \A k \in 1 .. n' : k \in 1 .. n \/ k = n + 1 BY <1>0, <1>4
      <3> QED BY <1>0, <1>2, <1>3, <1>4, <1>6, <2>2, <3>1, Zenon
    <2>4. cur_off' = EndOf(deps[i], n)' BY <1>0, <1>2, <1>7 DEF EndOf
    <2>5. Pending' = {k \in 1 .. n' : content'[k].addr \in Word} BY <1>0, <1>3, <1>9
    <2> QED BY <2>1, <2>2, <2>3, <2>4, <2>5 DEF ScanInv
  <1>14. ReplayInv' /\ ReplayIsUndo' BY <1>0 DEF ReplayInv, ReplayIsUndo
  <1> QED BY <1>10, <1>11, <1>12, <1>13, <1>14 DEF RecInv

(* The scan has reached log_offset: the list has the effective entries. *)
LEMMA ScanDoneStep ==
  ASSUME RecInv, ScanDone
  PROVE  RecInv'
  <1>0. /\ pc = "scan" /\ cur_off >= deps[i].log_offset /\ pc' = "apply"
        /\ UNCHANGED <<deps, img, p_img, i, n, cur_off, log_entries, img0>>
    BY DEF ScanDone
  <1>1. RecTypeOK /\ SearchInv /\ KeptInv /\ ScanInv BY DEF RecInv
  <1>2. PICK lg \in LogSet : lg = deps[i] BY <1>0, FirstIs
  <1>3. /\ Len(lg.content) \in Nat /\ DOMAIN lg.content = 1 .. Len(lg.content)
        /\ lg.log_offset \in Nat /\ n \in Nat /\ n <= Len(lg.content)
        /\ cur_off = (IF n = 0 THEN 0 ELSE EndOf(lg, n))
        /\ Increasing(log_entries)
        /\ Pending = {k \in 1 .. n : lg.content[k].addr \in Word}
        /\ \A k \in 1 .. n : lg.content[k].off < lg.log_offset
    BY <1>0, <1>1, <1>2, EntryFacts, ZenonT(30) DEF RecTypeOK, ScanInv, content
  <1>4. \A k \in DOMAIN lg.content : lg.content[k].off < lg.log_offset <=> k \in 1 .. n
    <2> SUFFICES ASSUME NEW k \in DOMAIN lg.content, ~ (k \in 1 .. n)
                 PROVE  ~ (lg.content[k].off < lg.log_offset)
      BY <1>3
    <2>1. lg.content[k].off \in Nat BY EntryFacts
    <2>2. cur_off <= lg.content[k].off
      <3>1. CASE n = 0 BY <1>3, <2>1, <3>1
      <3>2. CASE n # 0
        <4>1. n \in DOMAIN lg.content /\ n < k BY <1>3, <3>2
        <4> QED BY <1>3, <3>2, <4>1, EntryOrder
      <3> QED BY <3>1, <3>2
    <2>3. cur_off \in Nat /\ cur_off >= lg.log_offset BY <1>0, <1>1, <1>2 DEF RecTypeOK
    <2> QED BY <1>3, <2>1, <2>2, <2>3
  <1>5. Pending = Effective(lg)
    <2>1. \A k \in 1 .. n : k \in DOMAIN lg.content BY <1>3
    <2> QED BY <1>3, <1>4, <2>1 DEF Effective
  <1>6. RecTypeOK' BY <1>0, <1>1 DEF RecTypeOK, RecPcs
  <1>7. SearchInv' BY <1>0, <1>1 DEF SearchInv, First, NeedsRecovery
  <1>8. KeptInv' BY <1>0, <1>1 DEF KeptInv, First, NeedsRecovery
  <1>9. ReplayInv'
    <2>1. Pending' = Effective(deps[i])' BY <1>0, <1>2, <1>5 DEF Pending, Effective
    <2>2. Increasing(log_entries)' BY <1>0, <1>3 DEF Increasing
    <2>3. (Effective(deps[i]) \ Pending)' = {} BY <2>1
    <2>4. Restored(img, deps[i], Effective(deps[i]) \ Pending)' BY <2>3 DEF Restored
    <2> QED BY <1>0, <2>1, <2>2, <2>3, <2>4 DEF ReplayInv
  <1>10. ScanInv' /\ ReplayIsUndo' BY <1>0 DEF ScanInv, ReplayIsUndo
  <1> QED BY <1>6, <1>7, <1>8, <1>9, <1>10 DEF RecInv

(* Taking the last of an increasing list of positions away. *)
LEMMA DropLast ==
  ASSUME NEW s \in Seq(Nat), s # <<>>, Increasing(s)
  PROVE  LET l == s[Len(s)]
             t == SubSeq(s, 1, Len(s) - 1)
         IN  /\ l \in Members(s) /\ l \in Nat /\ t \in Seq(Nat) /\ Increasing(t)
             /\ Members(t) = Members(s) \ {l}
             /\ \A j \in Members(t) : j < l
  <1> DEFINE l == s[Len(s)]
             t == SubSeq(s, 1, Len(s) - 1)
  <1>1. Len(s) \in Nat /\ Len(s) # 0 /\ DOMAIN s = 1 .. Len(s)
    OBVIOUS
  <1>2. Len(s) \in DOMAIN s /\ l \in Nat BY <1>1
  <1>3. /\ t \in Seq(Nat) /\ DOMAIN t = 1 .. (Len(s) - 1)
        /\ \A x \in 1 .. (Len(s) - 1) : t[x] = s[x]
    BY <1>1
  <1>4. \A x \in DOMAIN t : x \in DOMAIN s /\ x < Len(s) /\ s[x] = t[x] BY <1>1, <1>3
  <1>5. \A x \in DOMAIN s : x \in DOMAIN t \/ x = Len(s) BY <1>1, <1>3
  <1>6. \A x \in DOMAIN t : t[x] < l BY <1>2, <1>4 DEF Increasing
  <1> HIDE DEF t
  <1>7. Increasing(t) BY <1>4 DEF Increasing
  <1>8. Members(t) = Members(s) \ {l}
    <2>1. \A x \in DOMAIN t : t[x] # l
      <3> TAKE x \in DOMAIN t
      <3>1. t[x] < l /\ t[x] \in Nat BY <1>3, <1>6, SMTT(30)
      <3> QED BY <1>2, <3>1
    <2> HIDE DEF l
    <2>2. l = s[Len(s)] BY DEF l
    <2>3. Members(t) \subseteq Members(s) \ {l} BY <1>4, <2>1 DEF Members
    <2>4. Members(s) \ {l} \subseteq Members(t) BY <1>4, <1>5, <2>2 DEF Members
    <2> QED BY <2>3, <2>4
  <1>9. l \in Members(s) BY <1>2 DEF Members
  <1>10. \A j \in Members(t) : j < l BY <1>6 DEF Members
  <1> QED BY <1>2, <1>3, <1>7, <1>8, <1>9, <1>10 DEF t

(* Restoring the words of an entry before all of S restores S and it. *)
LEMMA RestoreOne ==
  ASSUME NEW lg, NEW S \in SUBSET Nat, NEW l \in Nat, \A k \in S : l < k,
         NEW x, Restored(x, lg, S),
         NEW y, y = [w \in Word |-> IF w \in WordsOf(lg.content[l]) THEN lg.content[l].old[w]
                                    ELSE x[w]]
  PROVE  Restored(y, lg, S \cup {l})
  <1> SUFFICES ASSUME NEW w \in Word, NEW k \in S \cup {l}, w \in WordsOf(lg.content[k]),
                      \A j \in S \cup {l} : w \in WordsOf(lg.content[j]) => k <= j
               PROVE  y[w] = lg.content[k].old[w]
    BY DEF Restored
  <1>1. CASE w \in WordsOf(lg.content[l])
    <2>1. k <= l /\ k \in Nat BY <1>1
    <2>2. k = l BY <2>1
    <2> QED BY <1>1, <2>2
  <1>2. CASE w \notin WordsOf(lg.content[l])
    <2>1. k \in S BY <1>2
    <2>2. x[w] = lg.content[k].old[w] BY <2>1, Zenon DEF Restored
    <2> QED BY <1>2, <2>2
  <1> QED BY <1>1, <1>2

(* The last entry of the list is written back. *)
LEMMA ApplyStep ==
  ASSUME RecInv, Apply
  PROVE  RecInv'
  <1>0. /\ pc = "apply" /\ log_entries # <<>> /\ pc' = "drain"
        /\ UNCHANGED <<deps, p_img, i, n, cur_off, log_entries, img0>>
    BY DEF Apply
  <1>1. RecTypeOK /\ SearchInv /\ KeptInv /\ ReplayInv BY DEF RecInv
  <1>2. PICK lg \in LogSet : lg = deps[i] BY <1>0, FirstIs
  <1>3. PICK l : l = log_entries[Len(log_entries)] OBVIOUS
  <1>4. img' = [w \in Word |-> IF w \in WordsOf(lg.content[l]) THEN lg.content[l].old[w]
                               ELSE img[w]]
    BY <1>2, <1>3 DEF Apply, content
  <1>5. /\ Increasing(log_entries) /\ Pending \subseteq Effective(lg)
        /\ \A j \in Pending : \A k \in Effective(lg) \ Pending : j < k
        /\ Restored(img, lg, Effective(lg) \ Pending)
    BY <1>0, <1>1, <1>2 DEF ReplayInv
  <1>6. l \in Pending /\ l \in Nat
    BY <1>0, <1>1, <1>3, <1>5, DropLast DEF RecTypeOK, Pending
  <1>7. l \in DOMAIN lg.content /\ Effective(lg) \in SUBSET Nat
    <2>1. DOMAIN lg.content \subseteq Nat BY EntryFacts
    <2> QED BY <1>5, <1>6, <2>1 DEF Effective
  <1>8. img' \in [Word -> Val]
    <2>1. \A w \in WordsOf(lg.content[l]) : lg.content[l].old[w] \in Val BY <1>7, EntryFacts
    <2> QED BY <1>1, <1>4, <2>1 DEF RecTypeOK
  <1>9. RecTypeOK' BY <1>0, <1>1, <1>8 DEF RecTypeOK, RecPcs
  <1>10. SearchInv' BY <1>0, <1>1 DEF SearchInv, First, NeedsRecovery
  <1>11. KeptInv'
    <2> SUFFICES ASSUME NEW w \in Word,
                        \A j \in DOMAIN deps : First(j) =>
                          \A k \in Effective(deps[j]) : w \notin WordsOf(deps[j].content[k])
                 PROVE  img'[w] = img0[w] /\ p_img[w] = img0[w]
      BY <1>0 DEF KeptInv, First, NeedsRecovery
    <2>1. img[w] = img0[w] /\ p_img[w] = img0[w] BY <1>1 DEF KeptInv
    <2>2. i \in DOMAIN deps /\ First(i) BY <1>0, FirstIs
    <2>3. l \in Effective(deps[i]) BY <1>2, <1>5, <1>6, Zenon
    <2>4. w \notin WordsOf(lg.content[l]) BY <1>2, <2>2, <2>3
    <2> QED BY <1>4, <2>1, <2>4
  <1>12. ReplayInv'
    <2>1. Restored(img', lg, (Effective(lg) \ Pending) \cup {l})
      BY <1>4, <1>5, <1>6, <1>7, RestoreOne
    <2>2. /\ Pending' = Pending /\ Effective(deps[i])' = Effective(lg) /\ deps'[i'] = lg
          /\ log_entries'[Len(log_entries')] = l /\ log_entries' = log_entries
      BY <1>0, <1>2, <1>3 DEF Pending, Effective
    <2>3. Restored(img', deps'[i'], (Effective(deps[i])' \ Pending')
                                      \cup {log_entries'[Len(log_entries')]})
      BY <2>1, <2>2
    <2> QED BY <1>0, <1>5, <2>2, <2>3, Zenon DEF ReplayInv, Restored, Increasing
  <1>13. ScanInv' /\ ReplayIsUndo' BY <1>0 DEF ScanInv, ReplayIsUndo
  <1> QED BY <1>9, <1>10, <1>11, <1>12, <1>13 DEF RecInv

(* The entry is on the media and leaves the list. *)
LEMMA DrainStep ==
  ASSUME RecInv, Drain
  PROVE  RecInv'
  <1>0. /\ pc = "drain" /\ pc' = "apply" /\ p_img' = img
        /\ log_entries' = SubSeq(log_entries, 1, Len(log_entries) - 1)
        /\ UNCHANGED <<deps, img, i, n, cur_off, img0>>
    BY DEF Drain
  <1>1. RecTypeOK /\ SearchInv /\ KeptInv /\ ReplayInv BY DEF RecInv
  <1>2. PICK lg \in LogSet : lg = deps[i] BY <1>0, FirstIs
  <1>3. PICK l : l = log_entries[Len(log_entries)] OBVIOUS
  <1>5. /\ Increasing(log_entries) /\ Pending \subseteq Effective(lg)
        /\ \A j \in Pending : \A k \in Effective(lg) \ Pending : j < k
        /\ log_entries # <<>>
        /\ Restored(img, lg, (Effective(lg) \ Pending) \cup {l})
    BY <1>0, <1>1, <1>2, <1>3 DEF ReplayInv
  <1>6. /\ l \in Pending /\ log_entries' \in Seq(Nat) /\ Increasing(log_entries')
        /\ Pending' = Pending \ {l} /\ \A j \in Pending' : j < l
    <2>1. log_entries \in Seq(Nat) BY <1>1 DEF RecTypeOK
    <2> QED BY <1>0, <1>3, <1>5, <2>1, DropLast DEF Pending
  <1>7. Effective(lg) \ Pending' = (Effective(lg) \ Pending) \cup {l} BY <1>5, <1>6
  <1>8. RecTypeOK' BY <1>0, <1>1, <1>6 DEF RecTypeOK, RecPcs
  <1>9. SearchInv' BY <1>0, <1>1 DEF SearchInv, First, NeedsRecovery
  <1>10. KeptInv' BY <1>0, <1>1 DEF KeptInv, First, NeedsRecovery
  <1>11. ReplayInv'
    <2>1. Effective(deps[i])' = Effective(lg) /\ deps'[i'] = lg
      BY <1>0, <1>2 DEF Effective
    <2>2. Restored(img', deps'[i'], Effective(deps[i])' \ Pending')
      BY <1>0, <1>5, <1>7, <2>1, Zenon
    <2>3. \A j \in Pending' : \A k \in Effective(lg) \ Pending' : j < k
      BY <1>5, <1>6, <1>7
    <2> QED BY <1>0, <1>5, <1>6, <2>1, <2>2, <2>3, Zenon DEF ReplayInv, Restored, Increasing
  <1>12. ScanInv' /\ ReplayIsUndo' BY <1>0 DEF ScanInv, ReplayIsUndo
  <1> QED BY <1>8, <1>9, <1>10, <1>11, <1>12 DEF RecInv

(* The list is empty: every effective entry has been undone. *)
LEMMA ApplyDoneStep ==
  ASSUME RecInv, ApplyDone
  PROVE  RecInv'
  <1>0. /\ pc = "apply" /\ log_entries = <<>> /\ pc' = "done"
        /\ UNCHANGED <<deps, img, p_img, i, n, cur_off, log_entries, img0>>
    BY DEF ApplyDone
  <1>1. RecTypeOK /\ SearchInv /\ KeptInv /\ ReplayInv BY DEF RecInv
  <1>2. /\ i \in DOMAIN deps /\ First(i)
        /\ \A j \in DOMAIN deps : First(j) => j = i
    BY <1>0, FirstIs
  <1>3. Pending = {} BY <1>0 DEF Pending, Members
  <1>4. Restored(img, deps[i], Effective(deps[i]))
    <2>1. Effective(deps[i]) \ Pending = Effective(deps[i]) BY <1>3
    <2> QED BY <1>0, <1>1, <2>1, Zenon DEF ReplayInv
  <1>5. IsUndone(img, img0, deps[i])
    <2>1. ASSUME NEW w \in Word,
                 \A k \in Effective(deps[i]) : w \notin WordsOf(deps[i].content[k])
          PROVE  img[w] = img0[w]
      BY <1>1, <1>2, <2>1 DEF KeptInv
    <2> QED BY <1>4, <2>1 DEF IsUndone, Restored
  <1>6. \A j \in DOMAIN deps :
          (NeedsRecovery(j) /\ \A m \in 1 .. j - 1 : ~NeedsRecovery(m))
            => IsUndone(img, img0, deps[j])
    BY <1>2, <1>5 DEF First
  <1>7. p_img = img /\ NeedsRecovery(i) BY <1>0, <1>1, <1>2 DEF KeptInv, First
  <1>8. ReplayIsUndo'
    BY <1>0, <1>2, <1>6, <1>7 DEF ReplayIsUndo, NeedsRecovery
  <1>9. RecTypeOK' BY <1>0, <1>1 DEF RecTypeOK, RecPcs
  <1>10. SearchInv' BY <1>0, <1>1 DEF SearchInv, NeedsRecovery
  <1>11. KeptInv' BY <1>0, <1>1 DEF KeptInv, First, NeedsRecovery
  <1>12. ScanInv' /\ ReplayInv' BY <1>0 DEF ScanInv, ReplayInv
  <1> QED BY <1>8, <1>9, <1>10, <1>11, <1>12 DEF RecInv

(* RecInv is inductive. *)
LEMMA RecStep == RecInv /\ [Next]_vars => RecInv'
  <1> SUFFICES ASSUME RecInv, [Next]_vars PROVE RecInv' OBVIOUS
  <1>1. CASE UNCHANGED vars
    <2> USE <1>1 DEF vars, RecInv
    <2>1. RecTypeOK' BY DEF RecTypeOK
    <2>2. SearchInv' BY DEF SearchInv, First, NeedsRecovery
    <2>3. KeptInv' BY Zenon DEF KeptInv, First, NeedsRecovery
    <2>4. ScanInv' BY DEF ScanInv, Pending, content
    <2>5. ReplayInv' BY Zenon DEF ReplayInv, Pending
    <2>6. ReplayIsUndo' BY DEF ReplayIsUndo, NeedsRecovery
    <2> QED BY <2>1, <2>2, <2>3, <2>4, <2>5, <2>6
  <1> QED BY <1>1, SearchStep, NothingStep, ScanStep, ScanDoneStep, ApplyStep, DrainStep,
             ApplyDoneStep, FailureStep DEF Next, Step

(* ReplayIsUndo for every file, every set of logs that log_range can have  *)
(* left and any number of failures: when PmemFile's constructor returns,   *)
(* the first ACTIVE log has been undone on the media and nothing else has  *)
(* changed (needs_recovery and recover, recovery.cc).                      *)
THEOREM ReplayAlwaysUndoes == Spec => []ReplayIsUndo
  <1>1. RecInv => ReplayIsUndo BY DEF RecInv
  <1> QED BY <1>1, RecInitial, RecStep, PTL DEF Spec
=============================================================================
