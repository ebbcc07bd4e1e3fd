------------------------- MODULE Applications_proofs -------------------------
(***************************************************************************)
(* Proofs about the programs that step through a traversal, a command loop *)
(* or a function's instructions (hoh, famus_snap and the compiler pass),   *)
(* and about the small libraries: pmbuffer, pmdkemul, the NUMA binder and  *)
(* the sampling of page accesses.                                          *)
(***************************************************************************)
EXTENDS Hoh, Famus, StorePass, PmBuffer, PmdkTx, NumaBinder, Sampling, TLAPS

-----------------------------------------------------------------------------
(* Hand over hand traversal, for every length of list and every number of  *)
(* threads: traversals never overtake and never increment a stale value.   *)

\* The first state satisfies the invariant: no mutex is held, nobody has a turn.
LEMMA HohInit == HInit => HInv
  BY HohAssumption
  DEF HInit, HInv, HTypeOK, Places, PlaceOK, OwnerHolds, NoOvertaking, ReadIsCurrent, Frontier, Held,
      Travs, ListNodes, Free, Serial

\* A step of traversal t moves no other traversal: where the others stand and
\* what they hold is as before.
LEMMA OthersStay ==
  ASSUME HInv, NEW t \in Travs, Traverse(t), NEW u \in Travs, u # t
  PROVE  /\ Frontier(u)' = Frontier(u) /\ Held(u)' = Held(u)
         /\ hpc'[u] = hpc[u] /\ prev'[u] = prev[u] /\ next'[u] = next[u]
         /\ seen'[u] = seen[u] /\ ticket'[u] = ticket[u]
  <1>1. /\ hpc'[u] = hpc[u] /\ prev'[u] = prev[u] /\ next'[u] = next[u]
        /\ seen'[u] = seen[u] /\ ticket'[u] = ticket[u]
    BY Zenon DEF HInv, HTypeOK, Traverse, Begin, LockHead, Advance, LockNext, UnlockPrev, ReadData,
           WriteData, UnlockLast
  <1> QED BY <1>1, Zenon DEF Frontier, Held

\* Every step of a traversal keeps the types.
LEMMA HohType ==
  ASSUME HInv, NEW t \in Travs, Traverse(t)
  PROVE  HTypeOK'
  <1> USE HohAssumption DEF HInv, HTypeOK, ListNodes
  <1>0. PlaceOK(t) BY Zenon DEF Places
  <1>1. CASE Begin(t)
    <2>1. 1 \in 0..ListLen OBVIOUS
    <2>2. prev' \in [Travs -> 0..ListLen] BY <1>1, <2>1, Zenon DEF Begin
    <2>3. hpc' \in [Travs -> {"off", "start", "head", "loop", "next", "prev", "read", "write",
                             "last", "done"}]
      BY <1>1, Zenon DEF Begin
    <2>4. id' \in [Travs -> Travs \cup {0}] BY <1>1, Zenon DEF Begin
    <2> QED BY <1>1, <2>2, <2>3, <2>4, Zenon DEF Begin
  <1>2. CASE LockHead(t) BY <1>2, SMTT(30) DEF LockHead
  <1>3. CASE Advance(t)
    <2>1. PICK v : v = IF prev[t] < ListLen THEN prev[t] + 1 ELSE 0 BY Zenon
    <2>2. v \in 0..ListLen
      <3>1. prev[t] \in 0..ListLen /\ ListLen \in Nat BY Zenon
      <3> HIDE DEF HInv
      <3> QED BY <2>1, <3>1
    <2>3. next' \in [Travs -> 0..ListLen] BY <1>3, <2>1, <2>2, Zenon DEF Advance
    <2>4. hpc' \in [Travs -> {"off", "start", "head", "loop", "next", "prev", "read", "write",
                             "last", "done"}]
      BY <1>3, Zenon DEF Advance
    <2> QED BY <1>3, <2>3, <2>4, Zenon DEF Advance
  <1>4. CASE LockNext(t) BY <1>0, <1>4, Zenon DEF LockNext, PlaceOK
  <1>5. CASE UnlockPrev(t)
    <2>1. owner' \in [ListNodes -> Travs \cup {Free}] BY <1>5, Zenon DEF UnlockPrev
    <2>2. prev' \in [Travs -> 0..ListLen] BY <1>5 DEF UnlockPrev
    <2>3. hpc' \in [Travs -> {"off", "start", "head", "loop", "next", "prev", "read", "write",
                             "last", "done"}]
      BY <1>5, Zenon DEF UnlockPrev
    <2> QED BY <1>5, <2>1, <2>2, <2>3, Zenon DEF UnlockPrev
  <1>6. CASE ReadData(t)
    <2>1. seen' \in [Travs -> Int] BY <1>0, <1>6, Zenon DEF ReadData, PlaceOK
    <2>2. hpc' \in [Travs -> {"off", "start", "head", "loop", "next", "prev", "read", "write",
                             "last", "done"}]
      BY <1>6, Zenon DEF ReadData
    <2> QED BY <1>6, <2>1, <2>2, Zenon DEF ReadData
  <1>7. CASE WriteData(t)
    <2>1. next[t] \in 0..ListLen /\ seen[t] + 1 \in Int
      OBVIOUS
    <2>2. data' \in [ListNodes -> Int] BY <1>7, <2>1, Zenon DEF WriteData
    <2>3. prev' \in [Travs -> 0..ListLen] BY <1>7, <2>1, Zenon DEF WriteData
    <2>4. hpc' \in [Travs -> {"off", "start", "head", "loop", "next", "prev", "read", "write",
                             "last", "done"}]
      BY <1>7, Zenon DEF WriteData
    <2> QED BY <1>7, <2>2, <2>3, <2>4, Zenon DEF WriteData
  <1>8. CASE UnlockLast(t)
    <2>1. owner' \in [ListNodes -> Travs \cup {Free}] BY <1>8, Zenon DEF UnlockLast
    <2>2. prev' \in [Travs -> 0..ListLen] BY <1>8 DEF UnlockLast
    <2>3. hpc' \in [Travs -> {"off", "start", "head", "loop", "next", "prev", "read", "write",
                             "last", "done"}]
      BY <1>8, Zenon DEF UnlockLast
    <2> QED BY <1>8, <2>1, <2>2, <2>3, Zenon DEF UnlockLast
  <1> QED BY <1>1, <1>2, <1>3, <1>4, <1>5, <1>6, <1>7, <1>8, Zenon DEF Traverse

\* Every step keeps the pointers consistent with the traversal's place.
LEMMA HohPlace ==
  ASSUME HInv, NEW t \in Travs, Traverse(t)
  PROVE  Places'
  <1>0. turns' >= turns /\ turns \in Nat /\ PlaceOK(t)
    <2>1. turns \in Nat /\ PlaceOK(t) BY Zenon DEF HInv, HTypeOK, Places
    <2>2. turns' = turns \/ turns' = turns + 1
      BY Zenon DEF Traverse, Begin, LockHead, Advance, LockNext, UnlockPrev, ReadData,
                   WriteData, UnlockLast
    <2> QED BY <2>1, <2>2
  <1>1. ASSUME NEW u \in Travs, u # t PROVE PlaceOK(u)'
    <2>1. PlaceOK(u) /\ ticket[u] \in Nat BY Zenon DEF HInv, Places, HTypeOK
    <2>2. /\ hpc'[u] = hpc[u] /\ prev'[u] = prev[u] /\ next'[u] = next[u]
          /\ ticket'[u] = ticket[u] /\ turns' \in Nat /\ created' = created
      BY <1>1, OthersStay, HohType, ZenonT(30)
      DEF HTypeOK, Traverse, Begin, LockHead, Advance, LockNext, UnlockPrev, ReadData,
          WriteData, UnlockLast
    <2> QED BY <1>0, <2>1, <2>2 DEF PlaceOK
  <1>2. PlaceOK(t)'
    <2> USE <1>0, HohAssumption DEF HInv, HTypeOK, PlaceOK, ListNodes
    <2>1. CASE Begin(t) BY <2>1, Zenon DEF Begin
    <2>2. CASE LockHead(t) BY <2>2 DEF LockHead
    <2>3. CASE Advance(t)
      <3>1. /\ prev[t] \in ListNodes /\ prev'[t] = prev[t]
            /\ hpc'[t] = IF prev[t] < ListLen THEN "next" ELSE "last"
            /\ next'[t] = IF prev[t] < ListLen THEN prev[t] + 1 ELSE 0
        BY <2>3, Zenon DEF Advance
      <3>2. CASE prev[t] < ListLen
        <4>1. hpc'[t] = "next" /\ next'[t] = prev[t] + 1 BY <3>1, <3>2, Zenon
        <4> QED BY <2>3, <3>1, <3>2, <4>1, Zenon DEF Advance
      <3>3. CASE ~(prev[t] < ListLen)
        <4>1. hpc'[t] = "last" BY <3>1, <3>3, Zenon
        <4>2. prev[t] = ListLen BY ONLY <3>1, <3>3, HohAssumption DEF ListNodes
        <4> QED BY <2>3, <3>1, <4>1, <4>2, Zenon DEF Advance
      <3> QED BY <3>2, <3>3, Zenon
    <2>4. CASE LockNext(t) BY <2>4, Zenon DEF LockNext
    <2>5. CASE UnlockPrev(t) BY <2>5 DEF UnlockPrev
    <2>6. CASE ReadData(t) BY <2>6, Zenon DEF ReadData
    <2>7. CASE WriteData(t) BY <2>7, Zenon DEF WriteData
    <2>8. CASE UnlockLast(t) BY <2>8, Zenon DEF UnlockLast
    <2> QED BY <2>1, <2>2, <2>3, <2>4, <2>5, <2>6, <2>7, <2>8, Zenon DEF Traverse
  <1> QED BY <1>1, <1>2, Zenon DEF Places

\* Every step keeps the owners: a mutex is taken only when free and given back
\* only by its owner.
LEMMA HohOwner ==
  ASSUME HInv, NEW t \in Travs, Traverse(t)
  PROVE  OwnerHolds'
  <1>0. /\ PlaceOK(t) /\ t # Free
        /\ owner \in [ListNodes -> Travs \cup {Free}]
        /\ DOMAIN hpc = Travs /\ prev \in [Travs -> 0..ListLen]
        /\ next \in [Travs -> 0..ListLen]
        /\ \A k \in ListNodes : owner[k] = t <=> k \in Held(t)
    <2>1. t # Free BY HohAssumption DEF Travs, Free, Serial
    <2> QED BY <2>1, Zenon DEF HInv, HTypeOK, Places, OwnerHolds
  <1>1. ASSUME NEW u \in Travs, u # t, NEW k \in ListNodes
        PROVE  owner'[k] = u <=> k \in Held(u)'
    <2>1. (owner[k] = u <=> k \in Held(u)) /\ Held(u)' = Held(u) /\ u # Free
      BY <1>1, OthersStay DEF HInv, OwnerHolds, Travs, Free
    <2>2. owner'[k] = u <=> owner[k] = u
      BY <1>0, <1>1, <2>1, HohAssumption, Zenon
      DEF Traverse, Begin, LockHead, Advance, LockNext, UnlockPrev, ReadData, WriteData,
          UnlockLast, Held, PlaceOK, ListNodes
    <2> QED BY <2>1, <2>2, Zenon
  <1>2. ASSUME NEW k \in ListNodes PROVE owner'[k] = t <=> k \in Held(t)'
    <2> USE <1>0, <1>2, HohAssumption DEF Held, PlaceOK, ListNodes
    <2>1. CASE Begin(t) BY <2>1, Zenon DEF Begin
    <2>2. CASE LockHead(t) BY <2>2, Zenon DEF LockHead
    <2>3. CASE Advance(t) BY <2>3, Zenon DEF Advance
    <2>4. CASE LockNext(t) BY <2>4, Zenon DEF LockNext
    <2>5. CASE UnlockPrev(t) BY <2>5 DEF UnlockPrev
    <2>6. CASE ReadData(t) BY <2>6, Zenon DEF ReadData
    <2>7. CASE WriteData(t) BY <2>7, Zenon DEF WriteData
    <2>8. CASE UnlockLast(t) BY <2>8, Zenon DEF UnlockLast
    <2> QED BY <2>1, <2>2, <2>3, <2>4, <2>5, <2>6, <2>7, <2>8, Zenon DEF Traverse
  <1> QED BY <1>1, <1>2, Zenon DEF OwnerHolds

\* A step that takes a turn at the head finds it free, so it starts behind
\* everyone; a step to the next node finds that node free, so whoever was ahead
\* is still ahead.
LEMMA HohOrder ==
  ASSUME HInv, NEW t \in Travs, Traverse(t)
  PROVE  NoOvertaking'
  <1>0. /\ PlaceOK(t) /\ DOMAIN hpc = Travs /\ DOMAIN prev = Travs /\ DOMAIN next = Travs
        /\ ticket \in [Travs -> Nat] /\ turns \in Nat
    BY Zenon DEF HInv, HTypeOK, Places
  <1>1. \A u \in Travs : Frontier(u) \in 0..(ListLen + 1) /\ Frontier(u)' \in 0..(ListLen + 1)
    <2>1. /\ ListLen \in Nat /\ 0 \in 0..(ListLen + 1) /\ ListLen + 1 \in 0..(ListLen + 1)
          /\ \A k \in 0..ListLen : k \in 0..(ListLen + 1)
      BY ONLY HohAssumption
    <2>2. \A u \in Travs : prev[u] \in 0..ListLen /\ next[u] \in 0..ListLen
      BY Zenon DEF HInv, HTypeOK
    <2>3. \A u \in Travs : prev'[u] \in 0..ListLen /\ next'[u] \in 0..ListLen
      BY HohType, Zenon DEF HTypeOK
    <2> QED BY <2>1, <2>2, <2>3, Zenon DEF Frontier
  \* a traversal at a node owns it
  <1>2. \A u \in Travs : Frontier(u) \in ListNodes => owner[Frontier(u)] = u
    <2>1. ASSUME NEW u \in Travs, Frontier(u) \in ListNodes PROVE Frontier(u) \in Held(u)
      <3>1. hpc[u] \in {"off", "start", "head", "loop", "next", "prev", "read", "write",
                        "last", "done"}
        BY Zenon DEF HInv, HTypeOK
      <3>2. 0 \notin ListNodes /\ ListLen + 1 \notin ListNodes BY HohAssumption DEF ListNodes
      <3>3. hpc[u] \notin {"off", "start", "head"} BY <2>1, <3>2, Zenon DEF Frontier
      <3>4. hpc[u] # "done" BY <2>1, <3>2 DEF Frontier
      <3>5. CASE hpc[u] \in {"loop", "next", "last"} BY <3>3, <3>5, Zenon DEF Frontier, Held
      <3>6. CASE hpc[u] \in {"prev", "read", "write"} BY <3>6 DEF Frontier, Held
      <3> QED BY <3>1, <3>3, <3>4, <3>5, <3>6, Zenon
    <2> QED BY <2>1, Zenon DEF HInv, OwnerHolds
  <1>3. \A u \in Travs : u # Free
    BY HohAssumption DEF Travs, Free, Serial
  \* where t gets to
  <1>4. \/ LockHead(t) /\ Frontier(t)' = 1 /\ ticket'[t] = turns + 1 /\ owner[1] = Free
           /\ turns' = turns + 1
        \/ /\ ticket' = ticket
           /\ \/ Frontier(t)' = Frontier(t)
              \/ Frontier(t) \in ListNodes /\ Frontier(t)' = Frontier(t) + 1 /\ Frontier(t)' \in ListNodes
                 /\ owner[Frontier(t)'] = Free
              \/ Frontier(t) = ListLen /\ hpc'[t] = "done" /\ Frontier(t)' = ListLen + 1
    <2> USE <1>0, HohAssumption DEF PlaceOK, Frontier, ListNodes
    <2>1. CASE Begin(t) BY <2>1, Zenon DEF Begin
    <2>2. CASE LockHead(t) BY <2>2, Zenon DEF LockHead
    <2>3. CASE Advance(t) BY <2>3, Zenon DEF Advance
    <2>4. CASE LockNext(t)
      <3>1. /\ prev[t] \in ListNodes /\ next[t] = prev[t] + 1 /\ next[t] \in ListNodes
            /\ owner[next[t]] = Free /\ ticket' = ticket
            /\ hpc'[t] = "prev" /\ next'[t] = next[t]
        BY <2>4 DEF LockNext
      <3>2. Frontier(t) = prev[t] /\ Frontier(t)' = next[t] BY <2>4, <3>1, Zenon DEF LockNext
      <3> HIDE DEF Frontier
      <3> QED BY <3>1, <3>2, Zenon
    <2>5. CASE UnlockPrev(t) BY <2>5, Zenon DEF UnlockPrev
    <2>6. CASE ReadData(t) BY <2>6, Zenon DEF ReadData
    <2>7. CASE WriteData(t) BY <2>7, Zenon DEF WriteData
    <2>8. CASE UnlockLast(t) BY <2>8, Zenon DEF UnlockLast
    <2> QED BY <2>1, <2>2, <2>3, <2>4, <2>5, <2>6, <2>7, <2>8, Zenon DEF Traverse
  <1>5. \A u \in Travs : u # t => /\ Frontier(u)' = Frontier(u) /\ ticket'[u] = ticket[u]
                                  /\ hpc'[u] = hpc[u]
    BY OthersStay, Zenon
  <1>6. \A u \in Travs : /\ ticket[u] \in Nat /\ ticket[u] <= turns
                         /\ (ticket[u] # 0 => Frontier(u) >= 1)
                         /\ (hpc[u] = "done" <=> Frontier(u) = ListLen + 1)
    <2>1. ASSUME NEW u \in Travs
          PROVE  /\ ticket[u] \in Nat /\ ticket[u] <= turns
                 /\ (ticket[u] # 0 => Frontier(u) >= 1)
                 /\ (hpc[u] = "done" <=> Frontier(u) = ListLen + 1)
      <3>1. PlaceOK(u) /\ ticket[u] \in Nat /\ prev[u] \in 0..ListLen /\ next[u] \in 0..ListLen
            /\ hpc[u] \in {"off", "start", "head", "loop", "next", "prev", "read", "write",
                           "last", "done"}
        BY <2>1, Zenon DEF HInv, HTypeOK, Places
      <3> QED BY <3>1, HohAssumption DEF PlaceOK, Frontier, ListNodes
    <2> QED BY <2>1, Zenon
  <1>7. hpc'[t] = "done" <=> Frontier(t)' = ListLen + 1
    BY HohPlace, HohType, HohAssumption, SMTT(30) DEF HTypeOK, Places, PlaceOK, Frontier, ListNodes
  <1>8. ASSUME NEW a \in Travs, NEW b \in Travs, ticket'[a] # 0, ticket'[b] # 0,
               ticket'[a] < ticket'[b]
        PROVE  Frontier(a)' > Frontier(b)' \/ (hpc'[a] = "done" /\ hpc'[b] = "done")
    <2>1. ticket[a] # 0 /\ ticket[b] # 0 /\ ticket[a] < ticket[b]
          => Frontier(a) > Frontier(b) \/ (hpc[a] = "done" /\ hpc[b] = "done")
      BY Zenon DEF HInv, NoOvertaking
    <2>2. CASE a # t /\ b # t BY <1>5, <1>8, <2>1, <2>2, Zenon
    <2>3. CASE a = t /\ b # t
      <3>1. ticket' = ticket /\ Frontier(t)' >= Frontier(t)
        BY <1>0, <1>1, <1>4, <1>5, <1>6, <1>8, <2>3, HohAssumption DEF ListNodes
      <3>2. Frontier(b)' = Frontier(b) /\ hpc'[b] = hpc[b] BY <1>5, <2>3, Zenon
      <3>3. Frontier(t) \in Int /\ Frontier(t)' \in 0..(ListLen + 1) /\ Frontier(b) \in Int
            /\ (hpc[t] = "done" <=> Frontier(t) = ListLen + 1)
        BY <1>1, <1>6
      <3> QED BY <1>7, <1>8, <2>1, <2>3, <3>1, <3>2, <3>3, HohAssumption
    <2>4. CASE a # t /\ b = t
      BY <1>1, <1>2, <1>3, <1>4, <1>5, <1>6, <1>7, <1>8, <2>1, <2>4, HohAssumption DEF ListNodes
    <2>5. CASE a = t /\ b = t BY <1>0, <1>4, <1>8, <2>5
    <2> QED BY <2>2, <2>3, <2>4, <2>5, Zenon
  <1> QED BY <1>8, Zenon DEF NoOvertaking

\* A value read stays current: another traversal writes a node only while it
\* owns it.
LEMMA HohRead ==
  ASSUME HInv, NEW t \in Travs, Traverse(t)
  PROVE  ReadIsCurrent'
  <1>0. /\ PlaceOK(t) /\ DOMAIN hpc = Travs /\ DOMAIN prev = Travs /\ DOMAIN next = Travs
        /\ DOMAIN seen = Travs /\ DOMAIN data = ListNodes
    BY Zenon DEF HInv, HTypeOK, Places
  <1>1. ASSUME NEW u \in Travs, u # t, hpc'[u] = "write" PROVE seen'[u] = data'[next'[u]]
    <2>1. /\ hpc[u] = "write" /\ seen'[u] = seen[u] /\ next'[u] = next[u]
          /\ seen[u] = data[next[u]] /\ next[u] \in ListNodes /\ owner[next[u]] = u
      <3>1. hpc[u] = "write" /\ seen'[u] = seen[u] /\ next'[u] = next[u]
        BY <1>1, OthersStay, Zenon
      <3>2. next[u] \in ListNodes /\ seen[u] = data[next[u]]
        BY <3>1, Zenon DEF HInv, ReadIsCurrent, Places, PlaceOK
      <3>3. next[u] \in Held(u) BY <3>1, Zenon DEF Held
      <3> QED BY <3>1, <3>2, <3>3, Zenon DEF HInv, OwnerHolds
    <2>2. WriteData(t) => next[t] # next[u]
      BY <1>0, <1>1, <2>1 DEF WriteData, HInv, OwnerHolds, Held, PlaceOK
    <2>3. data'[next[u]] = data[next[u]]
      BY <1>0, <2>1, <2>2, Zenon DEF Traverse, Begin, LockHead, Advance, LockNext, UnlockPrev,
                              ReadData, WriteData, UnlockLast
    <2> QED BY <2>1, <2>3, Zenon
  <1>2. hpc'[t] = "write" => seen'[t] = data'[next'[t]]
    BY <1>0, Zenon DEF Traverse, Begin, LockHead, Advance, LockNext, UnlockPrev, ReadData,
                WriteData, UnlockLast
  <1> QED BY <1>1, <1>2, Zenon DEF ReadIsCurrent

\* main's own steps, which create and join, and steps that change nothing.
LEMMA HohMain ==
  ASSUME HInv, (\E t \in Travs : Create(t) \/ Join(t)) \/ UNCHANGED hvars
  PROVE  HInv'
  <1>0. ASSUME UNCHANGED <<owner, data, hpc, prev, next, seen, vals, id, created, ticket, turns>>,
               joined' \in Nat
        PROVE  HInv'
    <2>1. \A u \in Travs : Frontier(u)' = Frontier(u) /\ Held(u)' = Held(u)
      BY <1>0, Zenon DEF Frontier, Held
    <2>2. HTypeOK' BY <1>0, Zenon DEF HInv, HTypeOK
    <2>3. ASSUME NEW u \in Travs PROVE PlaceOK(u)'
      <3>1. PlaceOK(u) BY Zenon DEF HInv, Places
      <3> QED BY ONLY <1>0, <3>1 DEF PlaceOK
    <2>4. Places' BY <2>3, Zenon DEF Places
    <2>5. OwnerHolds'
      <3>1. ASSUME NEW u \in Travs, NEW k \in ListNodes
            PROVE  owner'[k] = u <=> k \in Held(u)'
        <4>1. owner[k] = u <=> k \in Held(u) BY Zenon DEF HInv, OwnerHolds
        <4>2. owner' = owner /\ Held(u)' = Held(u) BY <1>0, <2>1, Zenon
        <4> QED BY <4>1, <4>2, Zenon
      <3> QED BY <3>1, Zenon DEF OwnerHolds
    <2>6. NoOvertaking' BY <1>0, <2>1, Zenon DEF HInv, NoOvertaking
    <2>7. ReadIsCurrent' BY <1>0, Zenon DEF HInv, ReadIsCurrent
    <2> QED BY <2>2, <2>4, <2>5, <2>6, <2>7, Zenon DEF HInv
  <1>1. CASE UNCHANGED hvars
    <2>1. joined \in Nat BY Zenon DEF HInv, HTypeOK
    <2> QED BY <1>0, <1>1, <2>1, Zenon DEF hvars
  <1>2. ASSUME NEW t \in Travs, Join(t) PROVE HInv'
    <2>1. joined \in Nat BY Zenon DEF HInv, HTypeOK
    <2>2. joined' = joined + 1 BY <1>2, Zenon DEF Join
    <2>3. joined' \in Nat BY ONLY <2>1, <2>2
    <2> QED BY <1>0, <1>2, <2>3, Zenon DEF Join
  <1>3. ASSUME NEW t \in Travs, Create(t) PROVE HInv'
    <2>0. hpc[t] = "off" /\ t \in Int /\ created \in Nat /\ created' = t /\ t = created + 1
      <3>1. created \in Nat /\ PlaceOK(t) BY <1>3, Zenon DEF HInv, HTypeOK, Places
      <3>2. created' = t /\ t = created + 1 BY <1>3, Zenon DEF Create
      <3>3. t \in Int /\ t > created BY ONLY <3>1, <3>2
      <3> QED BY <3>1, <3>2, <3>3, Zenon DEF PlaceOK
    <2>1. \A u \in Travs : Frontier(u)' = Frontier(u) /\ Held(u)' = Held(u)
      BY <1>3, <2>0, Zenon DEF Create, Frontier, Held, HInv, HTypeOK
    <2>2. HTypeOK'
      <3>1. hpc' \in [Travs -> {"off", "start", "head", "loop", "next", "prev", "read", "write",
                               "last", "done"}]
        BY <1>3, Zenon DEF Create, HInv, HTypeOK
      <3>2. vals' \in Travs \cup {0} BY <1>3, Zenon DEF Create
      <3>3. created' \in Nat BY <2>0
      <3> QED BY <1>3, <3>1, <3>2, <3>3, Zenon DEF Create, HInv, HTypeOK
    <2>3. Places'
      <3>1. ASSUME NEW u \in Travs PROVE PlaceOK(u)'
        <4>1. PlaceOK(u) /\ u \in Int BY <3>1 DEF HInv, Places, Travs
        <4>2. /\ hpc \in [Travs -> {"off", "start", "head", "loop", "next", "prev", "read",
                                    "write", "last", "done"}]
              /\ hpc' = [hpc EXCEPT ![t] = "start"]
              /\ prev' = prev /\ next' = next /\ ticket' = ticket /\ turns' = turns
          BY <1>3, Zenon DEF Create, HInv, HTypeOK
        <4>3. CASE u = t
          <5>1. hpc'[u] = "start" /\ ~(u > created') BY <1>3, <2>0, <4>1, <4>2, <4>3
          <5> QED BY <2>0, <4>1, <4>2, <4>3, <5>1, Zenon DEF PlaceOK
        <4>4. CASE u # t
          <5>1. hpc'[u] = hpc[u] BY <1>3, <3>1, <4>2, <4>4, Zenon
          <5>2. u > created' <=> u > created BY ONLY <2>0, <4>1, <4>4
          <5> QED BY ONLY <4>1, <4>2, <5>1, <5>2 DEF PlaceOK
        <4> QED BY <4>3, <4>4, Zenon
      <3> QED BY <3>1, Zenon DEF Places
    <2>4. OwnerHolds' BY <1>3, <2>1 DEF Create, HInv, OwnerHolds
    <2>5. NoOvertaking' BY <1>3, <2>0, <2>1, Zenon DEF Create, HInv, HTypeOK, NoOvertaking
    <2>6. ReadIsCurrent' BY <1>3, <2>0, Zenon DEF Create, HInv, HTypeOK, ReadIsCurrent
    <2> QED BY <2>2, <2>3, <2>4, <2>5, <2>6, Zenon DEF HInv
  <1> QED BY <1>1, <1>2, <1>3, Zenon

\* HInv in every reachable state, for every list and number of threads: a node's
\* mutex belongs to the traversal whose place in hoh() says so.
THEOREM HohInvariant == HSpec => []HInv
  <1>1. HInv /\ [HNext]_hvars => HInv'
    <2> SUFFICES ASSUME HInv, [HNext]_hvars PROVE HInv'
      BY Zenon
    <2>1. ASSUME NEW t \in Travs, Traverse(t) PROVE HInv'
      BY <2>1, HohType, HohPlace, HohOwner, HohOrder, HohRead, Zenon DEF HInv
    <2> QED BY <2>1, HohMain, Zenon DEF HNext
  <1> QED BY <1>1, HohInit, PTL DEF HSpec

\* Traversals of hoh() never overtake, for every list and number of threads.
THEOREM HohNoOvertaking == HSpec => []NoOvertaking
  BY HohInvariant, PTL DEF HInv

\* No traversal of hoh() increments a value that changed after it read it.
THEOREM HohReadIsCurrent == HSpec => []ReadIsCurrent
  BY HohInvariant, PTL DEF HInv

\* The set of traversals that have incremented a node, before and after a step:
\* only the store of data++ adds to it, and only its own node.
LEMMA HohPassed ==
  ASSUME HInv, NEW t \in Travs, Traverse(t), NEW k \in ListNodes \ {1}
  PROVE  IF WriteData(t) /\ k = next[t]
         THEN /\ ~Passed(t, k)
              /\ {u \in Travs : Passed(u, k)'} = {u \in Travs : Passed(u, k)} \cup {t}
         ELSE {u \in Travs : Passed(u, k)'} = {u \in Travs : Passed(u, k)}
  <1>1. \A u \in Travs : u # t => (Passed(u, k)' <=> Passed(u, k))
    BY OthersStay, Zenon DEF Passed
  <1>2. /\ PlaceOK(t) /\ DOMAIN hpc = Travs /\ prev \in [Travs -> 0..ListLen]
        /\ next \in [Travs -> 0..ListLen] /\ k \in Int /\ k > 1 /\ k <= ListLen
    BY HohAssumption DEF HInv, HTypeOK, Places, ListNodes
  <1>3. CASE WriteData(t)
    <2>1. k = next[t] => ~Passed(t, k) /\ Passed(t, k)'
      BY <1>2, <1>3 DEF WriteData, Passed, Frontier
    <2>2. k # next[t] => (Passed(t, k)' <=> Passed(t, k))
      BY <1>2, <1>3, Zenon DEF WriteData, Passed, Frontier
    <2> QED BY <1>1, <1>3, <2>1, <2>2, Zenon
  <1>4. CASE ~WriteData(t)
    <2>0. SUFFICES Passed(t, k)' <=> Passed(t, k)
      BY <1>1, <1>4, Zenon
    <2> USE <1>2, HohAssumption DEF Passed, Frontier, PlaceOK, ListNodes
    <2>1. CASE Begin(t) \/ LockHead(t) BY <2>1 DEF Begin, LockHead
    <2>2. CASE Advance(t) BY <2>2, Zenon DEF Advance
    <2>3. CASE LockNext(t) BY <2>3 DEF LockNext
    <2>4. CASE UnlockPrev(t) \/ ReadData(t) BY <2>4, Zenon DEF UnlockPrev, ReadData
    <2>5. CASE UnlockLast(t) BY <2>5 DEF UnlockLast
    <2> QED BY <1>4, <2>1, <2>2, <2>3, <2>4, <2>5, Zenon DEF Traverse
  <1> QED BY <1>3, <1>4, Zenon

-----------------------------------------------------------------------------
(* famus_snap_sync, for any number of calls.                               *)

\* the file of the call before, with two files
other_fd == 1 - snap_fd

\* A file that is used for the first time is not read-only before its data are
\* on disk; with two files the call before has left its version whole in the
\* file that this call does not touch.
FmInv ==
  /\ variant \in {"micro", "kv"} /\ fd_switch \in {0, 1} /\ syncs \in Nat
  /\ version = syncs + 1
  /\ snap \in [SnapFiles -> Nat] /\ disk \in [SnapFiles -> Nat \cup {Torn}]
  /\ ro \in [SnapFiles -> BOOLEAN] /\ disk_ro \in [SnapFiles -> BOOLEAN]
  /\ rounds \in [SnapFiles -> Nat]
  /\ fpc \in {"clone", "fsync1", "chmod", "fsync2"} => rounds[snap_fd] > 0
  /\ fpc \in {"clone", "fsync1", "chmod"} /\ rounds[snap_fd] = 1
       => ~ro[snap_fd] /\ ~disk_ro[snap_fd]
  /\ fpc \in {"fsync1", "chmod", "fsync2"} => snap[snap_fd] = version
  /\ fpc \in {"chmod", "fsync2"} => disk[snap_fd] = version
  /\ fpc = "fsync2" => ro[snap_fd]
  /\ \A f \in SnapFiles :
       /\ rounds[f] = 0 => ~ro[f] /\ ~disk_ro[f]
       /\ rounds[f] <= 1 /\ (ro[f] \/ disk_ro[f]) => disk[f] = snap[f] /\ snap[f] > 0
  /\ variant = "micro" /\ syncs > 0 => disk_ro[other_fd] /\ disk[other_fd] = syncs

\* The first state satisfies the invariant: nothing is read-only.
LEMMA FmInvInit == FmInit => FmInv
  BY DEF FmInit, FmInv, SnapFiles, Torn, None, snap_fd, other_fd

\* Every system call of famus_snap_sync, its failure and a failure of the
\* machine keep the invariant.
LEMMA FmInvNext == FmInv /\ [FmNext]_fmvars => FmInv'
  <1> SUFFICES ASSUME FmInv, [FmNext]_fmvars PROVE FmInv'
    BY Zenon
  <1>0. snap_fd \in SnapFiles /\ other_fd \in SnapFiles /\ snap_fd # other_fd
        /\ \A f \in SnapFiles : f = snap_fd \/ f = other_fd
    BY DEF FmInv, snap_fd, other_fd, SnapFiles
  <1> USE DEF FmInv, SnapFiles, Torn, None
  <1>1. CASE ChooseKv BY <1>1, Zenon DEF ChooseKv, snap_fd, other_fd
  <1>2. CASE SyncBacking
    <2>1. snap_fd' = snap_fd /\ other_fd' = other_fd
      BY <1>2, Zenon DEF SyncBacking, snap_fd, other_fd
    <2>2. /\ rounds[snap_fd] \in Nat /\ rounds'[snap_fd] = rounds[snap_fd] + 1
          /\ rounds' \in [SnapFiles -> Nat]
      <3>1. rounds \in [SnapFiles -> Nat] BY Zenon
      <3>2. rounds' = [rounds EXCEPT ![snap_fd] = rounds[snap_fd] + 1]
        BY <1>2, Zenon DEF SyncBacking
      <3> QED BY ONLY <1>0, <3>1, <3>2
    <2>3. /\ rounds'[snap_fd] > 0 /\ rounds'[snap_fd] # 0
          /\ rounds'[snap_fd] <= 1 => rounds[snap_fd] = 0
          /\ rounds'[snap_fd] = 1 => rounds[snap_fd] = 0
      BY ONLY <2>2
    <2>4. rounds'[other_fd] = rounds[other_fd] BY <1>0, <1>2, Zenon DEF SyncBacking
    <2>5. /\ disk'[other_fd] = disk[other_fd] /\ disk_ro'[other_fd] = disk_ro[other_fd]
          /\ disk_ro'[snap_fd] \in {ro[snap_fd], disk_ro[snap_fd]}
          /\ disk' \in [SnapFiles -> Nat \cup {Torn}] /\ disk_ro' \in [SnapFiles -> BOOLEAN]
          /\ fpc' = "clone"
      <3>1. CASE variant = "micro"
        <4>1. /\ disk' = [disk EXCEPT ![snap_fd] = snap[snap_fd]]
              /\ disk_ro' = [disk_ro EXCEPT ![snap_fd] = ro[snap_fd]] /\ fpc' = "clone"
          BY <1>2, <3>1, Zenon DEF SyncBacking, Fsync
        <4>2. snap[snap_fd] \in Nat \cup {Torn} /\ ro[snap_fd] \in BOOLEAN BY <1>0, Zenon
        <4> QED BY <1>0, <4>1, <4>2, Zenon
      <3>2. CASE variant # "micro"
        BY <1>0, <1>2, <3>2, Zenon DEF SyncBacking
      <3> QED BY <3>1, <3>2, Zenon
    <2>6. rounds'[snap_fd] <= 1 \/ rounds'[snap_fd] = 1 => ~ro[snap_fd] /\ ~disk_ro'[snap_fd]
      BY <1>0, <2>3, <2>5, Zenon
    <2>7. /\ UNCHANGED <<variant, fd_switch, version, snap, ro, syncs>>
      BY <1>2, Zenon DEF SyncBacking
    <2>8. \A f \in SnapFiles :
            /\ rounds'[f] = 0 => ~ro'[f] /\ ~disk_ro'[f]
            /\ rounds'[f] <= 1 /\ (ro'[f] \/ disk_ro'[f]) => disk'[f] = snap'[f] /\ snap'[f] > 0
      <3>1. ASSUME NEW f \in SnapFiles, f = snap_fd
            PROVE  /\ rounds'[f] # 0
                   /\ ~(rounds'[f] <= 1 /\ (ro'[f] \/ disk_ro'[f]))
        BY <2>3, <2>6, <2>7, <3>1, Zenon
      <3>2. ASSUME NEW f \in SnapFiles, f = other_fd
            PROVE  /\ rounds'[f] = rounds[f] /\ disk'[f] = disk[f] /\ disk_ro'[f] = disk_ro[f]
                   /\ ro' = ro /\ snap' = snap
        BY <2>4, <2>5, <2>7, <3>2, Zenon
      <3> TAKE f \in SnapFiles
      <3>3. CASE f = snap_fd BY <3>1, <3>3, Zenon
      <3>4. CASE f = other_fd BY <3>2, <3>4, Zenon
      <3> QED BY <1>0, <3>3, <3>4, Zenon
    <2>9. variant' = "micro" /\ syncs' > 0 => disk_ro'[other_fd'] /\ disk'[other_fd'] = syncs'
      BY <2>1, <2>5, <2>7, Zenon
    <2> QED BY <2>1, <2>2, <2>3, <2>5, <2>6, <2>7, <2>8, <2>9, Zenon
  <1>3. CASE Clone
    <2>1. snap_fd' = snap_fd /\ other_fd' = other_fd
      BY <1>3, Zenon DEF Clone, snap_fd, other_fd
    <2>2. version \in Nat /\ version > 0
      <3>1. version = syncs + 1 /\ syncs \in Nat BY Zenon
      <3> QED BY ONLY <3>1
    <2>3. rounds[snap_fd] <= 1 => rounds[snap_fd] = 1
      <3>1. rounds[snap_fd] \in Nat /\ rounds[snap_fd] > 0 BY <1>0, <1>3, Zenon DEF Clone
      <3> QED BY ONLY <3>1
    <2> QED BY <1>0, <1>3, <2>1, <2>2, <2>3, Zenon DEF Clone
  <1>4. CASE FsyncData BY <1>0, <1>4, Zenon DEF FsyncData, Fsync, snap_fd, other_fd
  <1>5. CASE Fchmod BY <1>0, <1>5 DEF Fchmod, snap_fd, other_fd
  <1>6. CASE FsyncPerm
    <2>1. /\ syncs' \in Nat /\ version' = syncs' + 1 /\ syncs' = version /\ version > 0
      <3>1. /\ version = syncs + 1 /\ syncs \in Nat
            /\ syncs' = syncs + 1 /\ version' = version + 1
        BY <1>6, Zenon DEF FsyncPerm
      <3> QED BY ONLY <3>1
    <2>2. /\ fd_switch' \in {0, 1}
          /\ variant = "micro" => other_fd' = snap_fd
      <3>1. /\ fd_switch \in {0, 1} /\ variant' = variant
            /\ fd_switch' = IF variant = "micro" THEN 1 - fd_switch ELSE fd_switch
        BY <1>6, Zenon DEF FsyncPerm
      <3> QED BY ONLY <3>1 DEF snap_fd, other_fd
    <2>3. /\ snap[snap_fd] = version /\ disk[snap_fd] = version /\ ro[snap_fd]
          /\ disk' = disk /\ fpc' = "app"
          /\ disk_ro' = [disk_ro EXCEPT ![snap_fd] = TRUE]
      BY <1>0, <1>6, Zenon DEF FsyncPerm, Fsync
    <2> QED BY <1>0, <1>6, <2>1, <2>2, <2>3, Zenon DEF FsyncPerm
  <1>7. CASE Fatal BY <1>7, Zenon DEF Fatal, snap_fd, other_fd
  <1>8. ASSUME NEW d, NEW p, Fail(snap_fd, d, p) PROVE FmInv'
    BY <1>0, <1>8, ZenonT(30) DEF Fail, snap_fd, other_fd
  <1>9. CASE UNCHANGED fmvars BY <1>9, Zenon DEF fmvars, snap_fd, other_fd
  <1> QED BY <1>1, <1>2, <1>3, <1>4, <1>5, <1>6, <1>7, <1>8, <1>9, Zenon DEF FmNext

\* A snapshot file that is read-only on disk the first time it is used is whole
\* there, and with two files the version of the last famus_snap_sync that
\* returned is whole in one of them, wherever the machine fails.
THEOREM FamusSnapshotsSafe == FmSpec => []SnapshotsSafe
  <1>1. FmInv => SnapshotsSafe
    <2> SUFFICES ASSUME FmInv PROVE SnapshotsSafe
      BY Zenon
    <2>1. \A f \in SnapFiles : disk_ro[f] /\ rounds[f] <= 1 => disk[f] \notin {Torn, None}
      BY DEF FmInv, Torn, None
    <2>2. variant = "micro" /\ syncs > 0
            => \E f \in SnapFiles : disk_ro[f] /\ disk[f] >= syncs
      <3>1. other_fd \in SnapFiles BY DEF FmInv, other_fd, snap_fd, SnapFiles
      <3> QED BY <3>1 DEF FmInv
    <2> QED BY <2>1, <2>2, Zenon DEF SnapshotsSafe
  <1> QED BY <1>1, FmInvInit, FmInvNext, PTL DEF FmSpec

-----------------------------------------------------------------------------
(* The compiler pass, for every function and every alias analysis that is  *)
(* right about the pointers that must alias.                               *)

\* What the pass has met as an alloca points to a local of the function, and
\* what it has left so far is checked.
SpInv ==
  /\ body \in Seq(Insts) /\ it \in Nat
  /\ out \in Seq(Insts \cup [op : {"checkMemory"}, ptr : Ptrs])
  /\ \A s \in stackValues : \E o \in Locals : PointsTo[s] = {o}
  /\ StoresChecked

\* A store that is passed over is to the function's own stack.
LEMMA SkippedIsLocal ==
  ASSUME SpInv, NEW p, writesToStackLocation(p)
  PROVE  PointsTo[p] \subseteq Locals
  BY Zenon DEF SpInv, writesToStackLocation, MustAlias

\* One instruction of the function: what was left before stays where it is, and
\* a store is left alone or right behind its check.
LEMMA SpAnalyse ==
  ASSUME SpInv, analyseFunc
  PROVE  SpInv'
  <1> DEFINE i == body[it]
             check == [op |-> "checkMemory", ptr |-> i.ptr]
             n == Len(out)
             All == Insts \cup [op : {"checkMemory"}, ptr : Ptrs]
  <1>1. /\ i \in Insts /\ i.ptr \in Ptrs /\ i.op # "checkMemory"
        /\ i.op = "alloca" => \E o \in Locals : PointsTo[i.ptr] = {o}
        /\ check \in All /\ i \in All /\ out \in Seq(All) /\ n \in Nat
        /\ check.op = "checkMemory" /\ check.ptr = i.ptr
    <2>1. i \in Insts
      <3>1. body \in Seq(Insts) /\ it \in DOMAIN body BY Zenon DEF SpInv, analyseFunc
      <3> QED BY ONLY <3>1
    <2> HIDE DEF i
    <2>2. /\ i.ptr \in Ptrs /\ i.op # "checkMemory"
          /\ i.op = "alloca" => \E o \in Locals : PointsTo[i.ptr] = {o}
      BY <2>1, Zenon DEF Insts
    <2>3. check \in All /\ i \in All /\ check.op = "checkMemory" /\ check.ptr = i.ptr
      BY <2>1, <2>2, Zenon
    <2>4. out \in Seq(All) /\ n \in Nat BY DEF SpInv
    <2> QED BY <2>1, <2>2, <2>3, <2>4, Zenon
  <1>2. \A s \in stackValues' : \E o \in Locals : PointsTo[s] = {o}
    BY <1>1, Zenon DEF SpInv, analyseFunc
  <1>3. body' \in Seq(Insts) /\ it' \in Nat /\ annotation' = annotation /\ it > 0
    BY DEF SpInv, analyseFunc
  <1>4. ASSUME it > 0, annotation # DontAutoLogStr, NEW k \in DOMAIN out,
               out[k].op = "store", ~(PointsTo[out[k].ptr] \subseteq Locals)
        PROVE  k > 1 /\ out[k - 1].op = "checkMemory" /\ out[k - 1].ptr = out[k].ptr
    BY <1>4, Zenon DEF SpInv, StoresChecked
  <1>5. CASE i.op = "store" /\ ~writesToStackLocation(i.ptr)
    <2>1. out' = out \o <<check, i>> BY <1>5, Zenon DEF analyseFunc
    <2> HIDE DEF i, check, All
    <2>2. <<check, i>> \in Seq(All) /\ Len(<<check, i>>) = 2 BY <1>1
    <2>3. /\ out' \in Seq(All) /\ Len(out') = n + 2 /\ DOMAIN out' = 1 .. n + 2
          /\ \A k \in 1 .. n : out'[k] = out[k]
          /\ out'[n + 1] = check /\ out'[n + 2] = i
      <3>1. out \in Seq(All) /\ check \in All /\ i \in All BY <1>1, Zenon
      <3> QED BY ONLY <2>1, <2>2, <3>1
    <2>4. StoresChecked'
      <3> SUFFICES ASSUME annotation # DontAutoLogStr, NEW k \in DOMAIN out',
                          out'[k].op = "store", ~(PointsTo[out'[k].ptr] \subseteq Locals)
                   PROVE  /\ k > 1 /\ out'[k - 1].op = "checkMemory"
                          /\ out'[k - 1].ptr = out'[k].ptr
        BY <1>3, Zenon DEF StoresChecked
      <3>1. CASE k \in 1 .. n
        <4>1. k \in DOMAIN out /\ out'[k] = out[k]
          <5>1. out \in Seq(All) /\ out'[k] = out[k] BY <1>1, <2>3, <3>1, Zenon
          <5>2. k \in 1 .. Len(out) BY <3>1, Zenon
          <5> QED BY ONLY <5>1, <5>2
        <4>2. k > 1 /\ out[k - 1].op = "checkMemory" /\ out[k - 1].ptr = out[k].ptr
          BY <1>3, <1>4, <4>1, Zenon
        <4>3. k - 1 \in 1 .. n
          <5>1. n \in Nat /\ k > 1 BY <1>1, <4>2, Zenon
          <5> QED BY ONLY <3>1, <5>1
        <4>4. out'[k - 1] = out[k - 1] BY <2>3, <4>3, Zenon
        <4> QED BY <4>1, <4>2, <4>4, Zenon
      <3>2. CASE k = n + 1 BY <1>1, <2>3, <3>2, Zenon
      <3>3. CASE k = n + 2
        <4>1. k - 1 = n + 1 /\ k > 1 BY <1>1, <3>3
        <4> QED BY <1>1, <2>3, <3>3, <4>1, Zenon
      <3>4. k \in 1 .. n \/ k = n + 1 \/ k = n + 2
        <4>1. n \in Nat /\ k \in 1 .. n + 2 BY <1>1, <2>3, Zenon
        <4> QED BY ONLY <4>1
      <3> QED BY <3>1, <3>2, <3>3, <3>4, Zenon
    <2> QED BY <1>2, <1>3, <2>3, <2>4, Zenon DEF SpInv, All
  <1>6. CASE ~(i.op = "store" /\ ~writesToStackLocation(i.ptr))
    <2>1. out' = Append(out, i) BY <1>6, Zenon DEF analyseFunc
    <2>2. i.op = "store" => PointsTo[i.ptr] \subseteq Locals BY <1>6, SkippedIsLocal, Zenon
    <2> HIDE DEF i, check, All
    <2>3. /\ out' \in Seq(All) /\ DOMAIN out' = 1 .. n + 1
          /\ \A k \in 1 .. n : out'[k] = out[k]
          /\ out'[n + 1] = i
      BY <1>1, <2>1
    <2>4. StoresChecked'
      <3> SUFFICES ASSUME annotation # DontAutoLogStr, NEW k \in DOMAIN out',
                          out'[k].op = "store", ~(PointsTo[out'[k].ptr] \subseteq Locals)
                   PROVE  /\ k > 1 /\ out'[k - 1].op = "checkMemory"
                          /\ out'[k - 1].ptr = out'[k].ptr
        BY <1>3, Zenon DEF StoresChecked
      <3>1. k # n + 1 BY <2>2, <2>3, Zenon
      <3>2. k \in DOMAIN out /\ out'[k] = out[k]
        <4>1. n \in Nat /\ k \in 1 .. n + 1 /\ k # n + 1 BY <1>1, <2>3, <3>1, Zenon
        <4>2. k \in 1 .. n BY ONLY <4>1
        <4>3. out \in Seq(All) /\ k \in 1 .. Len(out) BY <1>1, <4>2, Zenon
        <4>4. k \in DOMAIN out BY ONLY <4>3
        <4> QED BY <2>3, <4>2, <4>4, Zenon
      <3>3. k > 1 /\ out[k - 1].op = "checkMemory" /\ out[k - 1].ptr = out[k].ptr
        BY <1>3, <1>4, <3>2, Zenon
      <3>4. out'[k - 1] = out[k - 1]
        <4>1. n \in Nat /\ k > 1 /\ k \in 1 .. n + 1 BY <1>1, <2>3, <3>3, Zenon
        <4>2. k - 1 \in 1 .. n BY ONLY <4>1
        <4> QED BY <2>3, <4>2, Zenon
      <3> QED BY <3>2, <3>3, <3>4, Zenon
    <2> QED BY <1>2, <1>3, <2>3, <2>4, Zenon DEF SpInv, All
  <1> QED BY <1>5, <1>6, Zenon

\* The pass leaves no store that can reach memory outside the function's stack
\* without its checkMemory call right before it, in whatever order the blocks
\* are laid out.
THEOREM PassStoresChecked == SpSpec => []StoresChecked
  <1>1. SpInit => SpInv
    BY DEF SpInit, SpInv, StoresChecked
  <1>2. SpInv /\ [SpNext]_spvars => SpInv'
    <2> SUFFICES ASSUME SpInv, [SpNext]_spvars PROVE SpInv'
      BY Zenon
    <2>1. ASSUME NEW i \in Insts, Emit_(i) PROVE SpInv'
      <3>1. body \in Seq(Insts) /\ body' = Append(body, i) BY <2>1, Zenon DEF Emit_, SpInv
      <3>2. body' \in Seq(Insts) BY ONLY <2>1, <3>1
      <3>3. StoresChecked' BY <2>1, Zenon DEF Emit_, SpInv, StoresChecked
      <3> QED BY <2>1, <3>2, <3>3, Zenon DEF Emit_, SpInv
    <2>2. ASSUME NEW a \in Annotations, HelloWorld_run(a) PROVE SpInv'
      <3>1. out' \in Seq(Insts \cup [op : {"checkMemory"}, ptr : Ptrs])
        <4>1. body \in Seq(Insts \cup [op : {"checkMemory"}, ptr : Ptrs])
          BY DEF SpInv
        <4>2. CASE a = DontAutoLogStr BY <2>2, <4>1, <4>2, Zenon DEF HelloWorld_run
        <4>3. CASE a # DontAutoLogStr
          <5>1. out' = <<>> BY <2>2, <4>3, Zenon DEF HelloWorld_run
          <5> QED BY <5>1
        <4> QED BY <4>2, <4>3, Zenon
      <3>2. body' \in Seq(Insts) /\ it' \in Nat /\ stackValues' = stackValues
        BY <2>2 DEF HelloWorld_run, SpInv
      <3>3. StoresChecked'
        BY <2>2 DEF HelloWorld_run, StoresChecked
      <3> QED BY <3>1, <3>2, <3>3, Zenon DEF SpInv
    <2>3. CASE UNCHANGED spvars
      BY <2>3, Zenon DEF spvars, SpInv, StoresChecked
    <2> QED BY <2>1, <2>2, <2>3, SpAnalyse, Zenon DEF SpNext
  <1> QED BY <1>1, <1>2, PTL DEF SpSpec, SpInv

-----------------------------------------------------------------------------
(* libpmbuffer.                                                            *)

\* The child is forked over the mapping the program gets, and the constructor
\* only returns once the child has cleared it.
PbInv ==
  /\ parent \in {"start", "mount", "fork", "forked", "paused", "done", "dead"}
  /\ child \in {"none", "reserve", "memset", "kill", "read"}
  /\ parent \in {"start", "mount", "fork"} => child = "none"
  /\ child \in {"kill", "read"} => perst_buf = "mapped" /\ contents # "old"
  /\ parent = "done" => child = "read"
  /\ contents = "app" => parent = "done"

\* What the program writes to the buffer is never cleared by the constructor's
\* child, and it starts on a mapped and cleared buffer (libpmbuffer).
THEOREM PmBufferKept == PbSpec => BufferKept
  <1>1. PbInit => PbInv BY Zenon DEF PbInit, PbInv
  <1>2. PbInv /\ [PbNext]_pbvars => PbInv'
    BY Zenon DEF PbInv, PbNext, pbvars, perst_buf_fallocate, mount_perst_buf, Fork, PbSteps, Pause,
           reserve_cache, ClearBuffer, NotifyParent, Wake, get_pmbuffer
  <1>3. PbInv /\ [PbNext]_pbvars
          => [/\ contents = "app" => contents' = "app"
              /\ contents' = "app" => perst_buf = "mapped" /\ contents # "old"]_pbvars
    BY Zenon DEF PbInv, PbNext, pbvars, perst_buf_fallocate, mount_perst_buf, Fork, PbSteps, Pause,
           reserve_cache, ClearBuffer, NotifyParent, Wake, get_pmbuffer
  <1> QED BY <1>1, <1>2, <1>3, PTL DEF PbSpec, BufferKept

-----------------------------------------------------------------------------
(* libpmdkemul.                                                            *)

\* A thread keeps its part of the invariant when a step changes nothing of it:
\* what is durable grows, its log stays, and the walks of its log are the same.
LEMMA TxKept ==
  ASSUME NEW x \in Thread, TxPlace(x), TxSafe(x),
         level'[x] = level[x], mmf_obj'[x] = mmf_obj[x], walking'[x] = walking[x],
         wrote'[x] \subseteq wrote[x], logged'[x] = logged[x],
         ~ mixed'[x] => ~ mixed[x], ~ overtaken'[x] => ~ overtaken[x],
         logs[x] \subseteq logs'[x], todo'[x] = todo[x],
         \A e \in wrote'[x] : e \in dur => e \in dur',
         \A u \in Thread : walking'[u] = x => walking[u] = x
  PROVE  TxPlace(x)' /\ TxSafe(x)'
  <1>1. TxPlace(x)' BY Zenon DEF TxPlace
  <1>2. Undisturbed(x)' => Undisturbed(x) BY Zenon DEF Undisturbed
  <1>3. Undisturbed(x) => \A e \in wrote'[x] : e[1] = mmf_obj'[x] /\ e \in dur' \cup logs'[x]
    BY Zenon DEF TxSafe
  <1>4. Undisturbed(x) /\ (\E u \in Thread : walking'[u] = x) => wrote'[x] \subseteq dur'
    BY Zenon DEF TxSafe
  <1>5. Undisturbed(x) /\ walking'[x] # "idle" /\ x \notin todo'[x] => wrote'[x] \subseteq dur'
    BY Zenon DEF TxSafe
  <1>6. Undisturbed(x) /\ logged'[x] # NoStore
          => /\ logged'[x] \in logs'[x] /\ logged'[x][1] = mmf_obj'[x]
             /\ \A u \in Thread : walking'[u] # x
    BY Zenon DEF TxSafe
  <1>7. TxSafe(x)' BY <1>2, <1>3, <1>4, <1>5, <1>6, Zenon DEF TxSafe, NoStore
  <1> QED BY <1>1, <1>7, Zenon

\* A transaction begins, or one is nested in it.
LEMMA TxBeginStep ==
  ASSUME TxInv, NEW t \in Thread, NEW p \in Pools, TX_BEGIN(t, p)
  PROVE  TxInv'
  <1>0. /\ Ready(t) /\ UNCHANGED <<logs, logged, todo, walking, dur, wrote, overtaken>>
        /\ mixed' = [mixed EXCEPT ![t] = @ \/ (level[t] # 0 /\ mmf_obj[t] # p)]
        /\ mmf_obj' = [mmf_obj EXCEPT ![t] = p] /\ level' = [level EXCEPT ![t] = @ + 1]
    BY Zenon DEF TX_BEGIN
  <1>1. TxTypeOK /\ TxPlace(t) /\ TxSafe(t) BY Zenon DEF TxInv
  <1>2. level'[t] = level[t] + 1 /\ level'[t] # 0 /\ level' \in [Thread -> Nat]
    BY <1>0, <1>1 DEF TxTypeOK
  <1>3. mixed'[t] = (mixed[t] \/ (level[t] # 0 /\ mmf_obj[t] # p)) /\ mmf_obj'[t] = p
    BY <1>0, <1>1, Zenon DEF TxTypeOK
  <1>4. TxTypeOK' BY <1>0, <1>1, <1>2, Zenon DEF TxTypeOK
  <1>5. p # "NULL" BY PmdkAssumption, Zenon
  <1>6. TxPlace(t)' BY <1>0, <1>1, <1>2, <1>3, <1>5, Zenon DEF TxPlace, Ready
  <1>7. TxSafe(t)'
    <2>1. CASE level[t] = 0
      <3>1. wrote[t] = {} BY <1>0, <1>1, <2>1, Zenon DEF TxPlace, Ready
      <3> QED BY <1>0, <3>1, Zenon DEF TxSafe, Ready
    <2>2. CASE level[t] # 0
      <3>1. Undisturbed(t)' => Undisturbed(t) /\ mmf_obj[t] = p
        BY <1>0, <1>1, <1>3, <2>2, Zenon DEF Undisturbed, TxPlace
      <3> QED BY <1>0, <1>1, <1>3, <3>1, Zenon DEF TxSafe, Ready
    <2> QED BY <2>1, <2>2, Zenon
  <1>8. ASSUME NEW x \in Thread, x # t PROVE TxPlace(x)' /\ TxSafe(x)'
    <2>1. level'[x] = level[x] /\ mmf_obj'[x] = mmf_obj[x] /\ mixed'[x] = mixed[x]
      BY <1>0, <1>1, <1>8, Zenon DEF TxTypeOK
    <2>2. TxPlace(x) /\ TxSafe(x) BY Zenon DEF TxInv
    <2> QED BY <1>0, <2>1, <2>2, TxKept, Zenon
  <1> QED BY <1>4, <1>6, <1>7, <1>8, Zenon DEF TxInv

\* checkMemory: the entry is in the log before the store; a log that somebody
\* has walked and not cleared makes the transaction overtaken.
LEMMA TxLogStep ==
  ASSUME TxInv, NEW t \in Thread, NEW p, NEW o, LogStore(t, p, o),
         mixed' \in [Thread -> BOOLEAN],
         \A x \in Thread : ~ mixed'[x] => ~ mixed[x],
         ~ mixed'[t] /\ mmf_obj[t] # "NULL" => mmf_obj[t] = p
  PROVE  TxInv'
  <1> DEFINE e == <<p, o>>
  <1>0. /\ Ready(t) /\ UNCHANGED <<level, mmf_obj, todo, walking, dur, wrote>>
        /\ logs' = [logs EXCEPT ![t] = @ \cup {e}] /\ logged' = [logged EXCEPT ![t] = e]
        /\ overtaken' = [overtaken EXCEPT ![t] = @ \/ (mmf_obj[t] # "NULL" /\
                                                       \E u \in Thread : walking[u] = t)]
    BY Zenon DEF LogStore
  <1>1. TxTypeOK /\ TxPlace(t) /\ TxSafe(t) BY Zenon DEF TxInv
  <1>2. e[1] = p BY Zenon
  <1> HIDE DEF e
  <1>3. /\ logs'[t] = logs[t] \cup {e} /\ logged'[t] = e
        /\ overtaken'[t] = (overtaken[t] \/ (mmf_obj[t] # "NULL" /\
                                             \E u \in Thread : walking[u] = t))
    BY <1>0, <1>1, Zenon DEF TxTypeOK
  <1>4. TxTypeOK' BY <1>0, <1>1, Zenon DEF TxTypeOK
  <1>5. TxPlace(t)' BY <1>0, <1>1, Zenon DEF TxPlace, Ready
  <1>6. TxSafe(t)'
    <2>1. Undisturbed(t)' => /\ Undisturbed(t) /\ mmf_obj[t] = p
                             /\ \A u \in Thread : walking[u] # t
      BY <1>0, <1>3, Zenon DEF Undisturbed
    <2>2. walking'[t] = "idle" BY <1>0, Zenon DEF Ready
    <2> QED BY <1>0, <1>1, <1>2, <1>3, <2>1, <2>2, Zenon DEF TxSafe
  <1>7. ASSUME NEW x \in Thread, x # t PROVE TxPlace(x)' /\ TxSafe(x)'
    <2>1. logs'[x] = logs[x] /\ logged'[x] = logged[x] /\ overtaken'[x] = overtaken[x]
      BY <1>0, <1>1, <1>7, Zenon DEF TxTypeOK
    <2>2. TxPlace(x) /\ TxSafe(x) BY Zenon DEF TxInv
    <2> QED BY <1>0, <2>1, <2>2, TxKept, Zenon
  <1> QED BY <1>4, <1>5, <1>6, <1>7, Zenon DEF TxInv

\* The store: its word is in the log, and belongs to this thread from now on.
LEMMA TxStoreStep ==
  ASSUME TxInv, NEW t \in Thread, TxStore(t)
  PROVE  TxInv'
  <1> DEFINE e == logged[t]
  <1>0. /\ e # NoStore /\ UNCHANGED <<level, mmf_obj, logs, todo, walking, mixed, overtaken>>
        /\ logged' = [logged EXCEPT ![t] = NoStore] /\ dur' = dur \ {e}
        /\ wrote' = [u \in Thread |-> IF u # t THEN wrote[u] \ {e}
                                      ELSE IF level[t] = 0 THEN wrote[t] ELSE wrote[t] \cup {e}]
    BY Zenon DEF TxStore
  <1>1. TxTypeOK /\ TxPlace(t) /\ TxSafe(t) BY Zenon DEF TxInv
  <1>2. logged'[t] = NoStore BY <1>0, <1>1, Zenon DEF TxTypeOK
  <1>3. wrote'[t] = IF level[t] = 0 THEN wrote[t] ELSE wrote[t] \cup {e} BY <1>0, Zenon
  <1>4. walking[t] = "idle" BY <1>0, <1>1, Zenon DEF TxPlace
  <1>5. TxTypeOK' BY <1>0, <1>1, Zenon DEF TxTypeOK
  <1>6. TxPlace(t)' BY <1>0, <1>1, <1>2, <1>3, <1>4, Zenon DEF TxPlace
  <1>7. TxSafe(t)'
    <2>0. Undisturbed(t)' => Undisturbed(t) BY <1>0, Zenon DEF Undisturbed
    <2>1. ASSUME Undisturbed(t)
          PROVE  e \in logs[t] /\ e[1] = mmf_obj[t] /\ \A u \in Thread : walking[u] # t
      BY <1>0, <1>1, <2>1, Zenon DEF TxSafe
    <2>2. ASSUME Undisturbed(t), NEW f \in wrote'[t]
          PROVE  f[1] = mmf_obj[t] /\ f \in dur' \cup logs[t]
      <3>1. f = e \/ f \in wrote[t] BY <1>3, Zenon
      <3> QED BY <1>0, <1>1, <2>1, <2>2, <3>1, Zenon DEF TxSafe
    <2> QED BY <1>0, <1>2, <1>4, <2>0, <2>1, <2>2, Zenon DEF TxSafe
  <1>8. ASSUME NEW x \in Thread, x # t PROVE TxPlace(x)' /\ TxSafe(x)'
    <2>1. logged'[x] = logged[x] /\ wrote'[x] = wrote[x] \ {e}
      BY <1>0, <1>1, <1>8, Zenon DEF TxTypeOK
    <2>2. TxPlace(x) /\ TxSafe(x) BY Zenon DEF TxInv
    <2>3. \A f \in wrote'[x] : f \in dur => f \in dur' BY <1>0, <2>1, Zenon
    <2> QED BY <1>0, <2>1, <2>2, <2>3, TxKept, Zenon
  <1> QED BY <1>5, <1>6, <1>7, <1>8, Zenon DEF TxInv

\* TX_END: the outermost one goes on to snapshot().
LEMMA TxEndStep ==
  ASSUME TxInv, NEW t \in Thread, TX_END(t)
  PROVE  TxInv'
  <1>0. /\ Ready(t) /\ level[t] # 0 /\ level' = [level EXCEPT ![t] = @ - 1]
        /\ UNCHANGED <<mmf_obj, logs, logged, dur, wrote, mixed, overtaken>>
        /\ IF level[t] = 1
           THEN walking' = [walking EXCEPT ![t] = "next"] /\ todo' = [todo EXCEPT ![t] = Thread]
           ELSE UNCHANGED <<walking, todo>>
    BY Zenon DEF TX_END
  <1>1. TxTypeOK /\ TxPlace(t) /\ TxSafe(t) BY Zenon DEF TxInv
  <1>2. level' \in [Thread -> Nat] /\ (level'[t] = 0 <=> level[t] = 1)
    <2>1. level[t] \in Nat \ {0} /\ level'[t] = level[t] - 1 BY <1>0, <1>1, Zenon DEF TxTypeOK
    <2>2. level[t] - 1 \in Nat /\ (level[t] - 1 = 0 <=> level[t] = 1) BY <2>1
    <2> QED BY <1>0, <1>1, <2>1, <2>2, Zenon DEF TxTypeOK
  <1>3. TxTypeOK' BY <1>0, <1>1, <1>2, Zenon DEF TxTypeOK
  <1>4. \A u \in Thread : walking'[u] \in Thread => walking'[u] = walking[u]
    <2>1. "next" \notin Thread BY PmdkAssumption, Zenon
    <2> QED BY <1>0, <1>1, <2>1, Zenon DEF TxTypeOK
  <1>5. /\ level[t] = 1 => walking'[t] = "next" /\ t \in todo'[t]
        /\ level[t] # 1 => walking'[t] = "idle"
    BY <1>0, <1>1, Zenon DEF TxTypeOK, Ready
  <1>6. TxPlace(t)'
    <2>1. mmf_obj[t] # "NULL" BY <1>0, <1>1, Zenon DEF TxPlace
    <2>2. "next" # "idle" OBVIOUS
    <2> QED BY <1>0, <1>2, <1>5, <2>1, <2>2, Zenon DEF TxPlace, Ready
  <1>7. TxSafe(t)'
    <2>1. Undisturbed(t)' => Undisturbed(t) BY <1>0, Zenon DEF Undisturbed
    <2>2. (\E u \in Thread : walking'[u] = t) => \E u \in Thread : walking[u] = t
      BY <1>4, Zenon
    <2> QED BY <1>0, <1>1, <1>5, <2>1, <2>2, Zenon DEF TxSafe, Ready
  <1>8. ASSUME NEW x \in Thread, x # t PROVE TxPlace(x)' /\ TxSafe(x)'
    <2>1. level'[x] = level[x] /\ walking'[x] = walking[x] /\ todo'[x] = todo[x]
      BY <1>0, <1>1, <1>8, Zenon DEF TxTypeOK
    <2>2. TxPlace(x) /\ TxSafe(x) BY Zenon DEF TxInv
    <2>3. \A u \in Thread : walking'[u] = x => walking[u] = x BY <1>4, Zenon
    <2> QED BY <1>0, <2>1, <2>2, <2>3, TxKept, Zenon
  <1> QED BY <1>3, <1>6, <1>7, <1>8, Zenon DEF TxInv

\* A snapshot walks a log: what its owner stored in an undisturbed transaction
\* is in the pool of the snapshot, hence copied.
LEMMA TxWalkStep ==
  ASSUME TxInv, NEW t \in Thread, NEW w \in Thread, TxWalk(t, w)
  PROVE  TxInv'
  <1>0. /\ walking[t] = "next" /\ w \in todo[t]
        /\ UNCHANGED <<level, mmf_obj, logs, logged, wrote>>
        /\ walking' = [walking EXCEPT ![t] = w] /\ todo' = [todo EXCEPT ![t] = @ \ {w}]
        /\ {e \in logs[w] : e[1] = mmf_obj[t]} \subseteq dur' /\ dur \subseteq dur'
        /\ mixed' = [mixed EXCEPT ![w] = @ \/ (mmf_obj[w] # "NULL" /\ mmf_obj[w] # mmf_obj[t])]
        /\ overtaken' = [overtaken EXCEPT ![w] = @ \/ (mmf_obj[w] # "NULL" /\ logged[w] # NoStore)]
    BY Zenon DEF TxWalk
  <1>1. TxTypeOK /\ TxPlace(t) /\ TxSafe(t) /\ TxPlace(w) /\ TxSafe(w) BY Zenon DEF TxInv
  <1>2. /\ walking'[t] = w /\ \A u \in Thread : u # t => walking'[u] = walking[u]
        /\ todo'[t] = todo[t] \ {w} /\ \A u \in Thread : u # t => todo'[u] = todo[u]
        /\ mixed'[w] = (mixed[w] \/ (mmf_obj[w] # "NULL" /\ mmf_obj[w] # mmf_obj[t]))
        /\ overtaken'[w] = (overtaken[w] \/ (mmf_obj[w] # "NULL" /\ logged[w] # NoStore))
        /\ \A u \in Thread : u # w => mixed'[u] = mixed[u] /\ overtaken'[u] = overtaken[u]
    BY <1>0, <1>1, Zenon DEF TxTypeOK
  <1>3. TxTypeOK' BY <1>0, <1>1, Zenon DEF TxTypeOK
  <1>4. "next" # "idle" /\ w # "idle" /\ w # "next" BY PmdkAssumption
  <1>5. Undisturbed(w)' => /\ Undisturbed(w) /\ mmf_obj[w] = mmf_obj[t] /\ logged[w] = NoStore
                           /\ wrote[w] \subseteq dur'
    <2>1. Undisturbed(w)' => Undisturbed(w) /\ mmf_obj[w] = mmf_obj[t] /\ logged[w] = NoStore
      BY <1>0, <1>2, Zenon DEF Undisturbed
    <2>2. Undisturbed(w) => \A e \in wrote[w] : e[1] = mmf_obj[w] /\ e \in dur \cup logs[w]
      BY <1>1, Zenon DEF TxSafe
    <2> QED BY <1>0, <2>1, <2>2, Zenon
  <1>6. TxSafe(w)' BY <1>0, <1>1, <1>5, Zenon DEF TxSafe
  <1>7. \A x \in Thread : TxPlace(x)'
    <2> TAKE x \in Thread
    <2>1. TxPlace(x) BY Zenon DEF TxInv
    <2>2. walking'[x] = "idle" <=> walking[x] = "idle" BY <1>0, <1>2, <1>4, Zenon
    <2> QED BY <1>0, <2>1, <2>2, Zenon DEF TxPlace
  <1>8. ASSUME NEW x \in Thread, x # w PROVE TxSafe(x)'
    <2>1. Undisturbed(x)' => Undisturbed(x) BY <1>0, <1>2, <1>8, Zenon DEF Undisturbed
    <2>2. \A u \in Thread : walking'[u] = x => walking[u] = x BY <1>2, <1>8, Zenon
    <2>3. /\ x \in todo[x] => x \in todo'[x]
          /\ walking'[x] # "idle" => walking[x] # "idle"
      BY <1>0, <1>2, <1>4, <1>8, Zenon
    <2>4. TxSafe(x) BY Zenon DEF TxInv
    <2>5. Undisturbed(x) => \A e \in wrote'[x] : e[1] = mmf_obj'[x] /\ e \in dur' \cup logs'[x]
      BY <1>0, <2>4, Zenon DEF TxSafe
    <2>6. Undisturbed(x) /\ (\E u \in Thread : walking'[u] = x) => wrote'[x] \subseteq dur'
      BY <1>0, <2>2, <2>4, Zenon DEF TxSafe
    <2>7. Undisturbed(x) /\ walking'[x] # "idle" /\ x \notin todo'[x] => wrote'[x] \subseteq dur'
      BY <1>0, <2>3, <2>4, Zenon DEF TxSafe
    <2>8. Undisturbed(x) /\ logged'[x] # NoStore
            => /\ logged'[x] \in logs'[x] /\ logged'[x][1] = mmf_obj'[x]
               /\ \A u \in Thread : walking'[u] # x
      BY <1>0, <2>2, <2>4, Zenon DEF TxSafe
    <2> QED BY <2>1, <2>5, <2>6, <2>7, <2>8, Zenon DEF TxSafe, NoStore
  <1> QED BY <1>3, <1>6, <1>7, <1>8, Zenon DEF TxInv

\* The log is cleared: what its owner stored is durable, and no store of the
\* owner waits for its entry.
LEMMA TxClearStep ==
  ASSUME TxInv, NEW t \in Thread, TxClear(t)
  PROVE  TxInv'
  <1> DEFINE w == walking[t]
  <1>0. /\ w \in Thread /\ logs' = [logs EXCEPT ![w] = {}]
        /\ walking' = [walking EXCEPT ![t] = "next"]
        /\ UNCHANGED <<level, mmf_obj, logged, todo, dur, wrote, mixed, overtaken>>
    BY Zenon DEF TxClear
  <1>1. TxTypeOK BY Zenon DEF TxInv
  <1>2. "next" # "idle" /\ "next" \notin Thread /\ w # "idle" BY <1>0, PmdkAssumption
  <1>3. TxTypeOK' BY <1>0, <1>1, Zenon DEF TxTypeOK
  <1>4. ASSUME NEW x \in Thread PROVE TxPlace(x)' /\ TxSafe(x)'
    <2>0. TxPlace(x) /\ TxSafe(x) BY Zenon DEF TxInv
    <2>1. walking'[x] = "idle" <=> walking[x] = "idle" BY <1>0, <1>1, <1>2, Zenon DEF TxTypeOK
    <2>2. \A u \in Thread : walking'[u] = x => walking[u] = x
      BY <1>0, <1>1, <1>2, Zenon DEF TxTypeOK
    <2>3. TxPlace(x)' BY <1>0, <2>0, <2>1, Zenon DEF TxPlace
    <2>4. Undisturbed(x)' => Undisturbed(x) BY <1>0, Zenon DEF Undisturbed
    <2>5. CASE x = w
      <3>1. Undisturbed(x) => wrote[x] \subseteq dur /\ logged[x] = NoStore
        BY <1>0, <2>0, <2>5, Zenon DEF TxSafe
      <3>2. Undisturbed(x) => \A e \in wrote[x] : e[1] = mmf_obj[x] BY <2>0, Zenon DEF TxSafe
      <3>3. TxSafe(x)' BY <1>0, <2>4, <3>1, <3>2, Zenon DEF TxSafe
      <3> QED BY <2>3, <3>3, Zenon
    <2>6. CASE x # w
      <3>1. logs'[x] = logs[x] BY <1>0, <1>1, <2>6, Zenon DEF TxTypeOK
      <3>2. TxSafe(x)' BY <1>0, <2>0, <2>1, <2>2, <2>4, <3>1, Zenon DEF TxSafe
      <3> QED BY <2>3, <3>2, Zenon
    <2> QED BY <2>5, <2>6, Zenon
  <1> QED BY <1>3, <1>4, Zenon DEF TxInv

\* snapshot() returns.
LEMMA TxReturnStep ==
  ASSUME TxInv, NEW t \in Thread, TxReturn(t)
  PROVE  TxInv' /\ (Undisturbed(t) => wrote[t] \subseteq dur')
  <1>0. /\ walking[t] = "next" /\ todo[t] = {} /\ walking' = [walking EXCEPT ![t] = "idle"]
        /\ mmf_obj' = [mmf_obj EXCEPT ![t] = "NULL"] /\ wrote' = [wrote EXCEPT ![t] = {}]
        /\ mixed' = [mixed EXCEPT ![t] = FALSE] /\ overtaken' = [overtaken EXCEPT ![t] = FALSE]
        /\ UNCHANGED <<level, logs, logged, todo, dur>>
    BY Zenon DEF TxReturn
  <1>1. TxTypeOK /\ TxPlace(t) /\ TxSafe(t) BY Zenon DEF TxInv
  <1>2. walking'[t] = "idle" /\ mmf_obj'[t] = "NULL" /\ wrote'[t] = {}
    BY <1>0, <1>1, Zenon DEF TxTypeOK
  <1>3. "next" # "idle" /\ "idle" \notin Thread BY PmdkAssumption
  <1>4. TxTypeOK' BY <1>0, <1>1, Zenon DEF TxTypeOK
  <1>5. TxPlace(t)' BY <1>0, <1>1, <1>2, <1>3, Zenon DEF TxPlace
  <1>6. TxSafe(t)' BY <1>2, Zenon DEF TxSafe, Undisturbed
  <1>7. ASSUME NEW x \in Thread, x # t PROVE TxPlace(x)' /\ TxSafe(x)'
    <2>1. /\ walking'[x] = walking[x] /\ mmf_obj'[x] = mmf_obj[x] /\ wrote'[x] = wrote[x]
          /\ mixed'[x] = mixed[x] /\ overtaken'[x] = overtaken[x]
      BY <1>0, <1>1, <1>7, Zenon DEF TxTypeOK
    <2>2. TxPlace(x) /\ TxSafe(x) BY Zenon DEF TxInv
    <2>3. \A u \in Thread : walking'[u] = x => walking[u] = x
      BY <1>0, <1>1, <1>3, Zenon DEF TxTypeOK
    <2> QED BY <1>0, <2>1, <2>2, <2>3, TxKept, Zenon
  <1>8. Undisturbed(t) => wrote[t] \subseteq dur' BY <1>0, <1>1, <1>3, Zenon DEF TxSafe
  <1> QED BY <1>4, <1>5, <1>6, <1>7, <1>8, Zenon DEF TxInv

\* TxInv is inductive.
LEMMA TxInvNext == TxInv /\ [TxNext]_txvars => TxInv'
  <1> SUFFICES ASSUME TxInv, [TxNext]_txvars PROVE TxInv' BY Zenon
  <1>0. mixed \in [Thread -> BOOLEAN] BY Zenon DEF TxInv, TxTypeOK
  <1>1. ASSUME NEW p \in Pools, OpenPool(p) PROVE TxInv'
    BY <1>1, Zenon DEF OpenPool, TxInv, TxTypeOK, TxPlace, TxSafe, Undisturbed
  <1>2. ASSUME NEW t \in Thread, NEW p \in Pools, TX_BEGIN(t, p) PROVE TxInv'
    BY <1>2, TxBeginStep, Zenon
  <1>3. ASSUME NEW t \in Thread, NEW p \in Pools, POBJ_ROOT(t, p) PROVE TxInv'
    <2>1. /\ LogStore(t, p, "heap")
          /\ mixed' = [mixed EXCEPT ![t] = @ \/ (level[t] # 0 /\ mmf_obj[t] # p)]
      BY <1>3, Zenon DEF POBJ_ROOT
    <2>2. mixed' \in [Thread -> BOOLEAN] /\ \A x \in Thread : ~ mixed'[x] => ~ mixed[x]
      BY <1>0, <2>1, Zenon
    <2>3. ~ mixed'[t] /\ mmf_obj[t] # "NULL" => mmf_obj[t] = p
      <3>1. mmf_obj[t] # "NULL" => level[t] # 0
        BY <2>1, Zenon DEF LogStore, Ready, TxInv, TxPlace
      <3> QED BY <1>0, <2>1, <3>1, Zenon
    <2> QED BY <2>1, <2>2, <2>3, TxLogStep, Zenon
  <1>4. ASSUME NEW t \in Thread, NEW o, LogStore(t, mmf_obj[t], o), UNCHANGED mixed PROVE TxInv'
    BY <1>0, <1>4, TxLogStep, Zenon
  <1>5. ASSUME NEW t \in Thread, pmemobj_tx_alloc(t) PROVE TxInv'
    BY <1>4, <1>5, Zenon DEF pmemobj_tx_alloc
  <1>6. ASSUME NEW t \in Thread, NEW o \in Objects, D_RW_store(t, o) PROVE TxInv'
    BY <1>4, <1>6, Zenon DEF D_RW_store
  <1>7. CASE UNCHANGED txvars
    BY <1>7, Zenon DEF txvars, TxInv, TxTypeOK, TxPlace, TxSafe, Undisturbed
  <1> QED
    BY <1>1, <1>2, <1>3, <1>5, <1>6, <1>7, TxStoreStep, TxEndStep, TxWalkStep, TxClearStep,
       TxReturnStep, Zenon DEF TxNext

\* TxDurable for any threads, pools, objects and nesting: the outermost TX_END
\* returns with all that the transaction stored durable, unless another pool
\* met it or another thread's snapshot overtook one of its stores (TX_END and
\* mmf_snapshot of libpmdkemul over checkMemory and snapshot of libstoreinst).
THEOREM PmdkTxDurable == TxSpec => TxDurable
  <1>1. TxInit => TxInv
    <2> SUFFICES ASSUME TxInit PROVE TxInv BY Zenon
    <2>1. TxTypeOK
      <3>1. level \in [Thread -> Nat] BY DEF TxInit
      <3> QED BY <3>1, Zenon DEF TxInit, TxTypeOK
    <2>2. ASSUME NEW t \in Thread PROVE TxPlace(t) /\ TxSafe(t)
      <3>1. /\ mmf_obj[t] = "NULL" /\ level[t] = 0 /\ walking[t] = "idle" /\ wrote[t] = {}
            /\ logged[t] = NoStore
        BY Zenon DEF TxInit
      <3> QED BY <3>1, Zenon DEF TxPlace, TxSafe, Undisturbed
    <2> QED BY <2>1, <2>2, Zenon DEF TxInv
  <1>2. TxInv /\ [TxNext]_txvars
          => [\A t \in Thread :
                mmf_obj[t] # "NULL" /\ mmf_obj'[t] = "NULL" /\ ~ mixed[t] /\ ~ overtaken[t]
                  => wrote[t] \subseteq dur']_txvars
    <2> SUFFICES ASSUME TxInv, TxNext, NEW t \in Thread, mmf_obj[t] # "NULL",
                        mmf_obj'[t] = "NULL", ~ mixed[t], ~ overtaken[t]
                 PROVE  wrote[t] \subseteq dur'
      BY Zenon
    <2>1. DOMAIN mmf_obj = Thread /\ \A p \in Pools : p # "NULL"
      BY PmdkAssumption, Zenon DEF TxInv, TxTypeOK
    <2>2. \A u \in Thread, p \in Pools : ~ TX_BEGIN(u, p) BY <2>1, Zenon DEF TX_BEGIN
    <2>3. PICK u \in Thread : TxReturn(u)
      BY <2>2, Zenon DEF TxNext, OpenPool, POBJ_ROOT, pmemobj_tx_alloc, D_RW_store, LogStore,
                         TxStore, TX_END, TxWalk, TxClear
    <2>4. u = t BY <2>1, <2>3, Zenon DEF TxReturn
    <2> QED BY <2>3, <2>4, TxReturnStep, Zenon DEF Undisturbed
  <1> QED BY <1>1, <1>2, TxInvNext, PTL DEF TxSpec, TxDurable

-----------------------------------------------------------------------------
(* NumaBinder.                                                             *)

\* A scan knows the processes it has read, but for those that have bound
\* themselves since it began.
NbInv ==
  /\ DOMAIN npc = Procs /\ DOMAIN cpu = Procs /\ DOMAIN toread = Procs
  /\ DOMAIN cpu_used = Procs /\ DOMAIN moved = Procs /\ DOMAIN allowed = Procs
  /\ \A p \in Procs :
       /\ npc[p] \in {"scan", "bind"} =>
            \A q \in Procs : q \in toread[p] \/ q \in moved[p]
                             \/ (Cardinality(allowed[q]) = 1 => allowed[q] \subseteq cpu_used[p])
       /\ npc[p] = "bind" => toread[p] = {} /\ cpu[p] \notin cpu_used[p]

\* A step of any process keeps that.
LEMMA NbInvNext == NbInv /\ [NbNext]_nbvars => NbInv'
  <1> SUFFICES ASSUME NbInv, [NbNext]_nbvars PROVE NbInv'
    BY Zenon
  <1> USE DEF NbInv
  <1>1. ASSUME NEW p \in Procs, NEW node, bind_to_node(p, node) PROVE NbInv'
    BY <1>1, Zenon DEF bind_to_node
  <1>2. ASSUME NEW p \in Procs, NextCpu(p) PROVE NbInv'
    <2>1. CASE cpus[p] = {} BY <1>2, <2>1, Zenon DEF NextCpu
    <2>2. CASE cpus[p] # {}
      <3> DEFINE c == CHOOSE c \in cpus[p] : \A d \in cpus[p] : c <= d
      <3>1. /\ cpu' = [cpu EXCEPT ![p] = c]
            /\ npc' = [npc EXCEPT ![p] = IF Online < 2 THEN "next" ELSE "scan"]
            /\ toread' = [toread EXCEPT ![p] = Procs]
            /\ cpu_used' = [cpu_used EXCEPT ![p] = {}]
            /\ moved' = [moved EXCEPT ![p] = {}] /\ allowed' = allowed
        BY <1>2, <2>2, Zenon DEF NextCpu
      <3> HIDE DEF c
      <3> QED BY <3>1, Zenon
    <2> QED BY <2>1, <2>2, Zenon
  <1>3. ASSUME NEW p \in Procs, CheckCpu(p) PROVE NbInv'
    BY <1>3, Zenon DEF CheckCpu
  <1>4. ASSUME NEW p \in Procs, NEW q \in Procs, ReadStatus(p, q) PROVE NbInv'
    BY <1>4, Zenon DEF ReadStatus
  <1>5. ASSUME NEW p \in Procs, NEW ok \in BOOLEAN, SetAffinity(p, ok) PROVE NbInv'
    <2>1. CASE ~ok
      <3>1. /\ npc' = [npc EXCEPT ![p] = "next"]
            /\ UNCHANGED <<allowed, moved, cpu, toread, cpu_used>>
        BY <1>5, <2>1, Zenon DEF SetAffinity
      <3> QED BY <3>1, Zenon
    <2>2. CASE ok
      <3>1. /\ allowed' = [allowed EXCEPT ![p] = {cpu[p]}] /\ npc' = [npc EXCEPT ![p] = "idle"]
            /\ moved' = [q \in Procs |-> moved[q] \cup {p}]
            /\ UNCHANGED <<cpu, toread, cpu_used>>
        BY <1>5, <2>2, Zenon DEF SetAffinity
      <3>2. \A q \in Procs \ {p} : allowed'[q] = allowed[q] /\ npc'[q] = npc[q]
        BY <3>1, Zenon
      <3>3. \A q \in Procs : moved'[q] = moved[q] \cup {p} BY <3>1, Zenon
      <3>4. npc'[p] = "idle" BY <3>1, Zenon
      <3>5. /\ DOMAIN npc' = Procs /\ DOMAIN moved' = Procs /\ DOMAIN allowed' = Procs
        BY <3>1, Zenon
      <3>6. ASSUME NEW r \in Procs, npc'[r] \in {"scan", "bind"}, NEW q \in Procs
            PROVE  q \in toread'[r] \/ q \in moved'[r]
                   \/ (Cardinality(allowed'[q]) = 1 => allowed'[q] \subseteq cpu_used'[r])
        <4>1. r # p BY <3>4, <3>6
        <4>2. CASE q = p BY <3>3, <4>2, Zenon
        <4>3. CASE q # p
          <5>1. allowed'[q] = allowed[q] /\ npc[r] \in {"scan", "bind"} BY <3>2, <3>6, <4>1, <4>3, Zenon
          <5>2. q \in toread[r] \/ q \in moved[r]
                \/ (Cardinality(allowed[q]) = 1 => allowed[q] \subseteq cpu_used[r])
            BY <5>1, Zenon
          <5> QED BY <3>1, <3>3, <5>1, <5>2, Zenon
        <4> QED BY <4>2, <4>3, Zenon
      <3>7. ASSUME NEW r \in Procs, npc'[r] = "bind"
            PROVE  toread'[r] = {} /\ cpu'[r] \notin cpu_used'[r]
        <4>1. r # p BY <3>4, <3>7
        <4> QED BY <3>1, <3>2, <3>7, <4>1, Zenon
      <3> QED BY <3>1, <3>5, <3>6, <3>7, Zenon
    <2> QED BY <2>1, <2>2, Zenon
  <1>6. CASE UNCHANGED nbvars BY <1>6, Zenon DEF nbvars
  <1> QED BY <1>1, <1>2, <1>3, <1>4, <1>5, <1>6, Zenon DEF NbNext

-----------------------------------------------------------------------------
(* MemBWDist.                                                              *)

\* The result of the call so far is that of the samples it took, and the limit
\* has not been passed while it runs.
SmInv ==
  /\ batch \in Seq(Nat) /\ skipped \in BOOLEAN
  /\ dist = Ref(batch, bounds[1], bounds[2])
  /\ reader = "dist" => sample_cnt = Len(batch) /\ sample_cnt <= MAX_SAMPLES /\ ~skipped
  /\ skipped => Len(batch) = MAX_SAMPLES + 1

\* The reference for one more sample.
LEMMA RefAppend ==
  ASSUME NEW b \in Seq(Nat), NEW p \in Nat, NEW s, NEW e
  PROVE  Ref(Append(b, p), s, e) = IF s <= p /\ p < e THEN Ref(b, s, e) \cup {p - s} ELSE Ref(b, s, e)
  <1> DEFINE a == Append(b, p)
  <1>1. /\ DOMAIN a = DOMAIN b \cup {Len(b) + 1} /\ Len(b) + 1 \notin DOMAIN b
        /\ a[Len(b) + 1] = p /\ \A i \in DOMAIN b : a[i] = b[i]
    OBVIOUS
  <1> HIDE DEF a
  <1>2. \A x : x \in Ref(a, s, e) <=> x \in Ref(b, s, e) \/ (s <= p /\ p < e /\ x = p - s)
    BY <1>1, Zenon DEF Ref
  <1> QED BY <1>2, Zenon DEF a

\* get_dist returns exactly the pages of its range among the samples it took,
\* for any ring, range and limit and whatever the kernel adds.
THEOREM SamplingDistExact == SmSpec => []DistExact
  <1>1. SmInit => SmInv
    <2> SUFFICES ASSUME SmInit PROVE SmInv
      BY Zenon
    <2>1. Ref(<<>>, bounds[1], bounds[2]) = {} BY DEF Ref
    <2>2. dist = Ref(batch, bounds[1], bounds[2]) BY <2>1, Zenon DEF SmInit
    <2>3. batch \in Seq(Nat) /\ reader # "dist" BY DEF SmInit
    <2>4. skipped \in BOOLEAN /\ ~skipped BY Zenon DEF SmInit
    <2> QED BY <2>2, <2>3, <2>4, Zenon DEF SmInv
  <1>2. SmInv /\ [SmNext]_smvars => SmInv'
    <2> SUFFICES ASSUME SmInv, [SmNext]_smvars PROVE SmInv'
      BY Zenon
    <2>1. ASSUME NEW p \in Pages, GetDist(p) PROVE SmInv'
      <3>1. p \in Nat /\ MAX_SAMPLES \in Nat BY SamplingAssumption, Zenon
      <3>2. /\ batch' = Append(batch, p) /\ bounds' = bounds /\ sample_cnt' = sample_cnt + 1
            /\ sample_cnt = Len(batch) /\ sample_cnt <= MAX_SAMPLES /\ ~skipped
            /\ dist' = IF bounds[1] <= p /\ p < bounds[2] THEN dist \cup {p - bounds[1]} ELSE dist
        BY <2>1, Zenon DEF GetDist, SmInv
      <3>3. batch' \in Seq(Nat) /\ Len(batch') = Len(batch) + 1 /\ Len(batch) \in Nat
        BY <3>1, <3>2 DEF SmInv
      <3>4. dist' = Ref(batch', bounds'[1], bounds'[2])
        <4> DEFINE s == bounds[1]
                   e == bounds[2]
        <4>1. dist = Ref(batch, s, e) /\ batch \in Seq(Nat) BY Zenon DEF SmInv
        <4>2. dist' = IF s <= p /\ p < e THEN dist \cup {p - s} ELSE dist BY <3>2, Zenon
        <4> HIDE DEF s, e
        <4>3. dist' = Ref(Append(batch, p), s, e) BY <3>1, <4>1, <4>2, RefAppend
        <4> QED BY <3>2, <4>3, Zenon DEF s, e
      <3>5. CASE sample_cnt' > MAX_SAMPLES
        <4>1. reader' = "idle" /\ skipped' = (Len(records) > 1) BY <2>1, <3>5, Zenon DEF GetDist
        <4>2. Len(batch') = MAX_SAMPLES + 1 BY <3>1, <3>2, <3>3, <3>5
        <4>3. skipped' \in BOOLEAN BY <4>1
        <4>4. reader' # "dist" BY <4>1, Zenon
        <4> QED BY <3>3, <3>4, <4>2, <4>3, <4>4, Zenon DEF SmInv
      <3>6. CASE ~(sample_cnt' > MAX_SAMPLES)
        <4>1. skipped' = skipped BY <2>1, <3>6, Zenon DEF GetDist
        <4>2. sample_cnt' = Len(batch') /\ sample_cnt' <= MAX_SAMPLES BY <3>1, <3>2, <3>3, <3>6
        <4> QED BY <3>2, <3>3, <3>4, <4>1, <4>2, Zenon DEF SmInv
      <3> QED BY <3>5, <3>6, Zenon
    <2>2. ASSUME NEW call, NEW s, NEW e, BeginCall(call, s, e) PROVE SmInv'
      <3>1. Ref(<<>>, bounds'[1], bounds'[2]) = {} BY DEF Ref
      <3>2. /\ batch' = <<>> /\ dist' = {} /\ sample_cnt' = 0 /\ skipped' = FALSE
        BY <2>2, Zenon DEF BeginCall
      <3>3. dist' = Ref(batch', bounds'[1], bounds'[2]) BY <3>1, <3>2, Zenon
      <3>4. batch' \in Seq(Nat) /\ sample_cnt' = Len(batch') /\ sample_cnt' <= MAX_SAMPLES
        BY <3>2, SamplingAssumption
      <3>5. skipped' \in BOOLEAN /\ ~skipped' BY <3>2, Zenon
      <3> QED BY <3>3, <3>4, <3>5, Zenon DEF SmInv
    <2>3. ASSUME NEW p \in Pages, GetSamples(p) PROVE SmInv'
      BY <2>3, Zenon DEF GetSamples, SmInv
    <2>4. ASSUME NEW r, Emit(r) PROVE SmInv' BY <2>4, Zenon DEF Emit, SmInv
    <2>5. CASE start_sampling \/ CallUnset \/ Fault \/ Return
      BY <2>5 DEF start_sampling, CallUnset, Fault, Return, SmInv
    <2>6. CASE UNCHANGED smvars BY <2>6, Zenon DEF smvars, SmInv
    <2> QED BY <2>1, <2>2, <2>3, <2>4, <2>5, <2>6, Zenon DEF SmNext, Reader
  <1>3. SmInv => DistExact BY Zenon DEF SmInv, DistExact
  <1> QED BY <1>1, <1>2, <1>3, PTL DEF SmSpec

-----------------------------------------------------------------------------
(* Two results that count the elements of a set: the traversals that have  *)
(* passed a node, and the CPUs a process is bound to.                      *)
INSTANCE FiniteSetTheorems

\* data++ of hoh() is a load and a store, and yet no increment is lost: every
\* counter is its initial value plus the number of traversals that have passed
\* it, for every list and number of threads.
THEOREM HohNoLostIncrement == HSpec => []NoLostIncrement
  <1>0. \A S \in SUBSET Travs : IsFiniteSet(S) /\ Cardinality(S) \in Nat
    <2>1. IsFiniteSet(Travs) BY HohAssumption, FS_Interval DEF Travs, Serial
    <2> QED BY <2>1, FS_Subset, FS_CardinalityType, Zenon
  <1>1. HInit => NoLostIncrement
    <2> SUFFICES ASSUME HInit, NEW k \in ListNodes \ {1}
                 PROVE  data[k] = (k - 1) + Cardinality({t \in Travs : Passed(t, k)})
      BY Zenon DEF NoLostIncrement
    <2>1. {t \in Travs : Passed(t, k)} = {}
      BY HohAssumption DEF HInit, Passed, Frontier, ListNodes
    <2>2. data[k] = k - 1 /\ k - 1 \in Int
      BY DEF HInit, ListNodes
    <2> QED BY <2>1, <2>2, FS_EmptySet
  <1>2. HInv /\ NoLostIncrement /\ [HNext]_hvars => NoLostIncrement'
    <2> SUFFICES ASSUME HInv, NoLostIncrement, [HNext]_hvars, NEW k \in ListNodes \ {1}
                 PROVE  data'[k] = (k - 1) + Cardinality({t \in Travs : Passed(t, k)'})
      BY Zenon DEF NoLostIncrement
    <2> DEFINE S == {t \in Travs : Passed(t, k)}
               T == {t \in Travs : Passed(t, k)'}
    <2>1. /\ data[k] = (k - 1) + Cardinality(S) /\ k - 1 \in Int
          /\ IsFiniteSet(S) /\ Cardinality(S) \in Nat
      BY <1>0 DEF NoLostIncrement, ListNodes
    <2> HIDE DEF S, T
    <2>2. ASSUME NEW t \in Travs, Traverse(t) PROVE data'[k] = (k - 1) + Cardinality(T)
      <3>1. CASE WriteData(t) /\ k = next[t]
        <4>1. T = S \cup {t} /\ t \notin S BY <2>2, <3>1, HohPassed, Zenon DEF S, T
        <4>2. Cardinality(S \cup {t}) = Cardinality(S) + 1
          BY <2>1, <4>1, FS_AddElement, Zenon
        <4>3. data'[k] = data[k] + 1
          BY <3>1, Zenon DEF WriteData, HInv, HTypeOK, ReadIsCurrent
        <4> QED BY <2>1, <4>1, <4>2, <4>3
      <3>2. CASE ~(WriteData(t) /\ k = next[t])
        <4>1. T = S BY <2>2, <3>2, HohPassed, Zenon DEF S, T
        <4>2. data'[k] = data[k]
          BY <2>2, <3>2, Zenon DEF HInv, HTypeOK, Traverse, Begin, LockHead, Advance, LockNext,
                            UnlockPrev, ReadData, WriteData, UnlockLast
        <4> QED BY <2>1, <4>1, <4>2, Zenon
      <3> QED BY <3>1, <3>2, Zenon
    <2>3. CASE (\E t \in Travs : Create(t) \/ Join(t)) \/ UNCHANGED hvars
      <3>1. data' = data BY <2>3, Zenon DEF Create, Join, hvars
      <3>2. \A u \in Travs : Passed(u, k)' <=> Passed(u, k)
        <4>1. ASSUME NEW t \in Travs, Create(t)
              PROVE  /\ hpc[t] = "off" /\ hpc' = [hpc EXCEPT ![t] = "start"]
                     /\ UNCHANGED <<prev, next>>
          BY <4>1 DEF Create, HInv, HTypeOK, Places, PlaceOK, Travs
        <4>2. CASE \E t \in Travs : Create(t)
          BY <4>1, <4>2 DEF Passed, Frontier, HInv, HTypeOK
        <4>3. CASE (\E t \in Travs : Join(t)) \/ UNCHANGED hvars
          BY <4>3, Zenon DEF Join, hvars, Passed, Frontier
        <4> QED BY <2>3, <4>2, <4>3, Zenon
      <3>3. T = S BY <3>2, Zenon DEF S, T
      <3> QED BY <2>1, <3>1, <3>3, Zenon DEF T
    <2> QED BY <2>2, <2>3, Zenon DEF HNext, T
  <1> QED BY <1>1, <1>2, HohInvariant, PTL DEF HSpec

\* bind_to_node lets two processes share a CPU only when one bound itself during
\* the other's scan, for any number of processes, CPUs and nodes.
THEOREM NumaShareOnlyByRace == NbSpec => ShareOnlyByRace
  <1>1. NbInit => NbInv BY Zenon DEF NbInit, NbInv
  <1>2. NbInv /\ [NbNext]_nbvars
          => [\A p, q \in Procs :
                /\ p # q /\ allowed'[p] # allowed[p] /\ allowed'[p] = allowed[q]
                => q \in moved[p]]_nbvars
    <2> SUFFICES ASSUME NbInv, NbNext, NEW p \in Procs, NEW q \in Procs, p # q,
                        allowed'[p] # allowed[p], allowed'[p] = allowed[q]
                 PROVE  q \in moved[p]
      BY Zenon
    <2>1. \E ok \in BOOLEAN : SetAffinity(p, ok)
      <3>0. allowed' # allowed BY Zenon
      <3>1. PICK r \in Procs : \E ok \in BOOLEAN : SetAffinity(r, ok)
        <4>1. ASSUME NEW r \in Procs, NEW node PROVE ~bind_to_node(r, node)
          BY <3>0, Zenon DEF bind_to_node
        <4>2. ASSUME NEW r \in Procs PROVE ~NextCpu(r) /\ ~CheckCpu(r)
          BY <3>0, Zenon DEF NextCpu, CheckCpu
        <4>3. ASSUME NEW r \in Procs, NEW s \in Procs PROVE ~ReadStatus(r, s)
          BY <3>0, Zenon DEF ReadStatus
        <4> QED BY <4>1, <4>2, <4>3, Zenon DEF NbNext
      <3>2. r = p BY <3>1, Zenon DEF SetAffinity, NbInv
      <3> QED BY <3>1, <3>2, Zenon
    <2>2. npc[p] = "bind" /\ allowed' = [allowed EXCEPT ![p] = {cpu[p]}]
      BY <2>1, Zenon DEF SetAffinity
    <2>3. allowed[q] = {cpu[p]} BY <2>2, Zenon DEF NbInv
    <2>4. Cardinality(allowed[q]) = 1 BY <2>3, FS_Singleton, Zenon
    <2> QED BY <2>2, <2>3, <2>4, Zenon DEF NbInv
  <1> QED BY <1>1, <1>2, NbInvNext, PTL DEF NbSpec, ShareOnlyByRace
==============================================================================
