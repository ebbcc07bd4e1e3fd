-------------------------- MODULE Containers_proofs --------------------------
(***************************************************************************)
(* Proofs about the list of linkedlist_tx and the B-tree of map_pmdk.      *)
(***************************************************************************)
EXTENDS LinkedList, BTree, WellFoundedInduction, TLAPS

-----------------------------------------------------------------------------
(* The list of linkedlist_tx, for any nodes and any number of commands.    *)

Lists == [head : LNodes \cup {nullptr}, tail : LNodes \cup {nullptr},
          next : [LNodes -> LNodes \cup {nullptr}], data : [LNodes -> LData \cup {0, 1}],
          used : SUBSET LNodes]

\* q is the list l as a sequence of nodes, and sh the values on it.
Linked(l, sh, q) ==
  /\ l \in Lists
  /\ q \in Seq(LNodes) /\ sh \in Seq(LData) /\ Len(q) = Len(sh) /\ Len(q) <= MaxLen
  /\ \A i, j \in 1..Len(q) : q[i] = q[j] => i = j
  /\ \A n \in LNodes : n \in l.used <=> \E i \in 1..Len(q) : n = q[i]
  /\ l.head = IF Len(q) = 0 THEN nullptr ELSE q[1]
  /\ l.tail = IF Len(q) = 0 THEN nullptr ELSE q[Len(q)]
  /\ \A i \in 1..Len(q) : l.next[q[i]] = IF i = Len(q) THEN nullptr ELSE q[i + 1]
  /\ \A i \in 1..Len(q) : l.data[q[i]] = sh[i]

\* append_node puts a node behind the last one.
LEMMA AppendLinked ==
  ASSUME NEW l, NEW sh, NEW q, Linked(l, sh, q), Len(sh) < MaxLen,
         NEW n \in LNodes, n \notin l.used, NEW val \in LData
  PROVE  Linked(append_node(l, n, val), Append(sh, val), Append(q, n))
  <1> DEFINE m == append_node(l, n, val)
             r == Append(q, n)
             c == Len(q)
  <1>1. c \in Nat /\ MaxLen \in Nat /\ c = Len(sh) /\ c < MaxLen
    BY ListAssumption DEF Linked
  <1>2. /\ r \in Seq(LNodes) /\ Append(sh, val) \in Seq(LData)
        /\ Len(r) = c + 1 /\ Len(Append(sh, val)) = c + 1
        /\ \A i \in 1..c : r[i] = q[i] /\ q[i] \in LNodes /\ Append(sh, val)[i] = sh[i]
        /\ r[c + 1] = n /\ Append(sh, val)[c + 1] = val
    BY DEF Linked
  <1>3. \A i \in 1..c : q[i] # n
    BY Zenon DEF Linked
  <1>4. l.head = nullptr <=> c = 0
    BY <1>1, <1>2, ListAssumption DEF Linked
  <1>5. c > 0 => l.tail = q[c] /\ l.tail \in LNodes /\ l.tail # n
    BY <1>1, <1>2, <1>3 DEF Linked
  <1>6. /\ m \in Lists
        /\ m.head = (IF c = 0 THEN n ELSE l.head) /\ m.tail = n
        /\ m.used = l.used \cup {n}
        /\ m.data = [l.data EXCEPT ![n] = val]
        /\ m.next = IF c = 0 THEN [l.next EXCEPT ![n] = nullptr]
                    ELSE [l.next EXCEPT ![n] = nullptr, ![l.tail] = n]
    <2>1. l \in Lists BY Zenon DEF Linked
    <2>2. CASE c = 0
      <3>1. m = [l EXCEPT !.head = n, !.tail = n, !.used = @ \cup {n},
                          !.next[n] = nullptr, !.data[n] = val]
        BY <1>4, <2>1, <2>2, Zenon DEF append_node, Lists
      <3> HIDE DEF m, c
      <3> QED BY <2>1, <2>2, <3>1, Zenon DEF Lists
    <2>3. CASE c # 0
      <3>1. m = [l EXCEPT !.tail = n, !.used = @ \cup {n},
                          !.next = [@ EXCEPT ![n] = nullptr, ![l.tail] = n], !.data[n] = val]
        BY <1>4, <2>1, <2>3, Zenon DEF append_node, Lists
      <3>2. l.tail \in LNodes BY <1>1, <1>5, <2>3
      <3> HIDE DEF m, c
      <3> QED BY <2>1, <2>3, <3>1, <3>2, Zenon DEF Lists
    <2> QED BY <2>2, <2>3, Zenon
  <1> HIDE DEF m, r, c
  <1>7. \A i, j \in 1..(c + 1) : r[i] = r[j] => i = j
    <2> SUFFICES ASSUME NEW i \in 1..(c + 1), NEW j \in 1..(c + 1), r[i] = r[j] PROVE i = j
      BY Zenon
    <2>1. CASE i \in 1..c /\ j \in 1..c BY <1>2, <2>1 DEF Linked, c
    <2>2. CASE i = c + 1 \/ j = c + 1 BY <1>1, <1>2, <1>3, <2>2
    <2> QED BY <1>1, <2>1, <2>2
  <1>8. \A x \in LNodes : x \in m.used <=> \E i \in 1..(c + 1) : x = r[i]
    <2> TAKE x \in LNodes
    <2>1. x \in l.used <=> \E i \in 1..c : x = q[i] BY Zenon DEF Linked, c
    <2>2. (\E i \in 1..(c + 1) : x = r[i]) <=> (\E i \in 1..c : x = r[i]) \/ x = r[c + 1]
      BY <1>1
    <2> QED BY <1>2, <1>6, <2>1, <2>2, Zenon
  <1>9. m.head = r[1] /\ m.tail = r[c + 1]
    <2>1. c > 0 => l.head = q[1] BY <1>1 DEF Linked, c
    <2> QED BY <1>1, <1>2, <1>6, <2>1
  <1>10. \A i \in 1..(c + 1) : m.next[r[i]] = IF i = c + 1 THEN nullptr ELSE r[i + 1]
    <2> TAKE i \in 1..(c + 1)
    <2>0. l.next \in [LNodes -> LNodes \cup {nullptr}] BY Zenon DEF Linked, Lists
    <2>1. CASE i = c + 1 BY <1>1, <1>2, <1>5, <1>6, <2>0, <2>1
    <2>2. CASE i = c /\ i \in 1..c BY <1>1, <1>2, <1>3, <1>5, <1>6, <2>0, <2>2
    <2>3. CASE i \in 1..(c - 1)
      <3>1. q[i] # q[c] /\ l.next[q[i]] = q[i + 1] BY <1>1, <2>3, SMTT(30) DEF Linked, c
      <3>2. r[i] = q[i] /\ r[i + 1] = q[i + 1] /\ q[i] # n BY <1>1, <1>2, <1>3, <2>3
      <3> QED BY <1>1, <1>2, <1>5, <1>6, <2>0, <2>3, <3>1, <3>2
    <2> QED BY <1>1, <2>1, <2>2, <2>3
  <1>11. \A i \in 1..(c + 1) : m.data[r[i]] = Append(sh, val)[i]
    <2> TAKE i \in 1..(c + 1)
    <2>0. l.data \in [LNodes -> LData \cup {0, 1}] BY Zenon DEF Linked, Lists
    <2>1. CASE i = c + 1 BY <1>2, <1>6, <2>0, <2>1
    <2>2. CASE i \in 1..c
      <3>1. l.data[q[i]] = sh[i] BY <2>2, Zenon DEF Linked, c
      <3>2. r[i] = q[i] /\ q[i] \in LNodes /\ q[i] # n /\ Append(sh, val)[i] = sh[i]
        BY <1>2, <1>3, <2>2, Zenon
      <3>3. m.data[q[i]] = l.data[q[i]] BY <1>6, <2>0, <3>2, Zenon
      <3> QED BY <3>1, <3>2, <3>3, Zenon
    <2> QED BY <1>1, <2>1, <2>2
  <1>12. c + 1 # 0 /\ c + 1 <= MaxLen BY <1>1
  <1>13. Linked(m, Append(sh, val), r)
    <2>1. /\ m \in Lists /\ r \in Seq(LNodes) /\ Append(sh, val) \in Seq(LData)
          /\ Len(r) = c + 1 /\ Len(Append(sh, val)) = c + 1
      BY <1>2, <1>6, Zenon
    <2>2. /\ m.head = (IF c + 1 = 0 THEN nullptr ELSE r[1])
          /\ m.tail = (IF c + 1 = 0 THEN nullptr ELSE r[c + 1])
      BY <1>9, <1>12, Zenon
    <2> QED BY <2>1, <2>2, <1>7, <1>8, <1>10, <1>11, <1>12 DEF Linked
  <1> QED BY <1>13, Zenon DEF m, r

\* pop_head takes the first node away, and leaves an empty list as it is.
LEMMA PopLinked ==
  ASSUME NEW l, NEW sh, NEW q, Linked(l, sh, q)
  PROVE  /\ \E r : Linked(pop_head(l), IF sh = <<>> THEN sh ELSE Tail(sh), r)
         /\ sh # <<>> => pop_head(l).head # l.head
  <1> DEFINE m == pop_head(l)
             r == Tail(q)
             c == Len(q)
  <1>1. c \in Nat /\ MaxLen \in Nat /\ c = Len(sh) /\ c <= MaxLen
        /\ \A i \in 1..c : q[i] \in LNodes
    BY ListAssumption DEF Linked
  <1>2. l.head = nullptr <=> c = 0
    BY <1>1, ListAssumption DEF Linked
  <1>3. CASE c = 0
    <2>1. m = l BY <1>2, <1>3, Zenon DEF pop_head
    <2>2. sh = <<>>
      <3>1. sh \in Seq(LData) /\ Len(sh) = 0 BY <1>1, <1>3, Zenon DEF Linked
      <3> QED BY <3>1
    <2> QED BY <2>1, <2>2, Zenon
  <1>4. CASE c > 0
    <2>1. /\ r \in Seq(LNodes) /\ Tail(sh) \in Seq(LData)
          /\ Len(r) = c - 1 /\ Len(Tail(sh)) = c - 1
          /\ \A i \in 1..(c - 1) : r[i] = q[i + 1] /\ Tail(sh)[i] = sh[i + 1]
      BY <1>1, <1>4 DEF Linked
    <2>2. l.head = q[1] /\ l.tail = q[c] /\ q[1] \in LNodes /\ sh # <<>>
      BY <1>1, <1>4 DEF Linked
    <2>3. l.head = l.tail <=> c = 1
      <3>1. 1 \in 1..c /\ c \in 1..c BY <1>1, <1>4
      <3>2. q[1] = q[c] => 1 = c BY <3>1, Zenon DEF Linked
      <3> QED BY <2>2, <3>2, Zenon
    <2>4. l.next[l.head] = IF c = 1 THEN nullptr ELSE q[2]
      BY <1>1, <1>4, <2>2 DEF Linked
    <2>5. /\ m \in Lists
          /\ m.head = (IF c = 1 THEN nullptr ELSE q[2])
          /\ m.tail = (IF c = 1 THEN nullptr ELSE q[c])
          /\ m.used = l.used \ {q[1]} /\ m.data = l.data /\ m.next = l.next
      <3>1. CASE c = 1
        <4>1. m = [l EXCEPT !.head = nullptr, !.tail = nullptr, !.used = @ \ {l.head}]
          BY <1>2, <1>4, <2>3, <3>1 DEF pop_head
        <4> HIDE DEF m
        <4> QED BY <2>2, <3>1, <4>1, Zenon DEF Linked, Lists
      <3>2. CASE c # 1
        <4>1. m = [l EXCEPT !.head = l.next[l.head], !.used = @ \ {l.head}]
          BY <1>2, <1>4, <2>3, <3>2 DEF pop_head
        <4>2. q[2] \in LNodes BY <1>1, <1>4, <3>2
        <4> HIDE DEF m
        <4> QED BY <2>2, <2>4, <3>2, <4>1, <4>2, Zenon DEF Linked, Lists
      <3> QED BY <3>1, <3>2, Zenon
    <2> HIDE DEF m, r, c
    <2>6. \A i, j \in 1..c : q[i] = q[j] => i = j BY Zenon DEF Linked, c
    <2>7. \A i, j \in 1..(c - 1) : r[i] = r[j] => i = j
      <3> TAKE i, j \in 1..(c - 1)
      <3>1. i + 1 \in 1..c /\ j + 1 \in 1..c BY <1>1
      <3> QED BY <1>1, <2>1, <2>6, <3>1
    <2>8. \A x \in LNodes : x \in m.used <=> \E i \in 1..(c - 1) : x = r[i]
      <3> TAKE x \in LNodes
      <3>1. x \in l.used <=> \E i \in 1..c : x = q[i] BY Zenon DEF Linked, c
      <3>2. ASSUME x \in m.used PROVE \E i \in 1..(c - 1) : x = r[i]
        <4>1. PICK i \in 1..c : x = q[i] BY <2>5, <3>1, <3>2, Zenon
        <4>2. i - 1 \in 1..(c - 1) /\ (i - 1) + 1 = i BY <1>1, <2>5, <3>2, <4>1
        <4> QED BY <2>1, <4>1, <4>2, Zenon
      <3>3. ASSUME NEW i \in 1..(c - 1), x = r[i] PROVE x \in m.used
        <4>1. i + 1 \in 1..c /\ i + 1 # 1 /\ 1 \in 1..c BY <1>1
        <4>2. x = q[i + 1] /\ x # q[1] BY <2>1, <2>6, <3>3, <4>1, Zenon
        <4> QED BY <2>5, <3>1, <4>1, <4>2, Zenon
      <3> QED BY <3>2, <3>3, Zenon
    <2>9. m.head = (IF c - 1 = 0 THEN nullptr ELSE r[1])
          /\ m.tail = (IF c - 1 = 0 THEN nullptr ELSE r[c - 1])
      <3>1. CASE c = 1 BY <2>5, <3>1
      <3>2. CASE c # 1
        <4>1. 1 \in 1..(c - 1) /\ c - 1 \in 1..(c - 1) /\ (c - 1) + 1 = c /\ c - 1 # 0
          BY <1>1, <1>4, <3>2
        <4> QED BY <2>1, <2>5, <3>2, <4>1
      <3> QED BY <3>1, <3>2, Zenon
    <2>10. \A i \in 1..(c - 1) : m.next[r[i]] = IF i = c - 1 THEN nullptr ELSE r[i + 1]
      <3> TAKE i \in 1..(c - 1)
      <3>1. i + 1 \in 1..c BY <1>1
      <3>2. l.next[q[i + 1]] = IF i + 1 = c THEN nullptr ELSE q[(i + 1) + 1]
        BY <3>1, Zenon DEF Linked, c
      <3>3. i # c - 1 => i + 1 \in 1..(c - 1) BY <1>1
      <3> QED BY <1>1, <2>1, <2>5, <3>2, <3>3
    <2>11. \A i \in 1..(c - 1) : m.data[r[i]] = Tail(sh)[i]
      <3> TAKE i \in 1..(c - 1)
      <3>1. i + 1 \in 1..c BY <1>1
      <3>2. l.data[q[i + 1]] = sh[i + 1] BY <3>1, Zenon DEF Linked, c
      <3> QED BY <2>1, <2>5, <3>2, Zenon
    <2>12. c - 1 <= MaxLen BY <1>1
    <2>13. Linked(m, Tail(sh), r)
      BY <2>1, <2>5, <2>7, <2>8, <2>9, <2>10, <2>11, <2>12 DEF Linked
    <2>14. m.head # l.head
      <3>1. c # 1 => 2 \in 1..c /\ 1 \in 1..c /\ 2 # 1 BY <1>1, <1>4
      <3>2. c # 1 => q[2] # q[1] BY <2>6, <3>1, Zenon
      <3>3. q[1] # nullptr BY <2>2, ListAssumption, Zenon
      <3> QED BY <2>2, <2>5, <3>2, <3>3, Zenon
    <2> QED BY <2>2, <2>13, <2>14, Zenon DEF m
  <1> QED BY <1>1, <1>3, <1>4

\* What main does at a start, a node put in front and taken away again, leaves
\* the list as it was.
LEMMA StartLinked ==
  ASSUME NEW l, NEW sh, NEW q, Linked(l, sh, q), NEW n \in LNodes, n \notin l.used
  PROVE  Linked(pop_head(append_head(l, n, 1)), sh, q)
  <1> DEFINE a == append_head(l, n, 1)
             m == pop_head(a)
             c == Len(q)
  <1>1. c \in Nat /\ n # nullptr /\ \A i \in 1..c : q[i] \in LNodes /\ q[i] # n
    BY ListAssumption DEF Linked
  <1>2. l.tail # n /\ (l.tail = nullptr <=> c = 0) /\ (c = 0 => l.head = nullptr)
    BY <1>1, ListAssumption DEF Linked
  <1>3. /\ a \in Lists
        /\ a.head = n /\ a.tail = (IF c = 0 THEN n ELSE l.tail)
        /\ a.used = l.used \cup {n}
        /\ a.data = [l.data EXCEPT ![n] = 1] /\ a.next = [l.next EXCEPT ![n] = l.head]
    BY <1>2, Zenon DEF append_head, Linked, Lists
  <1>4. a.next[n] = l.head BY <1>3 DEF Linked, Lists
  <1> HIDE DEF a
  <1>5. /\ m \in Lists
        /\ m.head = l.head /\ m.tail = l.tail /\ m.used = a.used \ {n}
        /\ m.next = a.next /\ m.data = a.data
    <2>1. CASE c = 0
      <3>1. m = [a EXCEPT !.head = nullptr, !.tail = nullptr, !.used = @ \ {a.head}]
        BY <1>1, <1>3, <2>1, Zenon DEF pop_head
      <3> HIDE DEF m
      <3> QED BY <1>2, <1>3, <2>1, <3>1, Zenon DEF Lists
    <2>2. CASE c # 0
      <3>1. m = [a EXCEPT !.head = a.next[a.head], !.used = @ \ {a.head}]
        BY <1>1, <1>2, <1>3, <2>2, Zenon DEF pop_head
      <3>2. l.head \in LNodes \cup {nullptr} BY Zenon DEF Linked, Lists
      <3> HIDE DEF m
      <3> QED BY <1>2, <1>3, <1>4, <2>2, <3>1, <3>2, Zenon DEF Lists
    <2> QED BY <2>1, <2>2, Zenon
  <1>6. m.used = l.used BY <1>3, <1>5, ZenonT(30)
  <1>7. \A i \in 1..c : m.next[q[i]] = l.next[q[i]] /\ m.data[q[i]] = l.data[q[i]]
    BY <1>1, <1>3, <1>5 DEF Linked, Lists
  <1> HIDE DEF m
  <1>8. /\ m \in Lists /\ m.head = l.head /\ m.tail = l.tail /\ m.used = l.used
    BY <1>5, <1>6, Zenon
  <1>9. Linked(m, sh, q)
    <2>1. /\ \A i \in 1..Len(q) : m.next[q[i]] = IF i = Len(q) THEN nullptr ELSE q[i + 1]
          /\ \A i \in 1..Len(q) : m.data[q[i]] = sh[i]
      BY <1>7, Zenon DEF Linked, c
    <2>2. /\ m.head = (IF Len(q) = 0 THEN nullptr ELSE q[1])
          /\ m.tail = (IF Len(q) = 0 THEN nullptr ELSE q[Len(q)])
      BY <1>8, Zenon DEF Linked
    <2>3. \A x \in LNodes : x \in m.used <=> \E i \in 1..Len(q) : x = q[i]
      BY <1>8, Zenon DEF Linked
    <2> QED BY <1>8, <2>1, <2>2, <2>3, ZenonT(30) DEF Linked
  <1> QED BY <1>9, Zenon DEF m, a

\* Following the pointers of such a list gives its nodes, one after the other,
\* and then nullptr.
LEMMA FollowLinked ==
  ASSUME NEW q, Linked(ll, shadow, q)
  PROVE  \A k \in 0..(MaxLen + 1) :
           Follow[k] = IF k < Len(q) THEN q[k + 1] ELSE nullptr
  <1> DEFINE c == Len(q)
             S == 0..(MaxLen + 1)
             node(k) == IF k < c THEN q[k + 1] ELSE nullptr
             step(g, k) == IF k = 0 THEN ll.head
                           ELSE IF g[k - 1] = nullptr THEN nullptr ELSE ll.next[g[k - 1]]
             G == [k \in S |-> node(k)]
  <1>1. c \in Nat /\ MaxLen \in Nat /\ c <= MaxLen
        /\ (\A i \in 1..c : q[i] \in LNodes /\ q[i] # nullptr)
        /\ ll.head = (IF c = 0 THEN nullptr ELSE q[1])
        /\ \A i \in 1..c : ll.next[q[i]] = IF i = c THEN nullptr ELSE q[i + 1]
    BY ListAssumption DEF Linked
  <1> HIDE DEF c
  <1>2. ASSUME NEW g, NEW k \in S, k > 0 => g[k - 1] = node(k - 1)
        PROVE  step(g, k) = node(k)
    <2>1. CASE k = 0 BY <1>1, <2>1
    <2>2. CASE k > 0 /\ k - 1 < c
      <3>1. k \in 1..c /\ (k - 1) + 1 = k /\ (k < c <=> k # c) BY <1>1, <2>2
      <3>2. g[k - 1] = q[k] BY <1>2, <2>2, <3>1, Zenon
      <3> QED BY <1>1, <2>2, <3>1, <3>2
    <2>3. CASE k > 0 /\ ~(k - 1 < c)
      <3>1. g[k - 1] = nullptr /\ ~(k < c) BY <1>1, <1>2, <2>3
      <3> QED BY <2>3, <3>1
    <2> QED BY <1>1, <2>1, <2>2, <2>3
  <1>3. G = [k \in S |-> step(G, k)]
    <2>1. \A k \in S : step(G, k) = node(k)
      <3> TAKE k \in S
      <3>1. k > 0 => k - 1 \in S BY <1>1
      <3>2. k > 0 => G[k - 1] = node(k - 1) BY <3>1, Zenon
      <3> HIDE DEF G, node, step
      <3> QED BY <1>2, <3>2, Zenon
    <2> HIDE DEF step, node
    <2> QED BY <2>1, Zenon
  <1>4. Follow = [k \in S |-> step(Follow, k)]
    <2>1. Follow = CHOOSE g : g = [k \in S |-> step(g, k)]
      BY Zenon DEF Follow
    <2> HIDE DEF step, G
    <2> QED BY <1>3, <2>1, Zenon
  <1> DEFINE T == {k \in S : Follow[k] # node(k)}
             R == OpToRel(<, Nat)
  <1>5. T = {}
    <2> SUFFICES ASSUME T # {} PROVE FALSE
      BY Zenon
    <2>1. T \subseteq Nat BY <1>1
    <2>2. IsWellFoundedOn(R, Nat) BY NatLessThanWellFounded, Zenon
    <2> HIDE DEF R
    <2>3. PICK k \in T : \A j \in T : ~(<<j, k>> \in R) BY <2>1, <2>2, WFMin, Zenon
    <2>4. k > 0 => Follow[k - 1] = node(k - 1)
      <3> SUFFICES ASSUME k > 0, Follow[k - 1] # node(k - 1) PROVE FALSE
        BY Zenon
      <3>1. k \in Nat /\ k - 1 \in Nat /\ k - 1 \in S /\ k - 1 < k BY <1>1, <2>1
      <3>2. k - 1 \in T BY <3>1, Zenon
      <3> QED BY <2>3, <3>1, <3>2, Zenon DEF R, OpToRel
    <2>5. k \in S BY Zenon
    <2> HIDE DEF node, step, T
    <2>6. step(Follow, k) = node(k) BY <1>2, <2>4, <2>5, Zenon
    <2>7. Follow[k] = step(Follow, k) BY <1>4, <2>5, Zenon
    <2> QED BY <2>3, <2>6, <2>7, Zenon DEF T
  <1> QED BY <1>5, Zenon DEF c

\* A walk over such a list is exact.
LEMMA LinkedExact ==
  ASSUME NEW q, Linked(ll, shadow, q)
  PROVE  ListExact
  <1> DEFINE c == Len(q)
  <1>1. /\ c \in Nat /\ MaxLen \in Nat /\ c <= MaxLen /\ c = Len(shadow)
        /\ (\A i \in 1..c : q[i] \in LNodes /\ q[i] # nullptr)
        /\ (\A i \in 1..c : ll.data[q[i]] = shadow[i])
        /\ (\A i, j \in 1..c : q[i] = q[j] => i = j)
        /\ (\A n \in LNodes : n \in ll.used <=> \E i \in 1..c : n = q[i])
        /\ ll.used \subseteq LNodes
        /\ ll.tail = (IF c = 0 THEN nullptr ELSE q[c])
    BY ListAssumption DEF Linked, Lists
  <1>2. shadow = <<>> <=> c = 0
    BY DEF Linked
  <1>3. \A k \in 0..(MaxLen + 1) : Follow[k] = IF k < c THEN q[k + 1] ELSE nullptr
    BY FollowLinked, Zenon
  <1> HIDE DEF c
  <1>4. Steps = 0..(c - 1)
    <2>1. \A k \in 0..(MaxLen + 1) : k \in Steps <=> k < c
      <3> TAKE k \in 0..(MaxLen + 1)
      <3>1. k < c => k + 1 \in 1..c BY <1>1
      <3> QED BY <1>1, <1>3, <3>1, Zenon DEF Steps
    <2>2. \A k \in 0..(c - 1) : k \in 0..(MaxLen + 1) /\ k < c BY <1>1
    <2>3. \A k \in Steps : k \in 0..(MaxLen + 1) BY Zenon DEF Steps
    <2>4. Steps \subseteq 0..(c - 1) BY <1>1, <2>1, <2>3
    <2>5. 0..(c - 1) \subseteq Steps BY <2>1, <2>2, Zenon
    <2> QED BY <2>4, <2>5, Zenon
  <1>5. \A k \in 0..(c - 1) : k + 1 \in 1..c /\ Follow[k] = q[k + 1]
    BY <1>1, <1>3
  <1>6. \A k \in Steps : ll.data[Follow[k]] = shadow[k + 1]
    BY <1>1, <1>4, <1>5, Zenon
  <1>7. \A j, k \in Steps : Follow[j] = Follow[k] => j = k
    <2> SUFFICES ASSUME NEW j \in 0..(c - 1), NEW k \in 0..(c - 1), Follow[j] = Follow[k]
                 PROVE  j = k
      BY <1>4, Zenon
    <2>1. j + 1 = k + 1 BY <1>1, <1>5
    <2> QED BY <1>1, <2>1
  <1>8. {Follow[k] : k \in Steps} = ll.used
    <2>1. \A n \in ll.used : \E k \in Steps : n = Follow[k]
      <3> TAKE n \in ll.used
      <3>1. PICK i \in 1..c : n = q[i] BY <1>1, Zenon
      <3>2. i - 1 \in 0..(c - 1) /\ (i - 1) + 1 = i BY <1>1
      <3> QED BY <1>4, <1>5, <3>1, <3>2, Zenon
    <2>2. \A k \in Steps : Follow[k] \in ll.used
      BY <1>1, <1>4, <1>5
    <2> QED BY <2>1, <2>2, Zenon
  <1>9. ll.tail = IF shadow = <<>> THEN nullptr ELSE Follow[c - 1]
    <2>1. c # 0 => c - 1 \in 0..(c - 1) /\ (c - 1) + 1 = c BY <1>1
    <2> QED BY <1>1, <1>2, <1>5, <2>1, Zenon
  <1> QED BY <1>1, <1>4, <1>6, <1>7, <1>8, <1>9, Zenon DEF ListExact

\* The list is linked as its history says, in memory and on the media.
LlInv ==
  /\ \E q : Linked(ll, shadow, q)
  /\ \E q : Linked(synced, shadow_sync, q)

\* Walking the list from its head meets exactly what append added less one value
\* at one end per pop, also after a failure went back to the last msync, for any nodes, any
\* values and any order of commands and exits (linkedlist_tx).
THEOREM ListIsExact == LlSpec => []ListExact
  <1>1. LlInit => LlInv
    <2> SUFFICES ASSUME LlInit PROVE LlInv
      BY Zenon
    <2>1. Linked(EmptyList, <<>>, <<>>)
      BY ListAssumption DEF Linked, Lists, EmptyList
    <2> QED BY <2>1, Zenon DEF LlInit, LlInv
  <1>2. LlInv /\ [LlNext]_llvars => LlInv'
    <2> SUFFICES ASSUME LlInv, [LlNext]_llvars PROVE LlInv'
      BY Zenon
    <2>0. PICK q : Linked(ll, shadow, q) BY Zenon DEF LlInv
    <2>1. ASSUME NEW n \in LNodes, ListStart(n) PROVE LlInv'
      <3>1. Linked(pop_head(append_head(ll, n, 1)), shadow, q)
        BY <2>0, <2>1, StartLinked, Zenon DEF ListStart
      <3> QED BY <2>1, <3>1, Zenon DEF ListStart, msync, LlInv
    <2>2. ASSUME NEW n \in LNodes, NEW val \in LData, Append_(n, val) PROVE LlInv'
      <3>1. Linked(append_node(ll, n, val), Append(shadow, val), Append(q, n))
        BY <2>0, <2>2, AppendLinked, Zenon DEF Append_
      <3> QED BY <2>2, <3>1, Zenon DEF Append_, msync, LlInv
    <2>3. ASSUME NEW n \in LNodes, NEW val \in LData, AppendAndExit(n, val) PROVE LlInv'
      BY <2>3, Zenon DEF AppendAndExit, LlInv
    <2>4. CASE Pop
      <3>1. \E r : Linked(pop_head(ll), Popped(pop_head(ll)), r)
        BY <2>0, PopLinked, Zenon DEF Popped
      <3> QED BY <2>4, <3>1, Zenon DEF Pop, msync, LlInv
    <2>5. CASE ListStop BY <2>5, Zenon DEF ListStop, LlInv
    <2>6. CASE UNCHANGED llvars BY <2>6, Zenon DEF llvars, LlInv
    <2> QED BY <2>1, <2>2, <2>3, <2>4, <2>5, <2>6, Zenon DEF LlNext
  <1>3. LlInv => ListExact
    BY LinkedExact, Zenon DEF LlInv
  <1> QED BY <1>1, <1>2, <1>3, PTL DEF LlSpec

-----------------------------------------------------------------------------
(* The B-tree, for every even order and any number of nodes and commands.  *)
(* Nothing about the shape of the tree is needed: the undo log covers what *)
(* an operation writes whatever nodes the slots lead to.                   *)

Ref == {NULL} \cup Nodes
Node == [n : {i \in Int : i < ORDER}, items : [ItemIdx -> Nat], slots : [SlotIdx -> Ref]]

\* a transaction in which every change is covered
TxOK(t) ==
  t \in [heap : [Nodes -> Node], root : Ref, live : SUBSET Nodes, fresh : SUBSET Nodes,
         added : {t.added}, loose : {{}}, aborted : BOOLEAN]

BtInv ==
  /\ heap \in [Nodes -> Node] /\ root \in Ref /\ live \in SUBSET Nodes
  /\ TxOK(tx)
  /\ cmd.key \in Nat
  /\ script \in Seq(Keys)
  /\ at \in [nd : Ref, parent : Ref, p : SlotIdx]
  /\ path \in Seq([nd : Nodes, parent : Ref, p : SlotIdx])
  /\ pc # "idle" => ~tx.aborted
  /\ pc = "find_dest_node" /\ at.parent # NULL => tx.heap[at.parent].n < ORDER - 1
  /\ pc = "get_leftmost_leaf" => at.parent # NULL /\ at.p < ORDER - 1 /\ path # <<>>
  /\ pc = "walk_up" => at.nd # NULL

\* Half of the order.
LEMMA Half ==
  /\ ORDER \in Nat /\ ORDER >= 4
  /\ ORDER \div 2 \in Nat /\ 2 * (ORDER \div 2) = ORDER
  /\ MINKEYS = (ORDER \div 2) - 1
  BY OrderAssumption DEF MINKEYS

\* The count of a node is below the order.
LEMMA NodeCount == \A c \in Node : c.n \in Int /\ c.n < ORDER
  BY Zenon DEF Node

\* A set of natural numbers with an element has a least one.
LEMMA Least ==
  ASSUME NEW S, S \subseteq Nat, S # {}
  PROVE  \E i \in S : \A j \in S : i <= j
  <1> DEFINE R == OpToRel(<, Nat)
  <1>1. IsWellFoundedOn(R, Nat) BY NatLessThanWellFounded, Zenon
  <1> HIDE DEF R
  <1>2. PICK k \in S : \A j \in S : ~(<<j, k>> \in R) BY <1>1, WFMin, Zenon
  <1>3. ASSUME NEW j \in S PROVE k <= j
    <2>1. k \in Nat /\ j \in Nat BY Zenon
    <2>2. ~(j < k) BY <1>2, <2>1, Zenon DEF R, OpToRel
    <2> QED BY <2>1, <2>2
  <1> QED BY <1>3, Zenon

\* The zeroed node, and the moves within an array, have their types.
LEMMA ZeroNodeType == ZeroNode \in Node
  BY Half DEF ZeroNode, Node, Ref, NULL, SlotIdx, ItemIdx

LEMMA MoveType ==
  ASSUME NEW to, NEW from, NEW cnt
  PROVE  /\ \A a \in [ItemIdx -> Nat] : Move(a, to, from, cnt) \in [ItemIdx -> Nat]
         /\ \A a \in [SlotIdx -> Ref] : Move(a, to, from, cnt) \in [SlotIdx -> Ref]
  <1>1. ASSUME NEW D, NEW S, 0 \in S, NEW a \in [D -> S]
        PROVE  Move(a, to, from, cnt) \in [D -> S]
    BY <1>1, Zenon DEF Move
  <1>2. 0 \in Nat /\ 0 \in Ref BY Zenon DEF Ref, NULL
  <1> QED BY <1>1, <1>2, Zenon

\* The locations a store can change are those of the node.
LEMMA ChangedWhole ==
  ASSUME NEW t, NEW nd, NEW c
  PROVE  Changed(t, nd, c) \subseteq Whole(nd)
  BY Zenon DEF Changed, Whole, Fields

-----------------------------------------------------------------------------
(* Transactional memory                                                    *)

LEMMA TxAdd ==
  ASSUME NEW t, TxOK(t), NEW locs
  PROVE  /\ TxOK(TX_ADD(t, locs))
         /\ TX_ADD(t, locs).added = t.added \cup locs
         /\ TX_ADD(t, locs).heap = t.heap /\ TX_ADD(t, locs).root = t.root
         /\ TX_ADD(t, locs).live = t.live /\ TX_ADD(t, locs).fresh = t.fresh
         /\ TX_ADD(t, locs).aborted = t.aborted
  BY Zenon DEF TxOK, TX_ADD

LEMMA TxAbort ==
  ASSUME NEW t, TxOK(t)
  PROVE  TxOK(TX_ABORT(t)) /\ TX_ABORT(t).aborted
  BY Zenon DEF TxOK, TX_ABORT

LEMMA TxWrite ==
  ASSUME NEW t, TxOK(t), NEW nd \in Nodes, NEW c \in Node,
         nd \in t.fresh \/ Changed(t, nd, c) \subseteq t.added
  PROVE  /\ TxOK(D_RW(t, nd, c))
         /\ D_RW(t, nd, c).added = t.added
         /\ D_RW(t, nd, c).heap = [t.heap EXCEPT ![nd] = c]
         /\ D_RW(t, nd, c).root = t.root
         /\ D_RW(t, nd, c).live = t.live /\ D_RW(t, nd, c).fresh = t.fresh
         /\ D_RW(t, nd, c).aborted = t.aborted
  <1> DEFINE l == IF nd \in t.fresh THEN {} ELSE Changed(t, nd, c) \ t.added
             h == [t.heap EXCEPT ![nd] = c]
  <1>1. l = {} BY Zenon
  <1>2. D_RW(t, nd, c) = [t EXCEPT !.heap = h, !.loose = @ \cup l] BY Zenon DEF D_RW
  <1>3. h \in [Nodes -> Node] BY Zenon DEF TxOK
  <1> HIDE DEF l, h
  <1>4. D_RW(t, nd, c) = [t EXCEPT !.heap = h, !.loose = {}] BY <1>1, <1>2, Zenon DEF TxOK
  <1>5. TxOK([t EXCEPT !.heap = h, !.loose = {}]) BY <1>3, Zenon DEF TxOK
  <1> QED BY <1>4, <1>5, Zenon DEF TxOK, h

LEMMA TxRoot ==
  ASSUME NEW t, TxOK(t), NEW nd \in Ref, RootLoc \in t.added
  PROVE  /\ TxOK(SetRoot(t, nd))
         /\ SetRoot(t, nd).heap = t.heap /\ SetRoot(t, nd).added = t.added
         /\ SetRoot(t, nd).live = t.live /\ SetRoot(t, nd).fresh = t.fresh
         /\ SetRoot(t, nd).aborted = t.aborted
  BY Zenon DEF TxOK, SetRoot

LEMMA TxFree ==
  ASSUME NEW t, TxOK(t), NEW nd
  PROVE  /\ TxOK(TX_FREE(t, nd))
         /\ TX_FREE(t, nd).heap = t.heap /\ TX_FREE(t, nd).added = t.added
         /\ TX_FREE(t, nd).root = t.root
  BY Zenon DEF TxOK, TX_FREE, TX_ABORT

LEMMA TxNew ==
  ASSUME NEW t, TxOK(t), ~t.aborted, ~TX_ZNEW(t).aborted
  PROVE  /\ NextFree(t) \in Nodes
         /\ TxOK(TX_ZNEW(t))
         /\ TX_ZNEW(t).added = t.added /\ TX_ZNEW(t).root = t.root
         /\ TX_ZNEW(t).heap = [t.heap EXCEPT ![NextFree(t)] = ZeroNode]
         /\ NextFree(t) \in TX_ZNEW(t).fresh
  <1>1. ~(Nodes \subseteq t.live) BY Zenon DEF TX_ZNEW, TX_ABORT, TxOK
  <1>2. NextFree(t) \in Nodes BY <1>1, Zenon DEF NextFree
  <1>3. TX_ZNEW(t) = [t EXCEPT !.heap[NextFree(t)] = ZeroNode,
                               !.live = @ \cup {NextFree(t)}, !.fresh = @ \cup {NextFree(t)}]
    BY <1>1, Zenon DEF TX_ZNEW
  <1> DEFINE nd == NextFree(t)
             h == [t.heap EXCEPT ![nd] = ZeroNode]
             l == t.live \cup {nd}
             f == t.fresh \cup {nd}
  <1>4. TX_ZNEW(t) = [t EXCEPT !.heap = h, !.live = l, !.fresh = f] BY <1>3, Zenon
  <1>5. /\ h \in [Nodes -> Node] /\ l \in SUBSET Nodes /\ f \in SUBSET Nodes /\ nd \in f
    BY <1>2, ZeroNodeType, Zenon DEF TxOK
  <1> HIDE DEF nd, h, l, f
  <1>6. TxOK([t EXCEPT !.heap = h, !.live = l, !.fresh = f]) BY <1>5, Zenon DEF TxOK
  <1> QED BY <1>2, <1>4, <1>5, <1>6, Zenon DEF TxOK, nd, h

LEMMA TxNewFull ==
  ASSUME NEW t, TxOK(t), TX_ZNEW(t).aborted, ~t.aborted
  PROVE  TxOK(TX_ZNEW(t))
  BY TxAbort, Zenon DEF TX_ZNEW, TxOK

\* A store after a TX_ADD that covers it.
LEMMA AddWrite ==
  ASSUME NEW t, TxOK(t), NEW nd \in Nodes, NEW c \in Node, NEW locs,
         Changed(t, nd, c) \subseteq t.added \cup locs
  PROVE  LET r == D_RW(TX_ADD(t, locs), nd, c) IN
         /\ TxOK(r)
         /\ r.added = t.added \cup locs
         /\ r.heap = [t.heap EXCEPT ![nd] = c]
         /\ r.root = t.root /\ r.aborted = t.aborted
  <1> DEFINE a == TX_ADD(t, locs)
  <1>1. /\ TxOK(a) /\ a.added = t.added \cup locs /\ a.heap = t.heap
        /\ a.root = t.root /\ a.aborted = t.aborted
    BY TxAdd, Zenon
  <1>2. Changed(a, nd, c) = Changed(t, nd, c) BY <1>1, Zenon DEF Changed
  <1> HIDE DEF a
  <1>3. Changed(a, nd, c) \subseteq a.added BY <1>1, <1>2, Zenon
  <1>4. /\ TxOK(D_RW(a, nd, c)) /\ D_RW(a, nd, c).added = a.added
        /\ D_RW(a, nd, c).heap = [a.heap EXCEPT ![nd] = c]
        /\ D_RW(a, nd, c).root = a.root /\ D_RW(a, nd, c).aborted = a.aborted
    BY <1>1, <1>3, TxWrite
  <1> QED BY <1>1, <1>4, Zenon DEF a

\* The whole node is added.
LEMMA AddWholeWrite ==
  ASSUME NEW t, TxOK(t), NEW nd \in Nodes, NEW c \in Node
  PROVE  LET r == D_RW(TX_ADD(t, Whole(nd)), nd, c) IN
         /\ TxOK(r)
         /\ r.added = t.added \cup Whole(nd)
         /\ r.heap = [t.heap EXCEPT ![nd] = c]
         /\ r.root = t.root /\ r.aborted = t.aborted
  <1>1. Changed(t, nd, c) \subseteq t.added \cup Whole(nd) BY ChangedWhole, Zenon
  <1> QED BY <1>1, AddWrite

\* What single stores change.
LEMMA ChangedItem ==
  ASSUME NEW t, TxOK(t), NEW nd \in Nodes, NEW p, NEW v
  PROVE  Changed(t, nd, [t.heap[nd] EXCEPT !.items[p] = v]) \subseteq Fields(nd, {p}, {})
  <1>1. t.heap[nd] \in Node BY Zenon DEF TxOK
  <1> DEFINE o == t.heap[nd]
             c == [o EXCEPT !.items[p] = v]
  <1>2. c.n = o.n /\ c.slots = o.slots /\ \A i \in ItemIdx : i # p => c.items[i] = o.items[i]
    BY <1>1, Zenon DEF Node
  <1> HIDE DEF c
  <1> QED BY <1>2, Zenon DEF Changed, Fields, c

LEMMA ChangedCount ==
  ASSUME NEW t, TxOK(t), NEW nd \in Nodes, NEW v
  PROVE  Changed(t, nd, [t.heap[nd] EXCEPT !.n = v]) \subseteq {<<nd, "n", 0>>}
  <1>1. t.heap[nd] \in Node BY Zenon DEF TxOK
  <1> DEFINE o == t.heap[nd]
             c == [o EXCEPT !.n = v]
  <1>2. c.items = o.items /\ c.slots = o.slots
    BY <1>1, Zenon DEF Node
  <1> HIDE DEF c
  <1> QED BY <1>2, Zenon DEF Changed, Fields, c

-----------------------------------------------------------------------------
(* Insertion                                                               *)

LEMMA InsertAt ==
  ASSUME NEW c \in Node, c.n < ORDER - 1, NEW pos, NEW k \in Nat
  PROVE  /\ insert_item_at(c, pos, k) \in Node
         /\ insert_item_at(c, pos, k).n = c.n + 1
  <1> DEFINE m == [c.items EXCEPT ![pos] = k]
             d == [n |-> c.n + 1, items |-> m, slots |-> c.slots]
  <1>1. m \in [ItemIdx -> Nat] BY Zenon DEF Node
  <1>2. c.n + 1 \in {i \in Int : i < ORDER} BY Half DEF Node
  <1>3. insert_item_at(c, pos, k) = [c EXCEPT !.items = m, !.n = c.n + 1]
    BY Zenon DEF insert_item_at, Node
  <1> HIDE DEF m
  <1>4. insert_item_at(c, pos, k) = d BY <1>3, Zenon DEF Node
  <1>5. d \in Node BY <1>1, <1>2, Zenon DEF Node
  <1> QED BY <1>4, <1>5

LEMMA InsertItem ==
  ASSUME NEW t, TxOK(t), NEW nd \in Nodes, t.heap[nd].n < ORDER - 1, NEW p, NEW k \in Nat
  PROVE  LET r == insert_item(t, nd, p, k) IN
         /\ TxOK(r) /\ r.aborted = t.aborted
         /\ Whole(nd) \subseteq r.added
         /\ r.heap[nd].n = t.heap[nd].n + 1
         /\ \A x \in Nodes \ {nd} : r.heap[x] = t.heap[x]
  <1> DEFINE c == t.heap[nd]
             s == IF c.items[p] # 0
                  THEN [c EXCEPT !.items = Move(@, p + 1, p, ORDER - 2 - p)] ELSE c
             d == insert_item_at(s, p, k)
             r == D_RW(TX_ADD(t, Whole(nd)), nd, d)
  <1>1. TX_ADD(t, Whole(nd)).heap = t.heap BY TxAdd, Zenon
  <1>2. insert_item(t, nd, p, k) = r BY <1>1, Zenon DEF insert_item
  <1>3. c \in Node BY Zenon DEF TxOK
  <1>4. s \in Node /\ s.n = c.n BY <1>3, MoveType, Zenon DEF Node
  <1> HIDE DEF s
  <1>5. d \in Node /\ d.n = c.n + 1 BY <1>4, InsertAt, Zenon
  <1> HIDE DEF d
  <1>6. /\ TxOK(r) /\ r.added = t.added \cup Whole(nd)
        /\ r.heap = [t.heap EXCEPT ![nd] = d] /\ r.aborted = t.aborted
    BY <1>5, AddWholeWrite
  <1> HIDE DEF r
  <1>7. t.heap \in [Nodes -> Node] BY Zenon DEF TxOK
  <1> QED BY <1>2, <1>5, <1>6, <1>7, Zenon

LEMMA InsertNode ==
  ASSUME NEW t, TxOK(t), NEW nd \in Nodes, t.heap[nd].n < ORDER - 1, NEW p, NEW k \in Nat,
         NEW left \in Ref, NEW right \in Ref
  PROVE  LET r == insert_node(t, nd, p, k, left, right) IN
         /\ TxOK(r) /\ r.aborted = t.aborted
         /\ r.heap[nd].n = t.heap[nd].n + 1
         /\ \A x \in Nodes \ {nd} : r.heap[x] = t.heap[x]
  <1> DEFINE c == t.heap[nd]
             s == IF c.items[p] # 0
                  THEN [c EXCEPT !.items = Move(@, p + 1, p, ORDER - 2 - p),
                                 !.slots = Move(@, p + 1, p, ORDER - 1 - p)] ELSE c
             e == [s EXCEPT !.slots[p] = left, !.slots[p + 1] = right]
             d == insert_item_at(e, p, k)
             r == D_RW(TX_ADD(t, Whole(nd)), nd, d)
  <1>1. TX_ADD(t, Whole(nd)).heap = t.heap BY TxAdd, Zenon
  <1>2. insert_node(t, nd, p, k, left, right) = r BY <1>1, Zenon DEF insert_node
  <1>3. c \in Node BY Zenon DEF TxOK
  <1>4. s \in Node /\ s.n = c.n BY <1>3, MoveType, Zenon DEF Node
  <1> HIDE DEF s
  <1>5. e \in Node /\ e.n = c.n BY <1>4, Zenon DEF Node
  <1> HIDE DEF e
  <1>6. d \in Node /\ d.n = c.n + 1 BY <1>5, InsertAt, Zenon
  <1> HIDE DEF d
  <1>7. /\ TxOK(r) /\ r.heap = [t.heap EXCEPT ![nd] = d] /\ r.aborted = t.aborted
    BY <1>6, AddWholeWrite
  <1> HIDE DEF r
  <1>8. t.heap \in [Nodes -> Node] BY Zenon DEF TxOK
  <1> QED BY <1>2, <1>6, <1>7, <1>8, Zenon

LEMMA FreeSame ==
  ASSUME NEW t, NEW a, a.live = t.live
  PROVE  NextFree(a) = NextFree(t)
  <1>1. CASE Nodes \subseteq t.live
    <2>1. Nodes \subseteq a.live BY <1>1, Zenon
    <2> QED BY <1>1, <2>1, Zenon DEF NextFree
  <1>2. CASE ~(Nodes \subseteq t.live)
    <2>1. ~(Nodes \subseteq a.live) BY <1>2, Zenon
    <2>2. NextFree(t) = CHOOSE nd \in Nodes : nd \notin t.live BY <1>2, Zenon DEF NextFree
    <2>3. NextFree(a) = CHOOSE nd \in Nodes : nd \notin a.live BY <2>1, Zenon DEF NextFree
    <2> QED BY <2>2, <2>3, Zenon
  <1> QED BY <1>1, <1>2, Zenon

LEMMA InsertEmpty ==
  ASSUME NEW t, TxOK(t), ~t.aborted, NEW k \in Nat
  PROVE  TxOK(insert_empty(t, k))
  <1> DEFINE a  == TX_ADD(t, {RootLoc})
             z  == TX_ZNEW(a)
             nd == NextFree(t)
             c  == insert_item_at(ZeroNode, 0, k)
  <1>1. TxOK(a) /\ ~a.aborted /\ RootLoc \in a.added /\ a.live = t.live BY TxAdd
  <1>2. NextFree(a) = nd BY <1>1, FreeSame, Zenon
  <1>3. c \in Node BY ZeroNodeType, InsertAt, Half DEF ZeroNode
  <1> HIDE DEF a, c
  <1>4. CASE z.aborted
    <2>1. insert_empty(t, k) = z BY <1>4, Zenon DEF insert_empty, a
    <2> QED BY <1>1, <1>4, <2>1, TxNewFull, Zenon
  <1>5. CASE ~z.aborted
    <2>1. insert_empty(t, k) = D_RW(SetRoot(z, nd), nd, c) BY <1>5, Zenon DEF insert_empty, a, c
    <2>2. TxOK(z) /\ RootLoc \in z.added /\ nd \in Nodes /\ nd \in z.fresh
      BY <1>1, <1>2, <1>5, TxNew, ZenonT(30)
    <2> DEFINE w == SetRoot(z, nd)
    <2> HIDE DEF z, nd
    <2>3. TxOK(w) /\ nd \in w.fresh BY <2>2, TxRoot, Zenon DEF Ref
    <2>4. insert_empty(t, k) = D_RW(w, nd, c) BY <2>1, Zenon
    <2> HIDE DEF w
    <2>5. TxOK(D_RW(w, nd, c)) BY <1>3, <2>2, <2>3, TxWrite, ZenonT(30)
    <2> QED BY <2>4, <2>5, Zenon
  <1> QED BY <1>4, <1>5, Zenon

LEMMA Split ==
  ASSUME NEW t, TxOK(t), ~t.aborted, NEW nd \in Nodes
  PROVE  LET s == create_split_node(t, nd) IN
         /\ TxOK(s.t) /\ s.m \in Nat
         /\ ~s.t.aborted =>
              /\ s.right \in Nodes
              /\ s.t.heap[nd].n < ORDER - 2 /\ s.t.heap[s.right].n < ORDER - 2
              /\ \A x \in Nodes \ {nd, s.right} : s.t.heap[x] = t.heap[x]
  <1> DEFINE c     == ORDER \div 2
             right == NextFree(t)
             old   == t.heap[nd]
             z     == TX_ZNEW(t)
             r     == [n     |-> ORDER - 1 - c,
                       items |-> [i \in ItemIdx |-> IF i + c \in ItemIdx THEN old.items[i + c] ELSE 0],
                       slots |-> [i \in SlotIdx |-> IF i + c \in SlotIdx THEN old.slots[i + c] ELSE NULL]]
             l     == [n     |-> c - 1,
                       items |-> [i \in ItemIdx |-> IF i < c - 1 THEN old.items[i] ELSE 0],
                       slots |-> [i \in SlotIdx |-> IF i < c THEN old.slots[i] ELSE NULL]]
             a     == TX_ADD(z, Whole(nd))
             w     == D_RW(a, right, r)
             u     == D_RW(w, nd, l)
             v     == IF z.aborted THEN z ELSE u
  <1>1. create_split_node(t, nd) = [t |-> v, right |-> right, m |-> old.items[c - 1]]
    BY Zenon DEF create_split_node
  <1>2. old \in Node /\ t.heap \in [Nodes -> Node] BY Zenon DEF TxOK
  <1>3. c \in Nat /\ 2 * c = ORDER /\ c >= 2 /\ c - 1 \in ItemIdx BY Half DEF ItemIdx
  <1>4. old.items[c - 1] \in Nat BY <1>2, <1>3, Zenon DEF Node
  <1>5. r \in Node /\ r.n = c - 1
    <2>1. [i \in ItemIdx |-> IF i + c \in ItemIdx THEN old.items[i + c] ELSE 0] \in [ItemIdx -> Nat]
      BY <1>2, Zenon DEF Node
    <2>2. [i \in SlotIdx |-> IF i + c \in SlotIdx THEN old.slots[i + c] ELSE NULL] \in [SlotIdx -> Ref]
      BY <1>2, Zenon DEF Node, Ref
    <2>3. ORDER - 1 - c \in {i \in Int : i < ORDER} /\ ORDER - 1 - c = c - 1 BY <1>3
    <2> HIDE DEF c
    <2> QED BY <2>1, <2>2, <2>3, Zenon DEF Node
  <1>6. l \in Node /\ l.n = c - 1
    <2>1. [i \in ItemIdx |-> IF i < c - 1 THEN old.items[i] ELSE 0] \in [ItemIdx -> Nat]
      BY <1>2, Zenon DEF Node
    <2>2. [i \in SlotIdx |-> IF i < c THEN old.slots[i] ELSE NULL] \in [SlotIdx -> Ref]
      BY <1>2, Zenon DEF Node, Ref
    <2>3. c - 1 \in {i \in Int : i < ORDER} BY <1>3
    <2> HIDE DEF c
    <2> QED BY <2>1, <2>2, <2>3, Zenon DEF Node
  <1> HIDE DEF c, r, l, old
  <1>7. CASE z.aborted
    <2>1. v = z /\ TxOK(z) BY <1>7, TxNewFull, Zenon
    <2> HIDE DEF v, z, right
    <2> QED BY <1>1, <1>4, <1>7, <2>1
  <1>8. CASE ~z.aborted
    <2>1. /\ right \in Nodes /\ TxOK(z) /\ right \in z.fresh
          /\ z.heap = [t.heap EXCEPT ![right] = ZeroNode]
      BY <1>8, TxNew, Zenon
    <2>2. v = u BY <1>8, Zenon
    <2> HIDE DEF z, v, right
    <2>3. TxOK(a) /\ right \in a.fresh /\ Whole(nd) \subseteq a.added /\ a.heap = z.heap
          /\ a.aborted = z.aborted
      BY <2>1, TxAdd
    <2> HIDE DEF a
    <2>4. /\ TxOK(w) /\ w.heap = [a.heap EXCEPT ![right] = r] /\ w.added = a.added
          /\ w.aborted = a.aborted
      BY <1>5, <2>1, <2>3, TxWrite
    <2> HIDE DEF w
    <2>5. Changed(w, nd, l) \subseteq w.added BY <2>3, <2>4, ChangedWhole, Zenon
    <2>6. TxOK(u) /\ u.heap = [w.heap EXCEPT ![nd] = l] /\ u.aborted = w.aborted
      BY <1>6, <2>4, <2>5, TxWrite
    <2> HIDE DEF u
    <2>7. u.heap = [[[t.heap EXCEPT ![right] = ZeroNode] EXCEPT ![right] = r] EXCEPT ![nd] = l]
      BY <2>1, <2>3, <2>4, <2>6
    <2>8. /\ u.heap[nd].n = c - 1 /\ u.heap[right].n = c - 1
          /\ \A x \in Nodes \ {nd, right} : u.heap[x] = t.heap[x]
      BY <1>2, <1>5, <1>6, <2>1, <2>7, Zenon
    <2>9. c - 1 < ORDER - 2 BY <1>3
    <2> DEFINE s == create_split_node(t, nd)
    <2>10. s.t = u /\ s.right = right /\ s.m = old.items[c - 1] BY <1>1, <2>2
    <2> HIDE DEF s
    <2>11. TxOK(s.t) /\ s.m \in Nat BY <1>4, <2>6, <2>10, Zenon
    <2>12. /\ s.right \in Nodes /\ s.t.heap[nd].n < ORDER - 2 /\ s.t.heap[s.right].n < ORDER - 2
           /\ \A x \in Nodes \ {nd, s.right} : s.t.heap[x] = t.heap[x]
      BY <2>1, <2>8, <2>9, <2>10, Zenon
    <2> QED BY <2>11, <2>12, Zenon DEF s
  <1> QED BY <1>7, <1>8, Zenon

LEMMA GrowRoot ==
  ASSUME NEW s, TxOK(s.t), ~s.t.aborted, s.m \in Nat, s.right \in Nodes, NEW nd \in Nodes
  PROVE  LET g == grow_root(s, nd) IN
         /\ TxOK(g.t)
         /\ ~g.t.aborted => g.nd \in Nodes /\ g.t.heap[g.nd].n < ORDER - 1
  <1> DEFINE up == NextFree(s.t)
             z  == TX_ZNEW(s.t)
             c  == [n |-> 1, items |-> [ZeroNode.items EXCEPT ![0] = s.m],
                    slots |-> [ZeroNode.slots EXCEPT ![0] = nd, ![1] = s.right]]
             w  == D_RW(z, up, c)
             a  == TX_ADD(w, {RootLoc})
             u  == SetRoot(a, up)
             v  == IF z.aborted THEN z ELSE u
             g  == grow_root(s, nd)
  <1>1. g = [t |-> v, nd |-> up] BY Zenon DEF grow_root
  <1>2. g.t = v /\ g.nd = up BY <1>1
  <1>3. c \in Node /\ c.n = 1
    <2> DEFINE i0 == [ZeroNode.items EXCEPT ![0] = s.m]
               s0 == [ZeroNode.slots EXCEPT ![0] = nd, ![1] = s.right]
    <2>1. ZeroNode.items \in [ItemIdx -> Nat] /\ ZeroNode.slots \in [SlotIdx -> Ref]
      BY ZeroNodeType, Zenon DEF Node
    <2>2. i0 \in [ItemIdx -> Nat] BY <2>1, Zenon
    <2>3. s0 \in [SlotIdx -> Ref] BY <2>1, Zenon DEF Ref
    <2>4. 1 \in {i \in Int : i < ORDER} BY Half
    <2>5. c = [n |-> 1, items |-> i0, slots |-> s0] BY Zenon
    <2> HIDE DEF i0, s0, c
    <2> QED BY <2>2, <2>3, <2>4, <2>5, Zenon DEF Node
  <1> HIDE DEF c, g
  <1>4. CASE z.aborted
    <2>1. v = z /\ TxOK(z) BY <1>4, TxNewFull, Zenon
    <2> HIDE DEF v, z
    <2> QED BY <1>2, <1>4, <2>1, Zenon DEF g
  <1>5. CASE ~z.aborted
    <2>1. up \in Nodes /\ TxOK(z) /\ up \in z.fresh BY <1>5, TxNew, ZenonT(30)
    <2>2. v = u BY <1>5, Zenon
    <2> HIDE DEF z, v, up
    <2>3. TxOK(w) /\ w.heap = [z.heap EXCEPT ![up] = c] BY <1>3, <2>1, TxWrite
    <2>4. z.heap \in [Nodes -> Node] BY <2>1, Zenon DEF TxOK
    <2> HIDE DEF w
    <2>5. TxOK(a) /\ a.heap = w.heap /\ RootLoc \in a.added BY <2>3, TxAdd
    <2> HIDE DEF a
    <2>6. TxOK(u) /\ u.heap = a.heap BY <2>1, <2>5, TxRoot, Zenon DEF Ref
    <2> HIDE DEF u
    <2>7. u.heap[up].n = 1 BY <1>3, <2>1, <2>3, <2>4, <2>5, <2>6, Zenon
    <2>8. u.heap[up].n < ORDER - 1 BY <2>7, Half
    <2> QED BY <1>2, <2>1, <2>2, <2>6, <2>8, Zenon DEF g
  <1> QED BY <1>4, <1>5, Zenon

\* find_dest_node goes on in a node with room for one more item, also when the
\* node just allocated for the right half takes the number of the parent.
LEMMA SplitIfFull ==
  ASSUME NEW t, TxOK(t), ~t.aborted, NEW f, f.nd \in Nodes, f.parent \in Ref,
         f.parent # NULL => t.heap[f.parent].n < ORDER - 1, NEW k
  PROVE  LET h == split_if_full(t, f, k) IN
         /\ TxOK(h.t)
         /\ ~h.t.aborted => h.nd \in Nodes /\ h.t.heap[h.nd].n < ORDER - 1
  <1> DEFINE s  == create_split_node(t, f.nd)
             h  == split_if_full(t, f, k)
             w  == insert_node(s.t, f.parent, f.p, s.m, f.nd, s.right)
             to == IF k > s.m THEN s.right ELSE f.nd
  <1>1. /\ TxOK(s.t) /\ s.m \in Nat
        /\ ~s.t.aborted =>
             /\ s.right \in Nodes
             /\ s.t.heap[f.nd].n < ORDER - 2 /\ s.t.heap[s.right].n < ORDER - 2
             /\ \A x \in Nodes \ {f.nd, s.right} : s.t.heap[x] = t.heap[x]
    BY Split, Zenon
  <1>2. t.heap[f.nd].n \in Int /\ t.heap[f.nd].n < ORDER BY Zenon DEF TxOK, Node
  <1>3. CASE t.heap[f.nd].n # ORDER - 1
    <2>1. h.t = t /\ h.nd = f.nd BY <1>3, Zenon DEF split_if_full
    <2>2. t.heap[f.nd].n < ORDER - 1 BY <1>2, <1>3, Half
    <2> HIDE DEF h
    <2> QED BY <2>1, <2>2, Zenon DEF h
  <1>4. CASE t.heap[f.nd].n = ORDER - 1 /\ s.t.aborted
    <2>1. h.t = s.t BY <1>4, Zenon DEF split_if_full
    <2> HIDE DEF h, s
    <2> QED BY <1>1, <1>4, <2>1, Zenon DEF h
  <1>5. CASE t.heap[f.nd].n = ORDER - 1 /\ ~s.t.aborted /\ f.parent = NULL
    <2>1. h = grow_root(s, f.nd) BY <1>5, Zenon DEF split_if_full
    <2> HIDE DEF h, s
    <2> QED BY <1>1, <1>5, <2>1, GrowRoot, Zenon DEF h
  <1>6. CASE t.heap[f.nd].n = ORDER - 1 /\ ~s.t.aborted /\ f.parent # NULL
    <2>1. h = [t |-> w, nd |-> to] BY <1>6, Zenon DEF split_if_full
    <2>2. h.t = w /\ h.nd = to BY <2>1
    <2> HIDE DEF h, s
    <2>3. f.parent \in Nodes /\ f.parent # f.nd /\ t.heap[f.parent].n < ORDER - 1
          /\ t.heap[f.parent].n \in Int
      <3>1. f.parent \in Nodes /\ t.heap[f.parent].n < ORDER - 1 BY <1>6, Zenon DEF Ref
      <3>2. t.heap[f.parent].n \in Int BY <3>1, Zenon DEF TxOK, Node
      <3> QED BY <1>6, <3>1, <3>2, Half
    <2>4. s.t.heap[f.parent].n < ORDER - 1
      <3>1. CASE f.parent = s.right
        <4>1. s.t.heap[s.right].n \in Int BY <1>1, <1>6, Zenon DEF TxOK, Node
        <4> QED BY <1>1, <1>6, <3>1, <4>1, Half
      <3>2. CASE f.parent # s.right BY <1>1, <1>6, <2>3, <3>2, Zenon
      <3> QED BY <3>1, <3>2, Zenon
    <2>5. /\ TxOK(w) /\ w.heap[f.parent].n = s.t.heap[f.parent].n + 1
          /\ \A x \in Nodes \ {f.parent} : w.heap[x] = s.t.heap[x]
      <3>1. TxOK(s.t) /\ s.m \in Nat /\ f.nd \in Ref /\ s.right \in Ref
        BY <1>1, <1>6, Zenon DEF Ref
      <3> DEFINE b     == s.t
                 par   == f.parent
                 pos   == f.p
                 m     == s.m
                 left  == f.nd
                 right == s.right
      <3>2. /\ TxOK(b) /\ par \in Nodes /\ b.heap[par].n < ORDER - 1
            /\ m \in Nat /\ left \in Ref /\ right \in Ref
        BY <2>3, <2>4, <3>1, Zenon
      <3> HIDE DEF b, par, pos, m, left, right
      <3> DEFINE r == insert_node(b, par, pos, m, left, right)
      <3>3. /\ TxOK(r) /\ r.aborted = b.aborted
            /\ r.heap[par].n = b.heap[par].n + 1
            /\ \A x \in Nodes \ {par} : r.heap[x] = b.heap[x]
        BY <3>2, InsertNode
      <3> QED BY <3>3, Zenon DEF b, par, pos, m, left, right
    <2>6. to \in Nodes /\ s.t.heap[to].n < ORDER - 2 BY <1>1, <1>6, Zenon
    <2>7. s.t.heap[to].n \in Int BY <1>1, <2>6, Zenon DEF TxOK, Node
    <2> HIDE DEF w, to
    <2>8. w.heap[to].n < ORDER - 1
      <3>1. w.heap[to].n = s.t.heap[to].n \/ w.heap[to].n = s.t.heap[to].n + 1
        BY <2>5, <2>6, Zenon
      <3> QED BY <2>6, <2>7, <3>1, Half
    <2> QED BY <2>2, <2>5, <2>6, <2>8, Zenon DEF h
  <1> QED BY <1>3, <1>4, <1>5, <1>6, Zenon

LEMMA FitIdxIn ==
  ASSUME NEW c \in Node, NEW k \in Nat
  PROVE  FitIdx(c, k) \in SlotIdx /\ (FitIdx(c, k) = ORDER - 1 => \A j \in Fits(c, k) : j = ORDER - 1)
  <1>1. Fits(c, k) \subseteq Nat /\ ORDER - 1 \in Fits(c, k) BY Half DEF Fits, SlotIdx
  <1>2. FitIdx(c, k) \in Fits(c, k) /\ \A j \in Fits(c, k) : FitIdx(c, k) <= j
    BY <1>1, Least, Zenon DEF FitIdx
  <1> QED BY <1>1, <1>2, Half DEF Fits, SlotIdx

-----------------------------------------------------------------------------
(* Removal                                                                 *)

LEMMA CopyType ==
  ASSUME NEW m \in Int, NEW S, NEW a \in [0..m -> S], NEW b \in [0..m -> S],
         NEW to \in Int, NEW cnt \in Int, cnt <= m + 1
  PROVE  Copy(a, to, b, cnt) \in [0..m -> S]
  <1>1. ASSUME NEW i \in 0..m, i >= to, i < to + cnt PROVE b[i - to] \in S
    <2>1. i - to \in 0..m BY <1>1
    <2> QED BY <2>1, Zenon
  <1> QED BY <1>1, Zenon DEF Copy

\* The three stores that add single fields of a node.
LEMMA StoreItem ==
  ASSUME NEW t, TxOK(t), NEW nd \in Nodes, NEW p, NEW v \in Nat
  PROVE  LET r == D_RW(TX_ADD(t, Fields(nd, {p}, {})), nd, [t.heap[nd] EXCEPT !.items[p] = v]) IN
         TxOK(r) /\ t.added \subseteq r.added
  <1> DEFINE d == [t.heap[nd] EXCEPT !.items[p] = v]
             locs == Fields(nd, {p}, {})
  <1>1. t.heap[nd] \in Node BY Zenon DEF TxOK
  <1>2. d \in Node BY <1>1, Zenon DEF Node
  <1>3. Changed(t, nd, d) \subseteq locs BY ChangedItem, Zenon
  <1> HIDE DEF d, locs
  <1> DEFINE r == D_RW(TX_ADD(t, locs), nd, d)
  <1>4. TxOK(r) BY <1>2, <1>3, AddWrite, Zenon
  <1>5. r.added = t.added \cup locs BY Zenon DEF D_RW, TX_ADD, TxOK
  <1> QED BY <1>4, <1>5, Zenon DEF d, locs

LEMMA StoreSlot ==
  ASSUME NEW t, TxOK(t), NEW nd \in Nodes, Whole(nd) \subseteq t.added, NEW e, NEW v \in Ref, NEW locs
  PROVE  TxOK(D_RW(TX_ADD(t, locs), nd, [t.heap[nd] EXCEPT !.slots[e] = v]))
  <1> DEFINE d == [t.heap[nd] EXCEPT !.slots[e] = v]
  <1>1. t.heap[nd] \in Node BY Zenon DEF TxOK
  <1>2. d \in Node BY <1>1, Zenon DEF Node
  <1> HIDE DEF d
  <1>3. Changed(t, nd, d) \subseteq t.added BY ChangedWhole, Zenon
  <1>4. TxOK(D_RW(TX_ADD(t, locs), nd, d)) BY <1>2, <1>3, AddWrite, Zenon
  <1> QED BY <1>4, Zenon DEF d

LEMMA StoreSlots ==
  ASSUME NEW t, TxOK(t), NEW nd \in Nodes, Whole(nd) \subseteq t.added, NEW m \in [SlotIdx -> Ref]
  PROVE  TxOK(D_RW(t, nd, [t.heap[nd] EXCEPT !.slots = m]))
  <1> DEFINE d == [t.heap[nd] EXCEPT !.slots = m]
  <1>1. t.heap[nd] \in Node BY Zenon DEF TxOK
  <1>2. d \in Node BY <1>1, Zenon DEF Node
  <1> HIDE DEF d
  <1>3. Changed(t, nd, d) \subseteq t.added BY ChangedWhole, Zenon
  <1>4. TxOK(D_RW(t, nd, d)) BY <1>2, <1>3, TxWrite, Zenon
  <1> QED BY <1>4, Zenon DEF d

LEMMA StoreCount ==
  ASSUME NEW t, TxOK(t), NEW nd \in Nodes
  PROVE  TxOK(D_RW(TX_ADD(t, {<<nd, "n", 0>>}), nd, [t.heap[nd] EXCEPT !.n = @ - 1]))
  <1> DEFINE v == t.heap[nd].n - 1
             d == [t.heap[nd] EXCEPT !.n = v]
             locs == {<<nd, "n", 0>>}
  <1>1. t.heap[nd] \in Node BY Zenon DEF TxOK
  <1>2. v \in {i \in Int : i < ORDER} BY <1>1, Half DEF Node
  <1>3. d \in Node
    <2> HIDE DEF v
    <2> QED BY <1>1, <1>2, Zenon DEF Node
  <1>4. Changed(t, nd, d) \subseteq locs BY ChangedCount, Zenon
  <1> HIDE DEF d, locs
  <1>5. TxOK(D_RW(TX_ADD(t, locs), nd, d)) BY <1>3, <1>4, AddWrite, Zenon
  <1> QED BY <1>5, Zenon DEF d, locs

LEMMA RotateRight ==
  ASSUME NEW t, TxOK(t), NEW rsb \in Nodes, NEW nd \in Nodes, NEW parent \in Nodes,
         NEW p \in ItemIdx, t.heap[nd].n < MINKEYS
  PROVE  TxOK(rotate_right(t, rsb, nd, parent, p))
  <1> DEFINE i1 == insert_item(t, nd, t.heap[nd].n, t.heap[parent].items[p])
             r  == i1.heap[rsb]
             v  == r.items[0]
             x  == r.slots[0]
             i2 == D_RW(TX_ADD(i1, Fields(parent, {p}, {})), parent,
                        [i1.heap[parent] EXCEPT !.items[p] = v])
             e  == i2.heap[nd].n
             i3 == D_RW(TX_ADD(i2, Fields(nd, {}, {e})), nd, [i2.heap[nd] EXCEPT !.slots[e] = x])
             d4 == [n |-> r.n - 1, items |-> Move(r.items, 0, 1, r.n - 1),
                    slots |-> Move(r.slots, 0, 1, r.n)]
             i4 == D_RW(TX_ADD(i3, Whole(rsb)), rsb, d4)
  <1>1. rotate_right(t, rsb, nd, parent, p) = i4 BY Zenon DEF rotate_right
  <1>2. t.heap[nd].n < ORDER - 1 /\ t.heap[parent].items[p] \in Nat
    BY Half DEF TxOK, Node
  <1>3. TxOK(i1) /\ Whole(nd) \subseteq i1.added BY <1>2, InsertItem, Zenon
  <1> HIDE DEF i1
  <1>4. r \in Node BY <1>3, Zenon DEF TxOK
  <1>5. v \in Nat /\ x \in Ref
    <2>1. 0 \in ItemIdx /\ 0 \in SlotIdx BY Half DEF ItemIdx, SlotIdx
    <2> QED BY <1>4, <2>1, Zenon DEF Node
  <1>6. d4 \in Node
    <2>1. Move(r.items, 0, 1, r.n - 1) \in [ItemIdx -> Nat] BY <1>4, MoveType, Zenon DEF Node
    <2>2. Move(r.slots, 0, 1, r.n) \in [SlotIdx -> Ref] BY <1>4, MoveType, Zenon DEF Node
    <2>3. r.n \in Int /\ r.n < ORDER BY <1>4, NodeCount, Zenon
    <2> HIDE DEF r
    <2>4. r.n - 1 \in {i \in Int : i < ORDER} BY <2>3, Half
    <2> QED BY <2>1, <2>2, <2>4, Zenon DEF Node
  <1> HIDE DEF r, v, x, d4
  <1>7. TxOK(i2) /\ Whole(nd) \subseteq i2.added BY <1>3, <1>5, StoreItem, Zenon
  <1> HIDE DEF i2, e
  <1>8. TxOK(i3) BY <1>5, <1>7, StoreSlot, Zenon
  <1> HIDE DEF i3
  <1>9. TxOK(i4) BY <1>6, <1>8, AddWholeWrite, Zenon
  <1> QED BY <1>1, <1>9, Zenon

LEMMA RotateLeft ==
  ASSUME NEW t, TxOK(t), NEW lsb \in Nodes, NEW nd \in Nodes, NEW parent \in Nodes,
         NEW p, p - 1 \in ItemIdx, t.heap[nd].n < MINKEYS, t.heap[lsb].n > MINKEYS
  PROVE  TxOK(rotate_left(t, lsb, nd, parent, p))
  <1> DEFINE i1 == insert_item(t, nd, 0, t.heap[parent].items[p - 1])
             l  == i1.heap[lsb]
             v  == l.items[l.n - 1]
             x  == l.slots[l.n]
             i2 == D_RW(TX_ADD(i1, Fields(parent, {p - 1}, {})), parent,
                        [i1.heap[parent] EXCEPT !.items[p - 1] = v])
             c  == i2.heap[nd]
             m  == [Move(c.slots, 1, 0, c.n) EXCEPT ![0] = x]
             i3 == D_RW(i2, nd, [i2.heap[nd] EXCEPT !.slots = m])
             i4 == D_RW(TX_ADD(i3, {<<lsb, "n", 0>>}), lsb, [i3.heap[lsb] EXCEPT !.n = @ - 1])
  <1>1. rotate_left(t, lsb, nd, parent, p) = i4 BY Zenon DEF rotate_left
  <1>2. t.heap[nd].n < ORDER - 1 /\ t.heap[parent].items[p - 1] \in Nat /\ lsb # nd
    BY Half DEF TxOK, Node
  <1>3. TxOK(i1) /\ Whole(nd) \subseteq i1.added /\ i1.heap[lsb] = t.heap[lsb]
    BY ONLY <1>2, TxOK(t), nd \in Nodes, lsb \in Nodes, InsertItem
  <1> HIDE DEF i1
  <1>4. l \in Node /\ l.n > MINKEYS BY <1>3, Zenon DEF TxOK
  <1>5. v \in Nat /\ x \in Ref
    <2> HIDE DEF l
    <2>0. l.n \in Int /\ l.n < ORDER BY <1>4, NodeCount, Zenon
    <2>1. l.n - 1 \in ItemIdx /\ l.n \in SlotIdx BY <1>4, <2>0, Half DEF ItemIdx, SlotIdx
    <2> QED BY <1>4, <2>1, Zenon DEF Node
  <1> HIDE DEF l, v, x
  <1>6. TxOK(i2) /\ Whole(nd) \subseteq i2.added BY <1>3, <1>5, StoreItem, Zenon
  <1> HIDE DEF i2
  <1>7. m \in [SlotIdx -> Ref]
    <2>1. c \in Node BY <1>6, Zenon DEF TxOK
    <2>2. Move(c.slots, 1, 0, c.n) \in [SlotIdx -> Ref] BY <2>1, MoveType, Zenon DEF Node
    <2> QED BY <1>5, <2>2, Zenon
  <1> HIDE DEF m
  <1>8. TxOK(i3) BY <1>6, <1>7, StoreSlots, Zenon
  <1> HIDE DEF i3
  <1>9. TxOK(i4) BY <1>8, StoreCount, Zenon
  <1> QED BY <1>1, <1>9, Zenon

LEMMA Merge ==
  ASSUME NEW t, TxOK(t), NEW rn \in Nodes, NEW nd \in Ref, NEW parent \in Nodes, NEW p,
         nd # NULL => p \in ItemIdx /\ t.heap[nd].n + 1 + t.heap[rn].n < ORDER
  PROVE  TxOK(merge(t, rn, nd, parent, p))
  <1>1. CASE nd = NULL
    <2>1. merge(t, rn, nd, parent, p) = TX_ABORT(t) BY <1>1, Zenon DEF merge
    <2> QED BY <2>1, TxAbort, Zenon
  <1>2. CASE nd # NULL
    <2> DEFINE c  == t.heap[nd]
               r  == t.heap[rn]
               k  == t.heap[parent].items[p]
               is == Copy([c.items EXCEPT ![c.n] = k], c.n + 1, r.items, r.n)
               ss == Copy(c.slots, c.n + 1, r.slots, r.n + 1)
               c2 == [n |-> c.n + 1 + r.n, items |-> is, slots |-> ss]
               w  == D_RW(TX_ADD(t, Whole(nd)), nd, c2)
               i1 == TX_FREE(w, rn)
               q  == i1.heap[parent]
               d  == [n     |-> q.n - 1,
                      items |-> Move(q.items, p, p + 1, q.n - 1 - p),
                      slots |-> Move(q.slots, p + 1, p + 2, q.n - p)]
               i2 == D_RW(TX_ADD(i1, Whole(parent)), parent, d)
               a  == TX_ADD(i2, {RootLoc})
               f  == TX_FREE(a, parent)
    <2>1. merge(t, rn, nd, parent, p) = IF q.n = 1 /\ parent = i2.root THEN SetRoot(f, nd) ELSE i2
      BY <1>2, Zenon DEF merge
    <2>2. nd \in Nodes /\ p \in ItemIdx /\ c.n + 1 + r.n < ORDER BY <1>2, Zenon DEF Ref
    <2>3. c \in Node /\ r \in Node /\ t.heap[parent] \in Node BY <2>2, Zenon DEF TxOK
    <2> HIDE DEF c, r
    <2>4. k \in Nat BY <2>2, <2>3, Zenon DEF Node
    <2>5. /\ c.n \in Int /\ r.n \in Int /\ r.n < ORDER /\ c.items \in [ItemIdx -> Nat]
          /\ r.items \in [ItemIdx -> Nat] /\ c.slots \in [SlotIdx -> Ref]
          /\ r.slots \in [SlotIdx -> Ref]
      BY <2>3, Zenon DEF Node
    <2> HIDE DEF k
    <2>6. is \in [ItemIdx -> Nat]
      <3> DEFINE b == [c.items EXCEPT ![c.n] = k]
      <3>1. b \in [ItemIdx -> Nat] BY <2>4, <2>5, Zenon
      <3> HIDE DEF b
      <3>2. ORDER - 2 \in Int /\ c.n + 1 \in Int /\ r.n \in Int /\ r.n <= (ORDER - 2) + 1
        BY <2>5, Half
      <3>3. Copy(b, c.n + 1, r.items, r.n) \in [ItemIdx -> Nat]
        BY <2>5, <3>1, <3>2, CopyType, Zenon DEF ItemIdx
      <3> QED BY <3>3, Zenon DEF b
    <2>7. ss \in [SlotIdx -> Ref]
      <3>1. ORDER - 1 \in Int /\ c.n + 1 \in Int /\ r.n + 1 \in Int /\ r.n + 1 <= (ORDER - 1) + 1
        BY <2>5, Half
      <3> QED BY <2>5, <3>1, CopyType, Zenon DEF SlotIdx
    <2>8. c.n + 1 + r.n \in {i \in Int : i < ORDER} BY <2>2, <2>5, Half
    <2> HIDE DEF is, ss
    <2>9. c2 \in Node BY <2>6, <2>7, <2>8, Zenon DEF Node
    <2> HIDE DEF c2
    <2>10. TxOK(w) BY <2>2, <2>9, AddWholeWrite, Zenon
    <2> HIDE DEF w
    <2>11. TxOK(i1) BY <2>10, TxFree, Zenon
    <2> HIDE DEF i1
    <2>12. q \in Node BY <2>11, Zenon DEF TxOK
    <2> HIDE DEF q
    <2>13. d \in Node
      <3>1. Move(q.items, p, p + 1, q.n - 1 - p) \in [ItemIdx -> Nat] BY <2>12, MoveType, Zenon DEF Node
      <3>2. Move(q.slots, p + 1, p + 2, q.n - p) \in [SlotIdx -> Ref] BY <2>12, MoveType, Zenon DEF Node
      <3>3. q.n - 1 \in {i \in Int : i < ORDER} BY <2>12, Half DEF Node
      <3> QED BY <3>1, <3>2, <3>3, Zenon DEF Node
    <2> HIDE DEF d
    <2>14. TxOK(i2) BY <2>11, <2>13, AddWholeWrite, Zenon
    <2> HIDE DEF i2
    <2>15. TxOK(a) /\ RootLoc \in a.added BY <2>14, TxAdd
    <2> HIDE DEF a
    <2>16. TxOK(f) /\ RootLoc \in f.added BY <2>15, TxFree, Zenon
    <2> HIDE DEF f
    <2>17. TxOK(SetRoot(f, nd)) BY <2>16, TxRoot, Zenon
    <2> QED BY <2>1, <2>14, <2>17, Zenon
  <1> QED BY <1>1, <1>2, Zenon

LEMMA Rebalance ==
  ASSUME NEW t, TxOK(t), NEW nd \in Nodes, NEW parent \in Nodes, NEW p \in SlotIdx,
         t.heap[nd].n < MINKEYS
  PROVE  TxOK(rebalance(t, nd, parent, p))
  <1> DEFINE c   == t.heap[parent]
             rsb == IF p >= c.n THEN NULL ELSE c.slots[p + 1]
             lsb == IF p = 0 THEN NULL ELSE c.slots[p - 1]
             R   == rsb # NULL /\ t.heap[rsb].n > MINKEYS
             L   == lsb # NULL /\ t.heap[lsb].n > MINKEYS
  <1>1. c \in Node BY Zenon DEF TxOK
  <1>2. rebalance(t, nd, parent, p) =
          IF R THEN rotate_right(t, rsb, nd, parent, p)
          ELSE IF L THEN rotate_left(t, lsb, nd, parent, p)
          ELSE IF rsb = NULL THEN merge(t, nd, lsb, parent, p - 1)
          ELSE merge(t, rsb, nd, parent, p)
    BY Zenon DEF rebalance
  <1>3. t.heap[nd].n \in Int /\ \A x \in Nodes : t.heap[x].n \in Int BY Zenon DEF TxOK, Node
  <1>4. NULL \notin Nodes BY DEF NULL, Nodes
  <1> HIDE DEF c
  <1>5. rsb \in Ref /\ (rsb # NULL => rsb \in Nodes /\ p \in ItemIdx)
    <2>1. CASE p >= c.n BY <2>1, Zenon DEF Ref
    <2>2. CASE ~(p >= c.n)
      <3>1. p + 1 \in SlotIdx /\ p \in ItemIdx
        <4>1. c.n \in Int /\ c.n < ORDER BY <1>1, NodeCount, Zenon
        <4> QED BY <2>2, <4>1, Half DEF SlotIdx, ItemIdx
      <3>2. rsb = c.slots[p + 1] BY <2>2, Zenon
      <3>3. rsb \in Ref BY <1>1, <3>1, <3>2, Zenon DEF Node
      <3> QED BY <3>1, <3>3, Zenon DEF Ref
    <2> QED BY <2>1, <2>2, Zenon
  <1>6. lsb \in Ref /\ (lsb # NULL => lsb \in Nodes /\ p - 1 \in ItemIdx)
    <2>1. CASE p = 0 BY <2>1, Zenon DEF Ref
    <2>2. CASE p # 0
      <3>1. p - 1 \in SlotIdx /\ p - 1 \in ItemIdx BY <2>2, Half DEF SlotIdx, ItemIdx
      <3>2. lsb = c.slots[p - 1] BY <2>2, Zenon
      <3>3. lsb \in Ref BY <1>1, <3>1, <3>2, Zenon DEF Node
      <3> QED BY <3>1, <3>3, Zenon DEF Ref
    <2> QED BY <2>1, <2>2, Zenon
  <1> HIDE DEF rsb, lsb
  <1>7. CASE R
    <2>1. TxOK(rotate_right(t, rsb, nd, parent, p)) BY <1>5, <1>7, RotateRight, Zenon
    <2> QED BY <1>2, <1>7, <2>1, Zenon
  <1>8. CASE ~R /\ L
    <2>1. TxOK(rotate_left(t, lsb, nd, parent, p)) BY <1>6, <1>8, RotateLeft, Zenon
    <2> QED BY <1>2, <1>8, <2>1, Zenon
  <1>9. CASE ~R /\ ~L /\ rsb = NULL
    <2>1. lsb # NULL => t.heap[lsb].n + 1 + t.heap[nd].n < ORDER
      BY <1>3, <1>6, <1>9, Half
    <2>2. TxOK(merge(t, nd, lsb, parent, p - 1)) BY <1>6, <2>1, Merge, Zenon
    <2> QED BY <1>2, <1>9, <2>2, Zenon
  <1>10. CASE ~R /\ ~L /\ rsb # NULL
    <2>1. t.heap[nd].n + 1 + t.heap[rsb].n < ORDER BY <1>3, <1>5, <1>10, Half
    <2>2. nd \in Ref BY Zenon DEF Ref
    <2>3. TxOK(merge(t, rsb, nd, parent, p)) BY <1>5, <1>10, <2>1, <2>2, Merge, Zenon
    <2> QED BY <1>2, <1>10, <2>3, Zenon
  <1> QED BY <1>7, <1>8, <1>9, <1>10, Zenon

LEMMA RemoveFromLeaf ==
  ASSUME NEW t, TxOK(t), NEW nd \in Nodes, NEW p
  PROVE  TxOK(remove_from_leaf(t, nd, p))
  <1> DEFINE c == t.heap[nd]
             s == IF c.n = 1 \/ p = ORDER - 2 THEN [c.items EXCEPT ![p] = 0]
                  ELSE Move(c.items, p, p + 1, c.n - p)
             v == c.n - 1
             d == [c EXCEPT !.items = s, !.n = v]
  <1>1. remove_from_leaf(t, nd, p) = D_RW(TX_ADD(t, Whole(nd)), nd, d) BY Zenon DEF remove_from_leaf
  <1>2. c \in Node BY Zenon DEF TxOK
  <1> HIDE DEF c
  <1>3. c.items \in [ItemIdx -> Nat] BY <1>2, Zenon DEF Node
  <1>4. [c.items EXCEPT ![p] = 0] \in [ItemIdx -> Nat]
    <2>1. 0 \in Nat BY Zenon
    <2> QED BY <1>3, <2>1, Zenon
  <1>5. Move(c.items, p, p + 1, c.n - p) \in [ItemIdx -> Nat]
    <2> DEFINE a == c.items
               x == c.n - p
               y == p + 1
    <2>1. a \in [ItemIdx -> Nat] BY <1>3, Zenon
    <2> HIDE DEF a, x, y
    <2>2. Move(a, p, y, x) \in [ItemIdx -> Nat] BY <2>1, MoveType, Zenon
    <2> QED BY <2>2, Zenon DEF a, x, y
  <1>6. s \in [ItemIdx -> Nat] BY <1>4, <1>5, Zenon
  <1>7. v \in {i \in Int : i < ORDER} BY <1>2, Half DEF Node
  <1> HIDE DEF s, v
  <1>8. d \in Node BY <1>2, <1>6, <1>7, Zenon DEF Node
  <1> HIDE DEF d
  <1>9. TxOK(D_RW(TX_ADD(t, Whole(nd)), nd, d)) BY <1>8, AddWholeWrite, Zenon
  <1> QED BY <1>1, <1>9, Zenon

LEMMA ReplaceBySuccessor ==
  ASSUME NEW t, TxOK(t), NEW nd \in Nodes, NEW p \in SlotIdx, p < ORDER - 1, NEW lm \in Nodes,
         NEW lp \in Nodes
  PROVE  TxOK(replace_by_successor(t, nd, p, lm, lp))
  <1> DEFINE v  == t.heap[lm].items[0]
             i1 == D_RW(TX_ADD(t, Fields(nd, {p}, {})), nd, [t.heap[nd] EXCEPT !.items[p] = v])
             i2 == remove_from_leaf(i1, lm, 0)
             j  == IF lp = nd THEN p + 1 ELSE 0
  <1>1. replace_by_successor(t, nd, p, lm, lp) =
          IF i2.heap[lm].n < MINKEYS THEN rebalance(i2, lm, lp, j) ELSE i2
    BY Zenon DEF replace_by_successor
  <1>2. v \in Nat
    <2>1. t.heap[lm] \in Node BY Zenon DEF TxOK
    <2>2. 0 \in ItemIdx BY Half DEF ItemIdx
    <2> QED BY <2>1, <2>2, Zenon DEF Node
  <1>3. j \in SlotIdx
    <2>1. 0 \in SlotIdx /\ p + 1 \in SlotIdx BY Half DEF SlotIdx
    <2> QED BY <2>1, Zenon
  <1> HIDE DEF v, j
  <1>4. TxOK(i1) BY <1>2, StoreItem, Zenon
  <1> HIDE DEF i1
  <1>5. TxOK(i2) BY <1>4, RemoveFromLeaf, Zenon
  <1> HIDE DEF i2
  <1>6. i2.heap[lm].n < MINKEYS => TxOK(rebalance(i2, lm, lp, j)) BY <1>3, <1>5, Rebalance, Zenon
  <1> QED BY <1>1, <1>5, <1>6, Zenon

LEMMA MapClear ==
  ASSUME NEW t, TxOK(t)
  PROVE  TxOK(map_clear(t))
  <1> DEFINE s == clear_node(t)
             F == {s[i] : i \in DOMAIN s}
             f == [t EXCEPT !.live = @ \ F]
             a == TX_ADD(f, {RootLoc})
  <1>1. map_clear(t) = IF F \subseteq t.live /\ Cardinality(F) = Len(s)
                       THEN SetRoot(a, NULL) ELSE TX_ABORT(t)
    BY Zenon DEF map_clear
  <1> HIDE DEF F
  <1>2. TxOK(f) BY Zenon DEF TxOK
  <1> HIDE DEF f
  <1>3. TxOK(a) /\ RootLoc \in a.added BY <1>2, TxAdd
  <1> HIDE DEF a
  <1>4. NULL \in Ref BY Zenon DEF Ref
  <1>5. TxOK(SetRoot(a, NULL)) BY <1>3, <1>4, TxRoot, Zenon
  <1>6. TxOK(TX_ABORT(t)) BY TxAbort, Zenon
  <1> QED BY <1>1, <1>5, <1>6, Zenon

\* Where the scan of a node stops there is a slot, and one to the right of it
\* when it stops at an item.
LEMMA ScanIdxIn ==
  ASSUME NEW c \in Node, NEW k, ScanStops(c, k) # {}
  PROVE  /\ ScanIdx(c, k) \in SlotIdx
         /\ NODE_CONTAINS_ITEM(c, ScanIdx(c, k), k) => ScanIdx(c, k) < ORDER - 1
  <1>1. c.n \in Int /\ c.n < ORDER BY Zenon DEF Node
  <1>2. ScanStops(c, k) \subseteq 0..c.n BY Zenon DEF ScanStops
  <1>3. ScanStops(c, k) \subseteq Nat BY <1>1, <1>2
  <1>4. ScanIdx(c, k) \in ScanStops(c, k) BY <1>3, Least, Zenon DEF ScanIdx
  <1>5. ScanIdx(c, k) \in 0..c.n BY <1>2, <1>4, Zenon
  <1>6. NODE_CONTAINS_ITEM(c, ScanIdx(c, k), k) => ScanIdx(c, k) # c.n BY Zenon DEF NODE_CONTAINS_ITEM
  <1> QED BY <1>1, <1>5, <1>6, Half DEF SlotIdx

-----------------------------------------------------------------------------
(* The steps                                                               *)

Call == [nd : Ref, parent : Ref, p : SlotIdx]
Waiting == [nd : Nodes, parent : Ref, p : SlotIdx]

LEMMA TxBeginOK ==
  ASSUME NEW h \in [Nodes -> Node], NEW r \in Ref, NEW l \in SUBSET Nodes, NEW b \in BOOLEAN
  PROVE  /\ TxOK(TxBegin(h, r, l)) /\ ~TxBegin(h, r, l).aborted
         /\ TxOK([TxBegin(h, r, l) EXCEPT !.aborted = b, !.loose = {}])
  BY Zenon DEF TxBegin, TxOK

LEMMA FrameType ==
  ASSUME NEW nd \in Ref, NEW parent \in Ref, NEW p \in SlotIdx
  PROVE  /\ Frame(nd, parent, p) \in Call
         /\ Frame(nd, parent, p).nd = nd /\ Frame(nd, parent, p).parent = parent
         /\ Frame(nd, parent, p).p = p
  BY Zenon DEF Frame, Call

LEMMA EndTxKeeps ==
  ASSUME BtInv, script' \in Seq(Keys), NEW t, TxOK(t), NEW c, c.key \in Nat, EndTx(t, c)
  PROVE  BtInv'
  <1>1. heap' \in [Nodes -> Node] /\ root' \in Ref /\ live' \in SUBSET Nodes
    <2>1. CASE t.aborted BY <2>1, Zenon DEF EndTx, BtInv
    <2>2. CASE ~t.aborted
      <3>1. heap' = [nd \in Nodes |-> IF nd \in t.live THEN t.heap[nd] ELSE ZeroNode]
            /\ root' = t.root /\ live' = t.live
        BY <2>2, Zenon DEF EndTx
      <3> QED BY <3>1, ZeroNodeType, Zenon DEF TxOK
    <2> QED BY <2>1, <2>2, Zenon
  <1>2. t.aborted \in BOOLEAN /\ t.loose = {} BY Zenon DEF TxOK
  <1>3. tx' = [TxBegin(heap', root', live') EXCEPT !.aborted = t.aborted, !.loose = {}]
    BY <1>2, Zenon DEF EndTx
  <1>4. TxOK(tx)'
    <2>1. TxOK([TxBegin(heap', root', live') EXCEPT !.aborted = t.aborted, !.loose = {}])
      BY <1>1, <1>2, TxBeginOK, Zenon
    <2>2. TxOK(tx') BY <1>3, <2>1, Zenon
    <2> QED BY <2>2, Zenon DEF TxOK
  <1>5. pc' = "idle" /\ cmd'.key \in Nat /\ path' = <<>> /\ at' = Frame(NULL, NULL, 0)
    BY Zenon DEF EndTx
  <1>6. at' \in Call
    <2>1. NULL \in Ref /\ 0 \in SlotIdx BY Half DEF Ref, SlotIdx
    <2> QED BY <1>5, <2>1, FrameType, Zenon
  <1>7. path' \in Seq(Waiting) BY <1>5
  <1> QED BY <1>1, <1>4, <1>5, <1>6, <1>7, Zenon DEF BtInv, Call, Waiting

LEMMA GoOnKeeps ==
  ASSUME BtInv, script' \in Seq(Keys), NEW t, TxOK(t), NEW where, NEW call \in Call,
         NEW outer \in Seq(Waiting), GoOn(t, where, call, outer),
         ~t.aborted =>
           /\ where = "find_dest_node" /\ call.parent # NULL => t.heap[call.parent].n < ORDER - 1
           /\ where = "get_leftmost_leaf" =>
                call.parent # NULL /\ call.p < ORDER - 1 /\ outer # <<>>
           /\ where = "walk_up" => call.nd # NULL
  PROVE  BtInv'
  <1>1. CASE t.aborted
    <2>1. EndTx(t, cmd) BY <1>1, Zenon DEF GoOn
    <2>2. cmd.key \in Nat BY Zenon DEF BtInv
    <2> QED BY <2>1, <2>2, EndTxKeeps, Zenon
  <1>2. CASE ~t.aborted
    <2>1. /\ tx' = t /\ pc' = where /\ at' = call /\ path' = outer
          /\ heap' = heap /\ root' = root /\ live' = live /\ cmd' = cmd
      BY <1>2, Zenon DEF GoOn
    <2>2. TxOK(tx)' BY <2>1, Zenon DEF TxOK
    <2> QED BY <1>2, <2>1, <2>2, Zenon DEF BtInv, Call, Waiting
  <1> QED BY <1>1, <1>2, Zenon

LEMMA EnterKeeps ==
  ASSUME BtInv, script' \in Seq(Keys), NEW op, NEW k \in Nat, NEW where,
         where \in {"find_dest_node", "remove_item"}, Enter(op, k, where)
  PROVE  BtInv'
  <1>1. heap' = heap /\ root' = root /\ live' = live /\ cmd' = [op |-> op, key |-> k]
        /\ tx' = TxBegin(heap, root, live)
        /\ pc' = where /\ at' = Frame(root, NULL, 0) /\ path' = <<>>
    BY Zenon DEF Enter
  <1>2. heap \in [Nodes -> Node] /\ root \in Ref /\ live \in SUBSET Nodes BY Zenon DEF BtInv
  <1>3. TxOK(tx') /\ ~tx'.aborted BY <1>1, <1>2, TxBeginOK, Zenon
  <1>4. TxOK(tx)' BY <1>3, Zenon DEF TxOK
  <1>5. NULL \in Ref /\ 0 \in SlotIdx BY Half DEF Ref, SlotIdx
  <1>6. at' \in Call /\ at'.parent = NULL BY <1>1, <1>2, <1>5, FrameType
  <1>7. path' \in Seq(Waiting) /\ cmd'.key \in Nat BY <1>1
  <1>8. where # "get_leftmost_leaf" /\ where # "walk_up" BY Zenon
  <1> QED BY <1>1, <1>2, <1>3, <1>4, <1>6, <1>7, <1>8, Zenon DEF BtInv, Call, Waiting

LEMMA BtInsert ==
  ASSUME BtInv, script' \in Seq(Keys), NEW k \in Nat, str_insert(k)
  PROVE  BtInv'
  <1> DEFINE t == TxBegin(heap, root, live)
             c == [op |-> "insert", key |-> k]
  <1>1. TxOK(t) /\ ~t.aborted
    <2>1. heap \in [Nodes -> Node] /\ root \in Ref /\ live \in SUBSET Nodes BY Zenon DEF BtInv
    <2> QED BY <2>1, TxBeginOK, Zenon
  <1>2. IF is_empty(t) THEN EndTx(insert_empty(t, k), c) ELSE Enter("insert", k, "find_dest_node")
    BY Zenon DEF str_insert
  <1>3. c.key \in Nat BY Zenon
  <1> HIDE DEF t, c
  <1>4. CASE is_empty(t)
    <2>1. EndTx(insert_empty(t, k), c) BY <1>2, <1>4, Zenon
    <2>2. TxOK(insert_empty(t, k)) BY <1>1, InsertEmpty, Zenon
    <2> QED BY <1>3, <2>1, <2>2, EndTxKeeps, Zenon
  <1>5. CASE ~is_empty(t)
    <2>1. Enter("insert", k, "find_dest_node") BY <1>2, <1>5, Zenon
    <2> QED BY <2>1, EnterKeeps, Zenon
  <1> QED BY <1>4, <1>5, Zenon

LEMMA BtFindDest ==
  ASSUME BtInv, script' = script, find_dest_node
  PROVE  BtInv'
  <1> DEFINE k    == cmd.key
             here == split_if_full(tx, at, k)
             h    == here.nd
             t    == here.t
             c    == t.heap[h]
             i    == FitIdx(c, k)
             f    == Frame(c.slots[i], h, i)
  <1>1. /\ TxOK(tx) /\ ~tx.aborted /\ k \in Nat /\ at.nd \in Nodes /\ at.parent \in Ref
        /\ at.parent # NULL => tx.heap[at.parent].n < ORDER - 1
        /\ script' \in Seq(Keys)
    BY Zenon DEF BtInv, find_dest_node, Ref
  <1>2. TxOK(t) /\ (~t.aborted => h \in Nodes /\ c.n < ORDER - 1) BY <1>1, SplitIfFull, Zenon
  <1>3. pc = "find_dest_node" /\
        IF t.aborted THEN EndTx(t, cmd)
        ELSE IF i # ORDER - 1 /\ c.slots[i] = NULL THEN EndTx(insert_item(t, h, i, k), cmd)
        ELSE GoOn(t, pc, f, <<>>)
    BY Zenon DEF find_dest_node
  <1> HIDE DEF here, t, h
  <1>4. CASE t.aborted
    <2>1. EndTx(t, cmd) BY <1>3, <1>4, Zenon
    <2> QED BY <1>1, <1>2, <2>1, EndTxKeeps, Zenon
  <1>5. CASE ~t.aborted /\ i # ORDER - 1 /\ c.slots[i] = NULL
    <2>1. EndTx(insert_item(t, h, i, k), cmd) BY <1>3, <1>5, Zenon
    <2> HIDE DEF i
    <2>2. TxOK(insert_item(t, h, i, k)) BY <1>1, <1>2, <1>5, InsertItem, Zenon
    <2> QED BY <1>1, <2>1, <2>2, EndTxKeeps, Zenon
  <1>6. CASE ~t.aborted /\ ~(i # ORDER - 1 /\ c.slots[i] = NULL)
    <2>1. GoOn(t, "find_dest_node", f, <<>>) BY <1>3, <1>6, Zenon
    <2>2. c \in Node BY <1>2, <1>6, Zenon DEF TxOK
    <2>3. i \in SlotIdx BY <1>1, <2>2, FitIdxIn, Zenon
    <2>4. c.slots[i] \in Ref /\ h \in Ref BY <1>2, <1>6, <2>2, <2>3, Zenon DEF Node, Ref
    <2> HIDE DEF i
    <2>5. f \in Call /\ f.parent = h BY <2>3, <2>4, FrameType
    <2>6. t.heap[f.parent].n < ORDER - 1 BY <1>2, <1>6, <2>5, Zenon
    <2> HIDE DEF f, c
    <2>7. <<>> \in Seq(Waiting) OBVIOUS
    <2> QED BY <1>1, <1>2, <2>1, <2>5, <2>6, <2>7, GoOnKeeps, Zenon
  <1> QED BY <1>4, <1>5, <1>6, Zenon

LEMMA BtRemoveItem ==
  ASSUME BtInv, script' = script, remove_item
  PROVE  BtInv'
  <1> DEFINE k == cmd.key
             c == tx.heap[at.nd]
             i == ScanIdx(c, k)
             f == Frame(c.slots[i], at.nd, i)
             g == Frame(c.slots[i + 1], at.nd, i)
             up == <<at>> \o path
  <1>1. /\ TxOK(tx) /\ at.nd \in Nodes /\ at.nd # NULL /\ at \in Waiting /\ at \in Call
        /\ path \in Seq(Waiting) /\ script' \in Seq(Keys) /\ at.nd \in Ref
    <2>1. TxOK(tx) /\ at \in Call /\ path \in Seq(Waiting) /\ script' \in Seq(Keys) /\ at.nd # NULL
      BY Zenon DEF BtInv, remove_item, Call, Waiting
    <2>2. at.nd \in Nodes /\ at.nd \in Ref BY <2>1, Zenon DEF Call, Ref
    <2>3. at \in Waiting BY <2>1, <2>2, Zenon DEF Call, Waiting
    <2> QED BY <2>1, <2>2, <2>3, Zenon
  <1>2. c \in Node BY <1>1, Zenon DEF TxOK
  <1>3. IF ScanStops(c, k) = {} THEN GoOn(tx, "walk_up", at, path)
        ELSE IF ~NODE_CONTAINS_ITEM(c, i, k) THEN GoOn(tx, "remove_item", f, up)
        ELSE IF c.slots[0] = NULL THEN GoOn(remove_from_leaf(tx, at.nd, i), "walk_up", at, path)
        ELSE GoOn(tx, "get_leftmost_leaf", g, up)
    BY Zenon DEF remove_item
  <1>4. up \in Seq(Waiting) /\ up # <<>> BY <1>1
  <1> HIDE DEF c, up
  <1>5. CASE ScanStops(c, k) = {}
    <2>1. GoOn(tx, "walk_up", at, path) BY <1>3, <1>5, Zenon
    <2> QED BY <1>1, <2>1, GoOnKeeps, Zenon
  <1>6. CASE ScanStops(c, k) # {}
    <2>1. i \in SlotIdx /\ (NODE_CONTAINS_ITEM(c, i, k) => i < ORDER - 1)
      BY <1>2, <1>6, ScanIdxIn, Zenon
    <2> HIDE DEF i
    <2>2. CASE ~NODE_CONTAINS_ITEM(c, i, k)
      <3>1. GoOn(tx, "remove_item", f, up) BY <1>3, <1>6, <2>2, Zenon
      <3>2. c.slots[i] \in Ref BY <1>2, <2>1, Zenon DEF Node
      <3>3. f \in Call BY <1>1, <2>1, <3>2, FrameType, Zenon
      <3> HIDE DEF f
      <3> QED BY <1>1, <1>4, <3>1, <3>3, GoOnKeeps, Zenon
    <2>3. CASE NODE_CONTAINS_ITEM(c, i, k) /\ c.slots[0] = NULL
      <3> DEFINE r == remove_from_leaf(tx, at.nd, i)
      <3>1. GoOn(r, "walk_up", at, path) BY <1>3, <1>6, <2>3, Zenon
      <3>2. TxOK(r) BY <1>1, RemoveFromLeaf, Zenon
      <3> HIDE DEF r
      <3> QED BY <1>1, <3>1, <3>2, GoOnKeeps, Zenon
    <2>4. CASE NODE_CONTAINS_ITEM(c, i, k) /\ c.slots[0] # NULL
      <3>1. GoOn(tx, "get_leftmost_leaf", g, up) BY <1>3, <1>6, <2>4, Zenon
      <3>2. i + 1 \in SlotIdx BY <2>1, <2>4, Half DEF SlotIdx
      <3>3. c.slots[i + 1] \in Ref BY <1>2, <3>2, Zenon DEF Node
      <3>4. g \in Call /\ g.parent = at.nd /\ g.p = i BY <1>1, <2>1, <3>3, FrameType
      <3> HIDE DEF g
      <3> QED BY <1>1, <1>4, <2>1, <2>4, <3>1, <3>4, GoOnKeeps, Zenon
    <2> QED BY <2>2, <2>3, <2>4, Zenon
  <1> QED BY <1>5, <1>6, Zenon

\* The call that waits for get_leftmost_leaf or walk_up is the next one.
LEMMA ReturnTo ==
  ASSUME NEW s \in Seq(Waiting), s # <<>>
  PROVE  /\ Head(s) \in Waiting /\ Tail(s) \in Seq(Waiting)
         /\ Head(s) \in Call /\ Head(s).nd \in Nodes /\ Head(s).nd # NULL
  <1>1. Head(s) \in Waiting /\ Tail(s) \in Seq(Waiting) OBVIOUS
  <1>2. Head(s) \in Call /\ Head(s).nd \in Nodes BY <1>1, Zenon DEF Call, Waiting, Ref
  <1> QED BY <1>1, <1>2 DEF NULL, Nodes

LEMMA BtLeftmost ==
  ASSUME BtInv, script' = script, get_leftmost_leaf
  PROVE  BtInv'
  <1> DEFINE s == tx.heap[at.nd].slots[0]
             r == replace_by_successor(tx, Head(path).nd, at.p, at.nd, at.parent)
             f == Frame(s, at.nd, at.p)
  <1>1. /\ TxOK(tx) /\ at \in Call /\ at.nd # NULL /\ path \in Seq(Waiting) /\ path # <<>>
        /\ at.parent # NULL /\ at.p < ORDER - 1 /\ script' \in Seq(Keys)
    BY Zenon DEF BtInv, get_leftmost_leaf, Call, Waiting
  <1>2. at.nd \in Nodes /\ at.parent \in Nodes /\ at.p \in SlotIdx /\ at.nd \in Ref
    BY <1>1, Zenon DEF Call, Ref
  <1>3. /\ s # NULL => GoOn(tx, "get_leftmost_leaf", f, path)
        /\ s = NULL => GoOn(r, "walk_up", Head(path), Tail(path))
    BY Zenon DEF get_leftmost_leaf
  <1>4. s \in Ref
    <2>1. tx.heap[at.nd] \in Node BY <1>1, <1>2, Zenon DEF TxOK
    <2>2. 0 \in SlotIdx BY Half DEF SlotIdx
    <2> QED BY <2>1, <2>2, Zenon DEF Node
  <1> HIDE DEF s
  <1>5. CASE s # NULL
    <2>1. f \in Call /\ f.parent = at.nd /\ f.p = at.p BY <1>2, <1>4, FrameType
    <2>2. GoOn(tx, "get_leftmost_leaf", f, path) BY <1>3, <1>5, Zenon
    <2> HIDE DEF f
    <2> QED BY <1>1, <2>1, <2>2, GoOnKeeps, Zenon
  <1>6. CASE s = NULL
    <2>1. Head(path).nd \in Nodes /\ Head(path).nd # NULL /\ Head(path) \in Call
          /\ Tail(path) \in Seq(Waiting)
      BY <1>1, ReturnTo, Zenon
    <2>2. TxOK(r) BY <1>1, <1>2, <2>1, ReplaceBySuccessor, Zenon
    <2>3. GoOn(r, "walk_up", Head(path), Tail(path)) BY <1>3, <1>6, Zenon
    <2> HIDE DEF r
    <2> QED BY <1>1, <2>1, <2>2, <2>3, GoOnKeeps, Zenon
  <1> QED BY <1>5, <1>6, Zenon

LEMMA BtWalkUp ==
  ASSUME BtInv, script' = script, walk_up
  PROVE  BtInv'
  <1> DEFINE r == rebalance(tx, at.nd, at.parent, at.p)
             t == IF at.parent = NULL \/ tx.heap[at.nd].n >= MINKEYS THEN tx ELSE r
  <1>1. /\ TxOK(tx) /\ at \in Call /\ at.nd # NULL /\ path \in Seq(Waiting)
        /\ script' \in Seq(Keys) /\ cmd.key \in Nat
    BY Zenon DEF BtInv, walk_up, Call, Waiting
  <1>2. IF path = <<>> THEN EndTx(t, cmd) ELSE GoOn(t, "walk_up", Head(path), Tail(path))
    BY Zenon DEF walk_up
  <1>3. TxOK(t)
    <2>1. CASE at.parent = NULL \/ tx.heap[at.nd].n >= MINKEYS BY <1>1, <2>1, Zenon
    <2>2. CASE ~(at.parent = NULL \/ tx.heap[at.nd].n >= MINKEYS)
      <3>1. at.nd \in Nodes /\ at.parent \in Nodes /\ at.p \in SlotIdx
        BY <1>1, <2>2, Zenon DEF Call, Ref
      <3>2. tx.heap[at.nd].n \in Int BY <1>1, <3>1, Zenon DEF TxOK, Node
      <3>3. tx.heap[at.nd].n < MINKEYS BY <2>2, <3>2, Half
      <3>4. TxOK(r) BY <1>1, <3>1, <3>3, Rebalance, Zenon
      <3> QED BY <2>2, <3>4, Zenon
    <2> QED BY <2>1, <2>2, Zenon
  <1> HIDE DEF t
  <1>4. CASE path = <<>>
    <2>1. EndTx(t, cmd) BY <1>2, <1>4, Zenon
    <2> QED BY <1>1, <1>3, <2>1, EndTxKeeps, Zenon
  <1>5. CASE path # <<>>
    <2>1. GoOn(t, "walk_up", Head(path), Tail(path)) BY <1>2, <1>5, Zenon
    <2>2. Head(path).nd # NULL /\ Head(path) \in Call /\ Tail(path) \in Seq(Waiting)
      BY <1>1, <1>5, ReturnTo, Zenon
    <2> QED BY <1>1, <1>3, <2>1, <2>2, GoOnKeeps, Zenon
  <1> QED BY <1>4, <1>5, Zenon

LEMMA BtClear ==
  ASSUME BtInv, script' \in Seq(Keys), btree_map_clear
  PROVE  BtInv'
  <1> DEFINE t == TxBegin(heap, root, live)
             c == [op |-> "clear", key |-> 0]
  <1>1. heap \in [Nodes -> Node] /\ root \in Ref /\ live \in SUBSET Nodes BY Zenon DEF BtInv
  <1>2. TxOK(t) BY <1>1, TxBeginOK, Zenon
  <1>3. EndTx(map_clear(t), c) BY Zenon DEF btree_map_clear
  <1>4. c.key \in Nat BY Zenon
  <1> HIDE DEF t, c
  <1>5. TxOK(map_clear(t)) BY <1>2, MapClear, Zenon
  <1> QED BY <1>3, <1>4, <1>5, EndTxKeeps, Zenon

LEMMA BtInit == Init => BtInv
  <1> SUFFICES ASSUME Init PROVE BtInv BY Zenon
  <1>1. heap \in [Nodes -> Node] /\ root \in Ref /\ live \in SUBSET Nodes
    BY ZeroNodeType, Zenon DEF Init, Ref
  <1>2. TxOK(tx) BY <1>1, TxBeginOK, Zenon DEF Init
  <1>3. at \in Call
    <2>1. NULL \in Ref /\ 0 \in SlotIdx BY Half DEF Ref, SlotIdx
    <2> QED BY <2>1, FrameType, Zenon DEF Init
  <1>4. path \in Seq(Waiting) /\ pc = "idle" /\ cmd.key \in Nat BY DEF Init
  <1>5. script \in Seq(Keys) BY KeysAssumption, Zenon DEF Init
  <1> QED BY <1>1, <1>2, <1>3, <1>4, <1>5, Zenon DEF BtInv, Call, Waiting

LEMMA BtNext == BtInv /\ [Next]_btvars => BtInv'
  <1> SUFFICES ASSUME BtInv, [Next]_btvars PROVE BtInv' BY Zenon
  <1>1. script \in Seq(Keys) BY Zenon DEF BtInv
  <1>2. CASE UNCHANGED btvars BY <1>2, Zenon DEF btvars, BtInv, TxOK
  <1>3. CASE Load
    <2>1. Head(script) \in Keys /\ Tail(script) \in Seq(Keys) BY <1>1, <1>3 DEF Load
    <2>2. str_insert(Head(script)) /\ script' \in Seq(Keys) BY <1>3, <2>1, Zenon DEF Load
    <2>3. Head(script) \in Nat BY <2>1, KeysAssumption, Zenon
    <2> QED BY <2>2, <2>3, BtInsert, Zenon
  <1>4. CASE Command
    <2>1. script' \in Seq(Keys) BY <1>1, <1>4, Zenon DEF Command
    <2>2. ASSUME NEW k \in Typed, str_insert(k) PROVE BtInv'
      <3>1. k \in Nat BY KeysAssumption, Zenon
      <3> QED BY <2>1, <2>2, <3>1, BtInsert, Zenon
    <2>3. ASSUME NEW k \in Typed, str_remove(k) PROVE BtInv'
      <3>1. k \in Nat BY KeysAssumption, Zenon
      <3>2. Enter("remove", k, "remove_item") BY <2>3, Zenon DEF str_remove
      <3> QED BY <2>1, <3>1, <3>2, EnterKeeps, Zenon
    <2>4. CASE btree_map_clear BY <2>1, <2>4, BtClear, Zenon
    <2> QED BY <1>4, <2>2, <2>3, <2>4, Zenon DEF Command
  <1>5. CASE Recursion
    <2>1. script' = script BY <1>5, Zenon DEF Recursion
    <2> QED BY <1>5, <2>1, BtFindDest, BtRemoveItem, BtLeftmost, BtWalkUp, Zenon DEF Recursion
  <1> QED BY <1>2, <1>3, <1>4, <1>5, Zenon DEF Next

\* Whatever the order of the tree, the keys, the size of the pool and the
\* commands are, and wherever an allocation fails, every step of btree_map.c
\* that changes a field of a node or the root has given it to TX_ADD before, or
\* has allocated the node in the same transaction: what an abort or a crash in
\* the middle has to undo is in the undo log.
THEOREM BtTxCovered == Spec => []TxCovered
  <1>1. BtInv => TxCovered BY Zenon DEF BtInv, TxOK, TxCovered
  <1> QED BY BtInit, BtNext, <1>1, PTL DEF Spec

=============================================================================
