--------------------------- MODULE Tables_proofs ---------------------------
(***************************************************************************)
(* Proofs about the descriptor tables of libvramfs, in which each file has *)
(* its own region of the reserved range and, once redirected, its own      *)
(* buffer, and about the hash table of simplekv.                           *)
(***************************************************************************)
EXTENDS FileTable, SimpleKV, TLAPS

-----------------------------------------------------------------------------
(* The key-value store, for any keys, hash, number of buckets and puts.    *)

Vectors(X) == {v \in [size : Nat, content : Seq(X \cup {Unset})] : v.size <= Len(v.content)}
KvPairs == [first : [text : KvKeys, size : Nat], second : Nat]
KvBuckets == 0..(N - 1)
Used(b) == 1..buckets[b].size
El(b, i) == buckets[b].content[i]

\* The two levels of the store, seen from the slots in use of the buckets.
\* The sizes: of every bucket and of the values, no more than the puts.
KvSizes ==
  /\ puts \in 0..MaxPuts /\ values \in Vectors(Nat) /\ values.size <= puts
  /\ buckets \in [KvBuckets -> Vectors(KvPairs)]
  /\ DOMAIN last \subseteq KvKeys
  /\ \A b \in KvBuckets : buckets[b].size <= puts

\* A pair lies in the bucket of its key's hash.
KvPlaced ==
  \A b \in KvBuckets : \A i \in Used(b) :
    \E k \in KvKeys : Hash[k] = b /\ El(b, i).first = string_init(k)

\* A pair's index is that of a value.
KvIndexed ==
  \A b \in KvBuckets : \A i \in Used(b) :
    El(b, i) \in KvPairs /\ El(b, i).second \in 0..(values.size - 1)

\* No two pairs have one value, or one short key.
KvUnique ==
  \A b, c \in KvBuckets : \A i \in Used(b), j \in Used(c) :
    \/ El(b, i).second = El(c, j).second
    \/ El(b, i).first.text = El(c, j).first.text /\ Short(El(b, i).first.text)
    => b = c /\ i = j

\* Every value has a pair.
KvReached ==
  \A x \in 0..(values.size - 1) :
    \E b \in KvBuckets : \E i \in Used(b) : El(b, i).second = x

\* A short key put once keeps its value until an update strikes it.
KvKept ==
  \A k \in DOMAIN last : Short(k) =>
    \E i \in Used(Hash[k]) :
      /\ El(Hash[k], i).first.text = k
      /\ k \notin updated /\ El(Hash[k], i).second \notin struck
           => values.content[El(Hash[k], i).second + 1] = last[k]

\* The store while it runs.
KvRun == KvSizes /\ KvPlaced /\ KvIndexed /\ KvUnique /\ KvReached /\ KvKept

\* The store is consistent while it runs and has not written outside an array.
KvInv ==
  /\ puts \in 0..MaxPuts
  /\ kvup = "run" /\ ~wild => KvRun

\* The history that a put records.
Recorded(k, val) == last' = [j \in DOMAIN last \cup {k} |-> IF j = k THEN val ELSE last[j]]

\* push_back keeps the elements of a vector and puts the new one behind them,
\* whether or not the vector grows.
LEMMA PushBack ==
  \A X : \A v \in Vectors(X), e \in X :
    LET w == push_back(v, e)
    IN  /\ w \in Vectors(X) /\ w.size = v.size + 1
        /\ \A i \in 1..v.size : w.content[i] = v.content[i]
        /\ w.content[v.size + 1] = e
  <1> SUFFICES ASSUME NEW X, NEW v \in Vectors(X), NEW e \in X
               PROVE  LET w == push_back(v, e)
                      IN  /\ w \in Vectors(X) /\ w.size = v.size + 1
                          /\ \A i \in 1..v.size : w.content[i] = v.content[i]
                          /\ w.content[v.size + 1] = e
    BY Zenon
  <1> DEFINE Y == X \cup {Unset}
             u == IF v.size = capacity(v) THEN resize(v) ELSE v
             w == push_back(v, e)
  <1>1. /\ v.size \in Nat /\ v.content \in Seq(Y) /\ v.size <= Len(v.content)
        /\ v \in [size : Nat, content : Seq(Y)]
    BY Zenon DEF Vectors
  <1>2. /\ u \in [size : Nat, content : Seq(Y)] /\ u.size = v.size
        /\ v.size < Len(u.content)
        /\ \A i \in 1..v.size : u.content[i] = v.content[i]
    <2>1. CASE v.size # capacity(v) BY <1>1, <2>1 DEF capacity
    <2>2. CASE v.size = capacity(v)
      <3> DEFINE n == IF capacity(v) = 0 THEN 2 ELSE capacity(v)
      <3>1. n \in Nat \ {0} /\ Len(v.content) = v.size BY <1>1, <2>2 DEF capacity
      <3> HIDE DEF n
      <3>2. Array(n) \in Seq(Y) /\ Len(Array(n)) = n
        <4>1. Array(n) \in [1..n -> Y] BY Zenon DEF Array
        <4> QED BY <3>1, <4>1
      <3>3. u = [v EXCEPT !.content = v.content \o Array(n)] BY <1>1, <2>2, Zenon DEF resize, n
      <3> HIDE DEF u, Y
      <3> DEFINE z == v.content \o Array(n)
      <3>4. /\ z \in Seq(Y) /\ Len(z) = v.size + n
            /\ \A i \in 1..v.size : z[i] = v.content[i]
        <4>1. \A s1, s2 \in Seq(Y) :
                /\ s1 \o s2 \in Seq(Y) /\ Len(s1 \o s2) = Len(s1) + Len(s2)
                /\ \A i \in 1..Len(s1) : (s1 \o s2)[i] = s1[i]
          OBVIOUS
        <4> QED BY <1>1, <3>1, <3>2, <4>1
      <3> HIDE DEF z
      <3>5. u = [v EXCEPT !.content = z] BY <3>3, Zenon DEF z
      <3>6. u.content = z /\ u.size = v.size /\ u \in [size : Nat, content : Seq(Y)]
        BY <1>1, <3>4, <3>5, Zenon
      <3> QED BY <1>1, <3>1, <3>4, <3>6
    <2> QED BY <2>1, <2>2, Zenon
  <1>3. w = [u EXCEPT !.size = u.size + 1, !.content = [u.content EXCEPT ![v.size + 1] = e]]
    BY Zenon DEF push_back
  <1>4. e \in Y BY Zenon
  <1> HIDE DEF u, w, Y
  <1>5. w.size = v.size + 1 /\ w.content = [u.content EXCEPT ![v.size + 1] = e]
    BY <1>2, <1>3, Zenon
  <1>6. w.content \in Seq(Y) /\ Len(w.content) = Len(u.content)
    <2>1. u.content \in Seq(Y) BY <1>2, Zenon
    <2>2. u.content \in [1..Len(u.content) -> Y] /\ Len(u.content) \in Nat BY <2>1
    <2>3. w.content \in [1..Len(u.content) -> Y] BY <1>4, <1>5, <2>2, Zenon
    <2> QED BY <2>2, <2>3
  <1>7. w \in [size : Nat, content : Seq(Y)]
    <2>1. w = [u EXCEPT !.size = w.size, !.content = w.content] BY <1>2, <1>3, <1>5, Zenon
    <2>2. w.size \in Nat BY <1>1, <1>5
    <2> QED BY <1>2, <1>6, <2>1, <2>2, Zenon
  <1>8. v.size + 1 \in DOMAIN u.content BY <1>1, <1>2
  <1>9. w.content[v.size + 1] = e BY <1>5, <1>8, Zenon
  <1>10. \A i \in 1..v.size : w.content[i] = v.content[i]
    <2> TAKE i \in 1..v.size
    <2>1. i # v.size + 1 /\ i \in DOMAIN u.content BY <1>1, <1>2
    <2> QED BY <1>2, <1>5, <2>1, Zenon
  <1>11. w.size <= Len(w.content) /\ Len(u.content) \in Nat BY <1>1, <1>2, <1>5, <1>6
  <1>12. w \in Vectors(X) BY <1>7, <1>11, Zenon DEF Vectors, Y
  <1> QED BY <1>5, <1>9, <1>10, <1>12, Zenon DEF w

\* The search of a bucket finds the one pair of a short key.
LEMMA FindIs ==
  ASSUME KvRun, NEW k \in KvKeys, Short(k), NEW i \in Used(Hash[k]),
         El(Hash[k], i).first.text = k
  PROVE  Find(k) = i /\ i # 0
  <1> DEFINE h == Hash[k]
             S == {j \in 1..buckets[h].size : Equals(buckets[h].content[j].first, k)}
  <1>1. h \in KvBuckets BY KvAssumption, Zenon DEF KvBuckets
  <1>2. \A j \in S : j = i
    <2> TAKE j \in S
    <2>1. j \in Used(h) /\ El(h, j).first.text = k BY Zenon DEF Used, El, Equals
    <2> QED BY <1>1, <2>1 DEF KvRun, KvUnique
  <1>3. i \in S
    <2>1. PICK m \in KvKeys : El(h, i).first = string_init(m) BY <1>1 DEF KvRun, KvPlaced
    <2>2. m = k BY <2>1 DEF string_init
    <2>3. Equals(El(h, i).first, k) BY <2>1, <2>2 DEF string_init, Equals, Short
    <2> QED BY <2>3, Zenon DEF Used, El
  <1>4. S = {i} BY <1>2, <1>3, Zenon
  <1>5. buckets[h].size \in Nat BY <1>1, Zenon DEF KvRun, KvSizes, Vectors
  <1>6. i \in Nat /\ i # 0 BY <1>5 DEF Used
  <1>7. Find(k) = IF S = {} THEN 0 ELSE CHOOSE j \in S : \A l \in S : j <= l
    BY Zenon DEF Find
  <1> HIDE DEF S
  <1> QED BY <1>4, <1>6, <1>7

\* A key that is found is a short one, and is found at its pair: a long key
\* never compares equal.
LEMMA FindSome ==
  ASSUME KvRun, NEW k \in KvKeys, Find(k) # 0
  PROVE  Short(k) /\ Find(k) \in Used(Hash[k]) /\ El(Hash[k], Find(k)).first.text = k
  <1> DEFINE h == Hash[k]
             S == {j \in 1..buckets[h].size : Equals(buckets[h].content[j].first, k)}
  <1>1. h \in KvBuckets BY KvAssumption, Zenon DEF KvBuckets
  <1>2. S # {} BY Zenon DEF Find
  <1>3. PICK i \in Used(h) : Equals(El(h, i).first, k) BY <1>2, Zenon DEF Used, El
  <1>4. PICK m \in KvKeys : El(h, i).first = string_init(m) BY <1>1 DEF KvRun, KvPlaced
  <1>5. m = k /\ string_init(k).size = KeyLen[k] BY <1>3, <1>4 DEF string_init, Equals
  <1>6. Short(k) BY <1>5, KvAssumption DEF string_init, Short
  <1>7. El(h, i).first.text = k BY <1>3, Zenon DEF Equals
  <1> QED BY <1>3, <1>6, <1>7, FindIs, Zenon

\* A put of a key that is not found adds one value and one pair.
LEMMA KvPutNew ==
  ASSUME KvRun, NEW k \in KvKeys, NEW val \in KvValues, puts < MaxPuts, puts' = puts + 1,
         Find(k) = 0, PutNew(k, val), Recorded(k, val)
  PROVE  KvRun'
  <1> DEFINE h == Hash[k]
             n == values.size
             p == pair(k, n)
  <1>0. PICK top : top = buckets[h].size + 1 BY Zenon
  <1>1. /\ h \in KvBuckets /\ n \in Nat /\ n <= puts /\ puts \in Nat /\ MaxPuts \in Nat
        /\ values \in Vectors(Nat) /\ buckets \in [KvBuckets -> Vectors(KvPairs)]
    <2>1. h \in KvBuckets /\ MaxPuts \in Nat BY KvAssumption, Zenon DEF KvBuckets
    <2>2. /\ puts \in 0..MaxPuts /\ n <= puts /\ values \in Vectors(Nat)
          /\ buckets \in [KvBuckets -> Vectors(KvPairs)]
      BY Zenon DEF KvRun, KvSizes
    <2>3. n \in Nat BY <2>2, Zenon DEF Vectors
    <2>4. puts \in Nat BY <2>1, <2>2
    <2> QED BY <2>1, <2>2, <2>3, <2>4, Zenon
  <1>2. \A b \in KvBuckets : buckets[b].size \in Nat BY <1>1, Zenon DEF Vectors
  <1>3. p \in KvPairs /\ p.second = n /\ p.first = string_init(k) /\ p.first.text = k
    BY <1>1, KvAssumption DEF pair, string_init, KvPairs
  <1>4. val \in Nat BY KvAssumption, Zenon
  <1>5. /\ values' \in Vectors(Nat) /\ values'.size = n + 1
        /\ \A i \in 1..n : values'.content[i] = values.content[i]
        /\ values'.content[n + 1] = val
    BY <1>1, <1>4, PushBack DEF PutNew
  <1>6. buckets' = [buckets EXCEPT ![h] = push_back(buckets[h], p)] BY Zenon DEF PutNew
  <1>7. /\ push_back(buckets[h], p) \in Vectors(KvPairs)
        /\ push_back(buckets[h], p).size = top
        /\ \A i \in Used(h) : push_back(buckets[h], p).content[i] = El(h, i)
        /\ push_back(buckets[h], p).content[top] = p
    <2>1. buckets[h] \in Vectors(KvPairs) BY <1>1, Zenon
    <2>2. p \in KvPairs BY <1>3, Zenon
    <2> HIDE DEF p
    <2>3. /\ push_back(buckets[h], p) \in Vectors(KvPairs)
          /\ push_back(buckets[h], p).size = buckets[h].size + 1
          /\ \A i \in 1..buckets[h].size :
               push_back(buckets[h], p).content[i] = buckets[h].content[i]
          /\ push_back(buckets[h], p).content[buckets[h].size + 1] = p
      BY ONLY <2>1, <2>2, PushBack
    <2> QED BY <1>0, <2>3, Zenon DEF Used, El
  <1> HIDE DEF p, n
  <1>8. buckets' \in [KvBuckets -> Vectors(KvPairs)] BY <1>1, <1>6, <1>7, Zenon
  <1>9. \A b \in KvBuckets :
          /\ buckets'[b].size = IF b = h THEN top ELSE buckets[b].size
          /\ \A i \in Used(b) : El(b, i)' = El(b, i)
    BY <1>1, <1>6, <1>7, Zenon DEF El
  <1>10. El(h, top)' = p BY <1>1, <1>6, <1>7, Zenon DEF El
  <1>11. \A b \in KvBuckets : \A i \in Used(b)' :
           i \in Used(b) \/ (b = h /\ i = top)
    BY <1>0, <1>2, <1>9 DEF Used
  <1>12. top \in Used(h)' /\ \A b \in KvBuckets : Used(b) \subseteq Used(b)'
    BY <1>0, <1>1, <1>2, <1>9 DEF Used
  <1>13. \A b \in KvBuckets : \A i \in Used(b)' :
           \E m \in KvKeys : Hash[m] = b /\ El(b, i)'.first = string_init(m)
    <2> TAKE b \in KvBuckets
    <2> TAKE i \in Used(b)'
    <2>1. CASE i \in Used(b) BY <1>9, <2>1 DEF KvRun, KvPlaced
    <2>2. CASE b = h /\ i = top BY <1>3, <1>10, <2>2, Zenon
    <2> QED BY <1>11, <2>1, <2>2, Zenon
  <1>14. \A b \in KvBuckets : \A i \in Used(b) :
           El(b, i) \in KvPairs /\ El(b, i).second \in 0..(n - 1)
    BY Zenon DEF KvRun, KvIndexed, n
  <1>15. \A b \in KvBuckets : \A i \in Used(b)' :
           El(b, i)' \in KvPairs /\ El(b, i)'.second \in 0..n
    <2> TAKE b \in KvBuckets
    <2> TAKE i \in Used(b)'
    <2>1. CASE i \in Used(b) BY <1>1, <1>9, <1>14, <2>1
    <2>2. CASE b = h /\ i = top BY <1>1, <1>3, <1>10, <2>2
    <2> QED BY <1>11, <2>1, <2>2, Zenon
  <1>16. Short(k) => \A b \in KvBuckets : \A i \in Used(b) : El(b, i).first.text # k
    <2> SUFFICES ASSUME Short(k), NEW b \in KvBuckets, NEW i \in Used(b),
                        El(b, i).first.text = k
                 PROVE  FALSE
      BY Zenon
    <2>1. PICK m \in KvKeys : Hash[m] = b /\ El(b, i).first = string_init(m) BY DEF KvRun, KvPlaced
    <2>2. m = k BY <2>1 DEF string_init
    <2> QED BY <2>1, <2>2, FindIs, Zenon
  <1>17. ASSUME NEW b \in KvBuckets, NEW c \in KvBuckets, NEW i \in Used(b)', NEW j \in Used(c)',
                \/ El(b, i)'.second = El(c, j)'.second
                \/ El(b, i)'.first.text = El(c, j)'.first.text /\ Short(El(b, i)'.first.text)
         PROVE  b = c /\ i = j
    <2>1. CASE i \in Used(b) /\ j \in Used(c)
      <3>1. El(b, i)' = El(b, i) /\ El(c, j)' = El(c, j) BY <1>9, <2>1, Zenon
      <3>2. \/ El(b, i).second = El(c, j).second
            \/ El(b, i).first.text = El(c, j).first.text /\ Short(El(b, i).first.text)
        BY <1>17, <3>1, Zenon
      <3> QED BY <2>1, <3>2 DEF KvRun, KvUnique
    <2>2. CASE i \in Used(b) /\ c = h /\ j = top
      <3>1. El(b, i)' = El(b, i) /\ El(c, j)' = p BY <1>9, <1>10, <2>2, Zenon
      <3>2. El(b, i).second # n BY <1>1, <1>14, <2>2
      <3> QED BY <1>3, <1>16, <1>17, <2>2, <3>1, <3>2, Zenon
    <2>3. CASE j \in Used(c) /\ b = h /\ i = top
      <3>1. El(c, j)' = El(c, j) /\ El(b, i)' = p BY <1>9, <1>10, <2>3, Zenon
      <3>2. El(c, j).second # n BY <1>1, <1>14, <2>3
      <3> QED BY <1>3, <1>16, <1>17, <2>3, <3>1, <3>2, Zenon
    <2>4. CASE b = h /\ i = top /\ c = h /\ j = top BY <2>4, Zenon
    <2> QED BY <1>11, <2>1, <2>2, <2>3, <2>4, Zenon
  <1>18. \A x \in 0..n : \E b \in KvBuckets : \E i \in Used(b)' : El(b, i)'.second = x
    <2> TAKE x \in 0..n
    <2>1. CASE x = n BY <1>1, <1>3, <1>10, <1>12, <2>1, Zenon
    <2>2. CASE x # n
      <3>1. x \in 0..(n - 1) BY <1>1, <2>2
      <3>2. PICK b \in KvBuckets : \E i \in Used(b) : El(b, i).second = x
        BY <3>1, Zenon DEF KvRun, KvReached, n
      <3>3. PICK i \in Used(b) : El(b, i).second = x BY <3>2, Zenon
      <3> QED BY <1>9, <1>12, <3>3, Zenon
    <2> QED BY <2>1, <2>2, Zenon
  <1>19. DOMAIN last' \subseteq KvKeys BY Zenon DEF Recorded, KvRun, KvSizes
  <1>20. ASSUME NEW m \in DOMAIN last', Short(m)
         PROVE  \E i \in Used(Hash[m])' :
                  /\ El(Hash[m], i)'.first.text = m
                  /\ m \notin updated' /\ El(Hash[m], i)'.second \notin struck'
                       => values'.content[El(Hash[m], i)'.second + 1] = last'[m]
    <2>1. CASE m # k
      <3>0. m \in DOMAIN last BY <1>20, <2>1, Zenon DEF Recorded
      <3>1. PICK i \in Used(Hash[m]) :
              /\ El(Hash[m], i).first.text = m
              /\ m \notin updated /\ El(Hash[m], i).second \notin struck
                   => values.content[El(Hash[m], i).second + 1] = last[m]
        BY <1>20, <3>0, Zenon DEF KvRun, KvKept
      <3>2. Hash[m] \in KvBuckets BY <1>19, KvAssumption, Zenon DEF KvBuckets
      <3>4. last'[m] = last[m] /\ struck' = struck /\ updated' = updated
        BY <2>1, <3>0, Zenon DEF PutNew, Recorded
      <3>5. El(Hash[m], i)' = El(Hash[m], i) /\ i \in Used(Hash[m])'
        BY <1>9, <1>12, <3>2, Zenon
      <3>6. El(Hash[m], i).second + 1 \in 1..n BY <1>1, <1>14, <3>2
      <3> QED BY <1>5, <3>1, <3>4, <3>5, <3>6, Zenon
    <2>2. CASE m = k
      <3>1. m = k /\ last'[m] = val BY <2>2, Zenon DEF Recorded
      <3> HIDE DEF h
      <3>2. Hash[m] = h BY <3>1, Zenon DEF h
      <3>3. El(Hash[m], top)'.first.text = m BY <1>3, <1>10, <3>1, <3>2, Zenon
      <3>4. values'.content[El(Hash[m], top)'.second + 1] = last'[m]
        BY <1>3, <1>5, <1>10, <3>1, <3>2, Zenon
      <3>5. top \in Used(Hash[m])' BY <1>12, <3>2, Zenon
      <3> QED BY <3>3, <3>4, <3>5, Zenon
    <2> QED BY <2>1, <2>2, Zenon
  <1>21. puts' \in 0..MaxPuts /\ values'.size <= puts' BY <1>1, <1>5
  <1>22. \A b \in KvBuckets : buckets'[b].size <= puts'
    <2> TAKE b \in KvBuckets
    <2>1. /\ buckets[b].size \in Nat /\ buckets[b].size <= puts /\ puts \in Nat
          /\ buckets[h].size \in Nat /\ buckets[h].size <= puts /\ puts' = puts + 1
      BY <1>1, <1>2, Zenon DEF KvRun, KvSizes, PutNew
    <2>2. buckets'[b].size = buckets[b].size \/ buckets'[b].size = buckets[h].size + 1
      BY <1>0, <1>9, Zenon
    <2> QED BY ONLY <2>1, <2>2
  <1>23. values'.size - 1 = n BY <1>1, <1>5
  <1> QED BY <1>5, <1>8, <1>13, <1>15, <1>17, <1>18, <1>19, <1>20, <1>21, <1>22, <1>23, Zenon
          DEF KvRun, KvSizes, KvPlaced, KvIndexed, KvUnique, KvReached, KvKept

\* A put of a key that is found writes its position over one value.
LEMMA KvPutFound ==
  ASSUME KvRun, NEW k \in KvKeys, NEW val \in KvValues, puts < MaxPuts, puts' = puts + 1,
         Find(k) # 0, PutFound(k, val), Recorded(k, val), ~wild'
  PROVE  KvRun'
  <1> DEFINE x == El(Hash[k], Find(k)).second
  <1>1. Hash[k] \in KvBuckets /\ val \in Nat /\ puts \in Nat /\ MaxPuts \in Nat
    BY KvAssumption DEF KvBuckets, KvRun, KvSizes
  <1>2. x \in Nat BY <1>1, FindSome, Zenon DEF KvRun, KvIndexed, KvPairs
  <1>3. val < Len(values.content) /\ values' = [values EXCEPT !.content[val + 1] = x]
    BY Zenon DEF PutFound, Wild, capacity, El
  <1>4. values \in [size : Nat, content : Seq(Nat \cup {Unset})] /\ values.size <= Len(values.content)
    BY Zenon DEF KvRun, KvSizes, Vectors
  <1> HIDE DEF x
  <1> DEFINE z == [values.content EXCEPT ![val + 1] = x]
  <1>5. z \in Seq(Nat \cup {Unset}) /\ Len(z) = Len(values.content)
        /\ \A i \in Nat : i # val + 1 => z[i] = values.content[i]
    <2>1. values.content \in Seq(Nat \cup {Unset}) BY <1>4, Zenon
    <2>2. values.content \in [1..Len(values.content) -> Nat \cup {Unset}]
          /\ Len(values.content) \in Nat BY <2>1
    <2>3. z \in [1..Len(values.content) -> Nat \cup {Unset}] BY <1>2, <2>2, Zenon
    <2>4. z \in Seq(Nat \cup {Unset}) /\ Len(z) = Len(values.content) BY <2>2, <2>3
    <2>5. \A i \in Nat : i # val + 1 => z[i] = values.content[i] BY <1>1, <1>3, <2>2
    <2> QED BY <2>4, <2>5, Zenon
  <1>6. values' = [values EXCEPT !.content = z] BY <1>3, <1>4, Zenon
  <1> HIDE DEF z
  <1>7. values' \in Vectors(Nat) /\ values'.size = values.size /\ values'.content = z
    BY <1>4, <1>5, <1>6, Zenon DEF Vectors
  <1>8. buckets' = buckets /\ updated' = updated \cup {k} /\ struck' = struck \cup {val}
    BY Zenon DEF PutFound, Wild
  <1>9. ASSUME NEW m \in DOMAIN last, m # k, Short(m), NEW i \in Used(Hash[m]),
               El(Hash[m], i).second \notin struck',
               values.content[El(Hash[m], i).second + 1] = last[m]
        PROVE  values'.content[El(Hash[m], i).second + 1] = last'[m]
    <2>1. Hash[m] \in KvBuckets BY KvAssumption, Zenon DEF KvBuckets, KvRun, KvSizes
    <2>2. El(Hash[m], i).second \in Nat BY <2>1, Zenon DEF KvRun, KvIndexed, KvPairs
    <2>3. El(Hash[m], i).second + 1 # val + 1 BY <1>1, <1>8, <1>9, <2>2
    <2>4. last'[m] = last[m] BY <1>9, Zenon DEF Recorded
    <2>5. El(Hash[m], i).second + 1 \in Nat BY <2>2
    <2> QED BY <1>5, <1>7, <1>9, <2>3, <2>4, <2>5, Zenon
  <1>10. \A m \in DOMAIN last' : Short(m) =>
           \E i \in Used(Hash[m]) :
             /\ El(Hash[m], i).first.text = m
             /\ m \notin updated' /\ El(Hash[m], i).second \notin struck'
                  => values'.content[El(Hash[m], i).second + 1] = last'[m]
    <2> SUFFICES ASSUME NEW m \in DOMAIN last', Short(m)
                 PROVE  \E i \in Used(Hash[m]) :
                          /\ El(Hash[m], i).first.text = m
                          /\ m \notin updated' /\ El(Hash[m], i).second \notin struck'
                               => values'.content[El(Hash[m], i).second + 1] = last'[m]
      BY Zenon
    <2>1. CASE m = k
      <3>1. Find(k) \in Used(Hash[k]) /\ El(Hash[k], Find(k)).first.text = k BY FindSome, Zenon
      <3> QED BY <1>8, <2>1, <3>1, Zenon
    <2>2. CASE m # k
      <3>1. m \in DOMAIN last BY <2>2, Zenon DEF Recorded
      <3>2. PICK i \in Used(Hash[m]) :
              /\ El(Hash[m], i).first.text = m
              /\ m \notin updated /\ El(Hash[m], i).second \notin struck
                   => values.content[El(Hash[m], i).second + 1] = last[m]
        BY <3>1, Zenon DEF KvRun, KvKept
      <3> QED BY <1>8, <1>9, <2>2, <3>1, <3>2, Zenon
    <2> QED BY <2>1, <2>2, Zenon
  <1>11. puts' \in 0..MaxPuts /\ values.size <= puts'
         /\ \A b \in KvBuckets : buckets[b].size <= puts'
    <2>1. \A b \in KvBuckets : buckets[b].size \in Nat BY Zenon DEF KvRun, KvSizes, Vectors
    <2> QED BY <1>1, <1>4, <2>1 DEF KvRun, KvSizes
  <1>12. /\ \A b : Used(b)' = Used(b)
         /\ \A b, i : El(b, i)' = El(b, i)
    BY <1>8, Zenon DEF Used, El
  <1>13. KvSizes'
    <2>1. DOMAIN last' \subseteq KvKeys BY Zenon DEF Recorded, KvRun, KvSizes
    <2> QED BY <1>7, <1>8, <1>11, <2>1, Zenon DEF KvRun, KvSizes
  <1>14. KvPlaced' BY <1>12, Zenon DEF KvRun, KvPlaced
  <1>15. KvIndexed'
    <2>1. \A b \in KvBuckets : \A i \in Used(b) :
            El(b, i) \in KvPairs /\ El(b, i).second \in 0..(values'.size - 1)
      BY <1>7, Zenon DEF KvRun, KvIndexed
    <2> QED BY <1>12, <2>1, Zenon DEF KvIndexed
  <1>16. KvUnique' BY <1>12 DEF KvRun, KvUnique
  <1>17. KvReached' BY <1>7, <1>12, Zenon DEF KvRun, KvReached
  <1>18. KvKept' BY <1>8, <1>10, <1>12, Zenon DEF KvKept
  <1> QED BY <1>13, <1>14, <1>15, <1>16, <1>17, <1>18, Zenon DEF KvRun

\* A start makes an empty store.
LEMMA KvStarts ==
  ASSUME KvInv, KvStart, kvup' = "run"
  PROVE  KvRun'
  <1>1. /\ puts' = puts /\ last' = [k \in {} |-> 0]
        /\ buckets' = [b \in KvBuckets |-> vector_init] /\ values' = vector_init
    BY Zenon DEF KvStart, KvInv, KvBuckets
  <1>2. \A X : vector_init \in Vectors(X) /\ vector_init.size = 0
    <2> TAKE X
    <2>0. \A Y : \A m \in Nat : \A a \in [1..m -> Y] : a \in Seq(Y) /\ Len(a) = m
      OBVIOUS
    <2>1. Array(2) \in [1..2 -> X \cup {Unset}] BY Zenon DEF Array
    <2>2. Array(2) \in Seq(X \cup {Unset}) /\ Len(Array(2)) = 2 BY <2>0, <2>1, Zenon
    <2>3. 0 \in Nat /\ 2 \in Nat /\ 0 <= 2 OBVIOUS
    <2> QED BY <2>2, <2>3, Zenon DEF vector_init, Vectors
  <1>3. \A b \in KvBuckets : buckets'[b].size = 0 /\ Used(b)' = {}
    BY <1>1, <1>2 DEF Used
  <1>4. values'.size = 0 /\ values' \in Vectors(Nat) /\ buckets' \in [KvBuckets -> Vectors(KvPairs)]
    BY <1>1, <1>2, Zenon
  <1>5. 0..(values'.size - 1) = {} /\ DOMAIN last' = {} BY <1>1, <1>4
  <1>6. puts' \in 0..MaxPuts /\ values'.size <= puts'
        /\ \A b \in KvBuckets : buckets'[b].size <= puts'
    BY <1>1, <1>3, <1>4, KvAssumption DEF KvInv
  <1> QED BY <1>3, <1>4, <1>5, <1>6, Zenon
    DEF KvRun, KvSizes, KvPlaced, KvIndexed, KvUnique, KvReached, KvKept

-----------------------------------------------------------------------------
(* The rest counts the elements of sets.                                   *)

INSTANCE FiniteSetTheorems

\* The invariant counts: the pairs are as many as the values, and a short key
\* has one.
LEMMA KvRunConsistent ==
  ASSUME KvRun
  PROVE  KvConsistent
  <1> DEFINE n == values.size
             F == [s \in Slots |-> Elem(s).second]
  <1>1. n \in Nat /\ \A b \in KvBuckets : buckets[b].size \in 0..MaxPuts
    <2>1. \A b \in KvBuckets : buckets[b].size \in Nat BY Zenon DEF KvRun, KvSizes, Vectors
    <2> QED BY <2>1, KvAssumption DEF KvRun, KvSizes, Vectors
  <1>2. \A s \in Slots : /\ s = <<s[1], s[2]>> /\ s[1] \in KvBuckets /\ s[2] \in Used(s[1])
                         /\ Elem(s) = El(s[1], s[2])
    BY <1>1 DEF Slots, KvBuckets, Used, Elem, El
  <1>3. \A b \in KvBuckets : \A i \in Used(b) : <<b, i>> \in Slots /\ Elem(<<b, i>>) = El(b, i)
    <2> TAKE b \in KvBuckets
    <2> TAKE i \in Used(b)
    <2>1. i \in 1..MaxPuts /\ i <= buckets[b].size BY <1>1, KvAssumption DEF Used
    <2> QED BY <2>1, Zenon DEF Slots, KvBuckets, Elem, El
  <1>4. F \in [Slots -> 0..(n - 1)] BY <1>2 DEF KvRun, KvIndexed
  <1>5. \A s, t \in Slots : F[s] = F[t] => s = t
    <2> TAKE s, t \in Slots
    <2>1. F[s] = El(s[1], s[2]).second /\ F[t] = El(t[1], t[2]).second BY <1>2, Zenon
    <2> HIDE DEF F
    <2>a. /\ s[1] \in KvBuckets /\ t[1] \in KvBuckets
          /\ s[2] \in Used(s[1]) /\ t[2] \in Used(t[1])
      BY <1>2, Zenon
    <2>b. El(s[1], s[2]).second = El(t[1], t[2]).second => s[1] = t[1] /\ s[2] = t[2]
      BY <2>a DEF KvRun, KvUnique
    <2>2. F[s] = F[t] => s[1] = t[1] /\ s[2] = t[2] BY <2>1, <2>b, Zenon
    <2> QED BY <1>2, <2>2, Zenon
  <1>6. \A x \in 0..(n - 1) : \E s \in Slots : F[s] = x
    <2> TAKE x \in 0..(n - 1)
    <2>1. PICK b \in KvBuckets : \E i \in Used(b) : El(b, i).second = x BY Zenon
      DEF KvRun, KvReached
    <2>2. PICK i \in Used(b) : El(b, i).second = x BY <2>1, Zenon
    <2>3. <<b, i>> \in Slots /\ F[<<b, i>>] = x BY <1>3, <2>2, Zenon
    <2> QED BY <2>3, Zenon
  <1>7. Cardinality(Slots) = n
    <2> HIDE DEF F, n
    <2>1. F \in Injection(Slots, 0..(n - 1)) BY <1>4, <1>5, Zenon DEF Injection, IsInjective
    <2>2. F \in Surjection(Slots, 0..(n - 1)) BY <1>4, <1>6, Zenon DEF Surjection
    <2>3. n - 1 \in Int /\ 0 \in Int BY <1>1
    <2>4. IsFiniteSet(0..(n - 1)) /\ Cardinality(0..(n - 1)) = n
      <3>1. IsFiniteSet(0..(n - 1))
            /\ Cardinality(0..(n - 1)) = IF 0 > n - 1 THEN 0 ELSE (n - 1) - 0 + 1
        BY <2>3, FS_Interval, Zenon
      <3> QED BY <1>1, <3>1
    <2> QED BY <2>1, <2>2, <2>4, FS_Injection, Zenon
  <1>8. {Elem(s).second : s \in Slots} = 0..(n - 1)
    <2>1. \A s \in Slots : F[s] = Elem(s).second BY Zenon
    <2> HIDE DEF F
    <2> QED BY <1>4, <1>6, <2>1, Zenon
  <1>9. ASSUME NEW k \in DOMAIN last, Short(k)
        PROVE  /\ Cardinality({s \in Slots : Elem(s).first.text = k}) = 1
               /\ Find(k) # 0
               /\ k \notin updated /\ buckets[Hash[k]].content[Find(k)].second \notin struck
                    => get(k) = last[k]
    <2>1. k \in KvKeys /\ Hash[k] \in KvBuckets BY KvAssumption, Zenon DEF KvRun, KvSizes, KvBuckets
    <2>2. PICK i \in Used(Hash[k]) :
            /\ El(Hash[k], i).first.text = k
            /\ k \notin updated /\ El(Hash[k], i).second \notin struck
                 => values.content[El(Hash[k], i).second + 1] = last[k]
      BY <1>9, Zenon DEF KvRun, KvKept
    <2>3. Find(k) = i /\ i # 0 BY <1>9, <2>1, <2>2, FindIs, Zenon
    <2>4. \A s \in Slots : Elem(s).first.text = k => s = <<Hash[k], i>>
      <3> SUFFICES ASSUME NEW s \in Slots, Elem(s).first.text = k PROVE s = <<Hash[k], i>>
        BY Zenon
      <3>1. s[1] = Hash[k] /\ s[2] = i BY <1>2, <1>9, <2>1, <2>2 DEF KvRun, KvUnique
      <3> QED BY <1>2, <3>1, Zenon
    <2>5. {s \in Slots : Elem(s).first.text = k} = {<<Hash[k], i>>}
      BY <1>3, <2>1, <2>2, <2>4, Zenon
    <2>6. Cardinality({s \in Slots : Elem(s).first.text = k}) = 1 BY <2>5, FS_Singleton, Zenon
    <2> QED BY <2>2, <2>3, <2>6, Zenon DEF get, El
  <1> QED BY <1>7, <1>8, <1>9, Zenon DEF KvConsistent

\* The buckets of simplekv and its values agree, for any keys, hash function and
\* number of puts and restarts, until an update writes outside the array: a
\* short key that was put is there once, in the bucket of its hash, and get
\* returns the value of one that was put once, unless the update of a key had
\* that value's position for its value.
THEOREM KvIsConsistent == KvSpec => []KvConsistent
  <1>1. KvInit => KvInv BY KvAssumption DEF KvInit, KvInv
  <1>2. KvInv /\ [KvNext]_kvvars => KvInv'
    <2> SUFFICES ASSUME KvInv, [KvNext]_kvvars PROVE KvInv'
      BY Zenon
    <2>1. CASE KvStart
      <3>1. puts' = puts BY <2>1, Zenon DEF KvStart
      <3>2. kvup' = "run" => KvRun' BY <2>1, KvStarts, Zenon
      <3> QED BY <3>1, <3>2, Zenon DEF KvInv
    <2>2. CASE KvStop BY <2>2, Zenon DEF KvStop, KvInv
    <2>3. ASSUME NEW k \in KvKeys, GetAbsent(k) PROVE KvInv'
      BY <2>3, Zenon DEF GetAbsent, KvInv
    <2>4. ASSUME NEW k \in KvKeys, NEW val \in KvValues, NEW persist \in BOOLEAN,
                 put(k, val, persist)
          PROVE  KvInv'
      <3>1. puts < MaxPuts /\ puts' = puts + 1 /\ kvup = "run" /\ Recorded(k, val)
        BY <2>4, Zenon DEF put, Recorded
      <3>2. puts' \in 0..MaxPuts BY <3>1, KvAssumption DEF KvInv
      <3>3. CASE wild
        <4>1. wild' = wild \/ wild' = TRUE BY <2>4, Zenon DEF put, PutNew, PutFound, Wild
        <4> QED BY <3>2, <3>3, <4>1, Zenon DEF KvInv
      <3>4. CASE ~wild /\ Find(k) = 0
        <4>1. PutNew(k, val) BY <2>4, <3>4, Zenon DEF put
        <4>2. KvRun' BY <3>1, <3>4, <4>1, KvPutNew, Zenon DEF KvInv
        <4> QED BY <3>2, <4>2, Zenon DEF KvInv
      <3>5. CASE ~wild /\ Find(k) # 0
        <4>1. PutFound(k, val) BY <2>4, <3>5, Zenon DEF put
        <4>2. ~wild' => KvRun' BY <3>1, <3>5, <4>1, KvPutFound, Zenon DEF KvInv
        <4> QED BY <3>2, <4>2, Zenon DEF KvInv
      <3> QED BY <3>3, <3>4, <3>5, Zenon
    <2>5. CASE UNCHANGED kvvars
      <3>1. /\ \A b : Used(b)' = Used(b)
            /\ \A b, i : El(b, i)' = El(b, i)
        BY <2>5, Zenon DEF kvvars, Used, El
      <3>2. KvSizes => KvSizes' BY <2>5, Zenon DEF kvvars, history, KvSizes
      <3>3. KvPlaced => KvPlaced' BY <3>1, Zenon DEF KvPlaced
      <3>a. values' = values /\ last' = last /\ struck' = struck /\ updated' = updated
        BY <2>5, Zenon DEF kvvars, history
      <3>4. KvIndexed => KvIndexed' BY <3>a, <3>1, ZenonT(30) DEF KvIndexed
      <3>5. KvUnique => KvUnique' BY <3>1 DEF KvUnique
      <3>6. KvReached => KvReached' BY <3>a, <3>1, ZenonT(30) DEF KvReached
      <3>7. KvKept => KvKept' BY <3>a, <3>1, ZenonT(30) DEF KvKept
      <3>8. KvRun => KvRun' BY <3>2, <3>3, <3>4, <3>5, <3>6, <3>7, Zenon DEF KvRun
      <3> QED BY <2>5, <3>8, Zenon DEF kvvars, history, KvInv
    <2> QED BY <2>1, <2>2, <2>3, <2>4, <2>5, Zenon DEF KvNext
  <1>3. KvInv => KvConsistent
    BY KvRunConsistent, Zenon DEF KvInv, KvConsistent
  <1> QED BY <1>1, <1>2, <1>3, PTL DEF KvSpec

-----------------------------------------------------------------------------
(* libvram and the descriptor tables.                                      *)

\* Buffers are numbered from 1 on, and what a call that threw left behind is
\* in no vector.
VrInv ==
  /\ \E c \in Nat : made = 1..c
  /\ thrown \in Nat /\ buffers \in Seq(Nat) /\ VramPaired

\* The number of a new buffer.
LEMMA VrNew ==
  ASSUME VrInv
  PROVE  /\ Cardinality(made) \in Nat /\ made = 1..Cardinality(made)
         /\ NewBuffer \in Nat \ {0} /\ NewBuffer \notin made
         /\ \E c \in Nat : made \cup {NewBuffer} = 1..c
         /\ Cardinality(made \cup {NewBuffer}) = Cardinality(made) + 1
  <1>1. PICK c \in Nat : made = 1..c BY Zenon DEF VrInv
  <1>2. \A d \in Nat : Cardinality(1..d) = d
    <2> TAKE d \in Nat
    <2>1. Cardinality(1..d) = IF 1 > d THEN 0 ELSE d - 1 + 1 BY FS_Interval
    <2> QED BY <2>1
  <1>3. Cardinality(made) = c /\ NewBuffer = c + 1 BY <1>1, <1>2, Zenon DEF NewBuffer
  <1>4. made \cup {NewBuffer} = 1..(c + 1) BY <1>1, <1>3
  <1>5. Cardinality(made \cup {NewBuffer}) = c + 1 /\ c + 1 \in Nat
    <2>1. c + 1 \in Nat OBVIOUS
    <2>2. Cardinality(1..(c + 1)) = c + 1 BY <1>2, <2>1, Zenon
    <2> QED BY <1>4, <2>1, <2>2, Zenon
  <1>6. NewBuffer \in Nat \ {0} /\ NewBuffer \notin made BY <1>1, <1>3
  <1> HIDE DEF NewBuffer
  <1> QED BY <1>1, <1>3, <1>4, <1>5, <1>6, Zenon

\* An allocation, wherever it throws.
LEMMA VrAllocate ==
  ASSUME VrInv, NEW ok \in BOOLEAN, createVertexBuffer(ok)
  PROVE  /\ VrInv' /\ made \subseteq made' /\ thrown' >= thrown
         /\ ok => NewBuffer \in made'
         /\ ~ok => thrown' > 0
  <1>1. /\ thrown \in Nat /\ buffers \in Seq(Nat) /\ buffers = memories /\ Len(buffers) \in Nat
        /\ \A i \in DOMAIN buffers : buffers[i] \in allocated
        /\ allocated \subseteq made /\ Cardinality(made) - Len(buffers) <= thrown
    BY DEF VrInv, VramPaired
  <1>2. thrown' = IF ok THEN thrown ELSE thrown + 1 BY Zenon DEF createVertexBuffer
  <1>3. CASE ~ok
    <2>1. buffers' = buffers /\ memories' = memories /\ thrown' = thrown + 1
      BY <1>2, <1>3, Zenon DEF createVertexBuffer
    <2>2. \/ made' = made /\ allocated' = allocated
          \/ made' = made \cup {NewBuffer} /\ allocated' \subseteq allocated \cup {NewBuffer}
             /\ allocated \subseteq allocated'
      BY <1>3, Zenon DEF createVertexBuffer
    <2>3. (\E c \in Nat : made' = 1..c) /\ Cardinality(made') <= Cardinality(made) + 1
          /\ Cardinality(made') \in Nat
      <3>1. CASE made' = made BY <3>1, VrNew DEF VrInv
      <3>2. CASE made' = made \cup {NewBuffer} BY <3>2, VrNew
      <3> QED BY <2>2, <3>1, <3>2, Zenon
    <2>4. VramPaired' BY <1>1, <2>1, <2>2, <2>3, VrNew DEF VramPaired
    <2>5. VrInv' BY <1>1, <2>1, <2>3, <2>4 DEF VrInv
    <2> QED BY <1>1, <1>3, <2>1, <2>2, <2>5
  <1>4. CASE ok
    <2>1. /\ made' = made \cup {NewBuffer} /\ allocated' = allocated \cup {NewBuffer}
          /\ buffers' = Append(buffers, NewBuffer) /\ memories' = Append(memories, NewBuffer)
          /\ thrown' = thrown
      BY <1>2, <1>4, Zenon DEF createVertexBuffer
    <2>2. (\E c \in Nat : made' = 1..c) /\ Cardinality(made') = Cardinality(made) + 1
          /\ Cardinality(made) \in Nat /\ NewBuffer \in Nat
      BY <2>1, VrNew, Zenon
    <2> HIDE DEF NewBuffer
    <2>3. /\ buffers' \in Seq(Nat) /\ Len(buffers') = Len(buffers) + 1 /\ buffers' = memories'
          /\ \A i \in DOMAIN buffers' : buffers'[i] \in allocated'
      BY <1>1, <2>1, <2>2, SMTT(30)
    <2>4. VramPaired' BY <1>1, <2>1, <2>2, <2>3 DEF VramPaired
    <2>5. VrInv' BY <1>1, <2>1, <2>2, <2>3, <2>4, Zenon DEF VrInv
    <2> QED BY <1>1, <1>4, <2>1, <2>5
  <1> QED BY <1>3, <1>4, Zenon
\* The memory of the files: of a sized descriptor whose allocation did not
\* throw, and of a path the redirect has mapped.
TableRegion(fd) == [file |-> <<"table", fd>>, addr |-> fd_desc[fd].region, len |-> fd_desc[fd].len]
RedirectRegion(p) == [file |-> <<"redirect", p>>, addr |-> mapped[p].addr, len |-> mapped[p].len]
Regions ==
  {TableRegion(fd) : fd \in {f \in DOMAIN fd_desc : fd_desc[f].len # 0 /\ fd_desc[f].region # 0}}
  \cup {RedirectRegion(p) : p \in DOMAIN mapped}

HasRoom(r) ==
  /\ r.addr \in Nat \ {0} /\ r.len \in Nat \ {0}
  /\ IF fsys = "cxl" THEN r.addr + r.len <= bump_off + 1 ELSE r.addr \in made
Apart(r, s) ==
  IF fsys = "cxl" THEN ~ Overlap(r.addr, r.len, s.addr, s.len) ELSE r.addr # s.addr

\* Regions lie in what the allocator has handed out, those of different files
\* apart, and a mapping is in its file's region.
RegionsInv ==
  /\ \A r \in Regions : HasRoom(r)
  /\ \A r, s \in Regions : r.file # s.file => Apart(r, s)
GivenInv ==
  \A g \in given :
    /\ g.len \in Nat /\ g.file[1] \in {"table", "redirect"}
    /\ g.addr = 0 => g.file[1] = "table" /\ fsys = "vram" /\ thrown > 0
    /\ g.addr # 0 => [file |-> g.file, addr |-> g.addr, len |-> g.room] \in Regions
    /\ g.file[1] = "table" => g.len <= g.room
TableInv ==
  /\ fsys \in {"cxl", "vram"} /\ bump_off \in Nat /\ calls \in Nat
  /\ \E n \in Nat : DOMAIN fd_desc = 1..n
  /\ fd_desc \in [DOMAIN fd_desc -> [region : Nat, len : Nat, seek : Nat]]
  /\ mapped \in [DOMAIN mapped -> [addr : Nat, len : Nat]]
  /\ calls = 0 => DOMAIN fd_desc = {} /\ DOMAIN mapped = {} /\ given = {}
  /\ \A fd \in DOMAIN fd_desc :
       fd_desc[fd].len # 0 /\ fd_desc[fd].region = 0 => fsys = "vram" /\ thrown > 0
FtInv == VrInv /\ TableInv /\ RegionsInv /\ GivenInv

\* A new descriptor is none that is in use.
LEMMA FreeFd ==
  ASSUME TableInv
  PROVE  get_free_fd \notin DOMAIN fd_desc
         /\ \E n \in Nat : DOMAIN fd_desc \cup {get_free_fd} = 1..n
  <1>1. PICK n \in Nat : DOMAIN fd_desc = 1..n BY Zenon DEF TableInv
  <1>2. Cardinality(DOMAIN fd_desc) = n
    <2>1. Cardinality(1..n) = IF 1 > n THEN 0 ELSE n - 1 + 1 BY FS_Interval
    <2> QED BY <1>1, <2>1
  <1> DEFINE P(fd) == ~ fd_exists(fd) /\ \A e \in 1..(fd - 1) : fd_exists(e)
  <1>3. get_free_fd = CHOOSE fd \in 1..(n + 1) : P(fd) BY <1>2, Zenon DEF get_free_fd
  <1>4. P(n + 1) /\ \A fd \in 1..(n + 1) : P(fd) => fd = n + 1
    BY <1>1 DEF fd_exists
  <1> HIDE DEF P
  <1>5. get_free_fd = n + 1 BY <1>3, <1>4
  <1>6. DOMAIN fd_desc \cup {n + 1} = 1..(n + 1) /\ n + 1 \notin DOMAIN fd_desc BY <1>1
  <1> QED BY <1>5, <1>6

\* Regions stay apart when the allocators go on and at most one region is
\* added, in memory that was not handed out before.
LEMMA RegionsGrow ==
  ASSUME VrInv, TableInv, RegionsInv, fsys' = fsys, bump_off' \in Nat, bump_off' >= bump_off,
         made \subseteq made', NEW new,
         \/ Regions' = Regions
         \/ /\ Regions' = Regions \cup {new} /\ HasRoom(new)'
            /\ IF fsys = "cxl" THEN new.addr = bump_off + 1 ELSE new.addr \notin made
  PROVE  RegionsInv'
  <1>1. \A r \in Regions : HasRoom(r)' BY DEF RegionsInv, HasRoom, TableInv
  <1>2. \A r, s : Apart(r, s)' <=> Apart(r, s) BY Zenon DEF Apart
  <1>3. CASE Regions' = Regions BY <1>1, <1>2, <1>3, Zenon DEF RegionsInv
  <1>4. CASE Regions' # Regions
    <2>1. \A r \in Regions : Apart(r, new) /\ Apart(new, r)
      <3> TAKE r \in Regions
      <3>1. HasRoom(r) BY Zenon DEF RegionsInv
      <3>2. CASE fsys = "cxl"
        <4>1. r.addr + r.len <= new.addr /\ new.addr = bump_off + 1 BY <1>4, <3>1, <3>2, Zenon DEF HasRoom
        <4>2. r.addr \in Nat /\ r.len \in Nat /\ new.len \in Nat /\ bump_off \in Nat
          BY <1>4, <3>1, Zenon DEF HasRoom, TableInv
        <4> QED BY <3>2, <4>1, <4>2 DEF Apart, Overlap
      <3>3. CASE fsys # "cxl" BY <1>4, <3>1, <3>3, Zenon DEF HasRoom, Apart
      <3> QED BY <3>2, <3>3, Zenon
    <2> QED BY <1>1, <1>2, <1>4, <2>1, Zenon DEF RegionsInv
  <1> QED BY <1>3, <1>4, Zenon

\* Memory from the allocator is new, unless libvram threw.
LEMMA AllocateNew ==
  ASSUME VrInv, TableInv, NEW bytes \in Nat \ {0}, NEW addr, NEW ok \in BOOLEAN,
         Allocate(bytes, addr, ok), fsys' = fsys
  PROVE  /\ VrInv' /\ bump_off' \in Nat /\ bump_off' >= bump_off /\ made \subseteq made'
         /\ addr \in Nat /\ thrown' >= thrown /\ thrown \in Nat /\ thrown' \in Nat
         /\ ok => /\ addr # 0
                  /\ IF fsys = "cxl" THEN addr = bump_off + 1 ELSE addr \notin made
                  /\ \A f : HasRoom([file |-> f, addr |-> addr, len |-> bytes])'
         /\ ~ok => addr = 0 /\ fsys = "vram" /\ thrown' > 0
  <1>0. bump_off \in Nat /\ thrown \in Nat BY Zenon DEF TableInv, VrInv
  <1>1. CASE fsys = "cxl"
    <2>1. ok /\ addr = bump_off + 1 /\ bump_off' = bump_off + bytes /\ UNCHANGED vrvars
      BY <1>1, Zenon DEF Allocate, malloc
    <2>2. VrInv' /\ made' = made /\ thrown' = thrown BY <2>1, Zenon DEF VrInv, VramPaired, vrvars
    <2>3. \A f : HasRoom([file |-> f, addr |-> addr, len |-> bytes])'
      BY <1>0, <1>1, <2>1 DEF HasRoom
    <2> QED BY <1>0, <1>1, <2>1, <2>2, <2>3
  <1>2. CASE fsys # "cxl"
    <2>1. /\ fsys = "vram" /\ createVertexBuffer(ok) /\ bump_off' = bump_off
          /\ addr = IF ok THEN NewBuffer ELSE 0
      BY <1>2, Zenon DEF Allocate, TableInv
    <2>2. /\ VrInv' /\ made \subseteq made' /\ thrown' >= thrown
          /\ ok => NewBuffer \in made'
          /\ ~ok => thrown' > 0
      BY <2>1, VrAllocate, Zenon
    <2>3. NewBuffer \in Nat \ {0} /\ NewBuffer \notin made BY VrNew, Zenon
    <2>4. thrown' \in Nat BY <2>2, Zenon DEF VrInv
    <2>5. ok => \A f : HasRoom([file |-> f, addr |-> addr, len |-> bytes])'
      BY <1>2, <2>1, <2>2, <2>3, Zenon DEF HasRoom
    <2> QED BY <1>0, <1>2, <2>1, <2>2, <2>3, <2>4, <2>5
  <1> QED BY <1>1, <1>2, Zenon
\* Mappings that were given out stay good while regions are only added.
LEMMA GivenKept ==
  ASSUME GivenInv, Regions \subseteq Regions', fsys' = fsys, thrown \in Nat, thrown' \in Nat,
         thrown' >= thrown, NEW g \in given
  PROVE  /\ g.len \in Nat /\ g.file[1] \in {"table", "redirect"}
         /\ g.addr = 0 => g.file[1] = "table" /\ fsys' = "vram" /\ thrown' > 0
         /\ g.addr # 0 => [file |-> g.file, addr |-> g.addr, len |-> g.room] \in Regions'
         /\ g.file[1] = "table" => g.len <= g.room
  BY DEF GivenInv

\* The first state: no descriptor, no region and no buffer.
LEMMA FtInvInit == FtInit /\ VrInit => FtInv
  <1> SUFFICES ASSUME FtInit, VrInit PROVE FtInv
    BY Zenon
  <1>1. VrInv
    <2>1. made = 1..0 /\ Cardinality(made) = 0 BY FS_EmptySet DEF VrInit
    <2> QED BY <2>1 DEF VrInit, VrInv, VramPaired
  <1>2. DOMAIN fd_desc = {} /\ DOMAIN mapped = {} /\ given = {} BY Zenon DEF FtInit, EmptyMap
  <1>3. TableInv
    <2>1. DOMAIN fd_desc = 1..0 BY <1>2
    <2>2. fd_desc = [x \in DOMAIN fd_desc |-> fd_desc[x]] /\ mapped = [x \in DOMAIN mapped |-> mapped[x]]
      BY Zenon DEF FtInit, EmptyMap
    <2>3. /\ fd_desc \in [DOMAIN fd_desc -> [region : Nat, len : Nat, seek : Nat]]
          /\ mapped \in [DOMAIN mapped -> [addr : Nat, len : Nat]]
      BY <1>2, <2>2, Zenon
    <2> QED BY <1>2, <2>1, <2>3, Zenon DEF FtInit, TableInv
  <1>4. Regions = {} BY <1>2, Zenon DEF Regions
  <1> QED BY <1>1, <1>2, <1>3, <1>4, Zenon DEF FtInv, RegionsInv, GivenInv

\* A step that leaves descriptors, mappings and allocators alone.
LEMMA FtIdle ==
  ASSUME FtInv, UNCHANGED <<fsys, fd_desc, bump_off, mapped, given, made, allocated, buffers,
                            memories, thrown>>,
         calls' \in Nat, calls' >= calls
  PROVE  FtInv'
  <1>1. VrInv' BY Zenon DEF FtInv, VrInv, VramPaired
  <1>2. Regions' = Regions BY Zenon DEF Regions, TableRegion, RedirectRegion
  <1>3. RegionsInv'
    <2>1. \A r, s : (HasRoom(r)' <=> HasRoom(r)) /\ (Apart(r, s)' <=> Apart(r, s))
      BY Zenon DEF HasRoom, Apart
    <2> QED BY <1>2, <2>1, Zenon DEF FtInv, RegionsInv
  <1>4. GivenInv' BY <1>2, Zenon DEF FtInv, GivenInv
  <1>5. TableInv' BY DEF FtInv, TableInv
  <1> QED BY <1>1, <1>3, <1>4, <1>5, Zenon DEF FtInv

\* open: a new descriptor has no region yet.
LEMMA FtOpen ==
  ASSUME FtInv, NEW p \in Paths, open(p)
  PROVE  FtInv'
  <1>1. calls' = calls + 1 /\ calls \in Nat BY Zenon DEF open, Call, FtInv, TableInv
  <1>2. CASE p \in DOMAIN path_to_fd
    BY <1>1, <1>2, FtIdle DEF open, vrvars
  <1>3. CASE p \notin DOMAIN path_to_fd
    <2> DEFINE d == get_free_fd
               e == [region |-> 0, len |-> 0, seek |-> 0]
    <2>1. d \notin DOMAIN fd_desc /\ \E n \in Nat : DOMAIN fd_desc \cup {d} = 1..n
      BY FreeFd, Zenon DEF FtInv
    <2>2. fd_desc' = [y \in DOMAIN fd_desc \cup {d} |-> IF y = d THEN e ELSE fd_desc[y]]
      BY <1>3, Zenon DEF open, create_fd, Put
    <2>3. /\ UNCHANGED <<fsys, bump_off, mapped, given, made, allocated, buffers, memories, thrown>>
      BY Zenon DEF open, vrvars
    <2>4. PICK fd : fd = d BY Zenon
    <2>5. /\ DOMAIN fd_desc' = DOMAIN fd_desc \cup {fd} /\ fd \notin DOMAIN fd_desc
          /\ fd_desc'[fd] = e /\ \A f \in DOMAIN fd_desc : fd_desc'[f] = fd_desc[f]
          /\ \E n \in Nat : DOMAIN fd_desc' = 1..n
      BY <2>1, <2>2, <2>4, Zenon
    <2> HIDE DEF d
    <2>6. Regions' = Regions
      <3>1. {f \in DOMAIN fd_desc' : fd_desc'[f].len # 0 /\ fd_desc'[f].region # 0}
              = {f \in DOMAIN fd_desc : fd_desc[f].len # 0 /\ fd_desc[f].region # 0}
        BY <2>5, SMTT(30)
      <3>2. \A f \in DOMAIN fd_desc : TableRegion(f)' = TableRegion(f)
        BY <2>5, Zenon DEF TableRegion
      <3>3. mapped' = mapped /\ \A q : RedirectRegion(q)' = RedirectRegion(q)
        BY <2>3, Zenon DEF RedirectRegion
      <3> QED BY <3>1, <3>2, <3>3 DEF Regions
    <2>7. VrInv' BY <2>3, Zenon DEF FtInv, VrInv, VramPaired
    <2>8. TableInv'
      <3>1. fd_desc' \in [DOMAIN fd_desc' -> [region : Nat, len : Nat, seek : Nat]]
        <4>1. e \in [region : Nat, len : Nat, seek : Nat] BY Zenon
        <4>2. \A f \in DOMAIN fd_desc' : fd_desc'[f] \in [region : Nat, len : Nat, seek : Nat]
          BY <2>5, <4>1, Zenon DEF FtInv, TableInv
        <4>3. fd_desc' = [f \in DOMAIN fd_desc' |-> fd_desc'[f]] BY <2>2, Zenon
        <4> QED BY <4>2, <4>3, Zenon
      <3>2. \A f \in DOMAIN fd_desc' :
              fd_desc'[f].len # 0 /\ fd_desc'[f].region = 0 => fsys' = "vram" /\ thrown' > 0
        <4>1. e.len = 0 BY Zenon
        <4> QED BY <2>3, <2>5, <4>1, Zenon DEF FtInv, TableInv
      <3>3. /\ fsys' \in {"cxl", "vram"} /\ bump_off' \in Nat
            /\ mapped' \in [DOMAIN mapped' -> [addr : Nat, len : Nat]]
        BY <2>3, Zenon DEF FtInv, TableInv
      <3>4. calls' \in Nat /\ calls' # 0 BY <1>1
      <3> QED BY <2>5, <3>1, <3>2, <3>3, <3>4, Zenon DEF TableInv
    <2>9. GivenInv' BY <2>3, <2>6, Zenon DEF FtInv, GivenInv
    <2>10. RegionsInv'
      BY <2>3, <2>6, RegionsGrow DEF FtInv, TableInv
    <2> QED BY <2>7, <2>8, <2>9, <2>10, Zenon DEF FtInv
  <1> QED BY <1>2, <1>3, Zenon

\* lseek: the assertion, nothing to do, or a region of its own.
LEMMA FtLseek ==
  ASSUME FtInv, NEW fd, NEW off \in Nat, lseek(fd, off)
  PROVE  FtInv'
  <1>1. /\ calls' = calls + 1 /\ calls \in Nat /\ fd \in DOMAIN fd_desc /\ thrown \in Nat
        /\ UNCHANGED <<fsys, path_to_fd, mapped, given>>
    BY Zenon DEF lseek, Call, fd_exists, FtInv, TableInv, VrInv
  <1>2. fd_desc \in [DOMAIN fd_desc -> [region : Nat, len : Nat, seek : Nat]]
    BY Zenon DEF FtInv, TableInv
  <1>3. ASSUME fd_desc' = [fd_desc EXCEPT ![fd].seek = off], UNCHANGED <<bump_off, vrvars>>
        PROVE  FtInv'
    <2>1. /\ DOMAIN fd_desc' = DOMAIN fd_desc
          /\ fd_desc' \in [DOMAIN fd_desc -> [region : Nat, len : Nat, seek : Nat]]
          /\ \A f \in DOMAIN fd_desc : fd_desc'[f].region = fd_desc[f].region
                                       /\ fd_desc'[f].len = fd_desc[f].len
      BY <1>1, <1>2, <1>3, Zenon
    <2>2. Regions' = Regions
      BY <1>1, <2>1, Zenon DEF Regions, TableRegion, RedirectRegion
    <2>3. VrInv' BY <1>3, Zenon DEF FtInv, VrInv, VramPaired, vrvars
    <2>4. TableInv'
      <3>1. bump_off' = bump_off /\ thrown' = thrown BY <1>3, Zenon DEF vrvars
      <3>2. calls' \in Nat /\ calls' # 0 BY <1>1
      <3> QED BY <1>1, <2>1, <3>1, <3>2, Zenon DEF FtInv, TableInv
    <2>5. GivenInv' BY <1>1, <1>3, <2>2, Zenon DEF FtInv, GivenInv, vrvars
    <2>6. RegionsInv' BY <1>1, <1>3, <2>2, RegionsGrow, SMTT(30) DEF FtInv, TableInv, vrvars
    <2> QED BY <2>3, <2>4, <2>5, <2>6, Zenon DEF FtInv
  <1>4. ASSUME NEW addr, NEW ok \in BOOLEAN, off > 0, fd_desc[fd].len = 0, Allocate(off, addr, ok),
               fd_desc' = [fd_desc EXCEPT ![fd] = [region |-> addr, len |-> off, seek |-> off]]
        PROVE  FtInv'
    <2>1. off \in Nat \ {0} BY <1>4
    <2> DEFINE new == [file |-> <<"table", fd>>, addr |-> addr, len |-> off]
    <2>2. /\ VrInv' /\ bump_off' \in Nat /\ bump_off' >= bump_off /\ made \subseteq made'
          /\ addr \in Nat /\ thrown' >= thrown /\ thrown' \in Nat
          /\ ok => /\ addr # 0
                   /\ IF fsys = "cxl" THEN addr = bump_off + 1 ELSE addr \notin made
                   /\ HasRoom(new)'
          /\ ~ok => addr = 0 /\ fsys = "vram" /\ thrown' > 0
      BY <1>1, <1>4, <2>1, AllocateNew, Zenon DEF FtInv
    <2>3. /\ DOMAIN fd_desc' = DOMAIN fd_desc
          /\ fd_desc'[fd] = [region |-> addr, len |-> off, seek |-> off]
          /\ \A f \in DOMAIN fd_desc : f # fd => fd_desc'[f] = fd_desc[f]
          /\ fd_desc' \in [DOMAIN fd_desc -> [region : Nat, len : Nat, seek : Nat]]
      BY <1>1, <1>2, <1>4, <2>2, Zenon
    <2>4. TableRegion(fd)' = new BY <2>3 DEF TableRegion
    <2>5. \A f \in DOMAIN fd_desc : f # fd => TableRegion(f)' = TableRegion(f)
      BY <2>3, Zenon DEF TableRegion
    <2>6. Regions' = IF ok THEN Regions \cup {new} ELSE Regions
      <3> HIDE DEF new
      <3>1. \A p \in DOMAIN mapped : RedirectRegion(p)' = RedirectRegion(p)
        BY <1>1, Zenon DEF RedirectRegion
      <3> DEFINE T == {f \in DOMAIN fd_desc : fd_desc[f].len # 0 /\ fd_desc[f].region # 0}
                 T2 == {f \in DOMAIN fd_desc' : fd_desc'[f].len # 0 /\ fd_desc'[f].region # 0}
      <3>2. fd \notin T /\ T2 = IF ok THEN T \cup {fd} ELSE T
        BY <1>1, <1>4, <2>2, <2>3
      <3>3. T \subseteq DOMAIN fd_desc BY Zenon
      <3>4. Regions = {TableRegion(f) : f \in T} \cup {RedirectRegion(p) : p \in DOMAIN mapped}
        BY Zenon DEF Regions
      <3>5. Regions' = {TableRegion(f)' : f \in T2} \cup {RedirectRegion(p)' : p \in DOMAIN mapped}
        BY <1>1, Zenon DEF Regions
      <3> HIDE DEF T, T2
      <3> QED BY <2>4, <2>5, <3>1, <3>2, <3>3, <3>4, <3>5, Zenon
    <2>7. TableInv'
      <3>1. \A f \in DOMAIN fd_desc' :
              fd_desc'[f].len # 0 /\ fd_desc'[f].region = 0 => fsys' = "vram" /\ thrown' > 0
        <4> TAKE f \in DOMAIN fd_desc'
        <4>1. CASE f = fd BY <1>1, <2>2, <2>3, <4>1
        <4>2. CASE f # fd
          <5>1. f \in DOMAIN fd_desc /\ fd_desc'[f] = fd_desc[f] BY <2>3, <4>2, Zenon
          <5>2. fd_desc[f].len # 0 /\ fd_desc[f].region = 0 => fsys = "vram" /\ thrown > 0
            BY <5>1, Zenon DEF FtInv, TableInv
          <5>3. thrown > 0 => thrown' > 0 BY <1>1, <2>2
          <5> QED BY <1>1, <5>1, <5>2, <5>3, Zenon
        <4> QED BY <4>1, <4>2, Zenon
      <3>2. /\ fsys' \in {"cxl", "vram"} /\ (\E n \in Nat : DOMAIN fd_desc' = 1..n)
            /\ mapped' \in [DOMAIN mapped' -> [addr : Nat, len : Nat]]
        BY <1>1, <2>3, Zenon DEF FtInv, TableInv
      <3>3. calls' \in Nat /\ calls' # 0 BY <1>1
      <3> QED BY <2>2, <2>3, <3>1, <3>2, <3>3, Zenon DEF TableInv
    <2>8. RegionsInv'
      <3>1. new.addr = addr BY Zenon
      <3> HIDE DEF new
      <3> QED BY <1>1, <2>2, <2>6, <3>1, RegionsGrow, Zenon DEF FtInv
    <2>9. GivenInv'
      <3>1. \A g \in given :
              /\ g.len \in Nat /\ g.file[1] \in {"table", "redirect"}
              /\ g.addr = 0 => g.file[1] = "table" /\ fsys' = "vram" /\ thrown' > 0
              /\ g.addr # 0 => [file |-> g.file, addr |-> g.addr, len |-> g.room] \in Regions'
              /\ g.file[1] = "table" => g.len <= g.room
        BY <1>1, <2>2, <2>6, GivenKept, Zenon DEF FtInv
      <3> QED BY <1>1, <3>1, Zenon DEF GivenInv
    <2> QED BY <2>2, <2>7, <2>8, <2>9, Zenon DEF FtInv
  <1>5. ASSUME fd_desc' = [fd_desc EXCEPT ![fd].seek = 0], off = 0, UNCHANGED <<bump_off, vrvars>>
        PROVE  FtInv'
    BY <1>3, <1>5, Zenon
  <1> QED BY <1>3, <1>4, <1>5, Zenon DEF lseek
\* mmap of a descriptor: inside the file's region.
LEMMA FtMmap ==
  ASSUME FtInv, NEW fd, NEW length \in Lengths, NEW offset \in Nat, mmap(fd, length, offset)
  PROVE  FtInv'
  <1>1. /\ calls' = calls + 1 /\ calls \in Nat /\ fd \in DOMAIN fd_desc /\ thrown \in Nat
        /\ UNCHANGED <<fsys, fd_desc, bump_off, mapped, made, allocated, buffers, memories, thrown>>
    BY Zenon DEF mmap, Call, fd_exists, FtInv, TableInv, VrInv, vrvars
  <1>2. length \in Nat \ {0} BY FileTableAssumption, Zenon
  <1>3. /\ fd_desc[fd].len \in Nat /\ fd_desc[fd].region \in Nat
        /\ fd_desc[fd].len # 0 /\ fd_desc[fd].region = 0 => fsys = "vram" /\ thrown > 0
    BY <1>1, Zenon DEF FtInv, TableInv
  <1>4. VrInv' BY <1>1, Zenon DEF FtInv, VrInv, VramPaired
  <1>5. TableInv'
    <2>1. calls' \in Nat /\ calls' # 0 BY <1>1
    <2> QED BY <1>1, <2>1, Zenon DEF FtInv, TableInv
  <1>6. Regions' = Regions BY <1>1, Zenon DEF Regions, TableRegion, RedirectRegion
  <1>7. RegionsInv' BY <1>1, <1>6, RegionsGrow, SMTT(30) DEF FtInv, TableInv
  <1>8. GivenInv'
    <2> DEFINE m == [file |-> <<"table", fd>>, addr |-> fd_desc[fd].region, len |-> length,
                     room |-> fd_desc[fd].len]
    <2>1. CASE length + offset > fd_desc[fd].len
      BY <1>1, <1>6, <2>1, Zenon DEF mmap, FtInv, GivenInv
    <2>2. CASE ~(length + offset > fd_desc[fd].len)
      <3>1. given' = given \cup {m} BY <2>2, Zenon DEF mmap
      <3>2. fd_desc[fd].len # 0 /\ length <= fd_desc[fd].len BY <1>2, <1>3, <2>2
      <3>3. m.addr # 0 => [file |-> m.file, addr |-> m.addr, len |-> m.room] \in Regions
        BY <1>1, <3>2, Zenon DEF Regions, TableRegion
      <3>4. /\ m.len \in Nat /\ m.file[1] = "table" /\ m.len <= m.room
            /\ m.addr = 0 => fsys = "vram" /\ thrown > 0
        BY <1>2, <1>3, <3>2, Zenon
      <3> HIDE DEF m
      <3> QED BY <1>1, <1>6, <3>1, <3>3, <3>4, Zenon DEF FtInv, GivenInv
    <2> QED BY <2>1, <2>2, Zenon
  <1> QED BY <1>4, <1>5, <1>7, <1>8, Zenon DEF FtInv

\* mmap of the redirect: the region of the path, or a new one.
LEMMA FtRedirect ==
  ASSUME FtInv, NEW p \in Paths, NEW length \in Lengths, redirect_mmap(p, length)
  PROVE  FtInv'
  <1>1. /\ calls' = calls + 1 /\ calls \in Nat /\ thrown \in Nat
        /\ UNCHANGED <<fsys, fd_desc>>
    BY Zenon DEF redirect_mmap, Call, FtInv, TableInv, VrInv
  <1>2. length \in Nat \ {0} BY FileTableAssumption, Zenon
  <1>3. mapped \in [DOMAIN mapped -> [addr : Nat, len : Nat]] BY Zenon DEF FtInv, TableInv
  <1>4. CASE p \in DOMAIN mapped
    <2> DEFINE m == [file |-> <<"redirect", p>>, addr |-> mapped[p].addr, len |-> length,
                     room |-> mapped[p].len]
    <2>1. /\ given' = given \cup {m}
          /\ UNCHANGED <<mapped, bump_off, made, allocated, buffers, memories, thrown>>
      BY <1>4, Zenon DEF redirect_mmap, vrvars
    <2>2. VrInv' BY <2>1, Zenon DEF FtInv, VrInv, VramPaired
    <2>3. TableInv'
      <3>1. calls' \in Nat /\ calls' # 0 BY <1>1
      <3> QED BY <1>1, <2>1, <3>1, Zenon DEF FtInv, TableInv
    <2>4. Regions' = Regions BY <1>1, <2>1, Zenon DEF Regions, TableRegion, RedirectRegion
    <2>5. RegionsInv' BY <1>1, <2>1, <2>4, RegionsGrow DEF FtInv, TableInv
    <2>6. RedirectRegion(p) \in Regions BY <1>4, Zenon DEF Regions
    <2>7. m.addr # 0 BY <2>6, Zenon DEF FtInv, RegionsInv, HasRoom, RedirectRegion
    <2>8. /\ [file |-> m.file, addr |-> m.addr, len |-> m.room] \in Regions
          /\ m.len \in Nat /\ m.file[1] = "redirect"
      BY <1>2, <2>6, Zenon DEF RedirectRegion
    <2> HIDE DEF m
    <2>9. GivenInv' BY <1>1, <2>1, <2>4, <2>7, <2>8, Zenon DEF FtInv, GivenInv
    <2> QED BY <2>2, <2>3, <2>5, <2>9, Zenon DEF FtInv
  <1>5. CASE p \notin DOMAIN mapped
    <2> DEFINE new(a) == [file |-> <<"redirect", p>>, addr |-> a, len |-> length]
               m(a) == [file |-> <<"redirect", p>>, addr |-> a, len |-> length, room |-> length]
    <2>1. PICK addr \in Addresses, ok \in BOOLEAN :
            /\ Allocate(length, addr, ok)
            /\ mapped' = IF ok THEN Put(mapped, p, [addr |-> addr, len |-> length]) ELSE mapped
            /\ given' = IF ok THEN given \cup {m(addr)} ELSE given
      BY <1>5, Zenon DEF redirect_mmap
    <2>2. /\ VrInv' /\ bump_off' \in Nat /\ bump_off' >= bump_off /\ made \subseteq made'
          /\ addr \in Nat /\ thrown' >= thrown /\ thrown' \in Nat
          /\ ok => /\ addr # 0
                   /\ IF fsys = "cxl" THEN addr = bump_off + 1 ELSE addr \notin made
                   /\ HasRoom(new(addr))'
      BY <1>1, <1>2, <2>1, AllocateNew, Zenon DEF FtInv
    <2>3. \A fd : TableRegion(fd)' = TableRegion(fd) BY <1>1, Zenon DEF TableRegion
    <2>4. /\ ok => /\ DOMAIN mapped' = DOMAIN mapped \cup {p}
                   /\ mapped'[p] = [addr |-> addr, len |-> length]
                   /\ \A q \in DOMAIN mapped : mapped'[q] = mapped[q]
                   /\ mapped' = [q \in DOMAIN mapped' |-> mapped'[q]]
          /\ ~ok => mapped' = mapped
      BY <1>5, <2>1, Zenon DEF Put
    <2>5. Regions' = IF ok THEN Regions \cup {new(addr)} ELSE Regions
      <3>1. CASE ~ok BY <1>1, <2>3, <2>4, <3>1, Zenon DEF Regions, RedirectRegion
      <3>2. CASE ok
        <4>1. RedirectRegion(p)' = new(addr) BY <2>4, <3>2 DEF RedirectRegion
        <4>2. \A q \in DOMAIN mapped : RedirectRegion(q)' = RedirectRegion(q)
          BY <2>4, <3>2, Zenon DEF RedirectRegion
        <4> HIDE DEF new
        <4> QED BY <1>1, <2>3, <2>4, <3>2, <4>1, <4>2, Zenon DEF Regions
      <3> QED BY <3>1, <3>2, Zenon
    <2>6. TableInv'
      <3>1. mapped' \in [DOMAIN mapped' -> [addr : Nat, len : Nat]]
        <4>1. CASE ~ok BY <1>3, <2>4, <4>1, Zenon
        <4>2. CASE ok
          <5>1. \A q \in DOMAIN mapped' : mapped'[q] \in [addr : Nat, len : Nat]
            BY <1>2, <1>3, <2>2, <2>4, <4>2
          <5> QED BY <2>4, <4>2, <5>1, Zenon
        <4> QED BY <4>1, <4>2, Zenon
      <3>2. calls' \in Nat /\ calls' # 0 BY <1>1
      <3>3. \A f \in DOMAIN fd_desc :
              fd_desc[f].len # 0 /\ fd_desc[f].region = 0 => fsys = "vram" /\ thrown' > 0
        BY <1>1, <2>2, SMTT(30) DEF FtInv, TableInv
      <3> QED BY <1>1, <2>2, <3>1, <3>2, <3>3, Zenon DEF FtInv, TableInv
    <2>7. RegionsInv'
      <3>1. new(addr).addr = addr BY Zenon
      <3> HIDE DEF new
      <3> QED BY <1>1, <2>2, <2>5, <3>1, RegionsGrow, Zenon DEF FtInv
    <2>8. GivenInv'
      <3>1. \A g \in given :
              /\ g.len \in Nat /\ g.file[1] \in {"table", "redirect"}
              /\ g.addr = 0 => g.file[1] = "table" /\ fsys' = "vram" /\ thrown' > 0
              /\ g.addr # 0 => [file |-> g.file, addr |-> g.addr, len |-> g.room] \in Regions'
              /\ g.file[1] = "table" => g.len <= g.room
        BY <1>1, <2>2, <2>5, GivenKept, Zenon DEF FtInv
      <3>2. CASE ~ok BY <2>1, <3>1, <3>2, Zenon DEF GivenInv
      <3>3. CASE ok
        <4>1. given' = given \cup {m(addr)} BY <2>1, <3>3, Zenon
        <4>2. /\ m(addr).len \in Nat /\ m(addr).file[1] = "redirect" /\ m(addr).addr = addr
              /\ [file |-> m(addr).file, addr |-> m(addr).addr, len |-> m(addr).room] = new(addr)
          BY <1>2, Zenon
        <4>3. new(addr) \in Regions' /\ addr # 0 BY <2>2, <2>5, <3>3, Zenon
        <4> HIDE DEF m, new
        <4> QED BY <3>1, <4>1, <4>2, <4>3, Zenon DEF GivenInv
      <3> QED BY <3>2, <3>3, Zenon
    <2> QED BY <2>2, <2>6, <2>7, <2>8, Zenon DEF FtInv
  <1> QED BY <1>4, <1>5, Zenon

\* Every call of the interfaces keeps the invariant.
LEMMA FtInvNext == FtInv /\ [FtNext]_<<ftvars, vrvars>> => FtInv'
  <1> SUFFICES ASSUME FtInv, [FtNext]_<<ftvars, vrvars>> PROVE FtInv'
    BY Zenon
  <1>0. calls \in Nat BY Zenon DEF FtInv, TableInv
  <1>1. CASE ChooseFs
    <2>1. /\ calls = 0 /\ calls' = calls /\ fsys' = "vram"
          /\ UNCHANGED <<fd_desc, bump_off, mapped, given, made, allocated, buffers, memories, thrown>>
      BY <1>1, Zenon DEF ChooseFs, vrvars
    <2>2. DOMAIN fd_desc = {} /\ DOMAIN mapped = {} /\ given = {}
      BY <2>1, Zenon DEF FtInv, TableInv
    <2>3. VrInv' BY <2>1, Zenon DEF FtInv, VrInv, VramPaired
    <2>4. TableInv' BY <2>1, <2>2, Zenon DEF FtInv, TableInv
    <2>5. Regions' = {} BY <2>1, <2>2, Zenon DEF Regions
    <2> QED BY <2>1, <2>2, <2>3, <2>4, <2>5, Zenon DEF FtInv, RegionsInv, GivenInv
  <1>2. CASE SetupVram
    <2>1. UNCHANGED <<fsys, fd_desc, bump_off, mapped, given, calls, made, allocated, buffers,
                      memories, thrown>>
      BY <1>2, Zenon DEF SetupVram, VrSetup, createInstance, pickPhysicalDevice, createLogicalDevice, ftvars
    <2> QED BY <1>0, <2>1, FtIdle
  <1>3. ASSUME NEW p \in Paths, open(p) PROVE FtInv' BY <1>3, FtOpen, Zenon
  <1>4. ASSUME NEW fd, NEW off \in Lengths \cup {0}, lseek(fd, off) PROVE FtInv'
    <2>1. off \in Nat BY FileTableAssumption
    <2> QED BY <1>4, <2>1, FtLseek, Zenon
  <1>5. ASSUME NEW fd, NEW supported, Refused(fd, supported) PROVE FtInv'
    BY <1>0, <1>5, FtIdle DEF Refused, Call, vrvars
  <1>6. ASSUME NEW fd, NEW length \in Lengths, NEW off \in Lengths \cup {0}, mmap(fd, length, off)
        PROVE FtInv'
    <2>1. off \in Nat BY FileTableAssumption
    <2> QED BY <1>6, <2>1, FtMmap, Zenon
  <1>7. ASSUME NEW p \in Paths, NEW length \in Lengths, redirect_mmap(p, length) PROVE FtInv'
    BY <1>7, FtRedirect, Zenon
  <1>8. CASE redirect_munmap
    BY <1>0, <1>8, FtIdle DEF redirect_munmap, Call, vrvars
  <1>9. CASE UNCHANGED <<ftvars, vrvars>>
    BY <1>0, <1>9, FtIdle DEF ftvars, vrvars
  <1> QED BY <1>1, <1>2, <1>3, <1>4, <1>5, <1>6, <1>7, <1>8, <1>9, Zenon DEF FtNext

\* The vectors of buffers and of their memory in libvram, which cleanup() would
\* walk together, stay paired, for any machine and any number of allocations
\* that succeed or throw anywhere.
THEOREM VramIsPaired == FtSpec => []VramPaired
  <1>1. FtInv => VramPaired BY Zenon DEF FtInv, VrInv
  <1> QED BY <1>1, FtInvInit, FtInvNext, PTL DEF FtSpec

\* Mappings of different files never share memory, for any paths, lengths and
\* number of calls of open, lseek and mmap through libcxlfs, libvramfs and the
\* redirect.
THEOREM FilesAreApart == FtSpec => []FilesApart
  <1>1. FtInv => FilesApart
    <2> SUFFICES ASSUME FtInv PROVE FilesApart
      BY Zenon
    <2>1. ASSUME NEW g \in given, NEW h \in given, g.file # h.file, g.addr # 0, h.addr # 0,
                 \A m \in {g, h} : m.file[1] = "redirect" => m.len <= m.room
          PROVE  IF fsys = "cxl" THEN ~ Overlap(g.addr, g.len, h.addr, h.len) ELSE g.addr # h.addr
      <3> DEFINE r == [file |-> g.file, addr |-> g.addr, len |-> g.room]
                 s == [file |-> h.file, addr |-> h.addr, len |-> h.room]
      <3>1. r \in Regions /\ s \in Regions /\ g.len \in Nat /\ h.len \in Nat
            /\ g.len <= g.room /\ h.len <= h.room
        BY <2>1, Zenon DEF FtInv, GivenInv
      <3>2. HasRoom(r) /\ HasRoom(s) /\ Apart(r, s)
        BY <2>1, <3>1, Zenon DEF FtInv, RegionsInv
      <3>3. g.addr \in Nat /\ h.addr \in Nat /\ g.room \in Nat /\ h.room \in Nat
        BY <3>2, Zenon DEF HasRoom
      <3> QED BY <3>1, <3>2, <3>3 DEF Apart, Overlap
    <2>2. \A g \in given : g.file[1] = "table" /\ g.addr = 0 => fsys = "vram" /\ thrown > 0
      BY Zenon DEF FtInv, GivenInv
    <2> QED BY <2>1, <2>2, Zenon DEF FilesApart
  <1> QED BY <1>1, FtInvInit, FtInvNext, PTL DEF FtSpec

=============================================================================
