------------------------------ MODULE SimpleKV ------------------------------
(***************************************************************************)
(* The key-value store of examples/simplekv_cxlbuf on the containers of    *)
(* include/container: N buckets of (key, index) pairs and one vector of    *)
(* values.  The containers are modelled as they lie in memory: a vector is *)
(* a size and an array of its capacity, a string up to SSO_SZ characters   *)
(* is kept in place, a longer one in a vector whose size shares the        *)
(* string's size field.  The allocator is boost's (external).              *)
(***************************************************************************)
EXTENDS Integers, Sequences, FiniteSets

CONSTANTS
  KvKeys, KeyLen,   \* the keys, and how many characters each has
  N, Hash,          \* buckets, and the bucket of a key
  KvValues,         \* values, small integers
  MaxPuts           \* bound: calls of put

SSO_SZ == 23

ASSUME KvAssumption ==
  /\ N \in Nat \ {0} /\ KeyLen \in [KvKeys -> Nat] /\ Hash \in [KvKeys -> 0..(N - 1)]
  /\ KvValues \subseteq Nat /\ MaxPuts \in Nat

VARIABLES
  kvup,         \* "off", "run", or "ended" (an exception or a fault)
  file_root,    \* a root object has been synchronised to the reservoir's file
  buckets, values,
  puts,         \* calls of put
  last,         \* history: key -> the value last put
  updated,      \* history: keys that put has found and updated
  struck,       \* history: positions of values that an update has written
  wild          \* history: an update has written outside the array of values

history == <<last, updated, struck, wild>>
kvvars == <<kvup, file_root, buckets, values, puts, history>>

-----------------------------------------------------------------------------
(* vector.hh, string.hh, pair.hh                                           *)

Unset == "unset"
Array(n) == [i \in 1..n |-> Unset]

\* the constructor has no room, init() has room for two
vector == [size |-> 0, content |-> <<>>]
vector_init == [size |-> 0, content |-> Array(2)]

capacity(v) == Len(v.content)

\* mutant: the index of the element that is copied does not advance
resize_First(v) == [v EXCEPT !.content = [i \in 1..(2 * Len(@)) |-> @[1]]]
\* twice the room, and the old elements in it
resize(v) ==
  [v EXCEPT !.content = @ \o Array(IF capacity(v) = 0 THEN 2 ELSE capacity(v))]

push_back(v, e) ==
  LET w == IF v.size = capacity(v) THEN resize(v) ELSE v
  IN  [w EXCEPT !.size = @ + 1, !.content[v.size + 1] = e]

\* what size() returns for a string made from k: a long one reads the size of
\* its vector, which counts the terminating zero
string_init(k) ==
  [text |-> k, size |-> IF KeyLen[k] <= SSO_SZ THEN KeyLen[k] ELSE KeyLen[k] + 1]

\* operator==: the sizes, then the characters
Equals(s, k) == s.size = KeyLen[k] /\ s.text = k

pair(k, index) == [first |-> string_init(k), second |-> index]

-----------------------------------------------------------------------------
(* simplekv_puddles.hh                                                     *)

KvInit ==
  /\ kvup = "off" /\ file_root = FALSE
  /\ buckets = [b \in 0..(N - 1) |-> vector] /\ values = vector
  /\ puts = 0 /\ last = [k \in {} |-> 0] /\ updated = {} /\ struck = {} /\ wild = FALSE

\* main: the root is constructed at every start, which throws when the file
\* has one already; then init() makes the vectors
KvStart ==
  /\ kvup = "off"
  /\ IF file_root THEN kvup' = "ended" /\ UNCHANGED <<buckets, values, history>>
     ELSE /\ kvup' = "run"
          /\ buckets' = [b \in 0..(N - 1) |-> vector_init] /\ values' = vector_init
          /\ last' = [k \in {} |-> 0] /\ updated' = {} /\ struck' = {} /\ wild' = FALSE
  /\ UNCHANGED <<file_root, puts>>

\* the process ends or fails; what it had synchronised stays in the file
KvStop ==
  /\ kvup = "run" /\ kvup' = "off"
  /\ UNCHANGED <<file_root, buckets, values, puts, history>>

\* the first slot of a key's bucket that compares equal, or 0
Find(k) ==
  LET b == buckets[Hash[k]]
      S == {i \in 1..b.size : Equals(b.content[i].first, k)}
  IN  IF S = {} THEN 0 ELSE CHOOSE i \in S : \A j \in S : i <= j

get(k) == values.content[buckets[Hash[k]].content[Find(k)].second + 1]

\* get of a key that is not found throws, which ends the program
GetAbsent(k) ==
  /\ kvup = "run" /\ Find(k) = 0 /\ kvup' = "ended"
  /\ UNCHANGED <<file_root, buckets, values, puts, history>>

PutNew(k, val) ==
  /\ values' = push_back(values, val)
  /\ buckets' = [buckets EXCEPT ![Hash[k]] = push_back(@, pair(k, values.size))]
  /\ UNCHANGED <<kvup, updated, struck, wild>>

\* x is stored outside the array of values, anywhere in the reservoir, and the
\* program goes on: it may hit memory that nobody uses, an unmapped page, or
\* the index of a pair
Wild(x) ==
  /\ wild' = TRUE /\ UNCHANGED values
  /\ \/ kvup' \in {kvup, "ended"} /\ UNCHANGED buckets
     \/ \E b \in 0..(N - 1) : \E i \in 1..buckets[b].size :
          buckets' = [buckets EXCEPT ![b].content[i].second = x] /\ UNCHANGED kvup

\* a key that is found: values[val] = its index (sic), which operator[] does not
\* check against the capacity
PutFound(k, val) ==
  /\ LET x == buckets[Hash[k]].content[Find(k)].second
     IN  IF val < capacity(values)
         THEN values' = [values EXCEPT !.content[val + 1] = x] /\ UNCHANGED <<kvup, buckets, wild>>
         ELSE Wild(x)
  /\ updated' = updated \cup {k} /\ struck' = struck \cup {val}

\* persist: the put ends with res->sync()
put(k, val, persist) ==
  /\ kvup = "run" /\ puts < MaxPuts /\ puts' = puts + 1
  /\ IF Find(k) = 0 THEN PutNew(k, val) ELSE PutFound(k, val)
  /\ last' = [j \in DOMAIN last \cup {k} |-> IF j = k THEN val ELSE last[j]]
  /\ file_root' = (file_root \/ (persist /\ kvup' = "run"))

KvNext ==
  \/ KvStart \/ KvStop
  \/ \E k \in KvKeys : GetAbsent(k) \/ \E val \in KvValues, persist \in BOOLEAN : put(k, val, persist)

KvSpec == KvInit /\ [][KvNext]_kvvars

-----------------------------------------------------------------------------
(* Properties.                                                             *)

Short(k) == KeyLen[k] <= SSO_SZ
Slots == {s \in (0..(N - 1)) \X (1..MaxPuts) : s[2] <= buckets[s[1]].size}
Elem(s) == buckets[s[1]].content[s[2]]
\* The two levels of the store agree through every growth of the vectors: the
\* pairs of all the buckets point one-to-one to the positions of values, and a
\* key of at most SSO_SZ characters that was ever put has exactly one pair, in
\* its own bucket.  get() returns the value of such a key that was put once, as
\* long as no update was given that key's position as its value.  All this until
\* an update writes outside the array of values.
KvConsistent ==
  kvup = "run" /\ ~ wild =>
    /\ Cardinality(Slots) = values.size
    /\ {Elem(s).second : s \in Slots} = 0..(values.size - 1)
    /\ \A k \in DOMAIN last : Short(k) =>
         /\ Cardinality({s \in Slots : Elem(s).first.text = k}) = 1
         /\ Find(k) # 0
         /\ k \notin updated /\ buckets[Hash[k]].content[Find(k)].second \notin struck
              => get(k) = last[k]

\* "search for element with specified key - if found transactionally update its
\* value" (simplekv_puddles.hh, lines 87 and 88): get() returns what was put
\* last.  The code stores the position of the key where its new value says.
UpdateTakesEffect ==
  kvup = "run" /\ ~ wild => \A k \in DOMAIN last : Short(k) => get(k) = last[k]
=============================================================================
