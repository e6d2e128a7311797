--------------------------- MODULE PrefixPoolProofs ---------------------------
(* The invariants and action properties of PrefixPool, for every pool,      *)
(* every set of prompts and every number of requests.                       *)
EXTENDS PrefixPool, FiniteSetTheorems, TLAPS

-----------------------------------------------------------------------------
(* The inductive invariant                                                  *)

Tables == [target : Seq(Blocks), draft : Seq(Blocks \cup {Null})]

(* What a request that is not there, and one that is, look like.            *)
RequestOK(r) ==
  /\ ~req[r].on => req[r] = Out /\ table[r] = NoTable
  /\ req[r].on => req[r].prompt \in Prompts /\ req[r].len \in 1..Len(req[r].prompt)
  /\ Len(table[r].target) = req[r].len /\ Len(table[r].draft) = req[r].len

Typed ==
  /\ queue \in [Blocks -> 0..Cardinality(Blocks)]
  /\ ref \in [Blocks -> Nat]
  /\ hash \in [Blocks -> Keys \cup {NoHash}]
  /\ holds \in [Blocks -> Keys \cup {NoHash}]
  /\ req \in [Reqs -> RequestType]
  /\ table \in [Reqs -> Tables]
  /\ \A r \in Reqs : RequestOK(r)

(* No two queued blocks have the same place.                                *)
OwnPlaces(q) == \A b, c \in InQueue(q) : q[b] = q[c] => b = c

Counted == \A b \in Blocks : ref[b] = Cardinality(Holders(b))

QueueIsFree == InQueue(queue) = {b \in Blocks : ref[b] = 0}

(* A block is the target's or the drafter's while it is held, and what it   *)
(* caches is a key of that manager.                                         *)
OfKind(k, m) == k # NoHash => k[1] = m
KindsKept ==
  \A r \in Reqs :
    /\ \A b \in Entries(table[r].target) : OfKind(hash[b], "target")
    /\ \A b \in Entries(table[r].draft) : OfKind(hash[b], "draft")

Apart ==
  \A r, s \in Reqs : Entries(table[r].target) \cap Entries(table[s].draft) = {}

NoRepeat(s) == \A i, j \in DOMAIN s : s[i] # Null /\ s[i] = s[j] => i = j
DraftsNotRepeated == \A r \in Reqs : NoRepeat(table[r].draft)

(* A block found by a target key holds what the key says.                   *)
HashTrue ==
  \A b \in Blocks : hash[b] # NoHash /\ hash[b][1] = "target" => holds[b] = hash[b]

PoolInv ==
  /\ Typed
  /\ OwnPlaces(queue) /\ QueueIsFree /\ Counted
  /\ KindsKept /\ Apart /\ DraftsNotRepeated
  /\ HashTrue /\ TargetIntact
-----------------------------------------------------------------------------
(* The free queue                                                           *)

Places(q) == q \in [Blocks -> 0..Cardinality(Blocks)] /\ OwnPlaces(q)

LEMMA BlocksCount == Cardinality(Blocks) \in Nat
BY FS_CardinalityType, BlocksAssumption

(* The places are consecutive: what precedes everything else is at the      *)
(* front.                                                                   *)
Packed(q) ==
  \A own \in SUBSET InQueue(q) :
    (\A b \in own, c \in InQueue(q) \ own : q[b] < q[c])
      => {b \in Blocks : q[b] \in 1..Cardinality(own)} = own

(* The queue made of S by increasing key holds S, once each, in that order. *)
LEMMA QueuedPlaces ==
  ASSUME NEW S \in SUBSET Blocks, NEW key \in [Blocks -> Int],
         \A b, c \in S : key[b] = key[c] => b = c
  PROVE  /\ Places(Queued(S, key)) /\ InQueue(Queued(S, key)) = S
         /\ Packed(Queued(S, key))
         /\ \A b, c \in S : Queued(S, key)[b] < Queued(S, key)[c] <=> key[b] < key[c]
<1> DEFINE Upto(b) == {c \in S : key[c] <= key[b]}
<1>1. IsFiniteSet(S) /\ Cardinality(S) <= Cardinality(Blocks)
  BY FS_Subset, BlocksAssumption
<1>2. ASSUME NEW b \in S
      PROVE  /\ IsFiniteSet(Upto(b)) /\ Cardinality(Upto(b)) \in Nat
             /\ Cardinality(Upto(b)) # 0 /\ Cardinality(Upto(b)) <= Cardinality(Blocks)
  <2>1. Upto(b) \in SUBSET S /\ b \in Upto(b)
    OBVIOUS
  <2>2. IsFiniteSet(Upto(b)) /\ Cardinality(Upto(b)) <= Cardinality(S)
    BY <1>1, <2>1, FS_Subset
  <2>3. Cardinality(Upto(b)) \in Nat /\ Cardinality(S) \in Nat
    BY <1>1, <2>2, FS_CardinalityType
  <2>4. Cardinality(Upto(b)) # 0
    BY <2>1, <2>2, FS_EmptySet
  <2> QED
    BY <1>1, <2>2, <2>3, <2>4, BlocksCount
<1>3. ASSUME NEW b \in S, NEW c \in S, key[b] < key[c]
      PROVE  Cardinality(Upto(b)) < Cardinality(Upto(c))
  <2>1. Upto(b) \in SUBSET Upto(c) /\ c \in Upto(c) /\ c \notin Upto(b)
    BY <1>3
  <2>2. Cardinality(Upto(b)) <= Cardinality(Upto(c))
    BY <1>2, <2>1, FS_Subset
  <2>3. Cardinality(Upto(b)) # Cardinality(Upto(c))
    BY <1>2, <2>1, FS_Subset
  <2> QED
    BY <1>2, <2>2, <2>3
<1>4. \A b \in Blocks :
        Queued(S, key)[b] = IF b \in S THEN Cardinality(Upto(b)) ELSE 0
  BY DEF Queued
<1>5. Queued(S, key) = [b \in Blocks |-> Queued(S, key)[b]]
  BY DEF Queued
<1> HIDE DEF Upto
<1>6. Queued(S, key) \in [Blocks -> 0..Cardinality(Blocks)]
  <2>1. \A b \in Blocks : Queued(S, key)[b] \in 0..Cardinality(Blocks)
    BY <1>2, <1>4, BlocksCount
  <2> QED
    BY <1>5, <2>1
<1>7. InQueue(Queued(S, key)) = S
  BY <1>2, <1>4 DEF InQueue
<1>8. \A b, c \in S : Queued(S, key)[b] < Queued(S, key)[c] <=> key[b] < key[c]
  <2> SUFFICES ASSUME NEW b \in S, NEW c \in S
               PROVE  Queued(S, key)[b] < Queued(S, key)[c] <=> key[b] < key[c]
    OBVIOUS
  <2>1. key[b] \in Int /\ key[c] \in Int
    OBVIOUS
  <2>2. CASE key[b] < key[c]
    BY <1>3, <1>4, <2>2
  <2>3. CASE key[c] < key[b]
    <3>1. Cardinality(Upto(c)) < Cardinality(Upto(b))
      BY <1>3, <2>3
    <3> QED
      BY <1>2, <1>4, <2>1, <2>3, <3>1
  <2>4. CASE key[b] = key[c]
    BY <1>2, <1>4, <2>1, <2>4
  <2> QED
    BY <2>1, <2>2, <2>3, <2>4
<1>9. OwnPlaces(Queued(S, key))
  <2>1. \A b, c \in S : Queued(S, key)[b] = Queued(S, key)[c] => key[b] = key[c]
    BY <1>2, <1>4, <1>8
  <2> QED
    BY <1>7, <2>1 DEF OwnPlaces
<1>10. Packed(Queued(S, key))
  <2> SUFFICES ASSUME NEW own \in SUBSET S,
                      \A b \in own, c \in S \ own : Queued(S, key)[b] < Queued(S, key)[c]
               PROVE  {b \in Blocks : Queued(S, key)[b] \in 1..Cardinality(own)} = own
    BY <1>7 DEF Packed
  <2>1. \A b \in own, c \in S \ own : key[b] < key[c]
    BY <1>8
  <2>2. IsFiniteSet(own) /\ Cardinality(own) \in Nat
    BY <1>1, FS_Subset, FS_CardinalityType
  <2>3. ASSUME NEW b \in own PROVE Queued(S, key)[b] \in 1..Cardinality(own)
    <3>1. Upto(b) \in SUBSET own
      BY <2>1 DEF Upto
    <3>2. Cardinality(Upto(b)) <= Cardinality(own)
      BY <2>2, <3>1, FS_Subset
    <3> QED
      BY <1>2, <1>4, <2>2, <3>2
  <2>4. ASSUME NEW c \in S \ own PROVE Queued(S, key)[c] \notin 1..Cardinality(own)
    <3>1. own \cup {c} \in SUBSET Upto(c)
      BY <2>1 DEF Upto
    <3>2. Cardinality(own \cup {c}) <= Cardinality(Upto(c))
      BY <1>2, <3>1, FS_Subset
    <3>3. Cardinality(own \cup {c}) = Cardinality(own) + 1
      BY <2>2, FS_AddElement
    <3> QED
      BY <1>2, <1>4, <2>2, <3>2, <3>3
  <2>5. \A b \in Blocks \ S : Queued(S, key)[b] \notin 1..Cardinality(own)
    BY <1>4, <2>2
  <2> QED
    BY <2>3, <2>4, <2>5
<1> QED
  BY <1>6, <1>7, <1>8, <1>9, <1>10 DEF Places

(* A hit takes its blocks out and keeps the order of the others.            *)
LEMMA TouchedPlaces ==
  ASSUME NEW q, Places(q), NEW S
  PROVE  /\ Places(Touched(q, S)) /\ InQueue(Touched(q, S)) = InQueue(q) \ S
         /\ \A b, c \in InQueue(q) \ S :
              Touched(q, S)[b] < Touched(q, S)[c] <=> q[b] < q[c]
<1>1. q \in [Blocks -> Int] /\ InQueue(q) \ S \in SUBSET Blocks
  BY BlocksCount DEF Places, InQueue
<1>2. \A b, c \in InQueue(q) \ S : q[b] = q[c] => b = c
  BY DEF Places, OwnPlaces
<1> QED
  BY <1>1, <1>2, QueuedPlaces DEF Touched

(* Popping n blocks takes the n at the front, which are different ones, and *)
(* keeps the order of the others.                                           *)
LEMMA PoppedPlaces ==
  ASSUME NEW q, Places(q), NEW n \in Nat, NEW f \in Popped(q, n)
  PROVE  /\ f \in [1..n -> Blocks]
         /\ \A i, j \in 1..n : f[i] = f[j] => i = j
         /\ Entries(f) \subseteq InQueue(q) /\ \A i \in 1..n : f[i] \in Entries(f)
         /\ Places(Behind(q, n))
         /\ InQueue(Behind(q, n)) = InQueue(q) \ Entries(f)
         /\ \A b, c \in InQueue(Behind(q, n)) :
              Behind(q, n)[b] < Behind(q, n)[c] <=> q[b] < q[c]
<1>1. f \in [1..n -> Blocks] /\ \A i \in 1..n : q[f[i]] = i
  BY DEF Popped
<1>2. q \in [Blocks -> 0..Cardinality(Blocks)] /\ OwnPlaces(q)
  BY DEF Places
<1>3. \A b \in Blocks : q[b] \in Nat /\ q[b] <= Cardinality(Blocks)
  BY <1>2, BlocksCount
<1>4. \A i \in 1..n : f[i] \in InQueue(q)
  BY <1>1 DEF InQueue
<1>5. /\ Entries(f) = {f[i] : i \in 1..n} /\ Entries(f) \subseteq InQueue(q)
       /\ \A i \in 1..n : f[i] \in Entries(f)
  <2>1. \A i \in 1..n : f[i] # Null
    BY <1>1, BlocksAssumption DEF Null
  <2> QED
    BY <1>1, <1>4, <2>1 DEF Entries
<1>6. \A b \in InQueue(q) : q[b] <= n <=> b \in Entries(f)
  <2> TAKE b \in InQueue(q)
  <2>1. ASSUME q[b] <= n PROVE b \in Entries(f)
    <3>1. b \in Blocks /\ q[b] \in 1..n
      BY <1>3, <2>1 DEF InQueue
    <3>2. f[q[b]] \in InQueue(q) /\ q[f[q[b]]] = q[b]
      BY <1>1, <1>4, <3>1
    <3>3. f[q[b]] = b
      BY <1>2, <3>2 DEF OwnPlaces
    <3> QED
      BY <1>5, <3>1, <3>3
  <2>2. ASSUME b \in Entries(f) PROVE q[b] <= n
    BY <1>1, <1>5, <2>2
  <2> QED
    BY <2>1, <2>2
<1>7. \A b \in Blocks : Behind(q, n)[b] = IF q[b] > n THEN q[b] - n ELSE 0
  BY DEF Behind
<1>8. Behind(q, n) \in [Blocks -> 0..Cardinality(Blocks)]
  BY <1>3, BlocksCount DEF Behind
<1>9. InQueue(Behind(q, n)) = {b \in Blocks : q[b] > n}
  BY <1>3, <1>7 DEF InQueue
<1>10. InQueue(Behind(q, n)) = InQueue(q) \ Entries(f)
  BY <1>3, <1>6, <1>9 DEF InQueue
<1>11. \A b, c \in InQueue(Behind(q, n)) :
         /\ Behind(q, n)[b] < Behind(q, n)[c] <=> q[b] < q[c]
         /\ Behind(q, n)[b] = Behind(q, n)[c] <=> q[b] = q[c]
  BY <1>3, <1>7, <1>9
<1>12. OwnPlaces(Behind(q, n))
  BY <1>2, <1>10, <1>11 DEF OwnPlaces
<1> QED
  BY <1>1, <1>8, <1>10, <1>11, <1>12, <1>5 DEF Places

(* Freed blocks (free) that cannot match go in front of everything,         *)
(* ordinary ones behind everything, and the drafter's in between; the       *)
(* blocks that were queued in q keep their order in g.                      *)
FreedOrder(g, q, free) ==
  \A b, c \in InQueue(q) \cup free :
    /\ b \notin free /\ c \notin free => (g[b] < g[c] <=> q[b] < q[c])
    /\ ~Ordinary(hash, b) /\ b \in free /\ (c \notin free \/ Ordinary(hash, c))
         => g[b] < g[c]
    /\ b \notin free /\ c \in free /\ Ordinary(hash, c) => g[b] < g[c]
    /\ b \in free /\ c \in free /\ Unhashed(hash, b) /\ ~Unhashed(hash, c)
         => g[b] < g[c]

LEMMA FreedPlaces ==
  ASSUME NEW q, Places(q), NEW k \in 0..MaxLen, NEW s, DOMAIN s = 1..k,
         NEW rc, NEW S \in SUBSET Blocks, \A b \in S : \E i \in 1..k : s[i] = b
  PROVE  /\ Places(Freed(q, s, S, rc))
         /\ InQueue(Freed(q, s, S, rc)) = InQueue(q) \cup Unheld(rc, S)
         /\ FreedOrder(Freed(q, s, S, rc), q, Unheld(rc, S))
         /\ Packed(Freed(q, s, S, rc))
<1> DEFINE free == Unheld(rc, S)
           place(b) == CHOOSE i \in DOMAIN s : s[i] = b
           key == [b \in Blocks |-> IF b \in free THEN Spot(b, place(b)) ELSE q[b]]
           K == Cardinality(Blocks)
<1>1. K \in Nat /\ MaxLen \in Nat
  BY BlocksCount, PromptsAssumption
<1>2. free \in SUBSET Blocks /\ InQueue(q) \in SUBSET Blocks /\ free \subseteq S
  BY DEF Unheld, InQueue
<1>3. \A b \in free : place(b) \in 1..k /\ s[place(b)] = b
  BY <1>2
<1>4. \A b \in free : place(b) \in Int /\ 1 <= place(b) /\ place(b) <= MaxLen
  BY <1>1, <1>3
<1>5. \A b, c \in free : place(b) = place(c) => b = c
  BY <1>3
<1> HIDE DEF place
<1>6. \A b \in free :
        Spot(b, place(b)) = IF Unhashed(hash, b) THEN -MaxLen - place(b)
                            ELSE IF Ordinary(hash, b) THEN K + MaxLen - place(b) + 1
                            ELSE -place(b)
  BY DEF Spot, Ordinary
<1>7. \A b \in InQueue(q) : q[b] \in Int /\ 1 <= q[b] /\ q[b] <= K
  BY <1>1 DEF Places, InQueue
<1>8. \A b \in Blocks : q[b] \in Int
  BY <1>1 DEF Places
<1>9. \A b \in Blocks : key[b] = IF b \in free THEN Spot(b, place(b)) ELSE q[b]
  OBVIOUS
<1>10. key \in [Blocks -> Int]
  BY <1>1, <1>4, <1>6, <1>8, <1>9
<1>11. Freed(q, s, S, rc) = Queued(InQueue(q) \cup free, key)
  BY DEF Freed, place
<1> HIDE DEF free, key, K
<1>12. \A b \in Blocks : Unhashed(hash, b) => ~Ordinary(hash, b)
  BY DEF Ordinary
<1>13. \A b, c \in InQueue(q) \cup free :
         /\ b \notin free /\ c \notin free => (key[b] < key[c] <=> q[b] < q[c])
         /\ ~Ordinary(hash, b) /\ b \in free /\ (c \notin free \/ Ordinary(hash, c))
              => key[b] < key[c]
         /\ b \notin free /\ c \in free /\ Ordinary(hash, c) => key[b] < key[c]
         /\ b \in free /\ c \in free /\ Unhashed(hash, b) /\ ~Unhashed(hash, c)
              => key[b] < key[c]
  BY <1>1, <1>2, <1>4, <1>6, <1>7, <1>9, <1>12
<1>14. \A b, c \in InQueue(q) \cup free : key[b] = key[c] => b = c
  <2> SUFFICES ASSUME NEW b \in InQueue(q) \cup free, NEW c \in InQueue(q) \cup free,
                      key[b] = key[c]
               PROVE  b = c
    OBVIOUS
  <2>1. CASE b \in free /\ c \in free
    <3>1. place(b) = place(c)
      <4>1. key[b] = Spot(b, place(b)) /\ key[c] = Spot(c, place(c))
        BY <1>2, <1>9, <2>1
      <4>2. Spot(b, place(b)) = Spot(c, place(c))
        BY <4>1
      <4>3. CASE Unhashed(hash, b)
        BY <1>1, <1>4, <1>6, <2>1, <4>2, <4>3
      <4>4. CASE ~Unhashed(hash, b) /\ Ordinary(hash, b)
        BY <1>1, <1>4, <1>6, <2>1, <4>2, <4>4
      <4>5. CASE ~Unhashed(hash, b) /\ ~Ordinary(hash, b)
        BY <1>1, <1>4, <1>6, <2>1, <4>2, <4>5
      <4> QED
        BY <4>3, <4>4, <4>5
    <3> QED
      BY <1>5, <2>1, <3>1
  <2>2. CASE b \notin free /\ c \notin free
    BY <1>2, <1>9, <2>2 DEF Places, OwnPlaces
  <2>3. CASE b \in free /\ c \notin free
    BY <1>1, <1>2, <1>4, <1>6, <1>7, <1>9, <2>3
  <2>4. CASE b \notin free /\ c \in free
    BY <1>1, <1>2, <1>4, <1>6, <1>7, <1>9, <2>4
  <2> QED
    BY <2>1, <2>2, <2>3, <2>4
<1>15. InQueue(q) \cup free \in SUBSET Blocks
  BY <1>2
<1>16. /\ Places(Freed(q, s, S, rc)) /\ InQueue(Freed(q, s, S, rc)) = InQueue(q) \cup free
       /\ Packed(Freed(q, s, S, rc))
       /\ \A b, c \in InQueue(q) \cup free :
            Freed(q, s, S, rc)[b] < Freed(q, s, S, rc)[c] <=> key[b] < key[c]
  BY <1>10, <1>11, <1>14, <1>15, QueuedPlaces
<1> QED
  BY <1>13, <1>16 DEF free, FreedOrder

-----------------------------------------------------------------------------
(* Keys and hashes                                                          *)

LEMMA PromptLength ==
  ASSUME NEW p \in Prompts
  PROVE  Len(p) \in 1..MaxLen /\ MaxLen \in Nat /\ DOMAIN p = 1..Len(p)
<1>1. PICK T : p \in Seq(T)
  BY PromptsAssumption
<1>2. Len(p) \in 1..MaxLen /\ MaxLen \in Nat
  BY PromptsAssumption
<1>3. DOMAIN p = 1..Len(p)
  BY <1>1
<1> QED
  BY <1>2, <1>3

(* A key tells its manager and its place in the prompt.                     *)
LEMMA KeyFacts ==
  ASSUME NEW p \in Prompts, NEW i \in 1..Len(p), NEW m \in {"target", "draft"}
  PROVE  /\ Key(m, p, i) \in Keys /\ Key(m, p, i) # NoHash /\ Key(m, p, i)[1] = m
         /\ Len(Key(m, p, i)[2]) = i
<1>1. Key(m, p, i) = <<m, SubSeq(p, 1, i)>>
  BY DEF Key
<1>2. Key(m, p, i) # NoHash /\ Key(m, p, i)[1] = m /\ Key(m, p, i)[2] = SubSeq(p, 1, i)
  BY <1>1 DEF NoHash
<1>3. Key(m, p, i) \in Keys
  <2>1. Key(m, p, i) \in {Key(m, p, j) : j \in DOMAIN p}
    BY PromptLength
  <2> DEFINE every ==
        {{Key(n, o, j) : j \in DOMAIN o} : n \in {"target", "draft"}, o \in Prompts}
  <2>2. {Key(m, p, j) : j \in DOMAIN p} \in every
    OBVIOUS
  <2>3. Keys = UNION every
    BY DEF Keys, every
  <2> HIDE DEF every
  <2> QED
    BY <2>1, <2>2, <2>3
<1>4. Len(SubSeq(p, 1, i)) = i
  BY PromptsAssumption
<1> QED
  BY <1>2, <1>3, <1>4

LEMMA KeyOwn ==
  ASSUME NEW p \in Prompts, NEW i \in 1..Len(p), NEW m \in {"target", "draft"},
         NEW o \in Prompts, NEW j \in 1..Len(o), NEW n \in {"target", "draft"},
         Key(m, p, i) = Key(n, o, j)
  PROVE  m = n /\ i = j
BY KeyFacts

LEMMA KeyKinds == ASSUME NEW k \in Keys PROVE k # NoHash /\ k[1] \in {"target", "draft"}
<1>1. PICK m \in {"target", "draft"}, p \in Prompts : \E i \in DOMAIN p : k = Key(m, p, i)
  BY DEF Keys
<1> QED
  BY <1>1, KeyFacts, PromptLength

(* Caching gives the full blocks their keys or nothing; what a no-store     *)
(* request computes gets none.                                              *)
LEMMA StoredFacts ==
  ASSUME NEW h \in [Blocks -> Keys \cup {NoHash}], NEW D, NEW new \in [D -> Keys],
         NEW quiet \in BOOLEAN, NEW g \in Stored(h, new, quiet)
  PROVE  /\ g \in [Blocks -> Keys \cup {NoHash}]
         /\ \A b \in Blocks : g[b] = h[b] \/ (b \in D /\ g[b] = new[b])
         /\ quiet => g = h
<1>1. CASE quiet
  BY <1>1 DEF Stored
<1>2. CASE ~quiet
  <2>1. PICK drop : g = [b \in Blocks |-> IF b \in D \ drop THEN new[b] ELSE h[b]]
    BY <1>2 DEF Stored
  <2> QED
    BY <1>2, <2>1
<1> QED
  BY <1>1, <1>2

LEMMA EvictedFacts ==
  ASSUME NEW h \in [Blocks -> Keys \cup {NoHash}], NEW S
  PROVE  /\ Evicted(h, S) \in [Blocks -> Keys \cup {NoHash}]
         /\ \A b \in Blocks : Evicted(h, S)[b] = IF b \in S THEN NoHash ELSE h[b]
BY DEF Evicted

-----------------------------------------------------------------------------
(* Tables and counts                                                        *)

LEMMA TableFacts ==
  ASSUME NEW t \in Tables
  PROVE  /\ Entries(t.target) \subseteq Blocks /\ Entries(t.draft) \subseteq Blocks
         /\ Held(t) \subseteq Blocks
         /\ DOMAIN t.target = 1..Len(t.target) /\ DOMAIN t.draft = 1..Len(t.draft)
         /\ \A i \in DOMAIN t.target : t.target[i] \in Entries(t.target)
         /\ \A i \in DOMAIN t.draft : t.draft[i] # Null => t.draft[i] \in Entries(t.draft)
<1>1. t.target \in Seq(Blocks) /\ t.draft \in Seq(Blocks \cup {Null})
  BY DEF Tables
<1>2. /\ \A i \in DOMAIN t.target : t.target[i] \in Blocks /\ t.target[i] # Null
      /\ \A i \in DOMAIN t.draft : t.draft[i] \in Blocks \cup {Null}
  BY <1>1, BlocksAssumption DEF Null
<1>3. Entries(t.target) \subseteq Blocks /\ Entries(t.draft) \subseteq Blocks
  BY <1>2 DEF Entries
<1>4. /\ \A i \in DOMAIN t.target : t.target[i] \in Entries(t.target)
      /\ \A i \in DOMAIN t.draft : t.draft[i] # Null => t.draft[i] \in Entries(t.draft)
  BY <1>2 DEF Entries
<1>5. DOMAIN t.target = 1..Len(t.target) /\ DOMAIN t.draft = 1..Len(t.draft)
  BY <1>1
<1> QED
  BY <1>3, <1>4, <1>5 DEF Held

LEMMA HoldersFinite ==
  ASSUME NEW b
  PROVE  IsFiniteSet(Holders(b)) /\ Cardinality(Holders(b)) \in Nat
         /\ Cardinality(Holders(b)) <= Cardinality(Reqs)
BY FS_Subset, FS_CardinalityType, ReqsAssumption DEF Holders

(* What a count says: nobody holds the block, or one request does.          *)
LEMMA CountFacts ==
  ASSUME Counted, NEW b \in Blocks
  PROVE  /\ ref[b] = 0 <=> \A s \in Reqs : b \notin Held(table[s])
         /\ \A r, s \in Reqs :
              ref[b] = 1 /\ b \in Held(table[r]) /\ b \in Held(table[s]) => r = s
<1>1. ref[b] = Cardinality(Holders(b))
  BY DEF Counted
<1>2. ref[b] = 0 <=> Holders(b) = {}
  BY <1>1, HoldersFinite, FS_EmptySet
<1>3. ref[b] = 1 => \E x : Holders(b) = {x}
  BY <1>1, HoldersFinite, FS_Singleton
<1> QED
  BY <1>2, <1>3 DEF Holders

(* One request's table changes, and the count of each block with it.        *)
CountsFollow(r) ==
  \A b \in Blocks :
    ref'[b] = IF b \in Held(table'[r])
              THEN IF b \in Held(table[r]) THEN ref[b] ELSE ref[b] + 1
              ELSE IF b \in Held(table[r]) THEN ref[b] - 1 ELSE ref[b]

LEMMA CountsKept ==
  ASSUME Counted, NEW r \in Reqs, CountsFollow(r),
         \A s \in Reqs \ {r} : table'[s] = table[s]
  PROVE  Counted'
<1> SUFFICES ASSUME NEW b \in Blocks
             PROVE  ref'[b] = Cardinality(Holders(b)')
  BY DEF Counted
<1>1. ref[b] = Cardinality(Holders(b)) /\ IsFiniteSet(Holders(b))
  BY HoldersFinite DEF Counted
<1>2. CASE b \in Held(table'[r])
  <2>1. Holders(b)' = Holders(b) \cup {r}
    BY <1>2 DEF Holders
  <2>2. r \in Holders(b) <=> b \in Held(table[r])
    BY DEF Holders
  <2> QED
    BY <1>1, <1>2, <2>1, <2>2, FS_AddElement DEF CountsFollow
<1>3. CASE b \notin Held(table'[r])
  <2>1. Holders(b)' = Holders(b) \ {r}
    BY <1>3 DEF Holders
  <2>2. r \in Holders(b) <=> b \in Held(table[r])
    BY DEF Holders
  <2>3. Cardinality(Holders(b) \ {r}) =
          IF r \in Holders(b) THEN Cardinality(Holders(b)) - 1 ELSE Cardinality(Holders(b))
    BY <1>1, FS_RemoveElement
  <2> QED
    BY <1>1, <1>3, <2>1, <2>2, <2>3 DEF CountsFollow
<1> QED
  BY <1>2, <1>3

-----------------------------------------------------------------------------
(* Steps of one request                                                     *)

(* Where the blocks of a table come from: newly taken ones (N), the same    *)
(* table before, or a hit on a key of that manager.                         *)
CameFrom(new, old, N, m) ==
  \A b \in Entries(new) :
    \/ b \in N /\ OfKind(hash'[b], m)
    \/ b \notin N /\ (b \in Entries(old) \/ (hash[b] # NoHash /\ hash[b][1] = m))

(* A step of r takes the blocks N, which nobody else holds, and touches no  *)
(* other request.                                                           *)
Takes(r, N) ==
  /\ N \in SUBSET Blocks
  /\ \A s \in Reqs \ {r} : /\ req'[s] = req[s] /\ table'[s] = table[s]
                           /\ N \cap Held(table[s]) = {}
  /\ \A b \in Blocks \ N :
       /\ holds'[b] = holds[b]
       /\ \/ hash'[b] = hash[b]
          \/ b \in Entries(table[r].target) /\ hash'[b][1] = "target" /\ hash'[b] = holds[b]
          \/ b \in Entries(table[r].draft) /\ hash'[b][1] = "draft"
  /\ \A b \in N : hash'[b] # NoHash /\ hash'[b][1] = "target" => holds'[b] = hash'[b]

TablesFollow(r, N) ==
  /\ CameFrom(table'[r].target, table[r].target, N, "target")
  /\ CameFrom(table'[r].draft, table[r].draft, N, "draft")
  /\ Entries(table'[r].target) \cap Entries(table'[r].draft) = {}
  /\ NoRepeat(table'[r].draft)
  /\ \A i \in DOMAIN table'[r].target :
       holds'[table'[r].target[i]] = Key("target", req'[r].prompt, i)

TypedStep(r) ==
  /\ queue' \in [Blocks -> 0..Cardinality(Blocks)]
  /\ ref' \in [Blocks -> Nat]
  /\ hash' \in [Blocks -> Keys \cup {NoHash}]
  /\ holds' \in [Blocks -> Keys \cup {NoHash}]
  /\ req' \in [Reqs -> RequestType]
  /\ table' \in [Reqs -> Tables]
  /\ RequestOK(r)'

LEMMA OthersKept ==
  ASSUME PoolInv, NEW r \in Reqs, NEW N, Takes(r, N), TablesFollow(r, N), TypedStep(r),
         CountsFollow(r), OwnPlaces(queue'), QueueIsFree'
  PROVE  PoolInv'
<1> USE DEF PoolInv
<1>1. \A s \in Reqs \ {r} : /\ req'[s] = req[s] /\ table'[s] = table[s]
                            /\ N \cap Held(table[s]) = {}
  BY DEF Takes
<1>2. Typed'
  <2>1. \A s \in Reqs \ {r} : RequestOK(s)'
    BY <1>1 DEF Typed, RequestOK
  <2> QED
    BY <2>1 DEF Typed, TypedStep
<1>3. Counted'
  BY <1>1, CountsKept
<1>4. /\ \A s \in Reqs : table[s] \in Tables /\ table'[s] \in Tables
      /\ \A s \in Reqs : Entries(table[s].target) \subseteq Blocks
      /\ \A s \in Reqs : Entries(table[s].draft) \subseteq Blocks
      /\ \A s \in Reqs : Entries(table'[s].target) \subseteq Blocks
      /\ \A s \in Reqs : Entries(table'[s].draft) \subseteq Blocks
  BY <1>2, TableFacts DEF Typed
<1>5. ASSUME NEW s \in Reqs \ {r}, NEW b \in Entries(table[s].target)
      PROVE  /\ b \in Blocks \ N /\ b \notin Entries(table[r].draft)
             /\ OfKind(hash'[b], "target") /\ OfKind(hash[b], "target")
  <2>1. b \in Blocks \ N
    BY <1>1, <1>4 DEF Held
  <2>2. b \notin Entries(table[r].draft) /\ OfKind(hash[b], "target")
    BY DEF Apart, KindsKept
  <2> QED
    BY <2>1, <2>2 DEF Takes, OfKind
<1>6. ASSUME NEW s \in Reqs \ {r}, NEW b \in Entries(table[s].draft)
      PROVE  /\ b \in Blocks \ N /\ b \notin Entries(table[r].target)
             /\ OfKind(hash'[b], "draft") /\ OfKind(hash[b], "draft")
  <2>1. b \in Blocks \ N
    BY <1>1, <1>4 DEF Held
  <2>2. b \notin Entries(table[r].target) /\ OfKind(hash[b], "draft")
    BY DEF Apart, KindsKept
  <2> QED
    BY <2>1, <2>2 DEF Takes, OfKind
<1>7. KindsKept'
  <2>1. ASSUME NEW b \in Entries(table'[r].target) PROVE OfKind(hash'[b], "target")
    <3>1. CASE b \in N
      BY <2>1, <3>1 DEF TablesFollow, CameFrom
    <3>2. CASE b \notin N
      <4>1. /\ b \in Blocks \ N
            /\ b \in Entries(table[r].target) \/ (hash[b] # NoHash /\ hash[b][1] = "target")
        BY <1>4, <2>1, <3>2 DEF TablesFollow, CameFrom
      <4>2. b \notin Entries(table[r].draft) /\ OfKind(hash[b], "target")
        BY <4>1 DEF Apart, KindsKept, OfKind
      <4> QED
        BY <4>1, <4>2 DEF Takes, OfKind
    <3> QED
      BY <3>1, <3>2
  <2>2. ASSUME NEW b \in Entries(table'[r].draft) PROVE OfKind(hash'[b], "draft")
    <3>1. CASE b \in N
      BY <2>2, <3>1 DEF TablesFollow, CameFrom
    <3>2. CASE b \notin N
      <4>1. /\ b \in Blocks \ N
            /\ b \in Entries(table[r].draft) \/ (hash[b] # NoHash /\ hash[b][1] = "draft")
        BY <1>4, <2>2, <3>2 DEF TablesFollow, CameFrom
      <4>2. b \notin Entries(table[r].target) /\ OfKind(hash[b], "draft")
        BY <4>1 DEF Apart, KindsKept, OfKind
      <4> QED
        BY <4>1, <4>2 DEF Takes, OfKind
    <3> QED
      BY <3>1, <3>2
  <2> QED
    BY <1>1, <1>5, <1>6, <2>1, <2>2 DEF KindsKept
<1>8. Apart'
  <2>1. \A s \in Reqs \ {r} :
          Entries(table'[r].target) \cap Entries(table'[s].draft) = {}
    BY <1>1, <1>6 DEF TablesFollow, CameFrom, OfKind
  <2>2. \A s \in Reqs \ {r} :
          Entries(table'[s].target) \cap Entries(table'[r].draft) = {}
    BY <1>1, <1>5 DEF TablesFollow, CameFrom, OfKind
  <2>3. Entries(table'[r].target) \cap Entries(table'[r].draft) = {}
    BY DEF TablesFollow
  <2> QED
    BY <1>1, <2>1, <2>2, <2>3 DEF Apart
<1>9. DraftsNotRepeated'
  BY <1>1 DEF DraftsNotRepeated, TablesFollow
<1>10. HashTrue'
  BY DEF HashTrue, Takes
<1>11. TargetIntact'
  <2>1. ASSUME NEW s \in Reqs \ {r}, NEW i \in DOMAIN table'[s].target
        PROVE  holds'[table'[s].target[i]] = Key("target", req'[s].prompt, i)
    <3>1. table[s].target[i] \in Blocks \ N
      BY <1>1, <1>4, <1>5, TableFacts
    <3> QED
      BY <1>1, <3>1 DEF TargetIntact, Takes
  <2> QED
    BY <2>1 DEF TargetIntact, TablesFollow
<1> QED
  BY <1>2, <1>3, <1>7, <1>8, <1>9, <1>10, <1>11

(* A release frees the drafter's table, then the target's.                  *)
FreedDraft(r) == Freed(queue, table[r].draft, Entries(table[r].draft), ref)

LEMMA ReleasedPlaces ==
  ASSUME PoolInv, NEW r \in Reqs
  PROVE  /\ Places(Released(r)) /\ Packed(Released(r))
         /\ InQueue(FreedDraft(r)) = InQueue(queue) \cup Unheld(ref, Entries(table[r].draft))
         /\ InQueue(Released(r)) = InQueue(queue) \cup Unheld(ref, Held(table[r]))
         /\ FreedOrder(FreedDraft(r), queue, Unheld(ref, Entries(table[r].draft)))
         /\ FreedOrder(Released(r), FreedDraft(r), Unheld(ref, Entries(table[r].target)))
<1> USE DEF PoolInv
<1>1. Places(queue) /\ table[r] \in Tables /\ req[r] \in RequestType /\ RequestOK(r)
  BY DEF Places, Typed
<1>2. req[r].len \in 0..MaxLen
  BY <1>1 DEF RequestType
<1>3. /\ DOMAIN table[r].target = 1..req[r].len /\ DOMAIN table[r].draft = 1..req[r].len
      /\ Entries(table[r].target) \subseteq Blocks /\ Entries(table[r].draft) \subseteq Blocks
  BY <1>1, TableFacts DEF RequestOK
<1>4. /\ \A b \in Entries(table[r].target) : \E i \in 1..req[r].len : table[r].target[i] = b
      /\ \A b \in Entries(table[r].draft) : \E i \in 1..req[r].len : table[r].draft[i] = b
  BY <1>3 DEF Entries
<1>5. /\ Places(FreedDraft(r))
      /\ InQueue(FreedDraft(r)) = InQueue(queue) \cup Unheld(ref, Entries(table[r].draft))
      /\ FreedOrder(FreedDraft(r), queue, Unheld(ref, Entries(table[r].draft)))
  BY <1>1, <1>2, <1>3, <1>4, FreedPlaces DEF FreedDraft
<1>6. Released(r) = Freed(FreedDraft(r), table[r].target, Entries(table[r].target), ref)
  BY DEF Released, FreedDraft
<1>7. /\ Places(Released(r)) /\ Packed(Released(r))
      /\ InQueue(Released(r)) =
           InQueue(FreedDraft(r)) \cup Unheld(ref, Entries(table[r].target))
      /\ FreedOrder(Released(r), FreedDraft(r), Unheld(ref, Entries(table[r].target)))
  BY <1>2, <1>3, <1>4, <1>5, <1>6, FreedPlaces
<1>8. Unheld(ref, Held(table[r])) =
        Unheld(ref, Entries(table[r].draft)) \cup Unheld(ref, Entries(table[r].target))
  BY DEF Unheld, Held
<1> QED
  BY <1>5, <1>7, <1>8

LEMMA ReleaseKeeps ==
  ASSUME PoolInv, NEW r \in Reqs, Release(r)
  PROVE  PoolInv'
<1> USE DEF PoolInv, Release
<1>1. /\ table[r] \in Tables /\ Held(table[r]) \subseteq Blocks
      /\ ref \in [Blocks -> Nat]
  BY TableFacts DEF Typed
<1>2. table'[r] = NoTable /\ req'[r] = Out
  BY DEF Typed
<1>3. Entries(NoTable.target) = {} /\ Entries(NoTable.draft) = {} /\ Held(NoTable) = {}
  BY DEF NoTable, Entries, Held
<1>4. \A b \in Held(table[r]) : ref[b] # 0
  BY <1>1, CountFacts
<1>5. \A b \in Blocks : ref'[b] = IF b \in Held(table[r]) THEN ref[b] - 1 ELSE ref[b]
  BY DEF Dropped
<1>6. TypedStep(r)
  <2>1. queue' \in [Blocks -> 0..Cardinality(Blocks)]
    BY ReleasedPlaces DEF Places
  <2>2. ref' \in [Blocks -> Nat]
    BY <1>1, <1>4 DEF Dropped
  <2>3. hash' = hash /\ holds' = holds
    OBVIOUS
  <2>4. Out \in RequestType /\ NoTable \in Tables
    BY PromptsAssumption DEF Out, NoTable, RequestType, Tables
  <2>5. req' \in [Reqs -> RequestType] /\ table' \in [Reqs -> Tables]
    BY <2>4 DEF Typed
  <2>6. RequestOK(r)'
    BY <1>2 DEF RequestOK, Out, NoTable
  <2> QED
    BY <2>1, <2>2, <2>3, <2>5, <2>6 DEF TypedStep, Typed
<1>7. CountsFollow(r)
  BY <1>2, <1>3, <1>5 DEF CountsFollow
<1>8. OwnPlaces(queue') /\ QueueIsFree'
  <2>1. OwnPlaces(queue')
    BY ReleasedPlaces DEF Places
  <2>2. InQueue(queue') = InQueue(queue) \cup Unheld(ref, Held(table[r]))
    BY ReleasedPlaces
  <2>3. InQueue(queue') = {b \in Blocks : ref'[b] = 0}
    BY <1>1, <1>4, <1>5, <2>2 DEF QueueIsFree, Unheld
  <2> QED
    BY <2>1, <2>3 DEF QueueIsFree
<1>9. Takes(r, {})
  BY DEF Takes, Typed
<1>10. TablesFollow(r, {})
  BY <1>2, <1>3 DEF TablesFollow, CameFrom, NoTable, NoRepeat
<1> QED
  BY <1>6, <1>7, <1>8, <1>9, <1>10, OthersKept

LEMMA FillKeeps ==
  ASSUME PoolInv, NEW r \in Reqs, Fill(r)
  PROVE  PoolInv'
<1> USE DEF PoolInv
<1> DEFINE n == req[r].len
           p == req[r].prompt
           a == table[r].target[n]
           d == table[r].draft[n]
           new == [b \in {a, d} |-> Key(IF b = a THEN "target" ELSE "draft", p, n)]
<1>1. /\ table[r] \in Tables /\ RequestOK(r) /\ req[r] \in RequestType
      /\ hash \in [Blocks -> Keys \cup {NoHash}]
  BY DEF Typed
<1>2. p \in Prompts /\ n \in 1..Len(p)
  BY <1>1 DEF Fill, RequestOK
<1>3. n \in DOMAIN table[r].target /\ n \in DOMAIN table[r].draft
  BY <1>1, <1>2, TableFacts, PromptLength DEF RequestOK
<1>4. holds[a] = Key("target", p, n)
  BY <1>3 DEF TargetIntact
<1>5. a \in Entries(table[r].target) /\ (d # Null => d \in Entries(table[r].draft))
  BY <1>1, <1>3, TableFacts
<1>6. new \in [{a, d} -> Keys]
  BY <1>2, KeyFacts
<1>7. hash' \in Stored(hash, new, req[r].quiet)
  BY DEF Fill
<1>8. /\ req' = [req EXCEPT ![r].full = TRUE]
      /\ queue' = queue /\ ref' = ref /\ holds' = holds /\ table' = table
  BY DEF Fill
<1>9. /\ hash' \in [Blocks -> Keys \cup {NoHash}]
      /\ \A b \in Blocks : hash'[b] = hash[b] \/ (b \in {a, d} /\ hash'[b] = new[b])
  <2>1. req[r].quiet \in BOOLEAN
    BY <1>1 DEF RequestType
  <2> HIDE DEF new, a, d
  <2> QED
    BY <1>1, <1>6, <1>7, <2>1, StoredFacts
<1>10. \A s \in Reqs : /\ s # r => req'[s] = req[s]
                       /\ req'[s].prompt = req[s].prompt /\ req'[s].len = req[s].len
                       /\ req'[s].on = req[s].on
  BY <1>8 DEF Typed, RequestType
<1>11. TypedStep(r)
  <2>1. req' \in [Reqs -> RequestType]
    BY <1>8 DEF Typed, RequestType
  <2>2. RequestOK(r)'
    BY <1>1, <1>8, <1>10 DEF RequestOK, Fill
  <2> QED
    BY <1>8, <1>9, <2>1, <2>2 DEF TypedStep, Typed
<1>12. Takes(r, {})
  <2>1. ASSUME NEW b \in Blocks, hash'[b] # hash[b]
        PROVE  \/ b \in Entries(table[r].target) /\ hash'[b][1] = "target" /\ hash'[b] = holds[b]
               \/ b \in Entries(table[r].draft) /\ hash'[b][1] = "draft"
    <3>1. CASE b = a
      <4>1. hash'[b] = Key("target", p, n)
        BY <1>9, <2>1, <3>1
      <4>2. Key("target", p, n)[1] = "target"
        BY <1>2, KeyFacts
      <4> HIDE DEF a, n, p
      <4> QED
        BY <1>4, <1>5, <3>1, <4>1, <4>2
    <3>2. CASE b # a
      <4>1. b = d /\ hash'[b] = Key("draft", p, n)
        BY <1>9, <2>1, <3>2
      <4>2. d # Null
        BY <4>1, BlocksAssumption DEF Null
      <4> QED
        BY <1>2, <1>5, <4>1, <4>2, KeyFacts
    <3> QED
      BY <3>1, <3>2
  <2> QED
    BY <1>8, <1>10, <2>1 DEF Takes
<1>13. TablesFollow(r, {})
  BY <1>8, <1>10 DEF TablesFollow, CameFrom, Apart, DraftsNotRepeated, TargetIntact
<1>14. CountsFollow(r)
  BY <1>8 DEF CountsFollow
<1>15. OwnPlaces(queue') /\ QueueIsFree'
  BY <1>8 DEF OwnPlaces, QueueIsFree
<1> QED
  BY <1>11, <1>12, <1>13, <1>14, <1>15, OthersKept

LEMMA ResetKeeps ==
  ASSUME PoolInv, Reset
  PROVE  PoolInv'
<1> USE DEF PoolInv, Reset
<1>1. \A b \in Blocks : hash'[b] = NoHash
  OBVIOUS
<1>2. Typed'
  BY DEF Typed, RequestOK
<1>3. \A r \in Reqs : Entries(table[r].target) \subseteq Blocks /\ Entries(table[r].draft) \subseteq Blocks
  BY TableFacts DEF Typed
<1>4. KindsKept'
  BY <1>1, <1>3 DEF KindsKept, OfKind
<1>5. HashTrue'
  BY <1>1 DEF HashTrue
<1>6. TargetIntact' /\ Apart' /\ DraftsNotRepeated'
  BY DEF TargetIntact, Apart, DraftsNotRepeated
<1>7. OwnPlaces(queue') /\ QueueIsFree' /\ Counted'
  BY DEF OwnPlaces, QueueIsFree, Counted, Holders
<1> QED
  BY <1>2, <1>4, <1>5, <1>6, <1>7

(* Tables that grow by a block at their end.                                *)
LEMMA AppendFacts ==
  ASSUME NEW T, NEW s \in Seq(T), NEW x, x # Null
  PROVE  /\ Entries(Append(s, x)) = Entries(s) \cup {x}
         /\ NoRepeat(s) /\ x \notin Entries(s) => NoRepeat(Append(s, x))
<1>1. /\ DOMAIN s = 1..Len(s) /\ Len(s) \in Nat
      /\ DOMAIN Append(s, x) = 1..(Len(s) + 1)
      /\ \A i \in 1..Len(s) : Append(s, x)[i] = s[i]
      /\ Append(s, x)[Len(s) + 1] = x
  OBVIOUS
<1>2. \A i \in 1..(Len(s) + 1) : i \in 1..Len(s) \/ i = Len(s) + 1
  BY <1>1
<1>3. Entries(Append(s, x)) = Entries(s) \cup {x}
  <2>1. ASSUME NEW y \in Entries(s) \cup {x} PROVE y \in Entries(Append(s, x))
    <3>1. CASE y = x
      BY <1>1, <3>1 DEF Entries
    <3>2. CASE y # x
      <4>1. y # Null /\ \E i \in 1..Len(s) : y = s[i]
        BY <1>1, <2>1, <3>2 DEF Entries
      <4> QED
        BY <1>1, <4>1 DEF Entries
    <3> QED
      BY <3>1, <3>2
  <2>2. ASSUME NEW y \in Entries(Append(s, x)) PROVE y \in Entries(s) \cup {x}
    BY <1>1, <1>2, <2>2 DEF Entries
  <2> QED
    BY <2>1, <2>2
<1>4. ASSUME NoRepeat(s), x \notin Entries(s) PROVE NoRepeat(Append(s, x))
  <2>1. \A i \in 1..Len(s) : s[i] # x
    BY <1>1, <1>4 DEF Entries
  <2> QED
    BY <1>1, <1>2, <1>4, <2>1 DEF NoRepeat
<1> QED
  BY <1>3, <1>4

(* What the window has passed leaves the drafter's table for the queue.     *)
FreedPassed(r) == Freed(queue, table[r].draft, Passed(r), ref)

LEMMA PassedFacts ==
  ASSUME PoolInv, NEW r \in Reqs, req[r].on
  PROVE  /\ Passed(r) \subseteq Entries(table[r].draft)
         /\ WithoutPassed(r) \in Seq(Blocks \cup {Null})
         /\ Len(WithoutPassed(r)) = req[r].len
         /\ Entries(WithoutPassed(r)) = Entries(table[r].draft) \ Passed(r)
         /\ NoRepeat(WithoutPassed(r))
<1> USE DEF PoolInv
<1> DEFINE s == table[r].draft
           n == req[r].len
           k == Skipped(n)
<1>1. /\ table[r] \in Tables /\ RequestOK(r) /\ s \in Seq(Blocks \cup {Null})
      /\ NoRepeat(s)
  BY DEF Typed, Tables, DraftsNotRepeated
<1>2. n \in Nat /\ k \in Nat /\ k <= n /\ DOMAIN s = 1..n
  BY <1>1, WindowAssumption, PromptLength DEF RequestOK, Skipped
<1>3. Passed(r) = {s[i] : i \in 1..k} \ {Null}
  BY DEF Passed
<1>4. \A i \in 1..n : WithoutPassed(r)[i] = IF i <= k THEN Null ELSE s[i]
  BY <1>2 DEF WithoutPassed
<1>5. WithoutPassed(r) = [i \in 1..n |-> IF i <= k THEN Null ELSE s[i]]
  BY <1>2 DEF WithoutPassed
<1> HIDE DEF s, n, k
<1>6. WithoutPassed(r) \in Seq(Blocks \cup {Null}) /\ Len(WithoutPassed(r)) = n
  <2>1. WithoutPassed(r) \in [1..n -> Blocks \cup {Null}]
    BY <1>1, <1>2, <1>5
  <2> QED
    BY <1>2, <2>1
<1>7. DOMAIN WithoutPassed(r) = 1..n
  BY <1>5
<1>8. Passed(r) \subseteq Entries(s)
  BY <1>2, <1>3 DEF Entries
<1>9. NoRepeat(WithoutPassed(r))
  BY <1>1, <1>2, <1>4, <1>7 DEF NoRepeat
<1>10. Entries(WithoutPassed(r)) = Entries(s) \ Passed(r)
  <2>1. ASSUME NEW x \in Entries(WithoutPassed(r)) PROVE x \in Entries(s) \ Passed(r)
    <3>1. PICK i \in 1..n : x = WithoutPassed(r)[i] /\ x # Null
      BY <1>7, <2>1 DEF Entries
    <3>2. x = s[i] /\ i \notin 1..k
      BY <1>2, <1>4, <3>1
    <3>3. \A j \in 1..k : s[j] # x
      BY <1>1, <1>2, <3>1, <3>2 DEF NoRepeat
    <3> QED
      BY <1>2, <1>3, <3>1, <3>2, <3>3 DEF Entries
  <2>2. ASSUME NEW x \in Entries(s) \ Passed(r) PROVE x \in Entries(WithoutPassed(r))
    <3>1. PICK i \in 1..n : x = s[i] /\ x # Null
      BY <1>2, <2>2 DEF Entries
    <3>2. i \notin 1..k
      BY <1>3, <2>2, <3>1
    <3>3. WithoutPassed(r)[i] = x
      BY <1>2, <1>4, <3>1, <3>2
    <3> QED
      BY <1>7, <3>1, <3>3 DEF Entries
  <2> QED
    BY <2>1, <2>2
<1> QED
  BY <1>6, <1>8, <1>9, <1>10 DEF s, n

LEMMA FreedPassedPlaces ==
  ASSUME PoolInv, NEW r \in Reqs, req[r].on
  PROVE  /\ Places(FreedPassed(r))
         /\ InQueue(FreedPassed(r)) = InQueue(queue) \cup Unheld(ref, Passed(r))
         /\ FreedOrder(FreedPassed(r), queue, Unheld(ref, Passed(r)))
<1> USE DEF PoolInv
<1>1. Places(queue) /\ table[r] \in Tables /\ req[r] \in RequestType /\ RequestOK(r)
  BY DEF Places, Typed
<1>2. req[r].len \in 0..MaxLen
  BY <1>1 DEF RequestType
<1>3. DOMAIN table[r].draft = 1..req[r].len /\ Entries(table[r].draft) \subseteq Blocks
  BY <1>1, TableFacts DEF RequestOK
<1>4. \A b \in Entries(table[r].draft) : \E i \in 1..req[r].len : table[r].draft[i] = b
  BY <1>3 DEF Entries
<1>5. Passed(r) \subseteq Entries(table[r].draft)
  BY PassedFacts
<1> QED
  BY <1>1, <1>2, <1>3, <1>4, <1>5, FreedPlaces DEF FreedPassed

(* There are not enough blocks for a running request: what its window has   *)
(* passed is given back all the same.                                       *)
LEMMA ShortGrowKeeps ==
  ASSUME PoolInv, NEW r \in Reqs, req[r].on,
         queue' = FreedPassed(r), ref' = Dropped(ref, Passed(r)),
         table' = [table EXCEPT ![r].draft = WithoutPassed(r)],
         UNCHANGED <<hash, holds, req>>
  PROVE  PoolInv'
<1> USE DEF PoolInv
<1>1. /\ table[r] \in Tables /\ Held(table[r]) \subseteq Blocks
      /\ ref \in [Blocks -> Nat] /\ table \in [Reqs -> Tables] /\ RequestOK(r)
  BY TableFacts DEF Typed
<1>2. /\ table'[r].target = table[r].target /\ table'[r].draft = WithoutPassed(r)
      /\ \A s \in Reqs \ {r} : table'[s] = table[s]
  BY <1>1 DEF Tables
<1>3. /\ Entries(table'[r].draft) = Entries(table[r].draft) \ Passed(r)
      /\ Passed(r) \subseteq Entries(table[r].draft)
  BY <1>2, PassedFacts
<1>4. Held(table'[r]) = Held(table[r]) \ Passed(r) /\ Passed(r) \subseteq Held(table[r])
  <2>1. Entries(table[r].target) \cap Entries(table[r].draft) = {}
    BY DEF Apart
  <2> QED
    BY <1>2, <1>3, <2>1 DEF Held
<1>5. \A b \in Held(table[r]) : ref[b] # 0
  BY <1>1, CountFacts
<1>6. \A b \in Blocks : ref'[b] = IF b \in Passed(r) THEN ref[b] - 1 ELSE ref[b]
  BY DEF Dropped
<1>7. TypedStep(r)
  <2>1. queue' \in [Blocks -> 0..Cardinality(Blocks)]
    BY FreedPassedPlaces DEF Places
  <2>2. ref' \in [Blocks -> Nat]
    BY <1>1, <1>4, <1>5 DEF Dropped
  <2>3. table' \in [Reqs -> Tables]
    BY <1>1, PassedFacts DEF Tables
  <2>4. RequestOK(r)'
    BY <1>1, <1>2, PassedFacts DEF RequestOK
  <2> QED
    BY <2>1, <2>2, <2>3, <2>4 DEF TypedStep, Typed
<1>8. CountsFollow(r)
  BY <1>4, <1>6 DEF CountsFollow
<1>9. OwnPlaces(queue') /\ QueueIsFree'
  <2>1. OwnPlaces(queue') /\ InQueue(queue') = InQueue(queue) \cup Unheld(ref, Passed(r))
    BY FreedPassedPlaces DEF Places
  <2>2. InQueue(queue') = {b \in Blocks : ref'[b] = 0}
    BY <1>1, <1>4, <1>5, <1>6, <2>1 DEF QueueIsFree, Unheld
  <2> QED
    BY <2>1, <2>2 DEF QueueIsFree
<1>10. Takes(r, {})
  BY <1>2 DEF Takes
<1>11. TablesFollow(r, {})
  <2>1. Entries(table[r].target) \cap Entries(table[r].draft) = {}
    BY DEF Apart
  <2>2. NoRepeat(table'[r].draft)
    BY <1>2, PassedFacts
  <2> QED
    BY <1>2, <1>3, <2>1, <2>2 DEF TablesFollow, CameFrom, TargetIntact
<1> QED
  BY <1>7, <1>8, <1>9, <1>10, <1>11, OthersKept

(* A running request takes a block for each manager.                        *)
GrowKey(r, new) ==
  [b \in Entries(new) |-> Key(IF b = new[1] THEN "target" ELSE "draft",
                              req[r].prompt, req[r].len + 1)]

GrowTakes(r, new, full, key) ==
  /\ req[r].on /\ req[r].len < Len(req[r].prompt)
  /\ new \in Popped(FreedPassed(r), 2) /\ full \in BOOLEAN /\ key = GrowKey(r, new)
  /\ queue' = Behind(FreedPassed(r), 2)
  /\ ref' = [b \in Blocks |-> IF b \in DOMAIN key THEN 1 ELSE Dropped(ref, Passed(r))[b]]
  /\ holds' = [b \in Blocks |-> IF b \in DOMAIN key THEN key[b] ELSE holds[b]]
  /\ hash' \in Stored(Evicted(hash, DOMAIN key),
                      [b \in IF full THEN DOMAIN key ELSE {} |-> key[b]], req[r].quiet)
  /\ req' = [req EXCEPT ![r].len = req[r].len + 1, ![r].full = full]
  /\ table' = [table EXCEPT ![r] = [target |-> Append(@.target, new[1]),
                                    draft |-> Append(WithoutPassed(r), new[2])]]

LEMMA FullGrowKeeps ==
  ASSUME PoolInv, NEW r \in Reqs, NEW new, NEW full, NEW key, GrowTakes(r, new, full, key)
  PROVE  PoolInv'
<1> USE DEF PoolInv
<1> DEFINE N == {new[1], new[2]}
           p == req[r].prompt
           n == req[r].len + 1
<1>1. /\ table[r] \in Tables /\ Held(table[r]) \subseteq Blocks
      /\ ref \in [Blocks -> Nat] /\ table \in [Reqs -> Tables] /\ RequestOK(r)
      /\ hash \in [Blocks -> Keys \cup {NoHash}] /\ holds \in [Blocks -> Keys \cup {NoHash}]
      /\ req \in [Reqs -> RequestType]
  BY TableFacts DEF Typed
<1>2. p \in Prompts /\ n \in 1..Len(p) /\ n \in 0..MaxLen /\ req[r].len \in Nat
  BY <1>1, PromptLength DEF RequestOK, GrowTakes
<1>3. Places(FreedPassed(r)) /\ InQueue(FreedPassed(r)) = InQueue(queue) \cup Unheld(ref, Passed(r))
  BY FreedPassedPlaces DEF GrowTakes
<1>4. /\ new \in [1..2 -> Blocks] /\ new[1] # new[2]
      /\ Entries(new) \subseteq InQueue(FreedPassed(r))
      /\ Places(queue') /\ InQueue(queue') = InQueue(FreedPassed(r)) \ Entries(new)
  <2> DEFINE q == FreedPassed(r)
  <2>1. Places(q) /\ new \in Popped(q, 2) /\ queue' = Behind(q, 2) /\ 2 \in Nat
    BY <1>3 DEF GrowTakes
  <2> HIDE DEF q
  <2>2. /\ new \in [1..2 -> Blocks]
        /\ \A i, j \in 1..2 : new[i] = new[j] => i = j
        /\ Entries(new) \subseteq InQueue(q)
        /\ Places(Behind(q, 2)) /\ InQueue(Behind(q, 2)) = InQueue(q) \ Entries(new)
    BY <2>1, PoppedPlaces
  <2> QED
    BY <2>1, <2>2 DEF q
<1>5. /\ new[1] \in Blocks /\ new[2] \in Blocks /\ new[1] # Null /\ new[2] # Null
      /\ Entries(new) = N /\ DOMAIN key = N
  BY <1>4, BlocksAssumption DEF Null, Entries, GrowTakes, GrowKey
<1>6. Passed(r) \subseteq Entries(table[r].draft) /\ Passed(r) \subseteq Held(table[r])
  BY PassedFacts DEF Held, GrowTakes
<1>7. \A b \in N : \/ ref[b] = 0 /\ \A s \in Reqs : b \notin Held(table[s])
                   \/ /\ ref[b] = 1 /\ b \in Passed(r)
                      /\ \A s \in Reqs \ {r} : b \notin Held(table[s])
  <2> TAKE b \in N
  <2>1. b \in Blocks /\ b \in InQueue(queue) \cup Unheld(ref, Passed(r))
    BY <1>3, <1>4, <1>5
  <2>2. CASE b \in InQueue(queue)
    BY <2>1, <2>2, CountFacts DEF QueueIsFree
  <2>3. CASE b \in Unheld(ref, Passed(r))
    BY <1>6, <2>1, <2>3, CountFacts DEF Unheld
  <2> QED
    BY <2>1, <2>2, <2>3
<1>8. /\ table'[r].target = Append(table[r].target, new[1])
      /\ table'[r].draft = Append(WithoutPassed(r), new[2])
      /\ \A s \in Reqs \ {r} : table'[s] = table[s] /\ req'[s] = req[s]
      /\ req'[r].on = TRUE /\ req'[r].prompt = p /\ req'[r].len = n
      /\ req'[r].full = full /\ req'[r].quiet = req[r].quiet
  BY <1>1 DEF Tables, RequestType, GrowTakes
<1>9. /\ table[r].target \in Seq(Blocks) /\ WithoutPassed(r) \in Seq(Blocks \cup {Null})
      /\ Entries(WithoutPassed(r)) = Entries(table[r].draft) \ Passed(r)
      /\ NoRepeat(WithoutPassed(r)) /\ Len(WithoutPassed(r)) = req[r].len
      /\ full \in BOOLEAN
  BY <1>1, PassedFacts DEF Tables, GrowTakes
<1>10. Entries(table[r].target) \cap Entries(table[r].draft) = {}
  BY DEF Apart
<1>11. /\ Entries(table'[r].target) = Entries(table[r].target) \cup {new[1]}
       /\ Entries(table'[r].draft) = (Entries(table[r].draft) \ Passed(r)) \cup {new[2]}
       /\ NoRepeat(table'[r].draft)
  <2>1. new[2] \notin Entries(WithoutPassed(r))
    BY <1>5, <1>7, <1>9 DEF Held
  <2> QED
    BY <1>5, <1>8, <1>9, <2>1, AppendFacts
<1>12. \A b \in N : b \notin Entries(table[r].target)
  BY <1>6, <1>7, <1>10 DEF Held
<1>13. Held(table'[r]) = (Held(table[r]) \ Passed(r)) \cup N
  BY <1>6, <1>10, <1>11 DEF Held
<1>14. /\ key[new[1]] = Key("target", p, n) /\ key[new[2]] = Key("draft", p, n)
       /\ key \in [N -> Keys]
  <2>1. key = [b \in N |-> Key(IF b = new[1] THEN "target" ELSE "draft", p, n)]
    BY <1>5 DEF GrowTakes, GrowKey
  <2>2. Key("target", p, n) \in Keys /\ Key("draft", p, n) \in Keys
    BY <1>2, KeyFacts
  <2> HIDE DEF p, n
  <2> QED
    BY <1>4, <2>1, <2>2
<1>15. /\ hash' \in [Blocks -> Keys \cup {NoHash}]
       /\ \A b \in Blocks \ N : hash'[b] = hash[b]
       /\ \A b \in N : hash'[b] = NoHash \/ hash'[b] = key[b]
  <2> DEFINE D == IF full THEN N ELSE {}
             fresh == [b \in D |-> key[b]]
             h == Evicted(hash, N)
  <2>1. fresh \in [D -> Keys]
    BY <1>14
  <2>2. hash' \in Stored(h, fresh, req[r].quiet)
    BY <1>5 DEF GrowTakes
  <2>3. h \in [Blocks -> Keys \cup {NoHash}]
        /\ \A b \in Blocks : h[b] = IF b \in N THEN NoHash ELSE hash[b]
    BY <1>1, EvictedFacts
  <2>4. req[r].quiet \in BOOLEAN
    BY <1>1 DEF RequestType
  <2>5. \A b \in D : fresh[b] = key[b] /\ b \in N
    OBVIOUS
  <2> HIDE DEF fresh, h, D, N
  <2>6. /\ hash' \in [Blocks -> Keys \cup {NoHash}]
        /\ \A b \in Blocks : hash'[b] = h[b] \/ (b \in D /\ hash'[b] = fresh[b])
    BY <2>1, <2>2, <2>3, <2>4, StoredFacts
  <2>7. N \subseteq Blocks
    BY <1>5 DEF N
  <2> QED
    BY <2>3, <2>5, <2>6, <2>7
<1>16. \A b \in Blocks : /\ ref'[b] = IF b \in N THEN 1
                                      ELSE IF b \in Passed(r) THEN ref[b] - 1 ELSE ref[b]
                         /\ holds'[b] = IF b \in N THEN key[b] ELSE holds[b]
  BY <1>5 DEF Dropped, GrowTakes
<1>17. \A b \in Held(table[r]) : ref[b] # 0
  BY <1>1, CountFacts
<1>18. /\ ref' = [b \in Blocks |-> ref'[b]] /\ holds' = [b \in Blocks |-> holds'[b]]
       /\ table' = [table EXCEPT ![r] = [target |-> Append(@.target, new[1]),
                                         draft |-> Append(WithoutPassed(r), new[2])]]
       /\ req' = [req EXCEPT ![r].len = n, ![r].full = full]
  BY DEF GrowTakes
<1> HIDE DEF N, p, n
<1>19. TypedStep(r)
  <2>1. ref' \in [Blocks -> Nat]
    <3>1. ASSUME NEW b \in Blocks PROVE ref'[b] \in Nat
      <4>1. ref[b] \in Nat /\ (b \in Passed(r) => ref[b] # 0)
        BY <1>1, <1>6, <1>17
      <4> QED
        BY <1>16, <4>1
    <3> QED
      BY <1>18, <3>1
  <2>2. holds' \in [Blocks -> Keys \cup {NoHash}]
    <3>1. \A b \in Blocks : holds'[b] \in Keys \cup {NoHash}
      BY <1>1, <1>14, <1>16
    <3> QED
      BY <1>18, <3>1
  <2>3. req' \in [Reqs -> RequestType]
    BY <1>1, <1>2, <1>9, <1>18 DEF RequestType
  <2>4. table' \in [Reqs -> Tables]
    BY <1>1, <1>5, <1>9, <1>18 DEF Tables
  <2>5. Len(table'[r].target) = n /\ Len(table'[r].draft) = n
    BY <1>1, <1>2, <1>8, <1>9 DEF RequestOK, n
  <2>6. RequestOK(r)'
    BY <1>2, <1>8, <2>5 DEF RequestOK
  <2> QED
    BY <1>4, <1>15, <2>1, <2>2, <2>3, <2>4, <2>6 DEF TypedStep, Places
<1>20. CountsFollow(r)
  BY <1>6, <1>7, <1>13, <1>16 DEF CountsFollow
<1>21. OwnPlaces(queue') /\ QueueIsFree'
  <2>1. InQueue(queue') = (InQueue(queue) \cup Unheld(ref, Passed(r))) \ N
    BY <1>3, <1>4, <1>5
  <2>2. \A b \in Blocks : ref[b] \in Nat
    BY <1>1
  <2>3. InQueue(queue') = {b \in Blocks : ref'[b] = 0}
    BY <1>1, <1>6, <1>16, <1>17, <2>1, <2>2 DEF QueueIsFree, Unheld
  <2> QED
    BY <1>4, <2>3 DEF QueueIsFree, Places
<1>22. Takes(r, N)
  <2>1. \A s \in Reqs \ {r} : N \cap Held(table[s]) = {}
    BY <1>7
  <2>2. N \in SUBSET Blocks
    BY <1>5 DEF N
  <2> QED
    BY <1>8, <1>15, <1>16, <2>1, <2>2 DEF Takes
<1>23. TablesFollow(r, N)
  <2>1. new[1] \in N /\ new[2] \in N
    BY DEF N
  <2>2. OfKind(hash'[new[1]], "target") /\ OfKind(hash'[new[2]], "draft")
    BY <1>2, <1>14, <1>15, <2>1, KeyFacts DEF OfKind
  <2>3. CameFrom(table'[r].target, table[r].target, N, "target")
    BY <1>11, <1>12, <2>1, <2>2 DEF CameFrom
  <2>4. \A b \in N : b \notin Entries(table[r].draft) \ Passed(r)
    BY <1>7 DEF Held
  <2>5. CameFrom(table'[r].draft, table[r].draft, N, "draft")
    BY <1>11, <2>1, <2>2, <2>4 DEF CameFrom
  <2>6. Entries(table'[r].target) \cap Entries(table'[r].draft) = {}
    BY <1>4, <1>10, <1>11, <1>12, <2>1, <2>4
  <2>7. ASSUME NEW i \in DOMAIN table'[r].target
        PROVE  holds'[table'[r].target[i]] = Key("target", p, i)
    <3>1. DOMAIN table[r].target = 1..req[r].len /\ DOMAIN table'[r].target = 1..n
      BY <1>1, <1>2, <1>8, <1>9 DEF RequestOK, n
    <3>2. CASE i = n
      <4>1. table'[r].target[i] = new[1]
        BY <1>1, <1>2, <1>8, <1>9, <3>2 DEF RequestOK, n
      <4> QED
        BY <1>5, <1>14, <1>16, <2>1, <3>2, <4>1
    <3>3. CASE i # n
      <4>1. i \in DOMAIN table[r].target /\ table'[r].target[i] = table[r].target[i]
        BY <1>1, <1>2, <1>8, <1>9, <3>1, <3>3 DEF RequestOK, n
      <4>2. table[r].target[i] \in Blocks /\ table[r].target[i] \notin N
        BY <1>1, <1>12, <4>1, TableFacts DEF Held
      <4> QED
        BY <1>16, <4>1, <4>2 DEF TargetIntact, p
    <3> QED
      BY <3>2, <3>3
  <2> QED
    BY <1>8, <1>11, <2>3, <2>5, <2>6, <2>7 DEF TablesFollow
<1> QED
  BY <1>4, <1>19, <1>20, <1>21, <1>22, <1>23, OthersKept

LEMMA GrowKeeps ==
  ASSUME PoolInv, NEW r \in Reqs, Grow(r)
  PROVE  PoolInv'
<1>1. req[r].on /\ req[r].len < Len(req[r].prompt)
  BY DEF Grow
<1>2. CASE /\ queue' = FreedPassed(r) /\ ref' = Dropped(ref, Passed(r))
           /\ table' = [table EXCEPT ![r].draft = WithoutPassed(r)]
           /\ UNCHANGED <<hash, holds, req>>
  BY <1>1, <1>2, ShortGrowKeeps
<1>3. CASE \E new \in Popped(FreedPassed(r), 2), full \in BOOLEAN :
             GrowTakes(r, new, full, GrowKey(r, new))
  BY <1>3, FullGrowKeeps
<1> QED
  BY <1>1, <1>2, <1>3 DEF Grow, FreedPassed, GrowTakes, GrowKey

-----------------------------------------------------------------------------
(* Admission                                                                *)

Warms(p, h) == {d \in DraftHit(p, h) : h > 0} \cup {<<>>}
Need(h, warm) == 2 + (IF warm = <<>> THEN h - Skipped(h) ELSE 0)
Base(h, warm) == IF warm = <<>> THEN [i \in 1..Skipped(h) |-> Null] ELSE warm
NewDraft(h, warm, new) == Base(h, warm) \o Tail(new)

LEMMA SkippedRange == ASSUME NEW n \in Nat PROVE Skipped(n) \in 0..n
BY WindowAssumption DEF Skipped

(* The drafter's part of a hit, or the blank front of an empty window.      *)
LEMMA BaseFacts ==
  ASSUME NEW p \in Prompts, NEW h \in 0..(Len(p) - 1), NEW warm \in Warms(p, h)
  PROVE  /\ Base(h, warm) \in Seq(Blocks \cup {Null})
         /\ Need(h, warm) \in Nat /\ Need(h, warm) >= 2
         /\ Len(Base(h, warm)) + Need(h, warm) = h + 2
         /\ NoRepeat(Base(h, warm)) /\ Entries(Base(h, warm)) = Entries(warm)
         /\ \A b \in Entries(warm) :
              b \in Blocks /\ hash[b] # NoHash /\ hash[b][1] = "draft"
<1>1. h \in Nat /\ h < Len(p) /\ Skipped(h) \in 0..h /\ Len(p) \in Nat
  <2>1. Len(p) \in Nat
    BY PromptLength
  <2>2. h \in Nat /\ h < Len(p)
    BY <2>1
  <2> QED
    BY <2>1, <2>2, SkippedRange
<1>2. CASE warm = <<>>
  <2>1. Base(h, warm) = [i \in 1..Skipped(h) |-> Null]
    BY <1>2 DEF Base
  <2>2. Base(h, warm) \in Seq(Blocks \cup {Null}) /\ Len(Base(h, warm)) = Skipped(h)
    <3>1. Base(h, warm) \in [1..Skipped(h) -> Blocks \cup {Null}]
      BY <2>1
    <3> QED
      BY <1>1, <3>1
  <2>3. NoRepeat(Base(h, warm)) /\ Entries(Base(h, warm)) = {}
    BY <2>1 DEF NoRepeat, Entries
  <2>4. Entries(warm) = {}
    BY <1>2 DEF Entries
  <2>5. Need(h, warm) = 2 + (h - Skipped(h))
    BY <1>2 DEF Need
  <2> QED
    BY <1>1, <2>2, <2>3, <2>4, <2>5
<1>3. CASE warm # <<>>
  <2>1. /\ warm \in [1..h -> Blocks \cup {Null}]
        /\ \A i \in 1..h : IF i <= Skipped(h) THEN warm[i] = Null
                           ELSE warm[i] # Null /\ hash[warm[i]] = Key("draft", p, i)
    BY <1>3 DEF Warms, DraftHit
  <2>2. Base(h, warm) = warm /\ Need(h, warm) = 2
    BY <1>3 DEF Base, Need
  <2>3. warm \in Seq(Blocks \cup {Null}) /\ Len(warm) = h
    BY <1>1, <2>1
  <2>4. NoRepeat(warm)
    <3> SUFFICES ASSUME NEW i \in 1..h, NEW j \in 1..h, warm[i] # Null, warm[i] = warm[j]
                 PROVE  i = j
      BY <2>1 DEF NoRepeat
    <3>1. Key("draft", p, i) = Key("draft", p, j)
      BY <2>1
    <3> QED
      BY <1>1, <3>1, KeyOwn
  <2>5. ASSUME NEW b \in Entries(warm)
        PROVE  b \in Blocks /\ hash[b] # NoHash /\ hash[b][1] = "draft"
    <3>1. PICK i \in 1..h : b = warm[i] /\ b # Null
      BY <2>1, <2>5 DEF Entries
    <3>2. b \in Blocks /\ hash[b] = Key("draft", p, i) /\ i \in 1..Len(p)
      BY <1>1, <2>1, <3>1
    <3> QED
      BY <3>2, KeyFacts
  <2> QED
    BY <1>1, <2>2, <2>3, <2>4, <2>5
<1> QED
  BY <1>2, <1>3

(* The blocks an admission takes are different from each other and from its *)
(* hit.                                                                     *)
Distinct(new, h, warm) ==
  /\ new \in [1..Need(h, warm) -> Blocks]
  /\ \A i, j \in 1..Need(h, warm) : new[i] = new[j] => i = j
  /\ Entries(new) \cap Entries(warm) = {}

(* The drafter's table: its hit or the blanks, then the blocks it takes.    *)
LEMMA NewDraftFacts ==
  ASSUME NEW p \in Prompts, NEW h \in 0..(Len(p) - 1), NEW warm \in Warms(p, h),
         NEW new, Distinct(new, h, warm)
  PROVE  /\ NewDraft(h, warm, new) \in Seq(Blocks \cup {Null})
         /\ Len(NewDraft(h, warm, new)) = h + 1
         /\ Entries(NewDraft(h, warm, new)) = Entries(warm) \cup (Entries(new) \ {new[1]})
         /\ NoRepeat(NewDraft(h, warm, new))
<1> DEFINE base == Base(h, warm)
           m == Need(h, warm)
           k == Len(base)
           d == NewDraft(h, warm, new)
<1>1. /\ base \in Seq(Blocks \cup {Null}) /\ m \in Nat /\ m >= 2 /\ k \in Nat /\ h \in Nat
      /\ k + m = h + 2 /\ NoRepeat(base) /\ Entries(base) = Entries(warm)
  BY BaseFacts
<1>2. d = base \o Tail(new)
  BY DEF NewDraft
<1>3. new \in [1..m -> Blocks] /\ \A i, j \in 1..m : new[i] = new[j] => i = j
  BY DEF Distinct
<1>4. \A i \in 1..m : new[i] # Null /\ new[i] \in Entries(new)
  BY <1>3, BlocksAssumption DEF Null, Entries
<1>5. \A b \in Entries(new) : \E i \in 1..m : b = new[i]
  BY <1>3 DEF Entries
<1> HIDE DEF base, m, d
<1>6. /\ Tail(new) \in Seq(Blocks \cup {Null}) /\ Len(Tail(new)) = m - 1
      /\ \A i \in 1..(m - 1) : Tail(new)[i] = new[i + 1]
  <2>1. new \in Seq(Blocks \cup {Null}) /\ Len(new) = m
    <3>1. new \in [1..m -> Blocks \cup {Null}]
      BY <1>3
    <3> QED
      BY <1>1, <3>1
  <2> QED
    BY <1>1, <2>1
<1>7. /\ d \in Seq(Blocks \cup {Null}) /\ Len(d) = h + 1 /\ DOMAIN d = 1..(h + 1)
      /\ \A i \in 1..k : d[i] = base[i]
      /\ \A i \in (k + 1)..(h + 1) : d[i] = new[i - k + 1]
  <2>1. d \in Seq(Blocks \cup {Null}) /\ Len(d) = k + (m - 1)
    <3>1. ASSUME NEW T, NEW s \in Seq(T), NEW u \in Seq(T)
          PROVE  s \o u \in Seq(T) /\ Len(s \o u) = Len(s) + Len(u)
      OBVIOUS
    <3>2. base \o Tail(new) \in Seq(Blocks \cup {Null})
      BY <1>1, <1>6, <3>1
    <3>3. Len(base \o Tail(new)) = k + (m - 1)
      BY <1>1, <1>6, <3>1
    <3> QED
      BY <1>2, <3>2, <3>3
  <2>2. \A i \in 1..k : d[i] = base[i]
    BY <1>1, <1>2, <1>6
  <2>3. ASSUME NEW i \in (k + 1)..(h + 1) PROVE d[i] = new[i - k + 1]
    <3>1. i - k \in 1..(m - 1) /\ i \in 1..(k + (m - 1)) /\ ~(i \in 1..k)
      BY <1>1
    <3>2. d[i] = Tail(new)[i - k]
      BY <1>1, <1>2, <1>6, <3>1
    <3> QED
      BY <1>1, <1>6, <3>1, <3>2
  <2> QED
    BY <1>1, <2>1, <2>2, <2>3
<1>8. DOMAIN base = 1..k /\ \A i \in 1..k : base[i] # Null => base[i] \in Entries(warm)
  <2>1. DOMAIN base = 1..k
    BY <1>1
  <2> QED
    BY <1>1, <2>1 DEF Entries
<1> HIDE DEF k
<1>9. \A i \in (k + 1)..(h + 1) : i - k + 1 \in 2..m
  BY <1>1
<1>10. \A i \in 2..m : /\ i + k - 1 \in (k + 1)..(h + 1) /\ i + k - 1 \in 1..(h + 1)
                       /\ d[i + k - 1] = new[i]
  <2> TAKE i \in 2..m
  <2>1. i + k - 1 \in (k + 1)..(h + 1) /\ i + k - 1 \in 1..(h + 1)
    BY <1>1
  <2>2. (i + k - 1) - k + 1 = i
    BY <1>1
  <2> QED
    BY <1>7, <2>1, <2>2
<1>11. NoRepeat(d)
  <2> SUFFICES ASSUME NEW i \in 1..(h + 1), NEW j \in 1..(h + 1), d[i] # Null, d[i] = d[j]
               PROVE  i = j
    BY <1>7 DEF NoRepeat
  <2>1. /\ i \in 1..k \/ i \in (k + 1)..(h + 1)
        /\ j \in 1..k \/ j \in (k + 1)..(h + 1)
    BY <1>1
  <2>2. CASE i \in 1..k /\ j \in 1..k
    BY <1>1, <1>7, <1>8, <2>2 DEF NoRepeat
  <2>3. CASE i \in (k + 1)..(h + 1) /\ j \in (k + 1)..(h + 1)
    <3>1. i - k + 1 \in 1..m /\ j - k + 1 \in 1..m
      BY <1>1, <2>3
    <3>2. new[i - k + 1] = new[j - k + 1]
      BY <1>7, <2>3
    <3> QED
      BY <1>1, <1>3, <2>3, <3>1, <3>2
  <2>4. ASSUME NEW x \in 1..k, NEW y \in (k + 1)..(h + 1), d[x] # Null, d[x] = d[y]
        PROVE  FALSE
    <3>1. d[x] \in Entries(warm)
      BY <1>7, <1>8, <2>4
    <3>2. y - k + 1 \in 1..m
      BY <1>1
    <3>3. d[y] \in Entries(new)
      BY <1>4, <1>7, <3>2
    <3> QED
      BY <2>4, <3>1, <3>3 DEF Distinct
  <2> QED
    BY <2>1, <2>2, <2>3, <2>4
<1>12. ASSUME NEW x \in Entries(d) PROVE x \in Entries(warm) \cup (Entries(new) \ {new[1]})
  <2>1. PICK i \in 1..(h + 1) : x = d[i] /\ x # Null
    BY <1>7, <1>12 DEF Entries
  <2>2. i \in 1..k \/ i \in (k + 1)..(h + 1)
    BY <1>1
  <2>3. CASE i \in 1..k
    BY <1>7, <1>8, <2>1, <2>3
  <2>4. CASE i \in (k + 1)..(h + 1)
    <3>1. i - k + 1 \in 2..m /\ i - k + 1 \in 1..m /\ 1 \in 1..m /\ i - k + 1 # 1
      BY <1>1, <2>4
    <3> QED
      BY <1>3, <1>4, <1>7, <2>1, <2>4, <3>1
  <2> QED
    BY <2>2, <2>3, <2>4
<1>13. ASSUME NEW x \in Entries(warm) \cup (Entries(new) \ {new[1]}) PROVE x \in Entries(d)
  <2>1. CASE x \in Entries(warm)
    <3>1. \E i \in 1..k : x = base[i] /\ x # Null
      BY <1>1, <1>8, <2>1 DEF Entries
    <3>2. \A i \in 1..k : i \in 1..(h + 1)
      BY <1>1
    <3> QED
      BY <1>7, <3>1, <3>2 DEF Entries
  <2>2. CASE x \in Entries(new) \ {new[1]}
    <3>1. PICK i \in 1..m : x = new[i]
      BY <1>5, <2>2
    <3>2. i \in 2..m
      BY <1>1, <2>2, <3>1
    <3> QED
      BY <1>4, <1>7, <1>10, <3>1, <3>2 DEF Entries
  <2> QED
    BY <1>13, <2>1, <2>2
<1> QED
  BY <1>7, <1>11, <1>12, <1>13 DEF d

(* Admit, with the choices it makes as parameters.                          *)
HitBlocks(t, warm) == Entries(t) \cup Entries(warm)

LastKeys(p, h, warm, new) ==
  [b \in {new[1], new[Need(h, warm)]} |->
     Key(IF b = new[1] THEN "target" ELSE "draft", p, h + 1)]

FillerKeys(p, h, warm, new) ==
  [b \in {new[i] : i \in 2..(Need(h, warm) - 1)} |->
     Key("draft", p, CHOOSE i \in DOMAIN NewDraft(h, warm, new) :
                       NewDraft(h, warm, new)[i] = b)]

Fresh(key, filler, full) ==
  [b \in DOMAIN filler \cup (IF full THEN DOMAIN key ELSE {}) |->
     IF b \in DOMAIN key THEN key[b] ELSE filler[b]]

AdmitTakes(r, p, quiet, full, h, t, warm, new, key, filler) ==
  /\ queue' = Behind(Touched(queue, HitBlocks(t, warm)), Need(h, warm))
  /\ ref' = [b \in Blocks |->
               IF b \in HitBlocks(t, warm) THEN ref[b] + 1
               ELSE IF b \in Entries(new) THEN 1 ELSE ref[b]]
  /\ holds' = [b \in Blocks |-> IF b \in DOMAIN key THEN key[b]
                                ELSE IF b \in DOMAIN filler THEN NoHash ELSE holds[b]]
  /\ hash' \in Stored(Evicted(hash, Entries(new)), Fresh(key, filler, full), quiet)
  /\ req' = [req EXCEPT ![r] = [on |-> TRUE, prompt |-> p, quiet |-> quiet,
                                len |-> h + 1, full |-> full]]
  /\ table' = [table EXCEPT ![r] = [target |-> Append(t, new[1]),
                                    draft |-> NewDraft(h, warm, new)]]

LEMMA AdmitAsTakes ==
  ASSUME NEW r \in Reqs, Admit(r)
  PROVE  ~req[r].on /\ \E p \in Prompts, quiet \in BOOLEAN, full \in BOOLEAN :
         \E h \in 0..(Len(p) - 1) :
         \E t \in TargetHit(p, h), warm \in Warms(p, h) :
         \E new \in Popped(Touched(queue, HitBlocks(t, warm)), Need(h, warm)) :
           AdmitTakes(r, p, quiet, full, h, t, warm, new,
                      LastKeys(p, h, warm, new), FillerKeys(p, h, warm, new))
BY DEF Admit, AdmitTakes, Warms, HitBlocks, Need, NewDraft, Base, LastKeys, FillerKeys, Fresh

(* What the blocks of an admission are: those of the hit, which cache the   *)
(* keys looked up, and new ones, which nobody holds.                        *)
LEMMA AdmitBlocks ==
  ASSUME PoolInv, NEW p \in Prompts, NEW h \in 0..(Len(p) - 1),
         NEW t \in TargetHit(p, h), NEW warm \in Warms(p, h),
         NEW new \in Popped(Touched(queue, HitBlocks(t, warm)), Need(h, warm))
  PROVE  /\ Places(Touched(queue, HitBlocks(t, warm)))
         /\ Places(Behind(Touched(queue, HitBlocks(t, warm)), Need(h, warm)))
         /\ InQueue(Behind(Touched(queue, HitBlocks(t, warm)), Need(h, warm))) =
              (InQueue(queue) \ HitBlocks(t, warm)) \ Entries(new)
         /\ \A b, c \in (InQueue(queue) \ HitBlocks(t, warm)) \ Entries(new) :
              Behind(Touched(queue, HitBlocks(t, warm)), Need(h, warm))[b]
                < Behind(Touched(queue, HitBlocks(t, warm)), Need(h, warm))[c]
              <=> queue[b] < queue[c]
         /\ new \in [1..Need(h, warm) -> Blocks]
         /\ \A i, j \in 1..Need(h, warm) : new[i] = new[j] => i = j
         /\ Entries(new) \subseteq InQueue(queue) \ HitBlocks(t, warm)
         /\ \A i \in 1..Need(h, warm) : new[i] \in Entries(new)
         /\ HitBlocks(t, warm) \subseteq Blocks
<1> DEFINE hits == HitBlocks(t, warm)
           m == Need(h, warm)
           q == Touched(queue, hits)
<1>1. m \in Nat
  BY BaseFacts
<1>2. Places(queue)
  BY DEF PoolInv, Typed, Places
<1>3. /\ Places(q) /\ InQueue(q) = InQueue(queue) \ hits
      /\ \A b, c \in InQueue(queue) \ hits : q[b] < q[c] <=> queue[b] < queue[c]
  BY <1>2, TouchedPlaces
<1>4. new \in Popped(q, m)
  OBVIOUS
<1>5. hits \subseteq Blocks
  <2>1. Entries(warm) \subseteq Blocks
    BY BaseFacts
  <2>2. t \in [1..h -> Blocks]
    BY DEF TargetHit
  <2>3. Entries(t) \subseteq Blocks
    BY <2>2 DEF Entries
  <2> QED
    BY <2>1, <2>3 DEF HitBlocks
<1> HIDE DEF hits, m, q
<1>6. /\ new \in [1..m -> Blocks]
      /\ \A i, j \in 1..m : new[i] = new[j] => i = j
      /\ Entries(new) \subseteq InQueue(q) /\ \A i \in 1..m : new[i] \in Entries(new)
      /\ Places(Behind(q, m))
      /\ InQueue(Behind(q, m)) = InQueue(q) \ Entries(new)
      /\ \A b, c \in InQueue(Behind(q, m)) :
           Behind(q, m)[b] < Behind(q, m)[c] <=> q[b] < q[c]
  BY <1>1, <1>3, <1>4, PoppedPlaces
<1>7. \A b, c \in (InQueue(queue) \ hits) \ Entries(new) :
        Behind(q, m)[b] < Behind(q, m)[c] <=> queue[b] < queue[c]
  BY <1>3, <1>6
<1> QED
  BY <1>3, <1>5, <1>6, <1>7 DEF hits, m, q

LEMMA EntriesOfBlocks ==
  ASSUME NEW m, NEW f \in [1..m -> Blocks]
  PROVE  /\ \A i \in 1..m : f[i] \in Entries(f)
         /\ \A b \in Entries(f) : \E i \in 1..m : b = f[i]
BY BlocksAssumption DEF Null, Entries

(* The keys an admission computes: of the target into the first new block,  *)
(* of the drafter into the others.                                          *)
LEMMA AdmitKeysFacts ==
  ASSUME NEW p \in Prompts, NEW h \in 0..(Len(p) - 1), NEW warm \in Warms(p, h),
         NEW new, Distinct(new, h, warm),
         NEW key, key = LastKeys(p, h, warm, new),
         NEW filler, filler = FillerKeys(p, h, warm, new), NEW full \in BOOLEAN
  PROVE  /\ new[1] \in DOMAIN key /\ key[new[1]] = Key("target", p, h + 1)
         /\ DOMAIN key \subseteq Entries(new) /\ DOMAIN filler \subseteq Entries(new)
         /\ Entries(new) \subseteq DOMAIN key \cup DOMAIN filler
         /\ \A b \in DOMAIN key : key[b] \in Keys
         /\ DOMAIN Fresh(key, filler, full) \subseteq Entries(new)
         /\ Fresh(key, filler, full) \in [DOMAIN Fresh(key, filler, full) -> Keys]
         /\ \A b \in DOMAIN Fresh(key, filler, full) :
              IF b = new[1] THEN Fresh(key, filler, full)[b] = key[b]
              ELSE Fresh(key, filler, full)[b][1] = "draft"
<1> DEFINE m == Need(h, warm)
           d == NewDraft(h, warm, new)
           fr == Fresh(key, filler, full)
<1>1. m \in Nat /\ m >= 2
  BY BaseFacts
<1>2. /\ DOMAIN d = 1..(h + 1)
      /\ \A i \in 2..m : \E j \in 1..(h + 1) : d[j] = new[i]
  <2>1. /\ d \in Seq(Blocks \cup {Null}) /\ Len(d) = h + 1
        /\ Entries(d) = Entries(warm) \cup (Entries(new) \ {new[1]})
    BY NewDraftFacts
  <2>2. DOMAIN d = 1..(h + 1)
    BY <2>1
  <2>3. \A i \in 2..m : new[i] \in Entries(new) \ {new[1]}
    <3>1. \A i \in 2..m : i \in 1..m /\ 1 \in 1..m /\ i # 1
      BY <1>1
    <3> QED
      BY <3>1, EntriesOfBlocks DEF Distinct
  <2>4. \A i \in 2..m : new[i] \in Entries(d)
    BY <2>1, <2>3
  <2> HIDE DEF d
  <2> QED
    BY <2>2, <2>4 DEF Entries
<1>3. h + 1 \in 1..Len(p) /\ \A i \in 1..(h + 1) : i \in 1..Len(p)
  BY PromptLength
<1>4. /\ Key("target", p, h + 1) \in Keys
      /\ \A i \in 1..(h + 1) : /\ Key("draft", p, i) \in Keys
                               /\ Key("draft", p, i)[1] = "draft"
  BY <1>3, KeyFacts
<1>5. key = [b \in {new[1], new[m]} |->
               Key(IF b = new[1] THEN "target" ELSE "draft", p, h + 1)]
  BY DEF LastKeys
<1>6. filler = [b \in {new[i] : i \in 2..(m - 1)} |->
                  Key("draft", p, CHOOSE i \in DOMAIN d : d[i] = b)]
  BY DEF FillerKeys
<1>7. new \in [1..m -> Blocks] /\ \A i, j \in 1..m : new[i] = new[j] => i = j
  BY DEF Distinct
<1> HIDE DEF m, d
<1>8. /\ \A i \in 1..m : new[i] \in Entries(new)
      /\ \A b \in Entries(new) : \E i \in 1..m : b = new[i]
      /\ 1 \in 1..m /\ m \in 1..m /\ new[1] # new[m]
  <2>1. /\ \A i \in 1..m : new[i] \in Entries(new)
        /\ \A b \in Entries(new) : \E i \in 1..m : b = new[i]
    BY <1>7, EntriesOfBlocks
  <2>2. 1 \in 1..m /\ m \in 1..m /\ m # 1
    BY <1>1
  <2> QED
    BY <1>7, <2>1, <2>2
<1>9. /\ DOMAIN key = {new[1], new[m]} /\ key[new[1]] = Key("target", p, h + 1)
      /\ key[new[m]] = Key("draft", p, h + 1)
  BY <1>5, <1>8
<1>10. DOMAIN filler = {new[i] : i \in 2..(m - 1)}
  BY <1>6
<1>11. \A b \in DOMAIN filler : filler[b] \in Keys /\ filler[b][1] = "draft"
  <2> SUFFICES ASSUME NEW b \in DOMAIN filler
               PROVE  filler[b] \in Keys /\ filler[b][1] = "draft"
    OBVIOUS
  <2> DEFINE i == CHOOSE j \in DOMAIN d : d[j] = b
  <2>1. PICK j \in 2..(m - 1) : b = new[j]
    BY <1>10
  <2>2. j \in 2..m
    BY <1>1
  <2>3. \E x \in DOMAIN d : d[x] = b
    BY <1>2, <2>1, <2>2
  <2>4. i \in 1..(h + 1)
    BY <1>2, <2>3
  <2>5. filler[b] = Key("draft", p, i)
    BY <1>6, <1>10
  <2> HIDE DEF i
  <2> QED
    BY <1>4, <2>4, <2>5
<1>12. /\ DOMAIN filler \subseteq Entries(new)
       /\ Entries(new) \subseteq DOMAIN key \cup DOMAIN filler
       /\ new[1] \notin DOMAIN filler /\ new[m] \notin DOMAIN filler
  <2>1. \A i \in 2..(m - 1) : i \in 1..m /\ i # 1 /\ i # m
    BY <1>1
  <2>2. \A i \in 1..m : i = 1 \/ i = m \/ i \in 2..(m - 1)
    BY <1>1
  <2> QED
    BY <1>7, <1>8, <1>9, <1>10, <2>1, <2>2
<1>13. /\ DOMAIN fr = DOMAIN filler \cup (IF full THEN DOMAIN key ELSE {})
       /\ \A b \in DOMAIN fr : fr[b] = IF b \in DOMAIN key THEN key[b] ELSE filler[b]
       /\ fr = [b \in DOMAIN fr |-> fr[b]]
  BY DEF Fresh
<1> HIDE DEF fr
<1>14. \A b \in DOMAIN fr : /\ fr[b] \in Keys /\ b \in Entries(new)
                            /\ IF b = new[1] THEN fr[b] = key[b] ELSE fr[b][1] = "draft"
  <2>1. \A b \in DOMAIN fr : b = new[1] \/ b = new[m] \/ b \in DOMAIN filler
    BY <1>9, <1>13
  <2>2. h + 1 \in 1..(h + 1)
    BY <1>3
  <2>3. Key("draft", p, h + 1) \in Keys /\ Key("draft", p, h + 1)[1] = "draft"
    BY <1>4, <2>2
  <2> QED
    BY <1>4, <1>8, <1>9, <1>11, <1>12, <1>13, <2>1, <2>3
<1>15. \A b \in DOMAIN key : key[b] \in Keys
  <2>1. h + 1 \in 1..(h + 1)
    BY <1>3
  <2> QED
    BY <1>4, <1>9, <2>1
<1>16. fr \in [DOMAIN fr -> Keys]
  BY <1>13, <1>14
<1> QED
  BY <1>8, <1>9, <1>12, <1>14, <1>15, <1>16 DEF fr

LEMMA AdmitTakesKeeps ==
  ASSUME PoolInv, NEW r \in Reqs, ~req[r].on, NEW p \in Prompts,
         NEW quiet \in BOOLEAN, NEW full \in BOOLEAN, NEW h \in 0..(Len(p) - 1),
         NEW t \in TargetHit(p, h), NEW warm \in Warms(p, h),
         NEW new \in Popped(Touched(queue, HitBlocks(t, warm)), Need(h, warm)),
         NEW key, key = LastKeys(p, h, warm, new),
         NEW filler, filler = FillerKeys(p, h, warm, new),
         AdmitTakes(r, p, quiet, full, h, t, warm, new, key, filler)
  PROVE  PoolInv'
<1> DEFINE hits == HitBlocks(t, warm)
           N == Entries(new)
           m == Need(h, warm)
           d == NewDraft(h, warm, new)
<1>1. /\ ref \in [Blocks -> Nat] /\ table \in [Reqs -> Tables]
      /\ hash \in [Blocks -> Keys \cup {NoHash}] /\ holds \in [Blocks -> Keys \cup {NoHash}]
      /\ req \in [Reqs -> RequestType] /\ table[r] = NoTable
      /\ QueueIsFree /\ Counted /\ KindsKept /\ HashTrue
  BY DEF PoolInv, Typed, RequestOK
<1>2. /\ h \in Nat /\ h + 1 \in 1..Len(p) /\ h + 1 \in 0..MaxLen
      /\ \A i \in 1..h : i \in 1..Len(p)
  BY PromptLength
<1>3. /\ Places(queue') /\ InQueue(queue') = (InQueue(queue) \ hits) \ N
      /\ new \in [1..m -> Blocks] /\ \A i, j \in 1..m : new[i] = new[j] => i = j
      /\ N \subseteq InQueue(queue) \ hits /\ \A i \in 1..m : new[i] \in N
      /\ hits \subseteq Blocks
  BY AdmitBlocks DEF AdmitTakes
<1>4. Entries(warm) \subseteq hits /\ Entries(t) \subseteq hits /\ Distinct(new, h, warm)
  BY <1>3 DEF HitBlocks, Distinct
<1>5. m \in Nat /\ 1 \in 1..m
  BY BaseFacts
<1>6. N \subseteq Blocks /\ new[1] \in N /\ new[1] \in Blocks /\ new[1] # Null
  BY <1>3, <1>5, BlocksAssumption DEF InQueue, Null
<1>7. /\ d \in Seq(Blocks \cup {Null}) /\ Len(d) = h + 1 /\ NoRepeat(d)
      /\ Entries(d) = Entries(warm) \cup (N \ {new[1]})
  BY <1>4, NewDraftFacts
<1>8. /\ t \in Seq(Blocks) /\ Len(t) = h /\ DOMAIN t = 1..h
      /\ \A i \in 1..h : t[i] \in Blocks /\ t[i] \in Entries(t)
      /\ \A i \in 1..h : hash[t[i]] = Key("target", p, i)
      /\ \A b \in Entries(t) : \E i \in 1..h : b = t[i]
  <2>1. t \in [1..h -> Blocks] /\ \A i \in 1..h : hash[t[i]] = Key("target", p, i)
    BY DEF TargetHit
  <2>2. t \in Seq(Blocks) /\ Len(t) = h
    BY <1>2, <2>1
  <2> QED
    BY <2>1, <2>2, EntriesOfBlocks
<1>9. \A b \in Entries(t) : b \in Blocks /\ hash[b] # NoHash /\ hash[b][1] = "target"
  BY <1>2, <1>8, KeyFacts
<1>10. \A b \in Entries(warm) : b \in Blocks /\ hash[b] # NoHash /\ hash[b][1] = "draft"
  BY BaseFacts
<1>11. /\ table'[r].target = Append(t, new[1]) /\ table'[r].draft = d
       /\ \A s \in Reqs \ {r} : table'[s] = table[s] /\ req'[s] = req[s]
       /\ req'[r].on = TRUE /\ req'[r].prompt = p /\ req'[r].len = h + 1
       /\ table' = [table EXCEPT ![r] = [target |-> Append(t, new[1]), draft |-> d]]
       /\ req' = [req EXCEPT ![r] = [on |-> TRUE, prompt |-> p, quiet |-> quiet,
                                     len |-> h + 1, full |-> full]]
  BY <1>1 DEF AdmitTakes
<1>12. Entries(table'[r].target) = Entries(t) \cup {new[1]}
  BY <1>6, <1>8, <1>11, AppendFacts
<1>13. Entries(table'[r].draft) = Entries(warm) \cup (N \ {new[1]})
  BY <1>7, <1>11
<1>14. Held(table'[r]) = hits \cup N /\ Held(table[r]) = {}
  <2>1. Held(table[r]) = {}
    BY <1>1 DEF NoTable, Held, Entries
  <2>2. Held(table'[r]) = hits \cup N
    BY <1>6, <1>12, <1>13 DEF Held, HitBlocks
  <2> QED
    BY <2>1, <2>2
<1>15. \A b \in N : ref[b] = 0 /\ \A s \in Reqs : b \notin Held(table[s])
  BY <1>1, <1>3, <1>6, CountFacts DEF QueueIsFree
<1>16. /\ new[1] \in DOMAIN key /\ key[new[1]] = Key("target", p, h + 1)
       /\ DOMAIN key \subseteq N /\ DOMAIN filler \subseteq N
       /\ N \subseteq DOMAIN key \cup DOMAIN filler
       /\ \A b \in DOMAIN key : key[b] \in Keys
  BY <1>4, AdmitKeysFacts
<1>17. /\ hash' \in [Blocks -> Keys \cup {NoHash}]
       /\ \A b \in Blocks \ N : hash'[b] = hash[b]
       /\ \A b \in N : IF b = new[1] THEN hash'[b] = NoHash \/ hash'[b] = key[b]
                       ELSE OfKind(hash'[b], "draft")
  <2> DEFINE fr == Fresh(key, filler, full)
             g == Evicted(hash, N)
  <2>1. /\ fr \in [DOMAIN fr -> Keys] /\ DOMAIN fr \subseteq N
        /\ \A b \in DOMAIN fr :
             IF b = new[1] THEN fr[b] = key[b] ELSE fr[b][1] = "draft"
    BY <1>4, AdmitKeysFacts
  <2>2. hash' \in Stored(g, fr, quiet)
    BY DEF AdmitTakes
  <2>3. /\ g \in [Blocks -> Keys \cup {NoHash}]
        /\ \A b \in Blocks : g[b] = IF b \in N THEN NoHash ELSE hash[b]
    BY <1>1, EvictedFacts
  <2> HIDE DEF fr, g
  <2>4. /\ hash' \in [Blocks -> Keys \cup {NoHash}]
        /\ \A b \in Blocks : hash'[b] = g[b] \/ (b \in DOMAIN fr /\ hash'[b] = fr[b])
    BY <2>1, <2>2, <2>3, StoredFacts
  <2>5. \A b \in Blocks \ N : hash'[b] = hash[b]
    BY <2>1, <2>3, <2>4
  <2>6. \A b \in N : IF b = new[1] THEN hash'[b] = NoHash \/ hash'[b] = key[b]
                     ELSE OfKind(hash'[b], "draft")
    BY <1>6, <2>1, <2>3, <2>4 DEF OfKind
  <2> QED
    BY <2>4, <2>5, <2>6
<1>18. \A b \in Blocks :
         /\ ref'[b] = IF b \in hits THEN ref[b] + 1 ELSE IF b \in N THEN 1 ELSE ref[b]
         /\ holds'[b] = IF b \in DOMAIN key THEN key[b]
                        ELSE IF b \in DOMAIN filler THEN NoHash ELSE holds[b]
  BY DEF AdmitTakes
<1>19. ref' = [b \in Blocks |-> ref'[b]] /\ holds' = [b \in Blocks |-> holds'[b]]
  BY DEF AdmitTakes
<1> HIDE DEF hits, N, m, d
<1>20. TypedStep(r)
  <2>1. ref' \in [Blocks -> Nat]
    <3>1. \A b \in Blocks : ref'[b] \in Nat
      BY <1>1, <1>18
    <3> QED
      BY <1>19, <3>1
  <2>2. holds' \in [Blocks -> Keys \cup {NoHash}]
    <3>1. \A b \in Blocks : holds'[b] \in Keys \cup {NoHash}
      BY <1>1, <1>16, <1>18
    <3> QED
      BY <1>19, <3>1
  <2>3. req' \in [Reqs -> RequestType]
    BY <1>1, <1>2, <1>11 DEF RequestType
  <2>4. table' \in [Reqs -> Tables]
    BY <1>1, <1>6, <1>7, <1>8, <1>11 DEF Tables
  <2>5. Len(table'[r].target) = h + 1 /\ Len(table'[r].draft) = h + 1
    BY <1>2, <1>6, <1>7, <1>8, <1>11
  <2>6. RequestOK(r)'
    BY <1>2, <1>11, <2>5 DEF RequestOK
  <2> QED
    BY <1>3, <1>17, <2>1, <2>2, <2>3, <2>4, <2>6 DEF TypedStep, Places
<1>21. CountsFollow(r)
  BY <1>3, <1>14, <1>15, <1>18 DEF CountsFollow
<1>22. OwnPlaces(queue') /\ QueueIsFree'
  <2>1. \A b \in Blocks : ref[b] \in Nat
    BY <1>1
  <2>2. InQueue(queue') = {b \in Blocks : ref'[b] = 0}
    BY <1>1, <1>3, <1>18, <2>1 DEF QueueIsFree
  <2> QED
    BY <1>3, <2>2 DEF QueueIsFree, Places
<1>23. Takes(r, N)
  <2>1. \A b \in Blocks \ N : holds'[b] = holds[b]
    BY <1>16, <1>18
  <2>2. ASSUME NEW b \in N, hash'[b] # NoHash, hash'[b][1] = "target"
        PROVE  holds'[b] = hash'[b]
    <3>1. b = new[1]
      BY <1>17, <2>2 DEF OfKind
    <3> QED
      BY <1>6, <1>16, <1>17, <1>18, <2>2, <3>1
  <2> QED
    BY <1>6, <1>11, <1>15, <1>17, <2>1, <2>2 DEF Takes
<1>24. TablesFollow(r, N)
  <2>1. OfKind(hash'[new[1]], "target")
    BY <1>2, <1>6, <1>16, <1>17, KeyFacts DEF OfKind
  <2>2. CameFrom(table'[r].target, table[r].target, N, "target")
    BY <1>3, <1>4, <1>6, <1>9, <1>12, <2>1 DEF CameFrom
  <2>3. CameFrom(table'[r].draft, table[r].draft, N, "draft")
    BY <1>3, <1>4, <1>10, <1>13, <1>17 DEF CameFrom
  <2>4. Entries(table'[r].target) \cap Entries(table'[r].draft) = {}
    BY <1>3, <1>4, <1>6, <1>9, <1>10, <1>12, <1>13
  <2>5. ASSUME NEW i \in DOMAIN table'[r].target
        PROVE  holds'[table'[r].target[i]] = Key("target", p, i)
    <3>1. DOMAIN table'[r].target = 1..(h + 1)
      BY <1>2, <1>8, <1>11
    <3>2. CASE i = h + 1
      <4>1. table'[r].target[i] = new[1]
        BY <1>2, <1>8, <1>11, <3>2
      <4> QED
        BY <1>6, <1>16, <1>18, <3>2, <4>1
    <3>3. CASE i # h + 1
      <4>1. i \in 1..h /\ table'[r].target[i] = t[i]
        BY <1>2, <1>8, <1>11, <3>1, <3>3
      <4>2. t[i] \in Blocks /\ t[i] \notin N
        BY <1>3, <1>4, <1>8, <4>1
      <4>3. holds'[t[i]] = holds[t[i]]
        BY <1>16, <1>18, <4>2
      <4>4. holds[t[i]] = hash[t[i]]
        BY <1>1, <1>8, <1>9, <4>1 DEF HashTrue
      <4> QED
        BY <1>8, <4>1, <4>3, <4>4
    <3> QED
      BY <3>2, <3>3
  <2> QED
    BY <1>7, <1>11, <2>2, <2>3, <2>4, <2>5 DEF TablesFollow
<1> QED
  BY <1>3, <1>20, <1>21, <1>22, <1>23, <1>24, OthersKept

LEMMA AdmitKeeps ==
  ASSUME PoolInv, NEW r \in Reqs, Admit(r)
  PROVE  PoolInv'
BY AdmitAsTakes, AdmitTakesKeeps

-----------------------------------------------------------------------------
(* The invariant holds                                                      *)

LEMMA InitPoolInv == Init => PoolInv
<1> SUFFICES ASSUME Init PROVE PoolInv
  OBVIOUS
<1> USE DEF Init
<1>1. \A r \in Reqs : table[r] = NoTable /\ req[r] = Out
  OBVIOUS
<1>2. Entries(NoTable.target) = {} /\ Entries(NoTable.draft) = {} /\ Held(NoTable) = {}
  BY DEF NoTable, Entries, Held
<1>3. /\ queue \in [Blocks -> 1..Cardinality(Blocks)]
      /\ \A b, c \in Blocks : b # c => queue[b] # queue[c]
  OBVIOUS
<1>4. Typed
  <2>1. Out \in RequestType /\ NoTable \in Tables
    BY PromptsAssumption DEF Out, NoTable, RequestType, Tables
  <2>2. queue \in [Blocks -> 0..Cardinality(Blocks)]
    BY <1>3, BlocksCount
  <2>3. \A r \in Reqs : RequestOK(r)
    BY <1>1 DEF RequestOK, Out, NoTable
  <2>4. /\ ref \in [Blocks -> Nat] /\ hash \in [Blocks -> Keys \cup {NoHash}]
        /\ holds \in [Blocks -> Keys \cup {NoHash}]
    OBVIOUS
  <2>5. req \in [Reqs -> RequestType] /\ table \in [Reqs -> Tables]
    BY <2>1
  <2> QED
    BY <2>2, <2>3, <2>4, <2>5 DEF Typed
<1>5. OwnPlaces(queue) /\ QueueIsFree
  BY <1>3, BlocksCount DEF OwnPlaces, QueueIsFree, InQueue
<1>6. Counted
  <2>1. \A b \in Blocks : Holders(b) = {}
    BY <1>1, <1>2 DEF Holders
  <2> QED
    BY <2>1, FS_EmptySet DEF Counted
<1>7. KindsKept /\ Apart
  BY <1>1, <1>2 DEF KindsKept, Apart
<1>8. DraftsNotRepeated /\ TargetIntact
  BY <1>1 DEF DraftsNotRepeated, TargetIntact, NoRepeat, NoTable
<1>9. HashTrue
  BY DEF HashTrue
<1> QED
  BY <1>4, <1>5, <1>6, <1>7, <1>8, <1>9 DEF PoolInv

LEMMA StutterKeeps ==
  ASSUME PoolInv, UNCHANGED vars
  PROVE  PoolInv'
<1> USE DEF vars, PoolInv
<1>1. Typed' /\ OwnPlaces(queue') /\ QueueIsFree'
  BY DEF Typed, RequestOK, QueueIsFree
<1>2. Counted' /\ HashTrue'
  BY DEF Counted, Holders, HashTrue
<1>3. KindsKept' /\ Apart' /\ DraftsNotRepeated' /\ TargetIntact'
  BY DEF KindsKept, Apart, DraftsNotRepeated, TargetIntact
<1> QED
  BY <1>1, <1>2, <1>3

LEMMA PoolSafety == Spec => []PoolInv
<1>1. PoolInv /\ [Next]_vars => PoolInv'
  BY AdmitKeeps, GrowKeeps, FillKeeps, ReleaseKeeps, ResetKeeps, StutterKeeps DEF Next
<1> QED
  BY <1>1, InitPoolInv, PTL DEF Spec

(* Every block is counted by the requests that hold it and is queued, in a  *)
(* place of its own, exactly when none does.                                *)
THEOREM PoolIsAccounted == Spec => []PoolAccounted
<1>1. PoolInv => PoolAccounted
  <2> SUFFICES ASSUME PoolInv PROVE TypeOK /\ CountsMatch
    BY DEF PoolAccounted
  <2> USE DEF PoolInv
  <2>1. \A b \in Blocks : ref[b] = Cardinality(Holders(b)) /\ ref[b] \in Nat
    BY DEF Counted, Typed
  <2>2. Cardinality(Reqs) \in Nat
    BY FS_CardinalityType, ReqsAssumption
  <2>3. \A b \in Blocks : ref[b] \in 0..Cardinality(Reqs)
    BY <2>1, <2>2, HoldersFinite
  <2>4. ref \in [Blocks -> 0..Cardinality(Reqs)]
    BY <2>3 DEF Typed
  <2>5. \A r \in Reqs :
          /\ table[r].target \in Seq(Blocks) /\ Len(table[r].target) = req[r].len
          /\ table[r].draft \in Seq(Blocks \cup {Null}) /\ Len(table[r].draft) = req[r].len
    BY DEF Typed, Tables, RequestOK
  <2>6. TypeOK
    BY <2>4, <2>5 DEF TypeOK, Typed
  <2>7. \A b \in Blocks : queue[b] > 0 <=> ref[b] = 0
    BY DEF QueueIsFree, InQueue
  <2>8. \A b \in Blocks : queue[b] > 0 => \A c \in Blocks \ {b} : queue[c] # queue[b]
    BY BlocksCount DEF OwnPlaces, InQueue, Typed
  <2> QED
    BY <2>1, <2>6, <2>7, <2>8 DEF CountsMatch
<1> QED
  BY <1>1, PoolSafety, PTL

(* The target blocks of a request hold the prefix of its prompt they stand  *)
(* for, whatever the other requests evict, cache and release.               *)
THEOREM TargetStaysIntact == Spec => []TargetIntact
<1>1. PoolInv => TargetIntact
  BY DEF PoolInv
<1> QED
  BY <1>1, PoolSafety, PTL

-----------------------------------------------------------------------------
(* The order of eviction                                                    *)

LastIn(q, h) ==
  \A b, c \in InQueue(q) : Ordinary(h, b) /\ ~Ordinary(h, c) => q[c] < q[b]

LEMMA FreedLast ==
  ASSUME NEW q, NEW g, NEW free, FreedOrder(g, q, free), InQueue(g) = InQueue(q) \cup free,
         LastIn(q, hash)
  PROVE  LastIn(g, hash)
<1> SUFFICES ASSUME NEW b \in InQueue(q) \cup free, NEW c \in InQueue(q) \cup free,
                    Ordinary(hash, b), ~Ordinary(hash, c)
             PROVE  g[c] < g[b]
  BY DEF LastIn
<1>1. CASE b \notin free /\ c \notin free
  BY <1>1 DEF FreedOrder, LastIn
<1>2. CASE c \in free
  BY <1>2 DEF FreedOrder
<1>3. CASE b \in free /\ c \notin free
  BY <1>3 DEF FreedOrder
<1> QED
  BY <1>1, <1>2, <1>3

(* Blocks that leave, and hashes that change elsewhere, do not matter.      *)
LEMMA LastOfFewer ==
  ASSUME NEW q, NEW g, NEW h, NEW k, InQueue(g) \subseteq InQueue(q),
         \A b, c \in InQueue(g) : g[b] < g[c] <=> q[b] < q[c],
         \A b \in InQueue(g) : k[b] = h[b],
         LastIn(q, h)
  PROVE  LastIn(g, k)
BY DEF LastIn, Ordinary, LowCached, Unhashed

(* Caching changes the hashes of the new blocks only, and those of a        *)
(* request that stores nothing are forgotten.                               *)
LEMMA StoredElsewhere ==
  ASSUME NEW h, NEW S, NEW new, DOMAIN new \subseteq S, NEW quiet \in BOOLEAN,
         NEW g \in Stored(Evicted(h, S), new, quiet)
  PROVE  /\ \A b \in Blocks \ S : g[b] = h[b]
         /\ quiet => g = Evicted(h, S)
<1>1. \A b \in Blocks \ S : Evicted(h, S)[b] = h[b]
  BY DEF Evicted
<1>2. CASE quiet
  BY <1>1, <1>2 DEF Stored
<1>3. CASE ~quiet
  <2>1. PICK drop : g = [b \in Blocks |-> IF b \in DOMAIN new \ drop THEN new[b]
                                          ELSE Evicted(h, S)[b]]
    BY <1>3 DEF Stored
  <2>2. \A b \in Blocks \ S : g[b] = Evicted(h, S)[b]
    BY <2>1
  <2> QED
    BY <1>1, <1>3, <2>2
<1> QED
  BY <1>2, <1>3

(* What an admission and a growth do to the hashes, for any request.        *)
LEMMA AdmitHashes ==
  ASSUME PoolInv, NEW r \in Reqs, Admit(r)
  PROVE  \E N : /\ InQueue(queue') \subseteq InQueue(queue) \ N
                /\ \A b, c \in InQueue(queue') : queue'[b] < queue'[c] <=> queue[b] < queue[c]
                /\ \A b \in Blocks \ N : hash'[b] = hash[b]
                /\ req'[r].quiet => hash' = Evicted(hash, N)
                /\ req'[r].on /\ \A s \in Reqs \ {r} : req'[s] = req[s]
<1>1. PICK p \in Prompts, quiet \in BOOLEAN, full \in BOOLEAN :
           \E h \in 0..(Len(p) - 1) :
           \E t \in TargetHit(p, h), warm \in Warms(p, h) :
           \E new \in Popped(Touched(queue, HitBlocks(t, warm)), Need(h, warm)) :
             AdmitTakes(r, p, quiet, full, h, t, warm, new,
                        LastKeys(p, h, warm, new), FillerKeys(p, h, warm, new))
  BY AdmitAsTakes
<1>2. PICK h \in 0..(Len(p) - 1) :
           \E t \in TargetHit(p, h), warm \in Warms(p, h) :
           \E new \in Popped(Touched(queue, HitBlocks(t, warm)), Need(h, warm)) :
             AdmitTakes(r, p, quiet, full, h, t, warm, new,
                        LastKeys(p, h, warm, new), FillerKeys(p, h, warm, new))
  BY <1>1
<1>3. PICK t \in TargetHit(p, h), warm \in Warms(p, h) :
           \E new \in Popped(Touched(queue, HitBlocks(t, warm)), Need(h, warm)) :
             AdmitTakes(r, p, quiet, full, h, t, warm, new,
                        LastKeys(p, h, warm, new), FillerKeys(p, h, warm, new))
  BY <1>2
<1>4. PICK new \in Popped(Touched(queue, HitBlocks(t, warm)), Need(h, warm)) :
             AdmitTakes(r, p, quiet, full, h, t, warm, new,
                        LastKeys(p, h, warm, new), FillerKeys(p, h, warm, new))
  BY <1>3
<1> DEFINE N == Entries(new)
           fr == Fresh(LastKeys(p, h, warm, new), FillerKeys(p, h, warm, new), full)
<1>5. /\ queue' = Behind(Touched(queue, HitBlocks(t, warm)), Need(h, warm))
      /\ hash' \in Stored(Evicted(hash, N), fr, quiet)
      /\ req' = [req EXCEPT ![r] = [on |-> TRUE, prompt |-> p, quiet |-> quiet,
                                    len |-> h + 1, full |-> full]]
  BY <1>4 DEF AdmitTakes
<1>6. /\ InQueue(queue') = (InQueue(queue) \ HitBlocks(t, warm)) \ N
      /\ \A b, c \in (InQueue(queue) \ HitBlocks(t, warm)) \ N :
           queue'[b] < queue'[c] <=> queue[b] < queue[c]
      /\ Distinct(new, h, warm)
  <2>1. Entries(warm) \subseteq HitBlocks(t, warm)
    BY DEF HitBlocks
  <2> QED
    BY <1>5, <2>1, AdmitBlocks DEF Distinct
<1>7. DOMAIN fr \subseteq N
  BY <1>6, AdmitKeysFacts
<1>8. req'[r].quiet = quiet /\ req'[r].on /\ \A s \in Reqs \ {r} : req'[s] = req[s]
  BY <1>5 DEF PoolInv, Typed
<1> HIDE DEF N, fr
<1>9. /\ \A b \in Blocks \ N : hash'[b] = hash[b]
      /\ quiet => hash' = Evicted(hash, N)
  BY <1>5, <1>7, StoredElsewhere
<1> QED
  BY <1>6, <1>8, <1>9

LEMMA GrowHashes ==
  ASSUME PoolInv, NEW r \in Reqs, NEW new, NEW full, NEW key, GrowTakes(r, new, full, key)
  PROVE  /\ InQueue(queue') \subseteq InQueue(FreedPassed(r)) \ Entries(new)
         /\ \A b, c \in InQueue(queue') :
              queue'[b] < queue'[c] <=> FreedPassed(r)[b] < FreedPassed(r)[c]
         /\ \A b \in Blocks \ Entries(new) : hash'[b] = hash[b]
         /\ req[r].quiet => hash' = Evicted(hash, Entries(new))
         /\ req'[r].quiet = req[r].quiet /\ req'[r].on
<1> DEFINE N == Entries(new)
           q == FreedPassed(r)
           D == IF full THEN N ELSE {}
           fr == [b \in D |-> key[b]]
<1>1. req \in [Reqs -> RequestType]
  BY DEF PoolInv, Typed
<1>2. req'[r].quiet = req[r].quiet /\ req'[r].on /\ req[r].quiet \in BOOLEAN
  BY <1>1 DEF GrowTakes, RequestType
<1>3. DOMAIN key = N
  BY DEF GrowTakes, GrowKey
<1>4. /\ hash' \in Stored(Evicted(hash, N), fr, req[r].quiet)
      /\ new \in Popped(q, 2) /\ queue' = Behind(q, 2) /\ 2 \in Nat
  BY <1>3 DEF GrowTakes
<1>5. DOMAIN fr \subseteq N
  OBVIOUS
<1>6. Places(q)
  BY FreedPassedPlaces DEF GrowTakes
<1> HIDE DEF N, fr, q
<1>7. /\ \A b \in Blocks \ N : hash'[b] = hash[b]
      /\ req[r].quiet => hash' = Evicted(hash, N)
  BY <1>2, <1>4, <1>5, StoredElsewhere
<1>8. /\ InQueue(Behind(q, 2)) = InQueue(q) \ Entries(new)
      /\ \A b, c \in InQueue(Behind(q, 2)) :
           Behind(q, 2)[b] < Behind(q, 2)[c] <=> q[b] < q[c]
  BY <1>4, <1>6, PoppedPlaces
<1> QED
  BY <1>2, <1>4, <1>7, <1>8 DEF N, q

LEMMA GrowForms ==
  ASSUME NEW r \in Reqs, Grow(r)
  PROVE  /\ req[r].on
         /\ \/ /\ queue' = FreedPassed(r) /\ hash' = hash /\ req' = req
            \/ \E new \in Popped(FreedPassed(r), 2), full \in BOOLEAN :
                 GrowTakes(r, new, full, GrowKey(r, new))
BY DEF Grow, FreedPassed, GrowTakes, GrowKey

LEMMA FillHashes ==
  ASSUME PoolInv, NEW r \in Reqs, Fill(r)
  PROVE  /\ queue' = queue /\ \A b \in InQueue(queue) : hash'[b] = hash[b]
         /\ req'[r].quiet = req[r].quiet /\ req'[r].on
         /\ req[r].quiet => hash' = hash
<1> USE DEF PoolInv
<1> DEFINE n == req[r].len
           a == table[r].target[n]
           d == table[r].draft[n]
           new == [b \in {a, d} |-> Key(IF b = a THEN "target" ELSE "draft",
                                        req[r].prompt, n)]
<1>1. /\ table[r] \in Tables /\ RequestOK(r) /\ req \in [Reqs -> RequestType]
      /\ req[r].quiet \in BOOLEAN
  BY DEF Typed, RequestType
<1>2. n \in DOMAIN table[r].target /\ n \in DOMAIN table[r].draft
  BY <1>1, TableFacts, PromptLength DEF RequestOK, Fill
<1>3. a \in Held(table[r]) /\ (d # Null => d \in Held(table[r]))
  BY <1>1, <1>2, TableFacts DEF Held
<1>4. hash' \in Stored(hash, new, req[r].quiet)
  BY DEF Fill
<1>5. DOMAIN new = {a, d}
  OBVIOUS
<1> HIDE DEF new, a, d, n
<1>6. req[r].quiet => hash' = hash
  BY <1>1, <1>4 DEF Stored
<1>7. \A b \in Blocks : b \notin {a, d} => hash'[b] = hash[b]
  <2>1. CASE req[r].quiet
    BY <1>6, <2>1
  <2>2. CASE ~req[r].quiet
    <3>1. PICK drop : hash' = [b \in Blocks |-> IF b \in DOMAIN new \ drop THEN new[b]
                                                ELSE hash[b]]
      BY <1>4, <2>2 DEF Stored
    <3> QED
      BY <1>5, <3>1
  <2> QED
    BY <1>1, <2>1, <2>2
<1>8. \A b \in InQueue(queue) : b \in Blocks /\ b # Null /\ b \notin Held(table[r])
  BY CountFacts, BlocksAssumption DEF QueueIsFree, Null
<1> QED
  BY <1>1, <1>3, <1>6, <1>7, <1>8 DEF Fill, RequestType

(* Whatever is queued, admitted, grown and released: an ordinary cached     *)
(* block is only reached when no other free block is left.                  *)
THEOREM TargetIsLast == Spec => []TargetLast
<1>1. Init => TargetLast
  BY DEF Init, TargetLast, Ordinary, Unhashed, InQueue
<1>2. PoolInv /\ TargetLast /\ [Next]_vars => TargetLast'
  <2> SUFFICES ASSUME PoolInv, LastIn(queue, hash), [Next]_vars
               PROVE  LastIn(queue', hash')
    BY DEF TargetLast, LastIn
  <2>1. ASSUME NEW r \in Reqs, Admit(r) PROVE LastIn(queue', hash')
    <3>1. PICK N : /\ InQueue(queue') \subseteq InQueue(queue) \ N
                   /\ \A b, c \in InQueue(queue') : queue'[b] < queue'[c] <=> queue[b] < queue[c]
                   /\ \A b \in Blocks \ N : hash'[b] = hash[b]
      BY <2>1, AdmitHashes
    <3>2. \A b \in InQueue(queue') : hash'[b] = hash[b]
      BY <3>1 DEF InQueue
    <3> QED
      BY <3>1, <3>2, LastOfFewer
  <2>2. ASSUME NEW r \in Reqs, Grow(r) PROVE LastIn(queue', hash')
    <3>1. LastIn(FreedPassed(r), hash)
      BY <2>2, GrowForms, FreedPassedPlaces, FreedLast
    <3>2. CASE queue' = FreedPassed(r) /\ hash' = hash
      BY <3>1, <3>2
    <3>3. ASSUME NEW new, NEW full, GrowTakes(r, new, full, GrowKey(r, new))
          PROVE  LastIn(queue', hash')
      <4>1. /\ InQueue(queue') \subseteq InQueue(FreedPassed(r)) \ Entries(new)
            /\ \A b, c \in InQueue(queue') :
                 queue'[b] < queue'[c] <=> FreedPassed(r)[b] < FreedPassed(r)[c]
            /\ \A b \in Blocks \ Entries(new) : hash'[b] = hash[b]
        BY <3>3, GrowHashes
      <4>2. \A b \in InQueue(queue') : hash'[b] = hash[b]
        BY <4>1 DEF InQueue
      <4> QED
        BY <3>1, <4>1, <4>2, LastOfFewer
    <3> QED
      BY <2>2, <3>2, <3>3, GrowForms
  <2>3. ASSUME NEW r \in Reqs, Fill(r) PROVE LastIn(queue', hash')
    <3>1. queue' = queue /\ \A b \in InQueue(queue) : hash'[b] = hash[b]
      BY <2>3, FillHashes
    <3> QED
      BY <3>1, LastOfFewer
  <2>4. ASSUME NEW r \in Reqs, Release(r) PROVE LastIn(queue', hash')
    <3>1. LastIn(FreedDraft(r), hash)
      BY ReleasedPlaces, FreedLast
    <3>2. InQueue(Released(r)) = InQueue(FreedDraft(r)) \cup Unheld(ref, Entries(table[r].target))
      BY ReleasedPlaces DEF Unheld, Held
    <3>3. LastIn(Released(r), hash)
      BY <3>1, <3>2, ReleasedPlaces, FreedLast
    <3> QED
      BY <2>4, <3>3 DEF Release
  <2>5. CASE Reset
    BY <2>5 DEF Reset, LastIn, Ordinary, Unhashed, InQueue
  <2>6. CASE UNCHANGED vars
    BY <2>6 DEF vars
  <2> QED
    BY <2>1, <2>2, <2>3, <2>4, <2>5, <2>6 DEF Next
<1> QED
  BY <1>1, <1>2, PoolSafety, PTL DEF Spec

-----------------------------------------------------------------------------
(* Requests that store nothing                                              *)

LEMMA EvictedAddsNothing ==
  ASSUME NEW h, NEW N
  PROVE  {Evicted(h, N)[b] : b \in Blocks} \subseteq {h[b] : b \in Blocks} \cup {NoHash}
BY DEF Evicted

(* While only requests that store nothing run, no chunk becomes reachable.  *)
THEOREM NoStoreStoresNothing == Spec => NoStoreAddsNothing
<1>1. PoolInv /\ [Next]_vars
        => ((\A r \in Reqs : req'[r].on => req'[r].quiet)
              => {hash'[b] : b \in Blocks} \subseteq {hash[b] : b \in Blocks} \cup {NoHash})
  <2> SUFFICES ASSUME PoolInv, [Next]_vars, \A r \in Reqs : req'[r].on => req'[r].quiet
               PROVE  {hash'[b] : b \in Blocks} \subseteq {hash[b] : b \in Blocks} \cup {NoHash}
    OBVIOUS
  <2>1. ASSUME NEW r \in Reqs, Admit(r) PROVE \E N : hash' = Evicted(hash, N)
    <3>1. PICK N : (req'[r].quiet => hash' = Evicted(hash, N)) /\ req'[r].on
      BY <2>1, AdmitHashes
    <3> QED
      BY <3>1
  <2>2. ASSUME NEW r \in Reqs, Grow(r) PROVE hash' = hash \/ \E N : hash' = Evicted(hash, N)
    <3>1. CASE hash' = hash
      BY <3>1
    <3>2. ASSUME NEW new, NEW full, GrowTakes(r, new, full, GrowKey(r, new))
          PROVE  \E N : hash' = Evicted(hash, N)
      <4>1. /\ req[r].quiet => hash' = Evicted(hash, Entries(new))
            /\ req'[r].quiet = req[r].quiet /\ req'[r].on
        BY <3>2, GrowHashes
      <4> QED
        BY <4>1
    <3> QED
      BY <2>2, <3>1, <3>2, GrowForms
  <2>3. ASSUME NEW r \in Reqs, Fill(r) PROVE hash' = hash
    BY <2>3, FillHashes
  <2>4. ASSUME NEW r \in Reqs, Release(r) PROVE hash' = hash
    BY <2>4 DEF Release
  <2>5. CASE Reset
    BY <2>5 DEF Reset
  <2>6. CASE UNCHANGED vars
    BY <2>6 DEF vars
  <2>7. CASE hash' = hash \/ \E N : hash' = Evicted(hash, N)
    BY <2>7, EvictedAddsNothing
  <2> QED
    BY <2>1, <2>2, <2>3, <2>4, <2>5, <2>6, <2>7 DEF Next
<1> QED
  BY <1>1, PoolSafety, PTL DEF Spec, NoStoreAddsNothing

(* Only its release takes a request away.                                   *)
LEMMA EndsByRelease ==
  ASSUME PoolInv, [Next]_vars, NEW r \in Reqs, req[r].on, ~req'[r].on
  PROVE  Release(r)
<1>1. req \in [Reqs -> RequestType]
  BY DEF PoolInv, Typed
<1>2. ASSUME NEW s \in Reqs, Admit(s) PROVE FALSE
  <2>1. req'[s].on /\ \A x \in Reqs \ {s} : req'[x] = req[x]
    BY <1>2, AdmitHashes
  <2> QED
    BY <2>1
<1>3. ASSUME NEW s \in Reqs, Grow(s) PROVE FALSE
  <2>1. CASE req' = req
    BY <2>1
  <2>2. ASSUME NEW new, NEW full, GrowTakes(s, new, full, GrowKey(s, new)) PROVE FALSE
    <3>1. req'[r].on = req[r].on
      BY <1>1, <2>2 DEF GrowTakes, RequestType
    <3> QED
      BY <3>1
  <2> QED
    BY <1>3, <2>1, <2>2, GrowForms
<1>4. ASSUME NEW s \in Reqs, Fill(s) PROVE FALSE
  <2>1. req'[r].on = req[r].on
    BY <1>1, <1>4 DEF Fill, RequestType
  <2> QED
    BY <2>1
<1>5. ASSUME NEW s \in Reqs, Release(s) PROVE s = r
  BY <1>1, <1>5 DEF Release
<1>6. CASE Reset
  BY <1>6 DEF Reset
<1>7. CASE UNCHANGED vars
  BY <1>7 DEF vars
<1> QED
  BY <1>2, <1>3, <1>4, <1>5, <1>6, <1>7 DEF Next

(* Blocks that cache nothing and that nobody else holds are released to the *)
(* very front of the queue, whichever manager had them.                     *)
LEMMA ReleasedToFront ==
  ASSUME PoolInv, NEW r \in Reqs,
         \A b \in Held(table[r]) : ref[b] = 1 /\ Unhashed(hash, b)
  PROVE  {b \in Blocks : Released(r)[b] \in 1..Cardinality(Held(table[r]))} = Held(table[r])
<1> DEFINE T == Entries(table[r].target)
           D == Entries(table[r].draft)
           own == Held(table[r])
           g == Released(r)
           q == FreedDraft(r)
<1>1. own = D \cup T /\ D \cap T = {} /\ own \subseteq Blocks
  BY TableFacts DEF PoolInv, Typed, Apart, Held
<1>2. Unheld(ref, T) = T /\ Unheld(ref, D) = D /\ Unheld(ref, own) = own
  BY <1>1 DEF Unheld
<1>3. \A b \in own : ~Ordinary(hash, b)
  BY DEF Ordinary
<1>4. /\ Packed(g) /\ InQueue(g) = InQueue(queue) \cup own
      /\ InQueue(q) = InQueue(queue) \cup D
      /\ FreedOrder(q, queue, D) /\ FreedOrder(g, q, T)
  BY <1>2, ReleasedPlaces
<1> HIDE DEF T, D, own, g, q
<1>5. ASSUME NEW b \in own, NEW c \in InQueue(g) \ own PROVE g[b] < g[c]
  <2>1. c \in InQueue(queue) /\ c \notin D /\ c \notin T
    BY <1>1, <1>4
  <2>2. CASE b \in T
    BY <1>3, <1>4, <2>1, <2>2 DEF FreedOrder
  <2>3. CASE b \in D /\ b \notin T
    <3>1. q[b] < q[c]
      BY <1>3, <1>4, <2>1, <2>3 DEF FreedOrder
    <3> QED
      BY <1>4, <2>1, <2>3, <3>1 DEF FreedOrder
  <2> QED
    BY <1>1, <2>2, <2>3
<1>6. own \in SUBSET InQueue(g)
  BY <1>4
<1>7. {b \in Blocks : g[b] \in 1..Cardinality(own)} = own
  BY <1>4, <1>5, <1>6 DEF Packed
<1> QED
  BY <1>7 DEF own, g

(* What a no-store request that hit nothing leaves is recycled first.       *)
THEOREM NoStoreIsRecycled == Spec => NoStoreRecycledNext
<1> DEFINE Fronted(r) ==
      LET own == Held(table[r]) IN
      req[r].quiet /\ ~req'[r].on /\ (\A b \in own : ref[b] = 1 /\ Unhashed(hash, b))
        => {b \in Blocks : queue'[b] \in 1..Cardinality(own)} = own
<1>1. PoolInv /\ [Next]_vars => \A r \in Reqs : Fronted(r)
  <2> SUFFICES ASSUME PoolInv, [Next]_vars, NEW r \in Reqs, req[r].quiet, ~req'[r].on,
                      \A b \in Held(table[r]) : ref[b] = 1 /\ Unhashed(hash, b)
               PROVE  {b \in Blocks : queue'[b] \in 1..Cardinality(Held(table[r]))}
                        = Held(table[r])
    OBVIOUS
  <2>1. req[r].on
    BY DEF PoolInv, Typed, RequestOK, Out
  <2>2. queue' = Released(r)
    BY <2>1, EndsByRelease DEF Release
  <2> QED
    BY <2>2, ReleasedToFront
<1> QED
  BY <1>1, PoolSafety, PTL DEF Spec, NoStoreRecycledNext

(* A no-store request leaves nothing others could find, and takes nothing   *)
(* others could still use.                                                  *)
THEOREM NoStoreIsTraceless == Spec => NoStoreLeavesNoTrace
BY NoStoreStoresNothing, NoStoreIsRecycled DEF NoStoreLeavesNoTrace

(* In one release the blocks that cannot match come before the drafter's    *)
(* cached ones.                                                             *)
THEOREM ReleasesAreOrdered == Spec => ReleaseOrder
<1> DEFINE InOrder(r) ==
      req[r].on /\ ~req'[r].on =>
        \A b, c \in Held(table[r]) :
          queue'[b] > 0 /\ queue'[c] > 0 /\ Unhashed(hash, b) /\ LowCached(hash, c)
            => queue'[b] < queue'[c]
<1>1. PoolInv /\ [Next]_vars => \A r \in Reqs : InOrder(r)
  <2> SUFFICES ASSUME PoolInv, [Next]_vars, NEW r \in Reqs, req[r].on, ~req'[r].on,
                      NEW b \in Held(table[r]), NEW c \in Held(table[r]),
                      queue'[b] > 0, queue'[c] > 0, Unhashed(hash, b), LowCached(hash, c)
               PROVE  queue'[b] < queue'[c]
    OBVIOUS
  <2> DEFINE T == Entries(table[r].target)
             D == Entries(table[r].draft)
             g == Released(r)
             q == FreedDraft(r)
  <2>1. queue' = g
    BY EndsByRelease DEF Release
  <2>2. Held(table[r]) = D \cup T /\ D \cap T = {} /\ Held(table[r]) \subseteq Blocks
    BY TableFacts DEF PoolInv, Typed, Apart, Held
  <2>3. /\ InQueue(g) = InQueue(queue) \cup Unheld(ref, Held(table[r]))
        /\ InQueue(q) = InQueue(queue) \cup Unheld(ref, D)
        /\ FreedOrder(q, queue, Unheld(ref, D)) /\ FreedOrder(g, q, Unheld(ref, T))
    BY ReleasedPlaces
  <2>4. b \in Blocks /\ c \in Blocks /\ b \in InQueue(g) /\ c \in InQueue(g)
    BY <2>1, <2>2 DEF InQueue
  <2>5. b \notin InQueue(queue) /\ c \notin InQueue(queue)
    BY <2>4, CountFacts DEF PoolInv, QueueIsFree
  <2>6. ref[b] = 1 /\ ref[c] = 1
    BY <2>3, <2>4, <2>5 DEF Unheld
  <2>7. c \in D /\ c \notin T
    BY <2>2 DEF PoolInv, KindsKept, OfKind, LowCached, Unhashed
  <2>8. ~Ordinary(hash, b) /\ Unhashed(hash, b) /\ ~Unhashed(hash, c)
    BY DEF Ordinary, LowCached
  <2> HIDE DEF T, D, g, q
  <2>9. CASE b \in T
    <3>1. b \in Unheld(ref, T) /\ c \notin Unheld(ref, T) /\ c \in InQueue(q)
      BY <2>3, <2>6, <2>7, <2>9 DEF Unheld
    <3> QED
      BY <2>1, <2>3, <2>8, <3>1 DEF FreedOrder
  <2>10. CASE b \in D /\ b \notin T
    <3>1. /\ b \in Unheld(ref, D) /\ c \in Unheld(ref, D)
          /\ b \notin Unheld(ref, T) /\ c \notin Unheld(ref, T)
          /\ b \in InQueue(q) /\ c \in InQueue(q)
      BY <2>3, <2>6, <2>7, <2>10 DEF Unheld
    <3>2. q[b] < q[c]
      BY <2>3, <2>8, <3>1 DEF FreedOrder
    <3> QED
      BY <2>1, <2>3, <3>1, <3>2 DEF FreedOrder
  <2> QED
    BY <2>2, <2>9, <2>10
<1> QED
  BY <1>1, PoolSafety, PTL DEF Spec, ReleaseOrder
=============================================================================
