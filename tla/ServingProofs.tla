----------------------------- MODULE ServingProofs -----------------------------
(****************************************************************************)
(* Proofs about the components MCServing puts next to each other, for every *)
(* value of the constants a component takes from the configuration.         *)
(****************************************************************************)
EXTENDS MCServing, FiniteSetTheorems, WellFoundedInduction, TLAPS

(* A set of numbers has a least one.                                        *)
LEMMA Lowest ==
  ASSUME NEW S \in SUBSET Nat, S # {}
  PROVE  \E n \in S : \A m \in S : n <= m
<1> DEFINE lt == {ss \in Nat \X Nat : ss[1] < ss[2]}
<1>1. IsWellFoundedOn(lt, Nat)
  BY NatLessThanWellFounded DEF OpToRel
<1>2. \A s, t \in Nat : s < t => <<s, t>> \in lt
  OBVIOUS
<1> HIDE DEF lt
<1>3. PICK n \in S : \A m \in S : ~ (<<m, n>> \in lt)
  BY <1>1, WFMin
<1>4. ASSUME NEW m \in S PROVE n <= m
  <2>1. n \in Nat /\ m \in Nat /\ <<m, n>> \notin lt
    BY <1>3
  <2> QED
    BY <2>1, <1>2
<1> QED
  BY <1>4

(* A bounded set of numbers has a largest one.                              *)
LEMMA Highest ==
  ASSUME NEW n \in Nat, NEW S \in SUBSET (0..n), S # {}
  PROVE  \E x \in S : \A y \in S : x >= y
<1> DEFINE T == {n - x : x \in S}
<1>0. \A x \in S : x \in 0..n
  OBVIOUS
<1>1. T \in SUBSET Nat /\ T # {}
  <2>1. \A x \in S : n - x \in Nat
    BY <1>0
  <2> QED
    BY <2>1
<1>2. \E t \in T : \A s \in T : t <= s
  <2> HIDE DEF T
  <2> QED BY <1>1, Lowest
<1>3. PICK x \in S : \A y \in S : n - x <= n - y
  BY <1>2
<1>4. \A y \in S : x >= y
  BY <1>3
<1> QED
  BY <1>4

(****************************************************************************)
(* The cooperative MoE launches                                             *)
(****************************************************************************)

CoopKernels ==
  [kind : {"rot", "A", "B", "use", "stock"}, id : Nat, rows : CM!Rows]

CoopTypeOK ==
  /\ overlap \in BOOLEAN
  /\ boot \in {"start", "refused", "ready"}
  /\ raised \in BOOLEAN
  /\ calls \in Nat
  /\ queue \in [CM!Streams -> Seq(CoopKernels)]
  /\ running \in [CM!Streams -> [begun : BOOLEAN, arrived : [CM!Cells -> 0..CoopNeed],
                                 lasts : [CM!Cells -> {0, 1}]]]
  /\ counters \in [{1, 2} -> [CM!Cells -> Nat]]
  /\ scratch \in [{"rotated", "act", "output"} -> Nat]

(* An engine that serves runs one stream, and one that does not runs none.  *)
OneStream ==
  /\ boot = "ready" => ~overlap
  /\ boot # "ready" => queue[0] = <<>>
  /\ queue[1] = <<>>
  /\ \A s \in CM!Streams : queue[s] = <<>> => running[s] = CM!Rest

(* What a kernel will read from the workspace is written by the kernel      *)
(* right before it, or is there when it is the first.                       *)
Handed(q, done) ==
  \A i \in 1..Len(q) : \A p \in CM!Reads(q[i]) :
      IF i = 1 THEN done[p] = q[i].id
      ELSE p \in CM!Writes(q[i - 1]) /\ q[i - 1].id = q[i].id

(* The kernel of the same launch that comes next.                           *)
Follower(k) == [k EXCEPT !.kind = CM!Successor(@)]

(* The next kernels of a launch follow at once, unless it failed.           *)
Chained(q, failed) ==
  \A i \in 1..Len(q) :
      q[i].kind \in {"rot", "A", "B"} =>
          \/ i < Len(q) /\ q[i + 1] = Follower(q[i])
          \/ i = Len(q) /\ failed

(* While a kernel runs the cells it counts in hold its own arrivals, and    *)
(* no chunk was finished before its last arrival.                           *)
CountsOwn ==
  /\ \A c \in CM!Cells :
        running[0].lasts[c] = IF running[0].arrived[c] = CoopNeed THEN 1 ELSE 0
  /\ ~running[0].begun => running[0] = CM!Rest
  /\ running[0].begun =>
        \A c \in CM!Cells :
            IF c \in CM!Arrives(CM!First(0))
            THEN counters[CM!Buffer(CM!First(0).rows)][c] = running[0].arrived[c]
            ELSE running[0].arrived[c] = 0

(* Between its kernels A and B a launch has not cleared the cells of A, but *)
(* those of B.                                                              *)
HalfWay(rows) ==
  /\ queue[0] # <<>>
  /\ CM!Buffer(CM!First(0).rows) = CM!Buffer(rows)
  /\ CM!First(0).kind = IF running[0].begun THEN "A" ELSE "B"

ClearA(rows) ==
  \A c \in CM!RegionA(CM!Kernel("A", 0, rows)) : counters[CM!Buffer(rows)][c] = 0

ClearB(rows) ==
  \A c \in CM!RegionB(CM!Kernel("B", 0, rows)) : counters[CM!Buffer(rows)][c] = 0

Cleared ==
  \A rows \in CM!Rows :
      \/ HalfWay(rows) /\ ClearB(rows)
      \/ ~HalfWay(rows) /\ ClearA(rows)
      \/ raised /\ queue[0] = <<>>

CoopInv ==
  /\ CoopTypeOK /\ OneStream /\ CountsOwn /\ Cleared
  /\ Handed(queue[0], scratch) /\ Chained(queue[0], raised)


-----------------------------------------------------------------------------
(* Queues of launches                                                       *)

(* Kernels queued behind others read nothing of theirs.                     *)
LEMMA HandedBehind ==
  ASSUME NEW q \in Seq(CoopKernels), NEW add \in Seq(CoopKernels), NEW done,
         Handed(q, done), Handed(add, done), add # <<>> => CM!Reads(add[1]) = {}
  PROVE  Handed(q \o add, done)
<1> SUFFICES ASSUME NEW i \in 1..Len(q \o add), NEW p \in CM!Reads((q \o add)[i])
             PROVE  IF i = 1 THEN done[p] = (q \o add)[i].id
                    ELSE /\ p \in CM!Writes((q \o add)[i - 1])
                         /\ (q \o add)[i - 1].id = (q \o add)[i].id
  BY DEF Handed
<1>1. CASE i <= Len(q)
  <2>1. (q \o add)[i] = q[i] /\ (i # 1 => (q \o add)[i - 1] = q[i - 1])
    BY <1>1
  <2>2. p \in CM!Reads(q[i]) /\ i \in 1..Len(q)
    BY <1>1, <2>1
  <2>3. IF i = 1 THEN done[p] = q[i].id
        ELSE p \in CM!Writes(q[i - 1]) /\ q[i - 1].id = q[i].id
    BY <2>2 DEF Handed
  <2> QED
    BY <2>1, <2>3
<1>2. CASE i > Len(q)
  <2> PICK j : j = i - Len(q)
    OBVIOUS
  <2>1. j \in 1..Len(add) /\ (q \o add)[i] = add[j]
    BY <1>2
  <2>2. j # 1
    BY <2>1
  <2>3. i # 1 /\ (q \o add)[i - 1] = add[j - 1]
    BY <1>2, <2>1, <2>2
  <2> QED
    BY <2>1, <2>2, <2>3 DEF Handed
<1> QED
  BY <1>1, <1>2

(* Kernels are queued only behind launches that are whole.                  *)
LEMMA ChainedBehind ==
  ASSUME NEW q \in Seq(CoopKernels), NEW add \in Seq(CoopKernels),
         NEW failed \in BOOLEAN, Chained(q, FALSE), Chained(add, failed)
  PROVE  Chained(q \o add, failed)
<1> PICK both : both = q \o add
  OBVIOUS
<1> SUFFICES ASSUME NEW i \in 1..Len(both), both[i].kind \in {"rot", "A", "B"}
             PROVE  \/ i < Len(both) /\ both[i + 1] = Follower(both[i])
                    \/ i = Len(both) /\ failed
  BY DEF Chained
<1>1. CASE i <= Len(q)
  <2>1. both[i] = q[i] /\ i \in 1..Len(q)
    BY <1>1
  <2>2. i < Len(q) /\ q[i + 1] = Follower(q[i])
    BY <2>1 DEF Chained
  <2>3. both[i + 1] = q[i + 1] /\ i < Len(both)
    BY <2>2
  <2> QED
    BY <2>1, <2>2, <2>3
<1>2. CASE i > Len(q)
  <2> PICK j : j = i - Len(q)
    OBVIOUS
  <2>1. j \in 1..Len(add) /\ both[i] = add[j]
    BY <1>2
  <2>2. \/ j < Len(add) /\ add[j + 1] = Follower(add[j])
        \/ j = Len(add) /\ failed
    BY <2>1 DEF Chained
  <2>3. j < Len(add) => i < Len(both) /\ both[i + 1] = add[j + 1]
    BY <1>2, <2>1
  <2>4. j = Len(add) => i = Len(both)
    BY <1>2, <2>1
  <2> QED
    BY <2>1, <2>2, <2>3, <2>4
<1>3. i <= Len(q) \/ i > Len(q)
  OBVIOUS
<1> QED
  BY <1>1, <1>2, <1>3

(* What a launch queues, with the use of its result behind it.              *)
LEMMA LaunchQueues ==
  ASSUME NEW id \in Nat, NEW rows \in CM!Rows, NEW done,
         NEW some, some = CM!Launches(id, rows),
         NEW all, all = some \o <<CM!Kernel("use", id, rows)>>
  PROVE  /\ some \in Seq(CoopKernels) /\ all \in Seq(CoopKernels)
         /\ CM!Reads(all[1]) = {} /\ Handed(all, done) /\ Chained(all, FALSE)
         /\ Len(all) = Len(some) + 1 /\ \A i \in 1..Len(some) : some[i] = all[i]
<1> PICK r, a, b, u : /\ r = CM!Kernel("rot", id, rows) /\ a = CM!Kernel("A", id, rows)
                      /\ b = CM!Kernel("B", id, rows) /\ u = CM!Kernel("use", id, rows)
  OBVIOUS
<1>1. r \in CoopKernels /\ a \in CoopKernels /\ b \in CoopKernels /\ u \in CoopKernels
  BY DEF CoopKernels, CM!Kernel
<1>2. CM!Reads(r) = {} /\ (rows = "one" => CM!Reads(a) = {})
        /\ CM!Reads(a) \subseteq CM!Writes(r)
        /\ CM!Reads(b) \subseteq CM!Writes(a)
        /\ CM!Reads(u) \subseteq CM!Writes(b)
  BY DEF CM!Reads, CM!Writes, CM!Kernel
<1>3. a = Follower(r)
        /\ b = Follower(a)
        /\ u = Follower(b)
  BY DEF CM!Kernel, CM!Successor, Follower
<1>4. u.kind \notin {"rot", "A", "B"}
        /\ r.id = id /\ a.id = id /\ b.id = id /\ u.id = id
  BY DEF CM!Kernel
<1>5. some \in Seq(CoopKernels)
        => /\ all \in Seq(CoopKernels) /\ Len(all) = Len(some) + 1
           /\ \A i \in 1..Len(some) : some[i] = all[i]
           /\ all[Len(some) + 1] = u
  BY <1>1
<1>7. CASE rows = "one"
  <2>1. some \in Seq(CoopKernels) /\ Len(some) = 2 /\ some[1] = a /\ some[2] = b
    BY <1>1, <1>7 DEF CM!Launches
  <2>2. Len(all) = 3 /\ all[1] = a /\ all[2] = b /\ all[3] = u
    BY <1>5, <2>1
  <2>3. Handed(all, done)
    BY <1>2, <1>4, <1>7, <2>2 DEF Handed
  <2>4. Chained(all, FALSE)
    <3>1. \A i \in 1..Len(all) : i \in {1, 2} \/ i = 3
      BY <2>2
    <3>2. \A i \in {1, 2} : all[i + 1] = Follower(all[i])
      BY <1>3, <2>2
    <3> QED
      BY <1>4, <2>2, <3>1, <3>2 DEF Chained
  <2> QED
    BY <1>2, <1>5, <1>7, <2>1, <2>2, <2>3, <2>4
<1>8. CASE rows # "one"
  <2>1. some \in Seq(CoopKernels) /\ Len(some) = 3 /\ some[1] = r /\ some[2] = a
          /\ some[3] = b
    BY <1>1, <1>8 DEF CM!Launches
  <2>2. Len(all) = 4 /\ all[1] = r /\ all[2] = a /\ all[3] = b /\ all[4] = u
    BY <1>5, <2>1
  <2>3. Handed(all, done)
    BY <1>2, <1>4, <2>2 DEF Handed
  <2>4. Chained(all, FALSE)
    <3>1. \A i \in 1..Len(all) : i \in {1, 2, 3} \/ i = 4
      BY <2>2
    <3>2. \A i \in {1, 2, 3} : all[i + 1] = Follower(all[i])
      BY <1>3, <2>2
    <3> QED
      BY <1>4, <2>2, <3>1, <3>2 DEF Chained
  <2> QED
    BY <1>2, <1>5, <2>1, <2>2, <2>3, <2>4
<1> QED
  BY <1>7, <1>8

(* A launch that failed has queued a part of it, and raised.                *)
LEMMA PartQueues ==
  ASSUME NEW q \in Seq(CoopKernels), NEW done, Handed(q, done), Chained(q, FALSE),
         NEW n \in Nat, n <= Len(q)
  PROVE  /\ SubSeq(q, 1, n) \in Seq(CoopKernels)
         /\ Handed(SubSeq(q, 1, n), done) /\ Chained(SubSeq(q, 1, n), TRUE)
         /\ n > 0 => SubSeq(q, 1, n)[1] = q[1]
<1> PICK s : s = SubSeq(q, 1, n)
  OBVIOUS
<1>1. s \in Seq(CoopKernels) /\ Len(s) = n /\ \A i \in 1..n : s[i] = q[i]
  OBVIOUS
<1>2. Handed(s, done)
  <2>1. ASSUME NEW i \in 1..Len(s), NEW p \in CM!Reads(s[i])
        PROVE  IF i = 1 THEN done[p] = s[i].id
               ELSE p \in CM!Writes(s[i - 1]) /\ s[i - 1].id = s[i].id
    <3>1. i \in 1..Len(q) /\ s[i] = q[i] /\ (i # 1 => s[i - 1] = q[i - 1])
      BY <1>1
    <3>2. IF i = 1 THEN done[p] = q[i].id
          ELSE p \in CM!Writes(q[i - 1]) /\ q[i - 1].id = q[i].id
      BY <2>1, <3>1 DEF Handed
    <3> QED
      BY <3>1, <3>2
  <2> QED
    BY <2>1 DEF Handed
<1>3. Chained(s, TRUE)
  <2>1. ASSUME NEW i \in 1..Len(s), i # Len(s), s[i].kind \in {"rot", "A", "B"}
        PROVE  i < Len(s) /\ s[i + 1] = Follower(s[i])
    <3>1. i \in 1..Len(q) /\ i < Len(q) /\ s[i] = q[i] /\ s[i + 1] = q[i + 1]
      BY <1>1, <2>1
    <3>2. q[i + 1] = Follower(q[i])
      BY <2>1, <3>1 DEF Chained
    <3> QED
      BY <1>1, <2>1, <3>1, <3>2
  <2> QED
    BY <2>1 DEF Chained
<1>4. n > 0 => s[1] = q[1]
  BY <1>1
<1> QED
  BY <1>1, <1>2, <1>3, <1>4

-----------------------------------------------------------------------------
(* The actions of CoopMoe                                                   *)

LEMMA NeedPositive == CoopNeed \in Nat \ {0}
  BY ServingAssumption DEF CM!CoopAssumption

(* The cells of A and of B are apart, and the same for all row classes that *)
(* share a buffer.                                                          *)
LEMMA Regions ==
  ASSUME NEW k \in CoopKernels, NEW rows \in CM!Rows
  PROVE  /\ CM!Buffer(k.rows) \in {1, 2} /\ CM!Buffer(rows) \in {1, 2}
         /\ CM!RegionA(k) \cap CM!RegionB(k) = {}
         /\ CM!RegionA(k) \subseteq CM!Cells /\ CM!RegionB(k) \subseteq CM!Cells
         /\ CM!Buffer(k.rows) = CM!Buffer(rows)
              => /\ CM!RegionA(CM!Kernel("A", 0, rows)) = CM!RegionA(k)
                 /\ CM!RegionB(CM!Kernel("B", 0, rows)) = CM!RegionB(k)
  BY DEF CoopKernels, CM!Rows, CM!Buffer, CM!Capacity, CM!RegionA, CM!RegionB, CM!Cells,
         CM!Kernel

LEMMA FirstType ==
  ASSUME CoopTypeOK, queue[0] # <<>>
  PROVE  CM!First(0) = queue[0][1] /\ CM!First(0) \in CoopKernels
  BY DEF CoopTypeOK, CM!First, CM!Streams

LEMMA CoopInitInv == CM!CoopInit => CoopInv
<1> SUFFICES ASSUME CM!CoopInit PROVE CoopInv
  OBVIOUS
<1> USE DEF CM!CoopInit
<1>1. CoopTypeOK
  <2>1. CM!Rest \in [begun : BOOLEAN, arrived : [CM!Cells -> 0..CoopNeed],
                     lasts : [CM!Cells -> {0, 1}]]
    BY NeedPositive DEF CM!Rest
  <2>2. queue \in [CM!Streams -> Seq(CoopKernels)]
    OBVIOUS
  <2>3. counters \in [{1, 2} -> [CM!Cells -> Nat]]
    OBVIOUS
  <2>4. scratch \in [{"rotated", "act", "output"} -> Nat]
    OBVIOUS
  <2> QED
    BY <2>1, <2>2, <2>3, <2>4 DEF CoopTypeOK
<1>5. OneStream
  BY DEF OneStream, CM!Streams
<1>2. CountsOwn
  BY NeedPositive DEF CountsOwn, CM!Streams, CM!Cells, CM!Rest
<1>3. Cleared
  BY DEF Cleared, HalfWay, ClearA, CM!Streams, CM!Cells, CM!Rows, CM!Buffer, CM!Capacity,
         CM!RegionA, CM!Kernel
<1>4. Handed(queue[0], scratch) /\ Chained(queue[0], raised)
  BY DEF Handed, Chained, CM!Streams
<1> QED
  BY <1>1, <1>2, <1>3, <1>4, <1>5 DEF CoopInv

LEMMA CoopInstallInv == CoopInv /\ CM!Install => CoopInv'
<1> SUFFICES ASSUME CoopInv, CM!Install PROVE CoopInv'
  OBVIOUS
<1> USE DEF CoopInv, CM!Install
<1>1. CoopTypeOK' /\ OneStream'
  BY DEF CoopTypeOK, OneStream, CM!Serialized
<1>2. CountsOwn' /\ Cleared'
  BY DEF CountsOwn, Cleared, HalfWay, ClearA, ClearB, CM!First
<1>3. Handed(queue[0], scratch)' /\ Chained(queue[0], raised)'
  BY DEF Handed, Chained, CM!Reads
<1> QED
  BY <1>1, <1>2, <1>3

(* Kernels that read nothing of what runs are queued behind it.             *)
LEMMA QueueGrows ==
  ASSUME CoopInv, boot = "ready", ~raised, NEW add \in Seq(CoopKernels),
         Handed(add, scratch), add # <<>> => CM!Reads(add[1]) = {},
         raised' \in BOOLEAN, Chained(add, raised'), calls' \in Nat,
         queue' = [queue EXCEPT ![0] = @ \o add],
         UNCHANGED <<variant, overlap, boot, running, counters, scratch>>
  PROVE  CoopInv'
<1> USE DEF CoopInv
<1>1. queue[0] \in Seq(CoopKernels) /\ queue'[0] = queue[0] \o add /\ queue'[1] = queue[1]
        /\ queue' \in [CM!Streams -> Seq(CoopKernels)]
  BY DEF CoopTypeOK, CM!Streams
<1>2. queue[0] # <<>> => queue'[0] # <<>> /\ queue'[0][1] = queue[0][1]
  BY <1>1
<1>3. queue[0] # <<>> => CM!First(0)' = CM!First(0)
  BY <1>1, <1>2 DEF CM!First
<1>4. CoopTypeOK'
  BY <1>1 DEF CoopTypeOK
<1>5. OneStream'
  BY <1>1, <1>2 DEF OneStream, CM!Streams, CM!Rest, CM!Cells
<1>6. running[0].begun => queue[0] # <<>>
  BY DEF OneStream, CM!Streams, CM!Rest
<1>7. CountsOwn'
  BY <1>3, <1>6 DEF CountsOwn, CM!Rest, CM!Arrives, CM!RegionA, CM!RegionB
<1>8. Cleared'
  <2> SUFFICES ASSUME NEW rows \in CM!Rows
               PROVE  \/ HalfWay(rows)' /\ ClearB(rows)'
                      \/ ~HalfWay(rows)' /\ ClearA(rows)'
    BY DEF Cleared
  <2>1. (ClearA(rows)' <=> ClearA(rows)) /\ (ClearB(rows)' <=> ClearB(rows))
    BY DEF ClearA, ClearB
  <2>2. CASE queue[0] # <<>>
    <3>1. HalfWay(rows)' <=> HalfWay(rows)
      BY <1>2, <1>3, <2>2 DEF HalfWay
    <3> QED
      BY <2>1, <2>2, <3>1 DEF Cleared
  <2>3. CASE queue[0] = <<>>
    <3>1. ClearA(rows)
      BY <2>3 DEF Cleared, HalfWay
    <3>2. ~HalfWay(rows)'
      <4>1. queue'[0] = add
        BY <1>1, <2>3
      <4>2. add # <<>> => CM!First(0)' = add[1]
        BY <4>1 DEF CM!First
      <4>4. add # <<>> => add[1].kind # "B"
        BY DEF CM!Reads
      <4>3. ~running'[0].begun
        BY <1>6, <2>3
      <4> QED
        BY <4>1, <4>2, <4>3, <4>4 DEF HalfWay
    <3> QED
      BY <2>1, <3>1, <3>2
  <2> QED
    BY <2>2, <2>3
<1>9. Handed(queue[0], scratch)'
  <2> PICK both : both = queue[0] \o add
    OBVIOUS
  <2>1. Handed(both, scratch) /\ queue'[0] = both
    BY <1>1, HandedBehind
  <2> SUFFICES ASSUME NEW i \in 1..Len(queue'[0]), NEW p \in CM!Reads(queue[0][i])'
               PROVE  IF i = 1 THEN scratch'[p] = queue'[0][i].id
                      ELSE /\ p \in CM!Writes(queue'[0][i - 1])
                           /\ queue'[0][i - 1].id = queue'[0][i].id
    BY DEF Handed
  <2>2. p \in CM!Reads(both[i]) /\ i \in 1..Len(both)
    BY <2>1 DEF CM!Reads
  <2>3. IF i = 1 THEN scratch[p] = both[i].id
        ELSE p \in CM!Writes(both[i - 1]) /\ both[i - 1].id = both[i].id
    BY <2>1, <2>2 DEF Handed
  <2> QED
    BY <2>1, <2>3
<1>10. Chained(queue[0], raised)'
  <2>1. Chained(queue[0], FALSE)
    BY DEF Chained
  <2>2. Chained(queue[0] \o add, raised')
    BY <1>1, <2>1, ChainedBehind
  <2> QED
    BY <1>1, <2>2 DEF Chained
<1> QED
  BY <1>4, <1>5, <1>7, <1>8, <1>9, <1>10

LEMMA CoopCallInv == \A s \in CM!Streams : CoopInv /\ CM!Call(s) => CoopInv'
<1> SUFFICES ASSUME CoopInv, NEW s \in CM!Streams, CM!Call(s) PROVE CoopInv'
  OBVIOUS
<1>1. s = 0 /\ boot = "ready" /\ ~raised /\ calls' \in Nat
        /\ UNCHANGED <<variant, overlap, boot, running, counters, scratch>>
  BY DEF CoopInv, CoopTypeOK, OneStream, CM!Call, CM!Streams, CM!Busy
<1> PICK id \in Nat : id = calls'
  BY <1>1
<1>6. PICK rows \in CM!Rows :
      IF CM!Selected(layer[s], rows)
      THEN LET all == CM!Launches(id, rows) IN
           \/ /\ CM!Enqueue(s, all \o <<CM!Kernel("use", id, rows)>>)
              /\ CM!Advance(s) /\ UNCHANGED raised
           \/ \E n \in 0..(Len(all) - 1) : CM!OnFailure(s, id, rows, n)
      ELSE /\ CM!Enqueue(s, <<CM!Kernel("stock", id, rows)>>)
           /\ CM!Advance(s) /\ UNCHANGED raised
  BY DEF CM!Call
<1> PICK some : some = CM!Launches(id, rows)
  OBVIOUS
<1> PICK all : all = some \o <<CM!Kernel("use", id, rows)>>
  OBVIOUS
<1>2. /\ some \in Seq(CoopKernels) /\ all \in Seq(CoopKernels)
      /\ CM!Reads(all[1]) = {} /\ Handed(all, scratch) /\ Chained(all, FALSE)
      /\ Len(all) = Len(some) + 1 /\ \A i \in 1..Len(some) : some[i] = all[i]
  <2>1. some \in Seq(CoopKernels) /\ all \in Seq(CoopKernels)
    BY LaunchQueues
  <2>2. CM!Reads(all[1]) = {}
    BY LaunchQueues
  <2>3. Handed(all, scratch) /\ Chained(all, FALSE)
    BY LaunchQueues
  <2>4. Len(all) = Len(some) + 1 /\ \A i \in 1..Len(some) : some[i] = all[i]
    BY LaunchQueues
  <2> QED
    BY <2>1, <2>2, <2>3, <2>4
<1>3. CASE CM!Enqueue(s, all) /\ UNCHANGED raised
  <2>1. queue' = [queue EXCEPT ![0] = @ \o all] /\ raised' = FALSE
    BY <1>1, <1>3 DEF CM!Enqueue, CoopInv, CoopTypeOK
  <2> QED
    BY <1>1, <1>2, <2>1, QueueGrows
<1>4. ASSUME NEW n \in 0..(Len(some) - 1), CM!OnFailure(s, id, rows, n)
      PROVE  CoopInv'
  <2> PICK cut : cut = SubSeq(all, 1, n)
    OBVIOUS
  <2>1. n \in Nat /\ n <= Len(all)
    BY <1>2
  <2>2. cut \in Seq(CoopKernels) /\ Handed(cut, scratch) /\ Chained(cut, TRUE)
          /\ (n > 0 => cut[1] = all[1])
    BY <1>2, <2>1, PartQueues
  <2>3. cut = SubSeq(some, 1, n)
    BY <1>2, <2>1
  <2>4. queue' = [queue EXCEPT ![0] = @ \o cut] /\ raised' = TRUE
    BY <1>1, <1>4, <2>3 DEF CM!OnFailure, CM!Enqueue
  <2>5. cut # <<>> => CM!Reads(cut[1]) = {}
    <3>1. Len(cut) = n
      BY <1>2, <2>1
    <3>2. cut # <<>> => cut[1] = all[1]
      BY <2>2, <3>1
    <3> QED
      BY <1>2, <3>2
  <2> QED
    BY <1>1, <2>2, <2>4, <2>5, QueueGrows
<1>5. CASE CM!Enqueue(s, <<CM!Kernel("stock", id, rows)>>) /\ UNCHANGED raised
  <2> PICK k, one : k = CM!Kernel("stock", id, rows) /\ one = <<k>>
    OBVIOUS
  <2>1. k \in CoopKernels /\ CM!Reads(k) = {} /\ k.kind = "stock"
    BY <1>1 DEF CM!Kernel, CoopKernels, CM!Reads
  <2>2. one \in Seq(CoopKernels) /\ Len(one) = 1 /\ one[1] = k
    BY <2>1
  <2>3. Handed(one, scratch) /\ Chained(one, FALSE)
    BY <2>1, <2>2 DEF Handed, Chained
  <2>4. queue' = [queue EXCEPT ![0] = @ \o one] /\ raised' = FALSE
    BY <1>1, <1>5 DEF CM!Enqueue, CoopInv, CoopTypeOK
  <2> QED
    BY <1>1, <2>1, <2>2, <2>3, <2>4, QueueGrows
<1> QED
  BY <1>3, <1>4, <1>5, <1>6

LEMMA CoopBeginInv == \A s \in CM!Streams : CoopInv /\ CM!Begin(s) => CoopInv'
<1> SUFFICES ASSUME CoopInv, NEW s \in CM!Streams, CM!Begin(s) PROVE CoopInv'
  OBVIOUS
<1> USE DEF CoopInv
<1>1. s = 0 /\ queue[0] # <<>> /\ ~running[0].begun
        /\ UNCHANGED <<variant, overlap, boot, queue, scratch, raised, calls>>
  BY DEF OneStream, CM!Begin, CM!Streams
<1> PICK k : k = CM!First(0)
  OBVIOUS
<1>2. k \in CoopKernels /\ k = queue[0][1] /\ CM!First(0)' = k
  BY <1>1, FirstType DEF CM!First
<1> PICK b : b = CM!Buffer(k.rows)
  OBVIOUS
<1>3. b \in {1, 2}
  BY <1>2, Regions DEF CoopKernels
<1>4. running[0] = CM!Rest
  BY <1>1 DEF CountsOwn
<1>5. running' = [running EXCEPT ![0].begun = TRUE]
        /\ counters' = [counters EXCEPT ![b] =
               [c \in CM!Cells |-> IF c \in CM!Clears(k) THEN 0 ELSE @[c]]]
  BY <1>1 DEF CM!Begin
<1>6. \A c \in CM!Cells : counters'[b][c] = IF c \in CM!Clears(k) THEN 0 ELSE counters[b][c]
  BY <1>3, <1>5 DEF CoopTypeOK
<1>7. \A d \in {1, 2} : d # b => counters'[d] = counters[d]
  BY <1>5 DEF CoopTypeOK
<1>8. running'[0] = [CM!Rest EXCEPT !.begun = TRUE] /\ running'[1] = running[1]
  BY <1>4, <1>5 DEF CoopTypeOK, CM!Streams
<1>9. CoopTypeOK'
  <2>1. counters' \in [{1, 2} -> [CM!Cells -> Nat]]
    BY <1>3, <1>5 DEF CoopTypeOK
  <2>2. running' \in [CM!Streams -> [begun : BOOLEAN, arrived : [CM!Cells -> 0..CoopNeed],
                                     lasts : [CM!Cells -> {0, 1}]]]
    <3> DEFINE Runs == [begun : BOOLEAN, arrived : [CM!Cells -> 0..CoopNeed],
                        lasts : [CM!Cells -> {0, 1}]]
    <3>1. running \in [CM!Streams -> Runs]
      BY DEF CoopTypeOK
    <3>2. running[0] \in Runs
      BY <3>1 DEF CM!Streams
    <3>3. [running[0] EXCEPT !.begun = TRUE] \in Runs
      BY <3>2
    <3>4. running' = [running EXCEPT ![0] = [running[0] EXCEPT !.begun = TRUE]]
      BY <1>5
    <3> HIDE DEF Runs
    <3>5. running' \in [CM!Streams -> Runs]
      BY <3>1, <3>3, <3>4
    <3> QED
      BY <3>5 DEF Runs
  <2> QED
    BY <1>1, <2>1, <2>2 DEF CoopTypeOK
<1>10. OneStream'
  BY <1>1, <1>8 DEF OneStream, CM!Streams, CM!Rest
<1>11. CM!Arrives(k) \subseteq CM!Cells
         /\ \A c \in CM!Arrives(k) : counters[b][c] = 0 /\ c \notin CM!Clears(k)
  <2>1. CASE k.kind = "A"
    <3>1. ~HalfWay(k.rows)
      BY <1>1, <2>1 DEF HalfWay
    <3>2. ClearA(k.rows)
      BY <1>1, <1>2, <3>1 DEF Cleared, CoopKernels
    <3> QED
      BY <1>2, <2>1, <3>2, Regions DEF ClearA, CM!Arrives, CM!Clears, CoopKernels
  <2>2. CASE k.kind = "B"
    <3>1. HalfWay(k.rows)
      BY <1>1, <2>2 DEF HalfWay
    <3>2. ClearB(k.rows)
      BY <1>1, <1>2, <3>1 DEF Cleared, CoopKernels
    <3> QED
      BY <1>2, <2>2, <3>2, Regions DEF ClearB, CM!Arrives, CM!Clears, CoopKernels
  <2> QED
    BY <2>1, <2>2 DEF CM!Arrives
<1>12. CountsOwn'
  <2>1. \A c \in CM!Cells : running'[0].arrived[c] = 0 /\ running'[0].lasts[c] = 0
    BY <1>8 DEF CM!Rest
  <2>2. running'[0].begun
    BY <1>8 DEF CM!Rest
  <2>3. \A c \in CM!Arrives(k) : counters'[b][c] = 0
    BY <1>6, <1>11
  <2> QED
    BY <1>2, <2>1, <2>2, <2>3, NeedPositive DEF CountsOwn
<1>13. Cleared'
  <2> SUFFICES ASSUME NEW rows \in CM!Rows
               PROVE  \/ HalfWay(rows)' /\ ClearB(rows)'
                      \/ ~HalfWay(rows)' /\ ClearA(rows)'
    BY DEF Cleared
  <2>1. running'[0].begun
    BY <1>8 DEF CM!Rest
  <2>2. HalfWay(rows)' <=> b = CM!Buffer(rows) /\ k.kind = "A"
    BY <1>1, <1>2, <2>1 DEF HalfWay
  <2>3. CASE b # CM!Buffer(rows)
    <3>1. ClearA(rows)
      BY <1>1, <2>3 DEF Cleared, HalfWay
    <3> QED
      BY <1>2, <1>7, <2>2, <2>3, <3>1, Regions DEF ClearA
  <2>4. CASE b = CM!Buffer(rows) /\ k.kind = "A"
    BY <1>2, <1>6, <2>2, <2>4, Regions DEF ClearB, CM!Clears
  <2>5. CASE b = CM!Buffer(rows) /\ k.kind = "B"
    BY <1>2, <1>6, <2>2, <2>5, Regions DEF ClearA, CM!Clears
  <2>6. CASE b = CM!Buffer(rows) /\ k.kind \notin {"A", "B"}
    <3>1. ClearA(rows)
      BY <1>1, <2>6 DEF Cleared, HalfWay
    <3>2. CM!Clears(k) = {}
      BY <2>6 DEF CM!Clears
    <3> QED
      BY <1>2, <1>6, <2>2, <2>6, <3>1, <3>2, Regions DEF ClearA
  <2> QED
    BY <2>3, <2>4, <2>5, <2>6
<1>14. Handed(queue[0], scratch)' /\ Chained(queue[0], raised)'
  BY <1>1 DEF Handed, Chained, CM!Reads
<1> QED
  BY <1>9, <1>10, <1>12, <1>13, <1>14

LEMMA CoopArriveInv ==
  \A s \in CM!Streams : \A c \in CM!Cells : CoopInv /\ CM!ArriveLast(s, c) => CoopInv'
<1> SUFFICES ASSUME CoopInv, NEW s \in CM!Streams, NEW c \in CM!Cells, CM!ArriveLast(s, c)
             PROVE  CoopInv'
  OBVIOUS
<1> USE DEF CoopInv
<1>1. s = 0 /\ queue[0] # <<>> /\ running[0].begun
        /\ UNCHANGED <<variant, overlap, boot, queue, scratch, raised, calls>>
  BY DEF OneStream, CM!ArriveLast, CM!Streams
<1> PICK k : k = CM!First(0)
  OBVIOUS
<1>2. k \in CoopKernels /\ k = queue[0][1] /\ CM!First(0)' = k
  BY <1>1, FirstType DEF CM!First
<1> PICK b : b = CM!Buffer(k.rows)
  OBVIOUS
<1>3. b \in {1, 2}
  BY <1>2, Regions DEF CoopKernels
<1>4. /\ c \in CM!Arrives(k) /\ running[0].arrived[c] < CoopNeed
      /\ counters' = [counters EXCEPT ![b][c] = @ + 1]
      /\ running' = [running EXCEPT ![0].arrived[c] = @ + 1,
              ![0].lasts[c] = @ + IF counters[b][c] = CoopNeed - 1 THEN 1 ELSE 0]
  BY <1>1 DEF CM!ArriveLast
<1>5. counters[b][c] = running[0].arrived[c] /\ running[0].lasts[c] = 0
        /\ running[0].arrived[c] \in 0..CoopNeed
  BY <1>1, <1>4, NeedPositive DEF CountsOwn, CoopTypeOK, CM!Streams
<1> PICK n : n = running[0].arrived[c]
  OBVIOUS
<1>6. /\ counters'[b][c] = n + 1
      /\ \A d \in CM!Cells : d # c => counters'[b][d] = counters[b][d]
      /\ \A a \in {1, 2} : a # b => counters'[a] = counters[a]
      /\ counters' \in [{1, 2} -> [CM!Cells -> Nat]]
  BY <1>3, <1>4, <1>5 DEF CoopTypeOK
<1> PICK final \in {0, 1} : final = IF n = CoopNeed - 1 THEN 1 ELSE 0
  OBVIOUS
<1>7. running[0].begun \in BOOLEAN
        /\ running[0].arrived \in [CM!Cells -> 0..CoopNeed]
        /\ running[0].lasts \in [CM!Cells -> {0, 1}]
  BY DEF CoopTypeOK, CM!Streams
<1>8. /\ running'[0].begun /\ running'[1] = running[1]
      /\ running'[0].arrived = [running[0].arrived EXCEPT ![c] = n + 1]
      /\ running'[0].lasts = [running[0].lasts EXCEPT ![c] = final]
      /\ running' \in [CM!Streams -> [begun : BOOLEAN, arrived : [CM!Cells -> 0..CoopNeed],
                                      lasts : [CM!Cells -> {0, 1}]]]
  <2> PICK old : old = running[0]
    OBVIOUS
  <2> PICK new : new = [old EXCEPT !.arrived[c] = n + 1, !.lasts[c] = final]
    OBVIOUS
  <2>1. old \in [begun : BOOLEAN, arrived : [CM!Cells -> 0..CoopNeed],
                 lasts : [CM!Cells -> {0, 1}]]
    BY DEF CoopTypeOK, CM!Streams
  <2>2. /\ new.begun = old.begun /\ new.arrived = [old.arrived EXCEPT ![c] = n + 1]
        /\ new.lasts = [old.lasts EXCEPT ![c] = final]
    BY <2>1
  <2>3. n + 1 \in 0..CoopNeed
    BY <1>4, <1>5, NeedPositive
  <2>4. new \in [begun : BOOLEAN, arrived : [CM!Cells -> 0..CoopNeed],
                 lasts : [CM!Cells -> {0, 1}]]
    BY <2>1, <2>3
  <2>5. running' = [running EXCEPT ![0] = new]
    <3>1. running' = [running EXCEPT ![0].arrived[c] = n + 1, ![0].lasts[c] = final]
      BY <1>4, <1>5 DEF CoopTypeOK, CM!Streams
    <3> QED
      BY <3>1 DEF CoopTypeOK, CM!Streams
  <2> QED
    BY <1>1, <2>2, <2>4, <2>5 DEF CoopTypeOK, CM!Streams
<1>9. CoopTypeOK'
  BY <1>1, <1>6, <1>8 DEF CoopTypeOK
<1>10. OneStream'
  BY <1>1, <1>8 DEF OneStream, CM!Streams, CM!Rest
<1>11. CountsOwn'
  <2>1. running'[0].arrived[c] = n + 1 /\ running'[0].lasts[c] = final
          /\ \A d \in CM!Cells : d # c => /\ running'[0].arrived[d] = running[0].arrived[d]
                                         /\ running'[0].lasts[d] = running[0].lasts[d]
    BY <1>7, <1>8
  <2>2. n + 1 = CoopNeed <=> n = CoopNeed - 1
    BY <1>5, NeedPositive
  <2>3. ASSUME NEW d \in CM!Cells
        PROVE  running'[0].lasts[d] = IF running'[0].arrived[d] = CoopNeed THEN 1 ELSE 0
    <3>1. CASE d = c
      BY <2>1, <2>2, <3>1
    <3>2. CASE d # c
      BY <2>1, <3>2 DEF CountsOwn
    <3> QED
      BY <3>1, <3>2
  <2>4. ASSUME NEW d \in CM!Cells
        PROVE  IF d \in CM!Arrives(k) THEN counters'[b][d] = running'[0].arrived[d]
               ELSE running'[0].arrived[d] = 0
    <3>1. CASE d = c
      BY <1>4, <1>6, <2>1, <3>1
    <3>2. CASE d # c
      BY <1>1, <1>6, <2>1, <3>2 DEF CountsOwn
    <3> QED
      BY <3>1, <3>2
  <2> QED
    BY <1>2, <1>8, <2>3, <2>4 DEF CountsOwn
<1>12. Cleared'
  <2> SUFFICES ASSUME NEW rows \in CM!Rows
               PROVE  \/ HalfWay(rows)' /\ ClearB(rows)'
                      \/ ~HalfWay(rows)' /\ ClearA(rows)'
    BY DEF Cleared
  <2>1. HalfWay(rows)' <=> HalfWay(rows)
    BY <1>1, <1>2, <1>8 DEF HalfWay
  <2>2. CASE b # CM!Buffer(rows)
    <3>1. ~HalfWay(rows) /\ ClearA(rows)
      BY <1>1, <2>2 DEF Cleared, HalfWay
    <3> QED
      BY <1>2, <1>6, <2>1, <2>2, <3>1, Regions DEF ClearA
  <2>3. CASE b = CM!Buffer(rows) /\ k.kind = "A"
    <3>1. HalfWay(rows) /\ ClearB(rows)
      BY <1>1, <2>3 DEF Cleared, HalfWay
    <3>2. c \in CM!RegionA(k)
      BY <1>4, <2>3 DEF CM!Arrives
    <3> QED
      BY <1>2, <1>6, <2>1, <2>3, <3>1, <3>2, Regions DEF ClearB
  <2>4. CASE b = CM!Buffer(rows) /\ k.kind = "B"
    <3>1. ~HalfWay(rows) /\ ClearA(rows)
      BY <1>1, <2>4 DEF Cleared, HalfWay
    <3>2. c \in CM!RegionB(k)
      BY <1>4, <2>4 DEF CM!Arrives
    <3> QED
      BY <1>2, <1>6, <2>1, <2>4, <3>1, <3>2, Regions DEF ClearA
  <2> QED
    BY <1>4, <2>2, <2>3, <2>4 DEF CM!Arrives
<1>13. Handed(queue[0], scratch)' /\ Chained(queue[0], raised)'
  BY <1>1 DEF Handed, Chained, CM!Reads
<1> QED
  BY <1>9, <1>10, <1>11, <1>12, <1>13

LEMMA CoopFinishInv == \A s \in CM!Streams : CoopInv /\ CM!Finish(s) => CoopInv'
<1> SUFFICES ASSUME CoopInv, NEW s \in CM!Streams, CM!Finish(s) PROVE CoopInv'
  OBVIOUS
<1> USE DEF CoopInv
<1>1. s = 0 /\ queue[0] # <<>> /\ running[0].begun
        /\ UNCHANGED <<variant, overlap, boot, counters, raised, calls>>
  BY DEF OneStream, CM!Finish, CM!Streams
<1> PICK q, k : q = queue[0] /\ k = CM!First(0)
  OBVIOUS
<1>2. k \in CoopKernels /\ k = q[1] /\ q \in Seq(CoopKernels) /\ q # <<>>
  BY <1>1, FirstType DEF CoopTypeOK, CM!Streams
<1> PICK rest : rest = Tail(q)
  OBVIOUS
<1>3. /\ rest \in Seq(CoopKernels) /\ Len(rest) = Len(q) - 1
      /\ \A i \in 1..Len(rest) : rest[i] = q[i + 1]
  BY <1>2
<1>4. queue' = [queue EXCEPT ![0] = rest] /\ running' = [running EXCEPT ![0] = CM!Rest]
        /\ scratch' = [p \in DOMAIN scratch |->
              IF p \in CM!Writes(k) THEN k.id ELSE scratch[p]]
  BY <1>1 DEF CM!Finish
<1>5. queue'[0] = rest /\ queue'[1] = queue[1] /\ running'[0] = CM!Rest
        /\ running'[1] = running[1]
  BY <1>4 DEF CoopTypeOK, CM!Streams
<1>6. CoopTypeOK'
  <2>1. CM!Rest \in [begun : BOOLEAN, arrived : [CM!Cells -> 0..CoopNeed],
                     lasts : [CM!Cells -> {0, 1}]]
    BY NeedPositive DEF CM!Rest
  <2>2. queue' \in [CM!Streams -> Seq(CoopKernels)]
    BY <1>3, <1>4 DEF CoopTypeOK
  <2>3. k.id \in Nat
    BY <1>2 DEF CoopKernels
  <2>4. scratch' \in [{"rotated", "act", "output"} -> Nat]
    BY <1>4, <2>3 DEF CoopTypeOK
  <2>5. running' \in [CM!Streams -> [begun : BOOLEAN, arrived : [CM!Cells -> 0..CoopNeed],
                                     lasts : [CM!Cells -> {0, 1}]]]
    BY <1>4, <2>1 DEF CoopTypeOK
  <2> QED
    BY <1>1, <2>2, <2>4, <2>5 DEF CoopTypeOK
<1>7. OneStream'
  BY <1>1, <1>5 DEF OneStream, CM!Streams
<1>8. CountsOwn'
  BY <1>5, NeedPositive DEF CountsOwn, CM!Rest
<1>9. Handed(queue[0], scratch)'
  <2> SUFFICES ASSUME NEW i \in 1..Len(queue'[0]), NEW p \in CM!Reads(queue[0][i])'
               PROVE  IF i = 1 THEN scratch'[p] = queue'[0][i].id
                      ELSE /\ p \in CM!Writes(queue'[0][i - 1])
                           /\ queue'[0][i - 1].id = queue'[0][i].id
    BY DEF Handed
  <2>1. p \in CM!Reads(rest[i]) /\ i \in 1..Len(rest)
    BY <1>1, <1>5 DEF CM!Reads
  <2> PICK j : j = i + 1
    OBVIOUS
  <2>2. j \in 1..Len(q) /\ j # 1 /\ rest[i] = q[j] /\ q[j - 1] = q[i]
    BY <1>2, <1>3, <2>1
  <2>3. p \in CM!Writes(q[i]) /\ q[i].id = q[j].id
    BY <2>1, <2>2 DEF Handed
  <2>4. CASE i = 1
    <3>1. p \in DOMAIN scratch
      BY <2>3 DEF CM!Writes, CoopTypeOK
    <3>2. scratch'[p] = k.id
      BY <1>2, <1>4, <2>3, <2>4, <3>1
    <3>3. queue'[0][i].id = k.id
      BY <1>2, <1>5, <2>2, <2>3, <2>4
    <3>4. scratch'[p] = queue'[0][i].id
      BY <3>2, <3>3, Zenon
    <3> QED
      BY <2>4, <3>4, Zenon
  <2>5. CASE i # 1
    <3>1. i - 1 \in 1..Len(rest) /\ (i - 1) + 1 = i
      BY <1>3, <2>1, <2>5
    <3>2. rest[i - 1] = q[(i - 1) + 1]
      BY <1>3, <3>1
    <3>3. rest[i - 1] = q[i]
      BY <3>1, <3>2
    <3> QED
      BY <1>5, <2>2, <2>3, <2>5, <3>3
  <2> QED
    BY <2>4, <2>5
<1>10. Chained(queue[0], raised)'
  <2>1. ASSUME NEW i \in 1..Len(rest), rest[i].kind \in {"rot", "A", "B"}
        PROVE  \/ i < Len(rest) /\ rest[i + 1] = Follower(rest[i])
               \/ i = Len(rest) /\ raised
    <3> PICK j : j = i + 1
      OBVIOUS
    <3>1. j \in 1..Len(q) /\ q[j] = rest[i]
      BY <1>2, <1>3
    <3>2. \/ j < Len(q) /\ q[j + 1] = Follower(q[j])
          \/ j = Len(q) /\ raised
      BY <2>1, <3>1 DEF Chained
    <3>3. j < Len(q) => i < Len(rest) /\ rest[i + 1] = q[j + 1]
      BY <1>2, <1>3, <3>1
    <3>4. j = Len(q) => i = Len(rest)
      BY <1>2, <1>3
    <3> QED
      BY <3>1, <3>2, <3>3, <3>4
  <2> QED
    BY <1>1, <1>5, <2>1 DEF Chained
<1>11. Cleared'
  <2> SUFFICES ASSUME NEW rows \in CM!Rows
               PROVE  \/ HalfWay(rows)' /\ ClearB(rows)'
                      \/ ~HalfWay(rows)' /\ ClearA(rows)'
                      \/ raised' /\ queue'[0] = <<>>
    BY DEF Cleared
  <2>1. (ClearA(rows)' <=> ClearA(rows)) /\ (ClearB(rows)' <=> ClearB(rows))
    BY <1>1 DEF ClearA, ClearB
  <2>2. ~running'[0].begun
    BY <1>5 DEF CM!Rest
  <2>3. rest # <<>> => CM!First(0)' = q[2] /\ 2 \in 1..Len(q)
    BY <1>2, <1>3, <1>5 DEF CM!First
  <2>4. CASE k.kind = "A"
    <3> PICK one : one = 1
      OBVIOUS
    <3>1. one \in 1..Len(q) /\ q[one].kind \in {"rot", "A", "B"} /\ q[one + 1] = q[2]
      BY <1>2, <2>4
    <3>2. \/ 1 < Len(q) /\ q[2] = Follower(q[1])
          \/ 1 = Len(q) /\ raised
      BY <3>1 DEF Chained
    <3>3. CASE 1 = Len(q) /\ raised
      BY <1>1, <1>3, <1>5, <3>3
    <3>4. CASE 1 < Len(q) /\ q[2] = Follower(q[1])
      <4>1. q[2].kind = "B" /\ q[2].rows = k.rows
        <5>1. CM!Successor("A") = "B"
          BY DEF CM!Successor
        <5>2. Follower(k).kind = CM!Successor(k.kind) /\ Follower(k).rows = k.rows
          BY <1>2 DEF Follower, CoopKernels
        <5>3. q[2] = Follower(k)
          BY <1>2, <3>4
        <5>4. q[2].kind = "B"
          BY <2>4, <5>1, <5>2, <5>3, Zenon
        <5>5. q[2].rows = k.rows
          BY <5>2, <5>3, Zenon
        <5> QED
          BY <5>4, <5>5
      <4>2. rest # <<>>
        <5>1. Len(rest) # 0
          BY <1>2, <1>3, <3>4
        <5> QED
          BY <1>3, <5>1
      <4>3. HalfWay(rows)' <=> CM!Buffer(k.rows) = CM!Buffer(rows)
        BY <1>5, <2>2, <2>3, <4>1, <4>2 DEF HalfWay
      <4>4. HalfWay(rows) <=> CM!Buffer(k.rows) = CM!Buffer(rows)
        BY <1>1, <2>4 DEF HalfWay
      <4> QED
        BY <1>1, <2>1, <4>3, <4>4 DEF Cleared
    <3> QED
      BY <3>2, <3>3, <3>4
  <2>5. CASE k.kind # "A"
    <3>1. ~HalfWay(rows) /\ ClearA(rows)
      BY <1>1, <2>5 DEF Cleared, HalfWay
    <3>2. rest # <<>> => q[2].kind # "B"
      <4>1. SUFFICES ASSUME rest # <<>>, q[2].kind = "B" PROVE FALSE
        OBVIOUS
      <4>2. "act" \in CM!Reads(q[2])
        BY <4>1 DEF CM!Reads
      <4> PICK two : two = 2
        OBVIOUS
      <4>3. two \in 1..Len(q) /\ two # 1 /\ "act" \in CM!Reads(q[two]) /\ q[two - 1] = k
        BY <1>2, <2>3, <4>1, <4>2
      <4>4. "act" \in CM!Writes(k)
        BY <4>3 DEF Handed
      <4> QED
        BY <2>5, <4>4 DEF CM!Writes
    <3>3. ~HalfWay(rows)'
      BY <1>5, <2>2, <2>3, <3>2 DEF HalfWay
    <3> QED
      BY <2>1, <3>1, <3>3
  <2> QED
    BY <2>4, <2>5
<1> QED
  BY <1>6, <1>7, <1>8, <1>9, <1>10, <1>11

LEMMA CoopNextInv == CoopInv /\ [CM!CoopNext]_coopvars => CoopInv'
<1>1. CoopInv /\ UNCHANGED coopvars => CoopInv'
  BY DEF coopvars, CoopInv, CoopTypeOK, OneStream, CountsOwn, Cleared, HalfWay, ClearA,
         ClearB, Handed, Chained, CM!First, CM!Reads
<1> QED
  BY <1>1, CoopInstallInv, CoopCallInv, CoopBeginInv, CoopArriveInv, CoopFinishInv
  DEF CM!CoopNext

LEMMA CoopInvIsolated == CoopInv => CM!LaunchesIsolated
<1> SUFFICES ASSUME CoopInv PROVE CM!LaunchesIsolated
  OBVIOUS
<1> USE DEF CoopInv
<1>1. running[1] = CM!Rest /\ queue[1] = <<>>
  BY DEF OneStream, CM!Streams
<1>2. CM!FinishedOnce
  BY <1>1, NeedPositive DEF CM!FinishedOnce, CountsOwn, CM!Streams, CM!Rest
<1>3. CM!OwnWorkspace
  <2> SUFFICES ASSUME running[0].begun, NEW p \in CM!Reads(CM!First(0))
               PROVE  scratch[p] = CM!First(0).id
    BY <1>1 DEF CM!OwnWorkspace, CM!Streams, CM!Rest
  <2>1. queue[0] # <<>>
    BY DEF OneStream, CM!Streams, CM!Rest
  <2>2. 1 \in 1..Len(queue[0]) /\ CM!First(0) = queue[0][1]
    BY <2>1, FirstType DEF CoopTypeOK, CM!Streams
  <2> QED
    BY <2>2 DEF Handed
<1>4. CM!NoRetry
  <2> SUFFICES ASSUME NEW i \in 1..Len(queue[0]), queue[0][i].kind \in {"rot", "A", "B"}
               PROVE  IF i < Len(queue[0]) THEN queue[0][i + 1] = Follower(queue[0][i])
                      ELSE raised
    BY <1>1 DEF CM!NoRetry, CM!Streams, Follower
  <2>1. Len(queue[0]) \in Nat
    BY DEF CoopTypeOK, CM!Streams
  <2> QED
    BY <2>1 DEF Chained
<1> QED
  BY <1>2, <1>3, <1>4 DEF CM!LaunchesIsolated

(****************************************************************************)
(* The rings of the kpool tail                                              *)
(****************************************************************************)

(* Products grow by a whole factor.                                         *)
LEMMA Grows ==
  ASSUME NEW a \in Int, NEW b \in Int, NEW s \in Nat, a < b
  PROVE  a * s + s <= b * s
<1>1. (b - a - 1) * s \in Nat
  OBVIOUS
<1>2. (b - a - 1) * s = b * s - a * s - s
  OBVIOUS
<1>3. a * s \in Int /\ b * s \in Int
  OBVIOUS
<1> QED
  BY <1>1, <1>2, <1>3

(* A number has one quotient and one remainder.                             *)
LEMMA SplitOnce ==
  ASSUME NEW s \in Nat, NEW a \in Int, NEW b \in Int, NEW x \in 0..(s - 1), NEW y \in 0..(s - 1),
         a * s + x = b * s + y
  PROVE  a = b /\ x = y
<1>0. a * s \in Int /\ b * s \in Int
  OBVIOUS
<1>1. ~(a < b)
  <2> SUFFICES ASSUME a < b PROVE FALSE
    OBVIOUS
  <2>1. a * s + s <= b * s
    BY Grows
  <2> QED
    BY <1>0, <2>1
<1>2. ~(b < a)
  <2> SUFFICES ASSUME b < a PROVE FALSE
    OBVIOUS
  <2>1. b * s + s <= a * s
    BY Grows
  <2> QED
    BY <1>0, <2>1
<1> QED
  BY <1>0, <1>1, <1>2

(* Division and its remainder give the number back.                         *)
LEMMA Divided ==
  ASSUME NEW k \in Nat \ {0}, NEW t \in Int
  PROVE  /\ t \div k \in Int /\ t % k \in 0..(k - 1)
         /\ t = (t \div k) * k + (t % k)
  OBVIOUS

(* What a slot was put together from is found again by dividing it.         *)
LEMMA DivMod ==
  ASSUME NEW k \in Nat \ {0}, NEW b \in Int, NEW x \in 0..(k - 1)
  PROVE  (b * k + x) \div k = b /\ (b * k + x) % k = x
<1> PICK t : t = b * k + x
  OBVIOUS
<1>1. t \in Int
  OBVIOUS
<1>2. t \div k \in Int /\ t % k \in 0..(k - 1) /\ t = (t \div k) * k + (t % k)
  BY <1>1, Divided
<1> QED
  BY <1>2, SplitOnce

(* Every field is in its range.                                             *)
RingTypeOK ==
  /\ row \in [KP!Reqs -> RingBlocks \cup {KP!None}]
  /\ pos \in [KP!Reqs -> Nat]
  /\ memory = [e \in KP!Elements |-> memory[e]]

(* No two requests hold the same block.                                     *)
OwnBlock == \A r, s \in KP!Held : row[r] = row[s] => r = s

(* The element of the cache where a block keeps ring position x.            *)
Place(b, x, which) == b * RingStride + (which * RingKPool + x)

(* The ring of a request holds its last tokens.                             *)
TailKept ==
  \A r \in KP!Held : \A p \in 0..(pos[r] - 1) : \A which \in {0, 1} :
      p >= pos[r] - RingKPool =>
          memory[Place(row[r], p % RingKPool, which)] = KP!Datum(r, p, which)

(* The inductive invariant of KpoolRing: RingsPrivate follows from it.      *)
RingInv == RingTypeOK /\ OwnBlock /\ TailKept /\ KP!PaddingUntouched

(* Cardinality means the same inside the instance.                          *)
LEMMA SameCardinality == \A S : KP!Cardinality(S) = Cardinality(S)
  BY DEF KP!Cardinality, Cardinality

(* What the parameters satisfy.                                             *)
LEMMA RingConstants ==
  /\ RingRows \in Nat /\ RingKPool \in Nat \ {0} /\ RingStride \in Nat
  /\ RingStride >= 2 * RingKPool /\ RingStride # 0
  /\ IsFiniteSet(RingBlocks) /\ Cardinality(RingBlocks) \in Nat
  /\ RingBlocks = 0..(Cardinality(RingBlocks) - 1)
<1>1. /\ RingRows \in Nat /\ RingKPool \in Nat \ {0} /\ RingStride \in Nat
      /\ RingStride >= 2 * RingKPool
      /\ IsFiniteSet(RingBlocks)
      /\ RingBlocks = 0..(Cardinality(RingBlocks) - 1)
  <2>1. KP!KpoolAssumption
    BY ServingAssumption DEF ServingAssumption
  <2>2. KP!IsFiniteSet(RingBlocks) <=> IsFiniteSet(RingBlocks)
    BY DEF KP!IsFiniteSet, IsFiniteSet
  <2> QED
    BY <2>1, <2>2, SameCardinality, Zenon DEF KP!KpoolAssumption
<1>2. Cardinality(RingBlocks) \in Nat
  BY <1>1, FS_CardinalityType
<1>3. RingStride # 0
  BY <1>1
<1> QED
  BY <1>1, <1>2, <1>3

(* A key and a score lie in their block, in front of the padding.           *)
LEMMA Inside ==
  ASSUME NEW x \in 0..(RingKPool - 1), NEW which \in {0, 1}
  PROVE  which * RingKPool + x \in 0..(2 * RingKPool - 1)
                 /\ which * RingKPool + x \in 0..(RingStride - 1)
<1>1. CASE which = 0
  BY <1>1, RingConstants
<1>2. CASE which = 1
  BY <1>2, RingConstants
<1> QED
  BY <1>1, <1>2

(* Elements of a block lie in the cache and not in the padding.             *)
LEMMA PlaceInPage ==
  ASSUME NEW b \in RingBlocks, NEW x \in 0..(RingKPool - 1), NEW which \in {0, 1}
  PROVE  Place(b, x, which) \in KP!Elements /\ Place(b, x, which) % RingStride < 2 * RingKPool
<1> PICK n : n = Cardinality(RingBlocks)
  OBVIOUS
<1>1. n \in Nat /\ b \in Int /\ 0 <= b /\ b < n /\ RingStride \in Nat \ {0}
  BY RingConstants
<1> PICK o : o = which * RingKPool + x
  OBVIOUS
<1>2. o \in 0..(2 * RingKPool - 1) /\ o \in 0..(RingStride - 1)
  BY Inside
<1>3. Place(b, x, which) = b * RingStride + o
  BY DEF Place
<1>4. (b * RingStride + o) % RingStride = o
  BY <1>1, <1>2, DivMod
<1>5. b * RingStride + RingStride <= n * RingStride
  BY <1>1, Grows
<1>6. b * RingStride \in Nat /\ n * RingStride \in Nat /\ n * RingStride = RingStride * n
  BY <1>1
<1>7. b * RingStride + o \in 0..(RingStride * n - 1)
  BY <1>1, <1>2, <1>5, <1>6
<1>8. o < 2 * RingKPool
  BY <1>2, RingConstants
<1>9. Place(b, x, which) \in KP!Elements
  BY <1>3, <1>7, SameCardinality DEF KP!Elements
<1> QED
  BY <1>3, <1>4, <1>8, <1>9

(* Different blocks, ring positions and vectors have different elements.    *)
LEMMA PlaceOnce ==
  ASSUME NEW b \in RingBlocks, NEW x \in 0..(RingKPool - 1), NEW which \in {0, 1},
         NEW c \in RingBlocks, NEW y \in 0..(RingKPool - 1), NEW other \in {0, 1},
         Place(b, x, which) = Place(c, y, other)
  PROVE  b = c /\ x = y /\ which = other
<1> PICK o, u : o = which * RingKPool + x /\ u = other * RingKPool + y
  OBVIOUS
<1>1. b \in Int /\ c \in Int /\ RingStride \in Nat
  BY RingConstants
<1>2. o \in 0..(RingStride - 1) /\ u \in 0..(RingStride - 1)
  BY Inside
<1>3. b * RingStride + o = c * RingStride + u
  BY DEF Place
<1>4. b = c /\ o = u
  BY <1>1, <1>2, <1>3, SplitOnce
<1>5. which * RingKPool + x = other * RingKPool + y
  BY <1>4
<1>6. which = other /\ x = y
  BY <1>5, SplitOnce, RingConstants
<1> QED
  BY <1>4, <1>6

(* The slot of a token is in its request's block (the table's index is      *)
(* clamped to the one entry of the row), and its elements are the ring's.   *)
LEMMA SlotPlace ==
  ASSUME RingTypeOK, NEW r \in KP!Held, NEW p \in Nat
  PROVE  /\ row[r] \in RingBlocks /\ row[r] \in Nat /\ p % RingKPool \in 0..(RingKPool - 1)
         /\ KP!Slot(r, p) \in Nat /\ KP!Slot(r, p) \div RingKPool = row[r]
         /\ \A which \in {0, 1} :
              KP!Element(KP!Slot(r, p), which) = Place(row[r], p % RingKPool, which)
<1>1. row[r] \in RingBlocks /\ row[r] \in Nat /\ r \in Nat
  BY RingConstants DEF RingTypeOK, KP!Held, KP!Reqs
<1> PICK k : k = RingKPool
  OBVIOUS
<1> PICK q, x : q = p \div k /\ x = p % k
  OBVIOUS
<1>2. k \in Nat \ {0}
  BY RingConstants
<1>3. q \in Int /\ x \in 0..(k - 1) /\ p = q * k + x
  BY <1>2, Divided
<1>4. q >= 0
  <2> SUFFICES ASSUME q < 0 PROVE FALSE
    BY <1>3
  <2>1. q * k + k <= 0 * k
    BY <1>2, <1>3, Grows
  <2>2. q * k \in Int
    BY <1>2, <1>3
  <2> QED
    BY <1>2, <1>3, <2>1, <2>2
<1>5. KP!Index(p) = 0
  BY <1>3, <1>4 DEF KP!Index, KP!TableStride
<1>6. KP!Entry(r, 0) = row[r]
  BY <1>1 DEF KP!Entry
<1>7. KP!Slot(r, p) = row[r] * k + x
  BY <1>5, <1>6 DEF KP!Slot
<1>8. row[r] * k \in Nat
  BY <1>1, <1>2
<1>9. (row[r] * k + x) \div k = row[r] /\ (row[r] * k + x) % k = x
  <2> PICK b : b = row[r]
    OBVIOUS
  <2>1. b \in Int
    BY <1>1
  <2>2. (b * k + x) \div k = b /\ (b * k + x) % k = x
    BY <1>2, <1>3, <2>1, DivMod
  <2> QED
    BY <2>2
<1>10. KP!Slot(r, p) \in Nat
  BY <1>3, <1>7, <1>8
<1>11. ASSUME NEW which \in {0, 1}
       PROVE  KP!Element(KP!Slot(r, p), which) = Place(row[r], x, which)
  <2>1. KP!KElement(KP!Slot(r, p)) = row[r] * RingStride + x
    BY <1>7, <1>9 DEF KP!KElement
  <2>2. row[r] * RingStride \in Int /\ which * RingKPool \in Int
    BY <1>1, RingConstants
  <2> QED
    BY <1>3, <2>1, <2>2 DEF KP!Element, KP!KPoolHead, Place
<1> QED
  BY <1>1, <1>3, <1>7, <1>9, <1>10, <1>11

(* Numbers less than k apart with the same remainder are the same.          *)
LEMMA SameResidue ==
  ASSUME NEW k \in Nat \ {0}, NEW p \in Int, NEW q \in Int, p % k = q % k, p - q < k, q - p < k
  PROVE  p = q
<1> PICK a, b, x : a = p \div k /\ b = q \div k /\ x = p % k
  OBVIOUS
<1>1. a \in Int /\ x \in 0..(k - 1) /\ p = a * k + x
  BY Divided
<1>2. b \in Int /\ q = b * k + x
  BY Divided
<1>3. a * k \in Int /\ b * k \in Int
  BY <1>1, <1>2
<1>4. ~(a < b)
  <2> SUFFICES ASSUME a < b PROVE FALSE
    OBVIOUS
  <2>1. a * k + k <= b * k
    BY <1>1, <1>2, Grows
  <2> QED
    BY <1>1, <1>2, <1>3, <2>1
<1>5. ~(b < a)
  <2> SUFFICES ASSUME b < a PROVE FALSE
    OBVIOUS
  <2>1. b * k + k <= a * k
    BY <1>1, <1>2, Grows
  <2> QED
    BY <1>1, <1>2, <1>3, <2>1
<1>6. a = b
  BY <1>1, <1>2, <1>4, <1>5
<1> QED
  BY <1>1, <1>2, <1>6

(* The tokens of each request of a batch stand in a row behind off.         *)
Batched(tokens, n, off) ==
  /\ Len(tokens) \in Nat
  /\ \A r \in DOMAIN n : off[r] \in Nat
  /\ \A r \in DOMAIN n : \A j \in 1..n[r] :
        /\ off[r] + j \in 1..Len(tokens)
        /\ tokens[off[r] + j] = [req |-> r, pos |-> pos[r] + j - 1]
  /\ \A i \in 1..Len(tokens) :
        tokens[i] = KP!Padding \/ \E r \in DOMAIN n : i - off[r] \in 1..n[r]

(* A token seeds the ring iff it is among its request's last KPool ones of  *)
(* the batch: the token KPool ahead is of another block, padding or         *)
(* nothing.                                                                 *)
LEMMA SeedsLast ==
  ASSUME RingTypeOK, OwnBlock, NEW tokens, NEW n, NEW off, Batched(tokens, n, off),
         DOMAIN n \subseteq KP!Held, NEW r \in DOMAIN n, NEW j \in 1..n[r],
         \A s \in DOMAIN n : n[s] \in Nat
  PROVE  KP!Seeds(tokens, off[r] + j) <=> j + RingKPool > n[r]
<1> PICK i, p, k : i = off[r] + j /\ p = pos[r] + j - 1 /\ k = RingKPool
  OBVIOUS
<1>1. n[r] \in Nat /\ off[r] \in Nat /\ pos[r] \in Nat /\ k \in Nat \ {0} /\ r \in Nat
  BY RingConstants DEF Batched, RingTypeOK, KP!Held, KP!Reqs
<1>2. i \in 1..Len(tokens) /\ tokens[i] = [req |-> r, pos |-> p] /\ Len(tokens) \in Nat
  BY DEF Batched
<1>3. p \in Nat /\ i \in Nat
  BY <1>1
<1>4. ASSUME NEW s \in DOMAIN n, NEW q \in Nat
      PROVE  /\ KP!TSlot([req |-> s, pos |-> q]) = KP!Slot(s, q)
             /\ KP!Slot(s, q) \in Nat /\ KP!Slot(s, q) \div k = row[s]
  <2>1. s \in Nat /\ s \in KP!Held
    BY RingConstants DEF KP!Held, KP!Reqs
  <2>2. [req |-> s, pos |-> q] # KP!Padding
    <3>1. [req |-> s, pos |-> q].req # KP!Padding.req
      BY <2>1 DEF KP!Padding, KP!None
    <3> QED
      BY <3>1
  <2>3. KP!Slot(s, q) \in Nat /\ KP!Slot(s, q) \div k = row[s]
    BY <2>1, SlotPlace
  <2> QED
    BY <2>2, <2>3 DEF KP!TSlot
<1> PICK t, ahead : t = KP!TSlot(tokens[i]) /\ ahead = KP!Ahead(tokens, i)
  OBVIOUS
<1>5. t \in Nat /\ t \div k = row[r]
  BY <1>2, <1>3, <1>4
<1>6. KP!Seeds(tokens, i) <=> ~(ahead >= 0 /\ ahead \div k = row[r])
  BY <1>5 DEF KP!Seeds
<1>7. CASE j + k <= n[r]
  <2>1. j + k \in 1..n[r]
    BY <1>1, <1>7
  <2>2. off[r] + (j + k) \in 1..Len(tokens)
        /\ tokens[off[r] + (j + k)] = [req |-> r, pos |-> pos[r] + (j + k) - 1]
    BY <2>1 DEF Batched
  <2>3. off[r] + (j + k) = i + k /\ pos[r] + (j + k) - 1 \in Nat
    BY <1>1
  <2>4. ahead = KP!TSlot(tokens[i + k])
    BY <1>2, <2>2, <2>3 DEF KP!Ahead
  <2>5. ahead \in Nat /\ ahead \div k = row[r]
    BY <1>4, <2>2, <2>3, <2>4
  <2> QED
    BY <1>1, <1>6, <1>7, <2>5
<1>8. CASE j + k > n[r]
  <2>1. CASE i + k > Len(tokens)
    <3>1. ahead = -1
      BY <1>1, <1>2, <1>3, <2>1 DEF KP!Ahead, KP!None
    <3> QED
      BY <1>6, <1>8, <3>1
  <2>2. CASE i + k <= Len(tokens)
    <3> PICK m : m = i + k
      OBVIOUS
    <3>0. ahead = KP!TSlot(tokens[m])
      BY <2>2 DEF KP!Ahead
    <3> PICK length : length = Len(tokens)
      OBVIOUS
    <3>a. i \in Nat /\ k \in Nat /\ length \in Nat /\ i >= 1 /\ i + k <= length
      BY <1>1, <1>2, <1>3, <2>2
    <3>b. m \in 1..length
      BY <3>a
    <3>1. m \in 1..Len(tokens) /\ ahead = KP!TSlot(tokens[m])
      BY <3>0, <3>b
    <3>2. CASE tokens[m] = KP!Padding
      <4>1. ahead = -1
        BY <3>1, <3>2 DEF KP!TSlot, KP!None
      <4> QED
        BY <1>6, <1>8, <4>1
    <3>3. ASSUME NEW s \in DOMAIN n, m - off[s] \in 1..n[s]
          PROVE  ~(ahead >= 0 /\ ahead \div k = row[r])
      <4> PICK l : l = m - off[s]
        OBVIOUS
      <4>1. l \in 1..n[s] /\ n[s] \in Nat /\ off[s] \in Nat /\ pos[s] \in Nat /\ s \in KP!Held
        BY <3>3 DEF Batched, RingTypeOK, KP!Held
      <4> PICK o : o = off[s]
        OBVIOUS
      <4>2. off[s] + l = m
        <5>1. m \in Int
          BY <3>a
        <5>2. o \in Int
          BY <4>1
        <5>3. l = m - o
          BY Zenon
        <5>4. o + l = m
          BY <5>1, <5>2, <5>3
        <5> QED
          BY <5>4
      <4>3. tokens[m] = [req |-> s, pos |-> pos[s] + l - 1]
        BY <4>1, <4>2 DEF Batched
      <4>4. pos[s] + l - 1 \in Nat
        BY <4>1
      <4>5. ahead \div k = row[s]
        BY <1>4, <3>1, <4>3, <4>4
      <4>6. s # r
        <5> SUFFICES ASSUME s = r PROVE FALSE
          OBVIOUS
        <5> PICK x, y : x = off[r] /\ y = n[r]
          OBVIOUS
        <5>1. x \in Nat /\ y \in Nat /\ j \in 1..y /\ k \in Nat /\ j + k > y
          BY <1>1, <1>8
        <5>2. i = x + j /\ m = i + k /\ l = m - x /\ l \in 1..y
          BY <4>1
        <5>3. \A u, v, w \in Int : ((u + v) + w) - u = v + w
          OBVIOUS
        <5>4. l = ((x + j) + k) - x /\ x \in Int /\ j \in Int /\ k \in Int
          BY <5>1, <5>2
        <5>5. l = j + k
          BY <5>3, <5>4, Zenon
        <5> QED
          BY <5>1, <5>2, <5>5
      <4> QED
        BY <4>1, <4>5, <4>6 DEF OwnBlock
    <3> QED
      BY <1>6, <1>8, <3>1, <3>2, <3>3 DEF Batched
  <2> QED
    BY <1>1, <1>2, <1>3, <2>1, <2>2
<1> QED
  BY <1>1, <1>7, <1>8

(* What a batch stores: the last tokens of each of its requests.            *)
RingStores(tokens) ==
  {<<KP!Element(KP!TSlot(tokens[i]), which), KP!Datum(tokens[i].req, tokens[i].pos, which)>> :
      i \in KP!Seeding(tokens), which \in {0, 1}}

(* The tokens of a batch that seed.                                         *)
Recent(r, n, p) == p \in pos[r]..(pos[r] + n[r] - 1) /\ p >= pos[r] + n[r] - RingKPool

(* The last k of m tokens, by index and by position.                        *)
LEMMA AmongLast ==
  ASSUME NEW a \in Nat, NEW m \in Nat, NEW k \in Nat, NEW j \in 1..m, j + k > m
  PROVE  a + j - 1 \in a..(a + m - 1) /\ a + j - 1 >= a + m - k
  OBVIOUS

(* The stores of a batch are those of its requests' last tokens.            *)
LEMMA StoresAre ==
  ASSUME RingTypeOK, OwnBlock, NEW tokens, NEW n, NEW off, Batched(tokens, n, off),
         DOMAIN n \subseteq KP!Held, \A r \in DOMAIN n : n[r] \in Nat,
         NEW s
  PROVE  s \in RingStores(tokens) <=>
            \E r \in DOMAIN n, which \in {0, 1} : \E p \in Nat :
                /\ Recent(r, n, p)
                /\ s = <<Place(row[r], p % RingKPool, which), KP!Datum(r, p, which)>>
<1>1. ASSUME NEW r \in DOMAIN n, NEW j \in 1..n[r]
      PROVE  /\ pos[r] \in Nat /\ n[r] \in Nat /\ off[r] \in Nat
             /\ pos[r] + j - 1 \in Nat
             /\ off[r] + j \in 1..Len(tokens)
             /\ tokens[off[r] + j].req = r /\ tokens[off[r] + j].pos = pos[r] + j - 1
             /\ \A which \in {0, 1} :
                  KP!Element(KP!TSlot(tokens[off[r] + j]), which) =
                      Place(row[r], (pos[r] + j - 1) % RingKPool, which)
  <2>1. /\ pos[r] \in Nat /\ n[r] \in Nat /\ off[r] \in Nat /\ r \in Nat /\ r \in KP!Held
    BY RingConstants DEF Batched, RingTypeOK, KP!Held, KP!Reqs
  <2>2. pos[r] + j - 1 \in Nat
    BY <2>1
  <2> PICK i, p : i = off[r] + j /\ p = pos[r] + j - 1
    OBVIOUS
  <2>3. i \in 1..Len(tokens) /\ tokens[i] = [req |-> r, pos |-> p]
    BY DEF Batched
  <2>4. tokens[i].req = r /\ tokens[i].pos = p
    BY <2>3
  <2>5. tokens[i] # KP!Padding
    BY <2>1, <2>4 DEF KP!Padding, KP!None
  <2>6. KP!TSlot(tokens[i]) = KP!Slot(r, p)
    BY <2>4, <2>5 DEF KP!TSlot
  <2>7. \A which \in {0, 1} :
            KP!Element(KP!Slot(r, p), which) = Place(row[r], p % RingKPool, which)
    BY <2>1, <2>2, SlotPlace
  <2> QED
    BY <2>1, <2>2, <2>3, <2>4, <2>6, <2>7
<1>2. ASSUME s \in RingStores(tokens)
      PROVE  \E r \in DOMAIN n, which \in {0, 1} : \E p \in Nat :
                /\ Recent(r, n, p)
                /\ s = <<Place(row[r], p % RingKPool, which), KP!Datum(r, p, which)>>
  <2>1. PICK i \in KP!Seeding(tokens), which \in {0, 1} :
            s = <<KP!Element(KP!TSlot(tokens[i]), which),
                  KP!Datum(tokens[i].req, tokens[i].pos, which)>>
    BY <1>2 DEF RingStores
  <2>2. i \in 1..Len(tokens) /\ KP!Seeds(tokens, i)
    BY DEF KP!Seeding
  <2>3. tokens[i] # KP!Padding
    BY <2>2 DEF KP!Seeds, KP!TSlot, KP!None
  <2>4. PICK r \in DOMAIN n : i - off[r] \in 1..n[r]
    BY <2>2, <2>3 DEF Batched
  <2> PICK j : j = i - off[r]
    OBVIOUS
  <2>5. j \in 1..n[r] /\ off[r] + j = i
    BY <2>2, <2>4 DEF Batched
  <2>6. j + RingKPool > n[r]
    BY <2>2, <2>5, SeedsLast
  <2> PICK p : p = pos[r] + j - 1
    OBVIOUS
  <2>7. /\ pos[r] \in Nat /\ n[r] \in Nat /\ p \in Nat
        /\ tokens[i].req = r /\ tokens[i].pos = p
        /\ KP!Element(KP!TSlot(tokens[i]), which) = Place(row[r], p % RingKPool, which)
    BY <1>1, <2>5
  <2>8. Recent(r, n, p)
    <3>1. /\ pos[r] + j - 1 \in pos[r]..(pos[r] + n[r] - 1)
          /\ pos[r] + j - 1 >= pos[r] + n[r] - RingKPool
      BY <2>5, <2>6, <2>7, RingConstants, AmongLast
    <3> QED
      BY <3>1 DEF Recent
  <2>9. s = <<Place(row[r], p % RingKPool, which), KP!Datum(r, p, which)>>
    BY <2>1, <2>7
  <2> QED
    BY <2>7, <2>8, <2>9
<1>3. ASSUME NEW r \in DOMAIN n, NEW which \in {0, 1}, NEW p \in Nat, Recent(r, n, p),
             s = <<Place(row[r], p % RingKPool, which), KP!Datum(r, p, which)>>
      PROVE  s \in RingStores(tokens)
  <2> PICK j, i : j = p - pos[r] + 1 /\ i = off[r] + j
    OBVIOUS
  <2>1. pos[r] \in Nat /\ n[r] \in Nat /\ off[r] \in Nat
    BY DEF Batched, RingTypeOK, KP!Held
  <2> PICK a, b, k : a = pos[r] /\ b = n[r] /\ k = RingKPool
    OBVIOUS
  <2>a. a \in Nat /\ b \in Nat /\ k \in Nat /\ p \in a..(a + b - 1) /\ p >= a + b - k
    BY <1>3, <2>1, RingConstants DEF Recent
  <2>b. j = p - a + 1
    OBVIOUS
  <2>c. j \in 1..b /\ a + j - 1 = p /\ j + k > b
    BY <2>a, <2>b
  <2>2. j \in 1..n[r] /\ pos[r] + j - 1 = p /\ j + RingKPool > n[r]
    BY <2>c
  <2>3. /\ i \in 1..Len(tokens) /\ tokens[i].req = r /\ tokens[i].pos = p
        /\ KP!Element(KP!TSlot(tokens[i]), which) = Place(row[r], p % RingKPool, which)
    <3>1. /\ off[r] + j \in 1..Len(tokens)
          /\ tokens[off[r] + j].req = r /\ tokens[off[r] + j].pos = pos[r] + j - 1
          /\ KP!Element(KP!TSlot(tokens[off[r] + j]), which) =
                 Place(row[r], (pos[r] + j - 1) % RingKPool, which)
      BY <1>1, <2>2
    <3> QED
      BY <2>2, <3>1
  <2>4. KP!Seeds(tokens, i)
    BY <2>2, SeedsLast
  <2>5. i \in KP!Seeding(tokens)
    BY <2>3, <2>4 DEF KP!Seeding
  <2>6. s = <<KP!Element(KP!TSlot(tokens[i]), which),
              KP!Datum(tokens[i].req, tokens[i].pos, which)>>
    BY <1>3, <2>3
  <2>7. \E m \in KP!Seeding(tokens), w \in {0, 1} :
            s = <<KP!Element(KP!TSlot(tokens[m]), w), KP!Datum(tokens[m].req, tokens[m].pos, w)>>
    BY <2>5, <2>6, Zenon
  <2> QED
    BY <2>7 DEF RingStores
<1> QED
  BY <1>2, <1>3

(* Two of the last k tokens are less than k apart.                          *)
LEMMA Near ==
  ASSUME NEW k \in Nat, NEW a \in Nat, NEW b \in Nat,
         NEW p \in a..(a + b - 1), NEW q \in a..(a + b - 1), p >= a + b - k, q >= a + b - k
  PROVE  p - q < k /\ q - p < k
  OBVIOUS

(* No two of them go to one element, so none of them is torn.               *)
LEMMA RecentOnce ==
  ASSUME RingTypeOK, OwnBlock, NEW n, DOMAIN n \subseteq KP!Held,
         \A r \in DOMAIN n : n[r] \in Nat,
         NEW r \in DOMAIN n, NEW which \in {0, 1}, NEW p \in Nat, Recent(r, n, p),
         NEW s \in DOMAIN n, NEW other \in {0, 1}, NEW q \in Nat, Recent(s, n, q),
         Place(row[r], p % RingKPool, which) = Place(row[s], q % RingKPool, other)
  PROVE  r = s /\ p = q /\ which = other
<1>1. /\ row[r] \in RingBlocks /\ row[s] \in RingBlocks
      /\ p % RingKPool \in 0..(RingKPool - 1) /\ q % RingKPool \in 0..(RingKPool - 1)
  BY SlotPlace
<1>2. row[r] = row[s] /\ p % RingKPool = q % RingKPool /\ which = other
  BY <1>1, PlaceOnce
<1>3. r = s
  BY <1>2 DEF OwnBlock
<1>4. pos[r] \in Nat /\ n[r] \in Nat
  BY DEF RingTypeOK, KP!Held
<1>5. p - q < RingKPool /\ q - p < RingKPool
  <2>1. /\ p \in pos[r]..(pos[r] + n[r] - 1) /\ p >= pos[r] + n[r] - RingKPool
        /\ q \in pos[r]..(pos[r] + n[r] - 1) /\ q >= pos[r] + n[r] - RingKPool
    BY <1>3 DEF Recent
  <2> QED
    BY <1>4, <2>1, RingConstants, Near
<1>6. p = q
  <2>1. p \in Int /\ q \in Int /\ RingKPool \in Nat \ {0} /\ p % RingKPool = q % RingKPool
    BY <1>2, RingConstants
  <2> QED
    BY <1>5, <2>1, SameResidue
<1> QED
  BY <1>2, <1>3, <1>6

(* What a batch leaves in an element.                                       *)
LEMMA StoredAt ==
  ASSUME NEW tokens, NEW e \in KP!Elements
  PROVE  KP!Stored(tokens)[e] =
           IF e \notin {s[1] : s \in RingStores(tokens)} THEN memory[e]
           ELSE IF KP!Cardinality({s \in RingStores(tokens) : s[1] = e}) > 1 THEN KP!Torn
           ELSE (CHOOSE s \in RingStores(tokens) : s[1] = e)[2]
  BY DEF KP!Stored, RingStores

(* After a batch the recent tokens are in their places, and nothing else    *)
(* has changed.                                                             *)
LEMMA StoredIs ==
  ASSUME RingTypeOK, OwnBlock, NEW tokens, NEW n, NEW off, Batched(tokens, n, off),
         DOMAIN n \subseteq KP!Held, \A r \in DOMAIN n : n[r] \in Nat
  PROVE  /\ \A r \in DOMAIN n, which \in {0, 1} : \A p \in Nat :
              Recent(r, n, p) =>
                KP!Stored(tokens)[Place(row[r], p % RingKPool, which)] = KP!Datum(r, p, which)
         /\ \A e \in KP!Elements :
              \/ KP!Stored(tokens)[e] = memory[e]
              \/ \E r \in DOMAIN n, which \in {0, 1} : \E p \in Nat :
                    Recent(r, n, p) /\ e = Place(row[r], p % RingKPool, which)
<1>1. ASSUME NEW r \in DOMAIN n, NEW which \in {0, 1}, NEW p \in Nat, Recent(r, n, p)
      PROVE  KP!Stored(tokens)[Place(row[r], p % RingKPool, which)] = KP!Datum(r, p, which)
  <2> PICK e, d : e = Place(row[r], p % RingKPool, which) /\ d = <<e, KP!Datum(r, p, which)>>
    OBVIOUS
  <2>1. e \in KP!Elements
    <3>1. row[r] \in RingBlocks /\ p % RingKPool \in 0..(RingKPool - 1)
      BY SlotPlace
    <3> QED
      BY <3>1, PlaceInPage
  <2>2. d \in RingStores(tokens) /\ d[1] = e
    BY <1>1, StoresAre
  <2>3. ASSUME NEW s \in RingStores(tokens), s[1] = e PROVE s = d
    <3>1. PICK t \in DOMAIN n, other \in {0, 1} : \E q \in Nat :
              Recent(t, n, q)
              /\ s = <<Place(row[t], q % RingKPool, other), KP!Datum(t, q, other)>>
      BY StoresAre
    <3>2. PICK q \in Nat :
              Recent(t, n, q)
              /\ s = <<Place(row[t], q % RingKPool, other), KP!Datum(t, q, other)>>
      BY <3>1
    <3>3. e = Place(row[t], q % RingKPool, other)
      BY <2>3, <3>2
    <3>4. r = t /\ p = q /\ which = other
      BY <1>1, <3>2, <3>3, RecentOnce
    <3> QED
      BY <3>2, <3>4
  <2>4. {s \in RingStores(tokens) : s[1] = e} = {d}
    BY <2>2, <2>3
  <2>5. ~(KP!Cardinality({s \in RingStores(tokens) : s[1] = e}) > 1)
    <3>1. Cardinality({d}) = 1
      BY FS_Singleton
    <3>2. KP!Cardinality({d}) = 1
      BY <3>1, SameCardinality, Zenon
    <3>3. KP!Cardinality({s \in RingStores(tokens) : s[1] = e}) = 1
      BY <2>4, <3>2, Zenon
    <3>4. ASSUME NEW c, c = 1 PROVE ~(c > 1)
      BY <3>4, SMT
    <3> QED
      BY <3>3, <3>4, Zenon
  <2>6. (CHOOSE s \in RingStores(tokens) : s[1] = e) = d
    BY <2>2, <2>3
  <2>7. e \in {s[1] : s \in RingStores(tokens)}
    BY <2>2
  <2>8. KP!Stored(tokens)[e] = d[2]
    <3>1. KP!Stored(tokens)[e] =
             IF e \notin {s[1] : s \in RingStores(tokens)} THEN memory[e]
             ELSE IF KP!Cardinality({s \in RingStores(tokens) : s[1] = e}) > 1 THEN KP!Torn
             ELSE (CHOOSE s \in RingStores(tokens) : s[1] = e)[2]
      BY <2>1, StoredAt
    <3> QED
      BY <2>5, <2>6, <2>7, <3>1, Zenon
  <2> QED
    BY <2>8
<1>2. ASSUME NEW e \in KP!Elements, KP!Stored(tokens)[e] # memory[e]
      PROVE  \E r \in DOMAIN n, which \in {0, 1} : \E p \in Nat :
                 Recent(r, n, p) /\ e = Place(row[r], p % RingKPool, which)
  <2>1. PICK s \in RingStores(tokens) : s[1] = e
    BY <1>2, StoredAt
  <2>2. PICK t \in DOMAIN n, other \in {0, 1} : \E q \in Nat :
            Recent(t, n, q)
            /\ s = <<Place(row[t], q % RingKPool, other), KP!Datum(t, q, other)>>
    BY StoresAre
  <2> QED
    BY <2>1, <2>2
<1> QED
  BY <1>1, <1>2

(* What a batch is a sequence of.                                           *)
BatchTokens == [req : Int, pos : Int]

(* The tokens of one request of a batch.                                    *)
LEMMA TokensAre ==
  ASSUME NEW r \in KP!Reqs, NEW n \in Nat, pos[r] \in Nat
  PROVE  /\ KP!Tokens(r, n) \in Seq(BatchTokens)
         /\ Len(KP!Tokens(r, n)) = n
         /\ \A j \in 1..n : KP!Tokens(r, n)[j] = [req |-> r, pos |-> pos[r] + j - 1]
<1>1. r \in Int
  BY RingConstants DEF KP!Reqs
<1>2. \A j \in 1..n : pos[r] + j - 1 \in Int
  OBVIOUS
<1>3. KP!Tokens(r, n) = [j \in 1..n |-> [req |-> r, pos |-> pos[r] + j - 1]]
  BY DEF KP!Tokens
<1> QED
  BY <1>1, <1>2, <1>3 DEF BatchTokens

(* The padding behind a batch.                                              *)
LEMMA PaddingIs ==
  ASSUME NEW pad \in Nat
  PROVE  /\ [i \in 1..pad |-> KP!Padding] \in Seq(BatchTokens)
         /\ Len([i \in 1..pad |-> KP!Padding]) = pad
         /\ \A i \in 1..pad : [j \in 1..pad |-> KP!Padding][i] = KP!Padding
<1>1. KP!Padding \in BatchTokens
  BY DEF KP!Padding, KP!None, BatchTokens
<1> QED
  BY <1>1

(* Three sequences one after another.                                       *)
LEMMA ThreeParts ==
  ASSUME NEW a \in Seq(BatchTokens), NEW b \in Seq(BatchTokens), NEW c \in Seq(BatchTokens)
  PROVE  /\ Len((a \o b) \o c) = (Len(a) + Len(b)) + Len(c)
         /\ \A i \in 1..Len(a) : ((a \o b) \o c)[i] = a[i]
         /\ \A i \in 1..Len(b) : ((a \o b) \o c)[Len(a) + i] = b[i]
         /\ \A i \in 1..Len(c) : ((a \o b) \o c)[(Len(a) + Len(b)) + i] = c[i]
<1> PICK d : d = a \o b
  OBVIOUS
<1>1. d \in Seq(BatchTokens) /\ Len(d) = Len(a) + Len(b)
  OBVIOUS
<1>2. \A i \in 1..Len(a) : d[i] = a[i]
  OBVIOUS
<1>3. \A i \in 1..Len(b) : d[Len(a) + i] = b[i]
  OBVIOUS
<1>4. Len(d \o c) = Len(d) + Len(c)
  BY <1>1
<1>5. \A i \in 1..Len(d) : (d \o c)[i] = d[i]
  BY <1>1
<1>6. \A i \in 1..Len(c) : (d \o c)[Len(d) + i] = c[i]
  BY <1>1
<1>7. \A i \in 1..Len(a) : i \in 1..Len(d)
  BY <1>1
<1>8. \A i \in 1..Len(b) : Len(a) + i \in 1..Len(d)
  BY <1>1
<1> QED
  BY <1>1, <1>2, <1>3, <1>4, <1>5, <1>6, <1>7, <1>8

(* An index into three parts is an index into one of them.                  *)
LEMMA InThreeParts ==
  ASSUME NEW x \in Nat, NEW y \in Nat, NEW z \in Nat, NEW i \in 1..((x + y) + z)
  PROVE  \/ i \in 1..x
         \/ i - x \in 1..y
         \/ \E j \in 1..z : (x + y) + j = i
<1>1. CASE i > x + y
  <2>1. i - (x + y) \in 1..z /\ (x + y) + (i - (x + y)) = i
    BY <1>1
  <2> QED
    BY <2>1
<1>2. CASE i <= x + y
  BY <1>2
<1> QED
  BY <1>1, <1>2

(* At most one other request is in a batch.                                 *)
LEMMA OnlyOne ==
  ASSUME NEW S \in SUBSET KP!Held, S # {}, KP!Cardinality(S) <= 1
  PROVE  S = {CHOOSE x \in S : TRUE}
<1>1. IsFiniteSet(KP!Reqs)
  BY FS_Interval, RingConstants DEF KP!Reqs
<1>2. S \in SUBSET KP!Reqs
  BY DEF KP!Held
<1>3. IsFiniteSet(S)
  BY <1>1, <1>2, FS_Subset
<1>4. Cardinality(S) \in Nat /\ Cardinality(S) <= 1
  BY <1>3, FS_CardinalityType, SameCardinality
<1>5. Cardinality(S) # 0
  BY <1>3, FS_EmptySet
<1>6. Cardinality(S) = 1
  BY <1>4, <1>5
<1>7. \E x : S = {x}
  BY <1>3, <1>6, FS_Singleton
<1> QED
  BY <1>7

(* The whole of a batch: x tokens of one request, y of a second one if      *)
(* there is one, and z of padding.                                          *)
Parts(whole, x, y, z, first, others, second, n) ==
  /\ x \in Nat /\ y \in Nat /\ z \in Nat
  /\ Len(whole) = (x + y) + z
  /\ DOMAIN n = others \cup {first} /\ first \notin others /\ n[first] = x
  /\ \A r \in others : r = second /\ n[r] = y
  /\ y # 0 => second \in others
  /\ \A j \in 1..x : whole[j] = [req |-> first, pos |-> pos[first] + j - 1]
  /\ \A j \in 1..y : whole[x + j] = [req |-> second, pos |-> pos[second] + j - 1]
  /\ \A j \in 1..z : whole[(x + y) + j] = KP!Padding

(* Such a batch has the tokens of each request in a row.                    *)
LEMMA PartsBatched ==
  ASSUME NEW x, NEW y, NEW z, NEW whole, NEW first, NEW others, NEW second, NEW n,
         Parts(whole, x, y, z, first, others, second, n)
  PROVE  \E off : Batched(whole, n, off)
<1> USE DEF Parts
<1> PICK off : off = [r \in others \cup {first} |-> IF r = first THEN 0 ELSE x]
  OBVIOUS
<1>1. off[first] = 0 /\ \A r \in others : off[r] = x /\ n[r] = y /\ r = second
  OBVIOUS
<1>2. Len(whole) \in Nat /\ \A r \in DOMAIN n : off[r] \in Nat
  BY <1>1
<1>3. ASSUME NEW r \in DOMAIN n, NEW j \in 1..n[r]
      PROVE  /\ off[r] + j \in 1..Len(whole)
             /\ whole[off[r] + j] = [req |-> r, pos |-> pos[r] + j - 1]
  <2>1. CASE r = first
    <3>1. j \in 1..x /\ off[r] + j = j
      BY <1>1, <2>1
    <3>2. j \in 1..((x + y) + z)
      BY <3>1
    <3> QED
      BY <2>1, <3>1, <3>2
  <2>2. CASE r \in others
    <3>1. j \in 1..y /\ off[r] + j = x + j /\ r = second
      BY <1>1, <2>2
    <3>2. x + j \in 1..((x + y) + z)
      BY <3>1
    <3> QED
      BY <3>1, <3>2
  <2> QED
    BY <2>1, <2>2
<1>4. ASSUME NEW i \in 1..Len(whole)
      PROVE  whole[i] = KP!Padding \/ \E r \in DOMAIN n : i - off[r] \in 1..n[r]
  <2>1. \/ i \in 1..x
        \/ i - x \in 1..y
        \/ \E j \in 1..z : (x + y) + j = i
    BY InThreeParts
  <2>2. CASE i \in 1..x
    <3>1. i - off[first] = i
      BY <1>1, <2>2
    <3> QED
      BY <2>2, <3>1
  <2>3. CASE i - x \in 1..y
    <3>1. second \in others
      BY <2>3
    <3> QED
      BY <1>1, <2>3, <3>1
  <2>4. CASE \E j \in 1..z : (x + y) + j = i
    BY <2>4
  <2> QED
    BY <2>1, <2>2, <2>3, <2>4
<1> QED
  BY <1>2, <1>3, <1>4 DEF Batched

(* What stands behind the first request of a batch: nothing, or another.    *)
Behind(b, y, second, others, n) ==
  /\ b \in Seq(BatchTokens) /\ Len(b) = y /\ y \in Nat
  /\ \A j \in 1..y : b[j] = [req |-> second, pos |-> pos[second] + j - 1]
  /\ \A r \in others : r = second /\ n[r] = y
  /\ y # 0 => second \in others

(* So has a batch put together from its parts.                              *)
LEMMA JoinedBatched ==
  ASSUME RingTypeOK, NEW first \in KP!Reqs, NEW others, NEW second, NEW n, NEW z \in Nat,
         NEW y, NEW b, Behind(b, y, second, others, n),
         DOMAIN n = others \cup {first}, first \notin others, n[first] \in Nat
  PROVE  \E off : Batched((KP!Tokens(first, n[first]) \o b) \o [i \in 1..z |-> KP!Padding],
                          n, off)
<1>x. PICK x : x = n[first]
  OBVIOUS
<1>a. PICK a : a = KP!Tokens(first, x)
  OBVIOUS
<1>c. PICK c : c = [i \in 1..z |-> KP!Padding]
  OBVIOUS
<1>0. pos[first] \in Nat /\ x \in Nat
  BY <1>x DEF RingTypeOK
<1>1. /\ a \in Seq(BatchTokens) /\ Len(a) = x
      /\ \A j \in 1..x : a[j] = [req |-> first, pos |-> pos[first] + j - 1]
  BY <1>0, <1>a, TokensAre
<1>2. /\ c \in Seq(BatchTokens) /\ Len(c) = z
      /\ \A j \in 1..z : c[j] = KP!Padding
  BY <1>c, PaddingIs
<1>w. PICK whole : whole = (a \o b) \o c
  OBVIOUS
<1>3. /\ Len(whole) = (Len(a) + Len(b)) + Len(c)
      /\ \A i \in 1..Len(a) : whole[i] = a[i]
      /\ \A i \in 1..Len(b) : whole[Len(a) + i] = b[i]
      /\ \A i \in 1..Len(c) : whole[(Len(a) + Len(b)) + i] = c[i]
  <2>1. /\ Len((a \o b) \o c) = (Len(a) + Len(b)) + Len(c)
        /\ \A i \in 1..Len(a) : ((a \o b) \o c)[i] = a[i]
        /\ \A i \in 1..Len(b) : ((a \o b) \o c)[Len(a) + i] = b[i]
        /\ \A i \in 1..Len(c) : ((a \o b) \o c)[(Len(a) + Len(b)) + i] = c[i]
    <3>1. b \in Seq(BatchTokens)
      BY DEF Behind
    <3> QED
      BY <1>1, <1>2, <3>1, ThreeParts
  <2> QED
    BY <1>w, <2>1, Zenon
<1>4. /\ Len(whole) = (x + y) + z
      /\ \A j \in 1..x : whole[j] = [req |-> first, pos |-> pos[first] + j - 1]
      /\ \A j \in 1..y : whole[x + j] = [req |-> second, pos |-> pos[second] + j - 1]
      /\ \A j \in 1..z : whole[(x + y) + j] = KP!Padding
  <2>1. /\ Len(b) = y
        /\ \A j \in 1..y : b[j] = [req |-> second, pos |-> pos[second] + j - 1]
    BY DEF Behind
  <2> QED
    BY <1>1, <1>2, <1>3, <2>1, Zenon
<1>5. n[first] = x
  BY <1>x
<1>6. \E off : Batched(whole, n, off)
  <2>1. Parts(whole, x, y, z, first, others, second, n)
    <3>1. /\ y \in Nat
          /\ y # 0 => second \in others
          /\ \A r \in others : r = second /\ n[r] = y
      BY DEF Behind
    <3>2. /\ x \in Nat /\ z \in Nat /\ DOMAIN n = others \cup {first}
          /\ first \notin others /\ n[first] = x
      BY <1>0, <1>5
    <3> QED
      BY <1>4, <3>1, <3>2 DEF Parts
  <2> QED
    BY <2>1, PartsBatched, Zenon
<1> QED
  BY <1>6, <1>w, <1>a, <1>c, <1>x, Zenon

(* And every batch of Prefill.                                              *)
LEMMA PrefillBatched ==
  ASSUME RingTypeOK,
         NEW first \in KP!Held, NEW others \in SUBSET KP!Held, NEW pad \in {0, 1},
         first \notin others, KP!Cardinality(others) <= 1,
         NEW n \in [others \cup {first} -> 1..RingMaxChunk]
  PROVE  \E off : Batched(KP!Tokens(first, n[first])
                   \o (IF others = {} THEN <<>>
                       ELSE LET r == CHOOSE x \in others : TRUE IN KP!Tokens(r, n[r]))
                   \o [i \in 1..pad |-> KP!Padding], n, off)
<1>1. /\ \A r \in others \cup {first} : r \in KP!Reqs /\ pos[r] \in Nat /\ n[r] \in Nat
      /\ DOMAIN n = others \cup {first} /\ pad \in Nat
  BY DEF RingTypeOK, KP!Held
<1>2. CASE others = {}
  <2>b. PICK b : b = <<>>
    OBVIOUS
  <2>1. b \in Seq(BatchTokens) /\ Len(b) = 0
    BY <2>b
  <2>2. Behind(b, 0, first, others, n)
    BY <1>2, <2>1 DEF Behind
  <2>5. \E off : Batched((KP!Tokens(first, n[first]) \o b) \o [i \in 1..pad |-> KP!Padding],
                         n, off)
    BY <1>1, <2>2, JoinedBatched, Zenon
  <2> QED
    BY <1>2, <2>5, <2>b, Zenon
<1>3. CASE others # {}
  <2>s. PICK second : second = CHOOSE x \in others : TRUE
    OBVIOUS
  <2>1. others = {second}
    BY <1>3, <2>s, OnlyOne
  <2>y. PICK y : y = n[second]
    OBVIOUS
  <2>b. PICK b : b = KP!Tokens(second, y)
    OBVIOUS
  <2>2. second \in KP!Reqs /\ pos[second] \in Nat /\ y \in Nat
    BY <1>1, <2>1, <2>y
  <2>3. /\ b \in Seq(BatchTokens) /\ Len(b) = y
        /\ \A j \in 1..y : b[j] = [req |-> second, pos |-> pos[second] + j - 1]
    BY <2>2, <2>b, TokensAre
  <2>4. Behind(b, y, second, others, n)
    <3>1. /\ \A r \in others : r = second /\ n[r] = y
          /\ y # 0 => second \in others
      BY <2>1, <2>y
    <3> QED
      BY <2>2, <2>3, <3>1, Zenon DEF Behind
  <2>6. \E off : Batched((KP!Tokens(first, n[first]) \o b) \o [i \in 1..pad |-> KP!Padding],
                         n, off)
    BY <1>1, <2>4, JoinedBatched, Zenon
  <2> QED
    BY <1>3, <2>6, <2>b, <2>s, <2>y, Zenon
<1> QED
  BY <1>2, <1>3

-----------------------------------------------------------------------------
(* The actions of KpoolRing                                                 *)

LEMMA RingInitInv == KP!KPInit => RingInv
<1> SUFFICES ASSUME KP!KPInit PROVE RingInv
  OBVIOUS
<1>1. KP!Held = {}
  BY DEF KP!KPInit, KP!Held
<1>2. RingTypeOK
  BY DEF KP!KPInit, RingTypeOK
<1>3. KP!PaddingUntouched
  BY DEF KP!PaddingUntouched, KP!KPInit
<1> QED
  BY <1>1, <1>2, <1>3 DEF RingInv, OwnBlock, TailKept

LEMMA RingAdmitInv == \A r \in KP!Reqs : RingInv /\ KP!Admit(r) => RingInv'
<1> SUFFICES ASSUME RingInv, NEW r \in KP!Reqs, KP!Admit(r) PROVE RingInv'
  OBVIOUS
<1>1. PICK b \in KP!Free : row' = [row EXCEPT ![r] = b]
  BY DEF KP!Admit
<1>2. RingTypeOK /\ pos[r] = 0 /\ row[r] = KP!None /\ pos' = pos /\ memory' = memory
  BY DEF RingInv, KP!Admit
<1>3. b \in RingBlocks /\ \A s \in KP!Held : row[s] # b
  BY DEF KP!Free
<1>4. RingTypeOK'
  BY <1>1, <1>2, <1>3 DEF RingTypeOK
<1>5. /\ row'[r] = b
      /\ \A s \in KP!Reqs : s # r => row'[s] = row[s]
      /\ \A s \in KP!Held' : s \in KP!Reqs /\ (s # r => s \in KP!Held)
  BY <1>1, <1>2 DEF RingTypeOK, KP!Held
<1>6. OwnBlock'
  <2> SUFFICES ASSUME NEW s \in KP!Held', NEW t \in KP!Held', row'[s] = row'[t] PROVE s = t
    BY DEF OwnBlock
  <2>1. CASE s # r /\ t # r
    BY <1>5, <2>1 DEF RingInv, OwnBlock
  <2>2. CASE s = r \/ t = r
    BY <1>3, <1>5, <2>2
  <2> QED
    BY <2>1, <2>2
<1>7. TailKept'
  <2> SUFFICES ASSUME NEW s \in KP!Held', NEW p \in 0..(pos[s] - 1), NEW which \in {0, 1},
                      p >= pos[s] - RingKPool
               PROVE  memory[Place(row'[s], p % RingKPool, which)] = KP!Datum(s, p, which)
    BY <1>2 DEF TailKept, Place, KP!Datum
  <2>1. s # r
    BY <1>2
  <2>2. s \in KP!Held /\ row'[s] = row[s]
    BY <1>5, <2>1
  <2> QED
    BY <2>2 DEF RingInv, TailKept
<1>8. KP!PaddingUntouched'
  BY <1>2 DEF RingInv, KP!PaddingUntouched, KP!Elements
<1> QED
  BY <1>4, <1>6, <1>7, <1>8 DEF RingInv

LEMMA RingFinishInv == \A r \in KP!Reqs : RingInv /\ KP!Finish(r) => RingInv'
<1> SUFFICES ASSUME RingInv, NEW r \in KP!Reqs, KP!Finish(r) PROVE RingInv'
  OBVIOUS
<1>1. RingTypeOK /\ row' = [row EXCEPT ![r] = KP!None] /\ pos' = pos /\ memory' = memory
  BY DEF RingInv, KP!Finish
<1>2. RingTypeOK'
  BY <1>1 DEF RingTypeOK
<1>3. \A s \in KP!Held' : s \in KP!Held /\ row'[s] = row[s]
  BY <1>1 DEF RingTypeOK, KP!Held
<1>4. OwnBlock'
  BY <1>3 DEF RingInv, OwnBlock
<1>5. TailKept'
  <2> SUFFICES ASSUME NEW s \in KP!Held', NEW p \in 0..(pos[s] - 1), NEW which \in {0, 1},
                      p >= pos[s] - RingKPool
               PROVE  memory[Place(row'[s], p % RingKPool, which)] = KP!Datum(s, p, which)
    BY <1>1 DEF TailKept, Place, KP!Datum
  <2> QED
    BY <1>3 DEF RingInv, TailKept
<1>6. KP!PaddingUntouched'
  BY <1>1 DEF RingInv, KP!PaddingUntouched, KP!Elements
<1> QED
  BY <1>2, <1>4, <1>5, <1>6 DEF RingInv

LEMMA RingPrefillInv == RingInv /\ KP!Prefill => RingInv'
<1> SUFFICES ASSUME RingInv, KP!Prefill PROVE RingInv'
  OBVIOUS
<1>1. PICK n, all, off :
        /\ DOMAIN n \subseteq KP!Held /\ \A r \in DOMAIN n : n[r] \in Nat
        /\ Batched(all, n, off)
        /\ memory' = KP!Stored(all)
        /\ pos' = [r \in KP!Reqs |-> IF r \in DOMAIN n THEN pos[r] + n[r] ELSE pos[r]]
        /\ row' = row
  <2>1. PICK first \in KP!Held, others \in SUBSET KP!Held, pad \in {0, 1} :
        /\ first \notin others /\ KP!Cardinality(others) <= 1
        /\ \E n \in [others \cup {first} -> 1..RingMaxChunk] :
            /\ \A r \in DOMAIN n : pos[r] + n[r] <= RingMaxPos
            /\ LET tokens == KP!Tokens(first, n[first])
                            \o (IF others = {} THEN <<>>
                                ELSE LET r == CHOOSE x \in others : TRUE IN KP!Tokens(r, n[r]))
                            \o [i \in 1..pad |-> KP!Padding]
               IN memory' = KP!Stored(tokens)
            /\ pos' = [r \in KP!Reqs |-> IF r \in DOMAIN n THEN pos[r] + n[r] ELSE pos[r]]
    BY Zenon DEF KP!Prefill
  <2>2. PICK n \in [others \cup {first} -> 1..RingMaxChunk] :
            /\ LET tokens == KP!Tokens(first, n[first])
                            \o (IF others = {} THEN <<>>
                                ELSE LET r == CHOOSE x \in others : TRUE IN KP!Tokens(r, n[r]))
                            \o [i \in 1..pad |-> KP!Padding]
               IN memory' = KP!Stored(tokens)
            /\ pos' = [r \in KP!Reqs |-> IF r \in DOMAIN n THEN pos[r] + n[r] ELSE pos[r]]
    BY <2>1, Zenon
  <2> PICK all : all = KP!Tokens(first, n[first])
                   \o (IF others = {} THEN <<>>
                       ELSE LET r == CHOOSE x \in others : TRUE IN KP!Tokens(r, n[r]))
                   \o [i \in 1..pad |-> KP!Padding]
    OBVIOUS
  <2>3. memory' = KP!Stored(all)
    BY <2>2
  <2>4. \E off : Batched(all, n, off)
    <3>1. RingTypeOK
      BY DEF RingInv
    <3> QED
      BY <2>1, <3>1, PrefillBatched, Zenon
  <2>5. row' = row
    BY DEF KP!Prefill
  <2>6. DOMAIN n \subseteq KP!Held /\ \A r \in DOMAIN n : n[r] \in Nat
    OBVIOUS
  <2> QED
    BY <2>2, <2>3, <2>4, <2>5, <2>6
<1>2. RingTypeOK /\ OwnBlock /\ TailKept /\ KP!PaddingUntouched
  BY DEF RingInv
<1>3. /\ \A r \in DOMAIN n, which \in {0, 1} : \A p \in Nat :
            Recent(r, n, p) =>
                memory'[Place(row[r], p % RingKPool, which)] = KP!Datum(r, p, which)
      /\ \A e \in KP!Elements :
            \/ memory'[e] = memory[e]
            \/ \E r \in DOMAIN n, which \in {0, 1} : \E p \in Nat :
                  Recent(r, n, p) /\ e = Place(row[r], p % RingKPool, which)
  BY <1>1, <1>2, StoredIs
<1>4. \A r \in KP!Held : r \in KP!Reqs /\ pos[r] \in Nat /\ r \in KP!Held' /\ row'[r] = row[r]
  BY <1>1, <1>2 DEF RingTypeOK, KP!Held
<1>5. RingTypeOK'
  <2>1. pos' \in [KP!Reqs -> Nat]
    BY <1>1, <1>2 DEF RingTypeOK
  <2>2. memory' = [e \in KP!Elements |-> memory'[e]]
    BY <1>1 DEF KP!Stored
  <2> QED
    BY <1>1, <1>2, <2>1, <2>2 DEF RingTypeOK
<1>6. OwnBlock'
  BY <1>1, <1>2 DEF OwnBlock, KP!Held
<1>7. TailKept'
  <2> SUFFICES ASSUME NEW r \in KP!Held, NEW p \in 0..(pos'[r] - 1), NEW which \in {0, 1},
                      p >= pos'[r] - RingKPool
               PROVE  memory'[Place(row[r], p % RingKPool, which)] = KP!Datum(r, p, which)
    BY <1>1 DEF TailKept, KP!Held, Place, KP!Datum
  <2> PICK e, x : x = p % RingKPool /\ e = Place(row[r], x, which)
    OBVIOUS
  <2>1. /\ pos[r] \in Nat /\ p \in Nat /\ RingKPool \in Nat
        /\ row[r] \in RingBlocks /\ x \in 0..(RingKPool - 1)
    <3>1. pos'[r] \in Nat /\ pos[r] \in Nat
      BY <1>4, <1>5 DEF RingTypeOK
    <3>2. p \in Nat
      BY <3>1
    <3> QED
      BY <1>2, <3>1, <3>2, RingConstants, SlotPlace
  <2>2. e \in KP!Elements
    BY <2>1, PlaceInPage
  <2>3. CASE r \in DOMAIN n /\ p >= pos[r]
    <3>1. pos'[r] = pos[r] + n[r] /\ n[r] \in Nat
      BY <1>1, <1>4, <2>3
    <3>2. Recent(r, n, p)
      BY <2>1, <2>3, <3>1 DEF Recent
    <3> QED
      BY <1>3, <2>1, <2>3, <3>2
  <2>4. CASE ~(r \in DOMAIN n /\ p >= pos[r])
    <3>3. memory[e] = KP!Datum(r, p, which)
      <4>1. p \in 0..(pos[r] - 1) /\ p >= pos[r] - RingKPool
        <5>1. CASE r \in DOMAIN n
          <6>1. pos'[r] = pos[r] + n[r] /\ n[r] \in Nat /\ p < pos[r]
            BY <1>1, <1>4, <2>1, <2>4, <5>1
          <6> QED
            BY <2>1, <6>1
        <5>2. CASE r \notin DOMAIN n
          <6>1. pos'[r] = pos[r]
            BY <1>1, <1>4, <5>2
          <6> QED
            BY <6>1
        <5> QED
          BY <5>1, <5>2
      <4> QED
        BY <1>2, <4>1 DEF TailKept
    <3>4. memory'[e] = memory[e]
      <4> SUFFICES ASSUME NEW s \in DOMAIN n, NEW other \in {0, 1}, NEW q \in Nat,
                          Recent(s, n, q), e = Place(row[s], q % RingKPool, other)
                   PROVE  FALSE
        BY <1>3, <2>2
      <4>1. row[s] \in RingBlocks /\ q % RingKPool \in 0..(RingKPool - 1)
        BY <1>1, <1>2, SlotPlace
      <4>2. row[r] = row[s] /\ x = q % RingKPool
        BY <2>1, <4>1, PlaceOnce
      <4>3. r = s
        BY <1>1, <1>2, <4>2 DEF OwnBlock
      <4>4. pos'[r] = pos[r] + n[r] /\ n[r] \in Nat /\ p < pos[r]
        BY <1>1, <1>4, <2>1, <2>4, <4>3
      <4>5. q \in pos[r]..(pos[r] + n[r] - 1)
        BY <4>3 DEF Recent
      <4>6. p - q < RingKPool /\ q - p < RingKPool /\ p # q
        BY <2>1, <4>4, <4>5
      <4>7. p \in Int /\ q \in Int /\ p % RingKPool = q % RingKPool
        BY <2>1, <4>2
      <4> QED
        BY <4>6, <4>7, SameResidue, RingConstants
    <3> QED
      BY <3>3, <3>4
  <2> QED
    BY <2>3, <2>4
<1>8. KP!PaddingUntouched'
  <2> SUFFICES ASSUME NEW e \in KP!Elements, e % RingStride >= 2 * RingKPool
               PROVE  memory'[e] = KP!Other
    BY DEF KP!PaddingUntouched, KP!Elements, KP!Other, KP!Datum
  <2>1. memory[e] = KP!Other
    BY <1>2 DEF KP!PaddingUntouched
  <2>2. memory'[e] = memory[e]
    <3> SUFFICES ASSUME NEW s \in DOMAIN n, NEW other \in {0, 1}, NEW q \in Nat,
                        Recent(s, n, q), e = Place(row[s], q % RingKPool, other)
                 PROVE  FALSE
      BY <1>3
    <3>1. row[s] \in RingBlocks /\ q % RingKPool \in 0..(RingKPool - 1)
      BY <1>1, <1>2, SlotPlace
    <3>2. e % RingStride < 2 * RingKPool
      BY <3>1, PlaceInPage
    <3>3. e % RingStride \in Int /\ 2 * RingKPool \in Int
      BY RingConstants DEF KP!Elements
    <3> QED
      BY <3>2, <3>3
  <2> QED
    BY <2>1, <2>2
<1> QED
  BY <1>5, <1>6, <1>7, <1>8 DEF RingInv

LEMMA RingNextInv == RingInv /\ [KP!KPNext]_kpvars => RingInv'
<1>1. RingInv /\ UNCHANGED kpvars => RingInv'
  BY DEF kpvars, RingInv, RingTypeOK, OwnBlock, TailKept, KP!PaddingUntouched, KP!Held,
         KP!Elements, Place, KP!Datum, KP!Other
<1> QED
  BY <1>1, RingAdmitInv, RingFinishInv, RingPrefillInv DEF KP!KPNext

LEMMA RingInvPrivate == RingInv => KP!RingsPrivate
<1> SUFFICES ASSUME RingInv PROVE KP!RingHoldsTail
  BY DEF RingInv, KP!RingsPrivate
<1> SUFFICES ASSUME NEW r \in KP!Held, NEW p \in 0..(pos[r] - 1), NEW which \in {0, 1},
                    p >= pos[r] - RingKPool
             PROVE  KP!View(row[r], which, p % RingKPool) = KP!Datum(r, p, which)
  BY DEF KP!RingHoldsTail
<1>1. p \in Nat /\ RingTypeOK
  BY DEF RingInv
<1> PICK x : x = p % RingKPool
  OBVIOUS
<1>2. row[r] \in Nat /\ x \in 0..(RingKPool - 1)
  BY <1>1, SlotPlace
<1>3. row[r] * RingStride \in Nat /\ which * RingKPool \in Nat
  BY <1>2, RingConstants
<1>4. row[r] * RingStride + which * RingKPool + x = Place(row[r], x, which)
  BY <1>2, <1>3 DEF Place
<1> QED
  BY <1>4 DEF RingInv, TailKept, KP!View, KP!KPoolHead

(****************************************************************************)
(* The parts of MCServing                                                   *)
(****************************************************************************)

(* A part of the model that does not run is not looked at.                  *)
LEMMA OnlyItsPart ==
  ASSUME [MCNext]_<<part, vars, shardvars, densevars, moevars, akvars, coopvars,
                    gbvars, mavars, kpvars>>
  PROVE  /\ part' = part
         /\ part = "coop" => [CM!CoopNext]_coopvars
         /\ part = "kpool" => [KP!KPNext]_kpvars
         /\ part = "mamba" => [MA!MANext]_mavars
         /\ part = "adaptive" => [AK!AKNext]_akvars
         /\ part = "shard" => [SH!ShardNext]_shardvars
         /\ part = "grammar" => [GB!GBNext]_gbvars
  BY DEF MCNext, Install, Shard, Dense, Experts, Adaptive, Coop, Structured, Recurrent,
         Pooled

(* However calls at either capacity, with one row or by the stock kernel    *)
(* follow each other, and wherever a launch fails: a chunk is finished once *)
(* and by its last arrival, a kernel reads what its own launch wrote, and   *)
(* nothing follows half a launch, for any number of layers, tiles and calls *)
(* (cooperative_moe/runtime.py).                                            *)
THEOREM LaunchesStayIsolated == MCSpec => []LaunchesIsolated
<1> DEFINE Inv == part = "coop" => CoopInv
<1>1. MCInit => Inv
  BY CoopInitInv DEF MCInit, CoopPart
<1>2. Inv /\ [MCNext]_<<part, vars, shardvars, densevars, moevars, akvars, coopvars,
                        gbvars, mavars, kpvars>> => Inv'
  BY CoopNextInv, OnlyItsPart
<1>3. Inv => LaunchesIsolated
  BY CoopInvIsolated DEF LaunchesIsolated
<1> QED
  BY <1>1, <1>2, <1>3, PTL DEF MCSpec

(* However prefill batches mix requests, chunk lengths and padding, and     *)
(* whoever had a block before: the ring of a request holds the keys and the *)
(* scores of exactly its last tokens, and nothing is stored in the padding  *)
(* of a page, for any number of rows and blocks, any ring and any stride    *)
(* that holds one (patch_kpool_tail_slotmap.py,                             *)
(* patch_kpool_tail_seed_stride.py).                                        *)
THEOREM RingsStayPrivate == MCSpec => []RingsPrivate
<1> DEFINE Inv == part = "kpool" => RingInv
<1>1. MCInit => Inv
  BY RingInitInv DEF MCInit, KpoolPart
<1>2. Inv /\ [MCNext]_<<part, vars, shardvars, densevars, moevars, akvars, coopvars,
                        gbvars, mavars, kpvars>> => Inv'
  BY RingNextInv, OnlyItsPart
<1>3. Inv => RingsPrivate
  BY RingInvPrivate DEF RingsPrivate
<1> QED
  BY <1>1, <1>2, <1>3, PTL DEF MCSpec
=============================================================================
