--------------------------- MODULE FairPrefillProofs ---------------------------
(* What the fair policy guarantees for every value of its constants: the    *)
(* range of every field, the budget of a step, the debt of the decoders and *)
(* the order of service.  None of the bounds is inductive alone: what a     *)
(* step may spend depends on what its record holds, what is still in flight *)
(* and whether contention has ended, so they are proved together.  The      *)
(* order of service is proved at the end, tiers, borrowing and the age a    *)
(* request is ranked by each from an invariant of its own.                  *)
(*                                                                          *)
(* What is reserved is a sum over the grants, so the module begins with     *)
(* what a grant more, a grant less and a grant charged in part do to it.    *)
EXTENDS MCFairPrefill, FiniteSetTheorems, TLAPS

-----------------------------------------------------------------------------
(* The sum of a function                                                    *)

(* The sum Reserved and Charged speak of, over any part of the domain.      *)
FirstOf(s) == CHOOSE r \in s : TRUE
SumOver(g, S) ==
  LET iter[s \in SUBSET S] ==
        IF s = {} THEN 0
        ELSE LET r == CHOOSE x \in s : TRUE IN g[r] + iter[s \ {r}]
  IN iter[S]

(* What a fold does at one set, and what it amounts to in any order.        *)
OneMore(g, h, s) ==
  IF s = {} THEN 0 ELSE g[FirstOf(s)] + h[s \ {FirstOf(s)}]
Unrolls(g, S, h) == h = [s \in SUBSET S |-> OneMore(g, h, s)]
AddsUp(g, S, h) ==
  /\ h \in [SUBSET S -> Int] /\ h[{}] = 0
  /\ \A s \in SUBSET S : \A r \in s : h[s] = g[r] + h[s \ {r}]
HasNumbers(g, S) == IsFiniteSet(S) /\ \A r \in S : g[r] \in Int

(* A set of numbers has a least one.                                        *)
LEMMA Least ==
  ASSUME NEW S \in SUBSET Nat, S # {}
  PROVE  \E n \in S : \A m \in S : n <= m
<1> DEFINE lt == {ss \in Nat \X Nat : ss[1] < ss[2]}
<1>1. IsWellFoundedOn(lt, Nat)
  BY NatLessThanWellFounded DEF OpToRel
<1>2. \A s, t \in Nat : s < t => <<s, t>> \in lt
  OBVIOUS
<1> HIDE DEF lt
<1>3. PICK n \in S : \A m \in S : ~ (<<m, n>> \in lt)
  BY <1>1, WFMin
<1>4. ASSUME NEW m \in S PROVE n <= m
  <2>1. n \in Nat /\ m \in Nat /\ <<m, n>> \notin lt
    BY <1>3
  <2> QED
    BY <2>1, <1>2
<1> QED
  BY <1>4

(* Taking an element out of a finite set leaves one less.                   *)
LEMMA OneLess ==
  ASSUME NEW S, IsFiniteSet(S), NEW s \in SUBSET S, NEW r \in s
  PROVE  /\ s \ {r} \in SUBSET S
         /\ Cardinality(s) \in Nat /\ Cardinality(s \ {r}) \in Nat
         /\ Cardinality(s \ {r}) < Cardinality(s)
<1>1. IsFiniteSet(s)
  BY FS_Subset
<1>2. Cardinality(s) \in Nat /\ Cardinality(s \ {r}) \in Nat
  BY <1>1, FS_CardinalityType, FS_RemoveElement
<1>3. Cardinality(s \ {r}) = Cardinality(s) - 1
  BY <1>1, FS_RemoveElement
<1> QED
  BY <1>2, <1>3

(* What holds of a set whenever it holds of all smaller ones holds of every *)
(* part of a finite set.                                                    *)
LEMMA BySize ==
  ASSUME NEW S, IsFiniteSet(S), NEW G,
         \A s \in SUBSET S :
           (\A t \in SUBSET S : Cardinality(t) < Cardinality(s) => t \in G) => s \in G
  PROVE  \A s \in SUBSET S : s \in G
<1> DEFINE Bad == {n \in Nat : \E s \in SUBSET S : Cardinality(s) = n /\ s \notin G}
<1>1. \A s \in SUBSET S : Cardinality(s) \in Nat
  BY FS_Subset, FS_CardinalityType
<1>2. SUFFICES ASSUME Bad # {} PROVE FALSE
  BY <1>1
<1>3. PICK n \in Bad : \A m \in Bad : n <= m
  <2>1. Bad \in SUBSET Nat
    OBVIOUS
  <2> HIDE DEF Bad
  <2> QED
    BY <2>1, <1>2, Least
<1>4. PICK s \in SUBSET S : Cardinality(s) = n /\ s \notin G
  BY <1>3
<1>5. ASSUME NEW t \in SUBSET S, Cardinality(t) < Cardinality(s)
      PROVE  t \in G
  <2>1. Cardinality(t) \in Nat /\ n \in Nat /\ Cardinality(t) < n
    BY <1>1, <1>3, <1>4, <1>5
  <2>2. Cardinality(t) \notin Bad
    <3> HIDE DEF Bad
    <3> QED
      BY <2>1, <1>3
  <2> QED
    BY <2>1, <2>2
<1> QED
  BY <1>4, <1>5

(* The fold of a finite set exists: it is built up by the size of the sets. *)
LEMMA FoldExists ==
  ASSUME NEW g, NEW S, HasNumbers(g, S)
  PROVE  \E h : Unrolls(g, S, h)
<1> DEFINE Upto(n) ==
      \E h \in [SUBSET S -> Int] :
        \A s \in SUBSET S : Cardinality(s) <= n => h[s] = OneMore(g, h, s)
<1>0. IsFiniteSet(S) /\ \A r \in S : g[r] \in Int
  BY DEF HasNumbers
<1>1. ASSUME NEW s \in SUBSET S, s # {}
      PROVE  FirstOf(s) \in s
  BY <1>1 DEF FirstOf
<1>2. Upto(0)
  <2> DEFINE h == [s \in SUBSET S |-> 0]
  <2>1. h \in [SUBSET S -> Int]
    OBVIOUS
  <2>2. ASSUME NEW s \in SUBSET S, Cardinality(s) <= 0
        PROVE  h[s] = OneMore(g, h, s)
    <3>1. IsFiniteSet(s) /\ Cardinality(s) \in Nat
      BY <1>0, FS_Subset, FS_CardinalityType
    <3>2. s = {}
      BY <3>1, <2>2, FS_EmptySet
    <3> QED
      BY <3>2 DEF OneMore
  <2> HIDE DEF h
  <2> QED
    BY <2>1, <2>2
<1>3. ASSUME NEW n \in Nat, Upto(n)
      PROVE  Upto(n + 1)
  <2>1. PICK h \in [SUBSET S -> Int] :
          \A s \in SUBSET S : Cardinality(s) <= n => h[s] = OneMore(g, h, s)
    BY <1>3
  <2> DEFINE k == [s \in SUBSET S |-> OneMore(g, h, s)]
  <2>2. ASSUME NEW s \in SUBSET S
        PROVE  OneMore(g, h, s) \in Int
    <3>1. CASE s = {}
      BY <3>1 DEF OneMore
    <3>2. CASE s # {}
      <4>1. FirstOf(s) \in s /\ s \ {FirstOf(s)} \in SUBSET S
        BY <3>2, <1>1
      <4>2. g[FirstOf(s)] \in Int /\ h[s \ {FirstOf(s)}] \in Int
        BY <4>1, <1>0
      <4> QED
        BY <4>2, <3>2 DEF OneMore
    <3> QED
      BY <3>1, <3>2
  <2>3. k \in [SUBSET S -> Int]
    BY <2>2
  <2>4. \A s \in SUBSET S : k[s] = OneMore(g, h, s)
    OBVIOUS
  <2> HIDE DEF k
  <2>5. ASSUME NEW s \in SUBSET S, Cardinality(s) <= n
        PROVE  k[s] = h[s]
    BY <2>1, <2>4, <2>5
  <2>6. ASSUME NEW s \in SUBSET S, Cardinality(s) <= n + 1
        PROVE  k[s] = OneMore(g, k, s)
    <3>1. CASE s = {}
      BY <3>1, <2>4 DEF OneMore
    <3>2. CASE s # {}
      <4> DEFINE t == s \ {FirstOf(s)}
      <4>1. FirstOf(s) \in s
        BY <3>2, <1>1
      <4>2. t \in SUBSET S /\ Cardinality(t) \in Nat /\ Cardinality(s) \in Nat
            /\ Cardinality(t) < Cardinality(s)
        <5> SUFFICES ASSUME NEW x \in s
                     PROVE  /\ s \ {x} \in SUBSET S
                            /\ Cardinality(s \ {x}) \in Nat /\ Cardinality(s) \in Nat
                            /\ Cardinality(s \ {x}) < Cardinality(s)
          BY <4>1
        <5> QED
          BY <1>0, OneLess
      <4>3. Cardinality(t) <= n
        BY <4>2, <2>6
      <4>4. k[t] = h[t]
        BY <4>2, <4>3, <2>5
      <4>5. OneMore(g, k, s) = g[FirstOf(s)] + k[t]
            /\ OneMore(g, h, s) = g[FirstOf(s)] + h[t]
        BY <3>2 DEF OneMore
      <4> QED
        BY <4>4, <4>5, <2>4
    <3> QED
      BY <3>1, <3>2
  <2> QED
    BY <2>3, <2>6
<1> HIDE DEF Upto
<1>4. \A n \in Nat : Upto(n)
  <2> DEFINE Bad == {n \in Nat : ~Upto(n)}
  <2>1. SUFFICES ASSUME Bad # {} PROVE FALSE
    OBVIOUS
  <2>2. PICK n \in Bad : \A m \in Bad : n <= m
    <3>1. Bad \in SUBSET Nat
      OBVIOUS
    <3> HIDE DEF Bad
    <3> QED
      BY <3>1, <2>1, Least
  <2>3. n \in Nat /\ n # 0 /\ ~Upto(n)
    BY <1>2
  <2>4. n - 1 \in Nat /\ n - 1 \notin Bad
    BY <2>2, <2>3
  <2>5. Upto((n - 1) + 1)
    BY <2>4, <1>3
  <2>6. (n - 1) + 1 = n
    BY <2>3
  <2> QED
    BY <2>3, <2>5, <2>6
<1>5. Upto(Cardinality(S)) /\ Cardinality(S) \in Nat
  BY <1>0, <1>4, FS_CardinalityType
<1>6. PICK h \in [SUBSET S -> Int] :
        \A s \in SUBSET S : Cardinality(s) <= Cardinality(S) => h[s] = OneMore(g, h, s)
  BY <1>5 DEF Upto
<1>7. ASSUME NEW s \in SUBSET S
      PROVE  h[s] = OneMore(g, h, s)
  BY <1>0, <1>6, FS_Subset
<1> QED
  BY <1>6, <1>7 DEF Unrolls

(* The sum is what a fold yields for the whole set.                         *)
LEMMA SumUnrolls ==
  ASSUME NEW g, NEW S, HasNumbers(g, S)
  PROVE  \E h : Unrolls(g, S, h) /\ SumOver(g, S) = h[S]
<1> DEFINE it == CHOOSE h : Unrolls(g, S, h)
<1>1. Unrolls(g, S, it)
  BY FoldExists
<1>2. SumOver(g, S) = it[S]
  BY DEF SumOver, Unrolls, OneMore, FirstOf
<1> QED
  BY <1>1, <1>2

(* A fold is a number at every set, and does not depend on the order.       *)
LEMMA AnyOrder ==
  ASSUME NEW g, NEW S, HasNumbers(g, S), NEW h, Unrolls(g, S, h)
  PROVE  AddsUp(g, S, h)
<1> DEFINE Good(s) == /\ h[s] \in Int
                      /\ \A r \in s : h[s] = g[r] + h[s \ {r}]
<1>0. IsFiniteSet(S) /\ \A r \in S : g[r] \in Int
  BY DEF HasNumbers
<1>1. \A s \in SUBSET S : h[s] = OneMore(g, h, s)
  BY DEF Unrolls
<1>2. ASSUME NEW s \in SUBSET S,
             \A t \in SUBSET S : Cardinality(t) < Cardinality(s) => Good(t)
      PROVE  Good(s)
  <2>1. CASE s = {}
    <3>1. h[s] = OneMore(g, h, s)
      BY <1>1
    <3>2. OneMore(g, h, s) = 0
      BY <2>1 DEF OneMore
    <3>3. h[s] \in Int
      BY <3>1, <3>2
    <3>4. ASSUME NEW r \in s PROVE h[s] = g[r] + h[s \ {r}]
      BY <2>1
    <3> QED
      BY <3>3, <3>4
  <2>2. CASE s # {}
    <3>1. PICK c \in s : h[s] = g[c] + h[s \ {c}]
      BY <1>1, <2>2 DEF OneMore, FirstOf
    <3>2. ASSUME NEW r \in s
          PROVE  s \ {r} \in SUBSET S /\ Good(s \ {r}) /\ g[r] \in Int
      <4>1. s \ {r} \in SUBSET S /\ Cardinality(s \ {r}) < Cardinality(s)
        BY <1>0, OneLess
      <4>2. g[r] \in Int
        BY <1>0
      <4> HIDE DEF Good
      <4>3. Good(s \ {r})
        BY <4>1, <1>2
      <4> QED
        BY <4>1, <4>2, <4>3
    <3>3. h[s] \in Int
      <4>1. h[s \ {c}] \in Int /\ g[c] \in Int
        BY <3>2
      <4> HIDE DEF Good
      <4> QED
        BY <3>1, <4>1
    <3>4. ASSUME NEW r \in s, r # c
          PROVE  h[s] = g[r] + h[s \ {r}]
      <4>1. c \in s \ {r} /\ r \in s \ {c}
        BY <3>4
      <4>2. (s \ {r}) \ {c} = (s \ {c}) \ {r}
        OBVIOUS
      <4>3. h[s \ {r}] = g[c] + h[(s \ {r}) \ {c}]
            /\ h[s \ {c}] = g[r] + h[(s \ {r}) \ {c}]
        BY <3>2, <4>1, <4>2
      <4>4. /\ g[c] \in Int /\ g[r] \in Int
            /\ h[s \ {r}] \in Int /\ h[s \ {c}] \in Int
        BY <3>2
      <4>5. h[(s \ {r}) \ {c}] \in Int
        <5>1. Good(s \ {r}) /\ s \ {r} \in SUBSET S
          BY <3>2
        <5>2. (s \ {r}) \ {c} \in SUBSET S /\ Cardinality((s \ {r}) \ {c}) < Cardinality(s \ {r})
          BY <4>1, <5>1, <1>0, OneLess
        <5>3. /\ Cardinality(s \ {r}) < Cardinality(s)
              /\ Cardinality(s \ {r}) \in Nat /\ Cardinality(s) \in Nat
          BY <1>0, OneLess
        <5>4. Cardinality((s \ {r}) \ {c}) \in Nat
          <6> DEFINE u == s \ {r}
          <6>1. u \in SUBSET S /\ c \in u
            BY <4>1, <5>1
          <6> HIDE DEF u
          <6>2. Cardinality(u \ {c}) \in Nat
            BY <6>1, <1>0, OneLess
          <6> QED
            BY <6>2 DEF u
        <5>5. Cardinality((s \ {r}) \ {c}) < Cardinality(s)
          BY <5>2, <5>3, <5>4
        <5> HIDE DEF Good
        <5>6. Good((s \ {r}) \ {c})
          BY <5>2, <5>5, <1>2
        <5> QED
          BY <5>6 DEF Good
      <4> HIDE DEF Good
      <4> QED
        BY <3>1, <4>3, <4>4, <4>5
    <3> QED
      BY <3>1, <3>3, <3>4
  <2> QED
    BY <2>1, <2>2
<1>3. \A s \in SUBSET S : Good(s)
  <2> DEFINE G == {s \in SUBSET S : Good(s)}
  <2> HIDE DEF Good
  <2>1. \A s \in SUBSET S :
          (\A t \in SUBSET S : Cardinality(t) < Cardinality(s) => t \in G) => s \in G
    BY <1>2
  <2>2. \A s \in SUBSET S : s \in G
    <3> HIDE DEF G
    <3> QED
      BY <2>1, <1>0, BySize
  <2> QED
    BY <2>2
<1>4. h = [s \in SUBSET S |-> h[s]]
  BY DEF Unrolls
<1>5. h[{}] = 0
  BY <1>1 DEF OneMore
<1> HIDE DEF Good
<1>6. \A s \in SUBSET S : h[s] \in Int
  BY <1>3 DEF Good
<1>7. h \in [SUBSET S -> Int]
  BY <1>4, <1>6
<1>8. \A s \in SUBSET S : \A r \in s : h[s] = g[r] + h[s \ {r}]
  BY <1>3 DEF Good
<1> QED
  BY <1>5, <1>7, <1>8 DEF AddsUp

(* The sums of two tables that agree on a set are the same there.           *)
LEMMA SameOnPart ==
  ASSUME NEW g, NEW S, NEW h, IsFiniteSet(S), AddsUp(g, S, h),
         NEW f, NEW T, NEW k, AddsUp(f, T, k),
         NEW C, C \subseteq S, C \subseteq T,
         \A r \in C : g[r] = f[r]
  PROVE  h[C] = k[C]
<1> DEFINE Same(s) == h[s] = k[s]
<1>0. IsFiniteSet(C)
  BY FS_Subset
<1>1. ASSUME NEW s \in SUBSET C,
             \A t \in SUBSET C : Cardinality(t) < Cardinality(s) => Same(t)
      PROVE  Same(s)
  <2>1. CASE s = {}
    BY <2>1 DEF AddsUp
  <2>2. CASE s # {}
    <3>1. PICK r \in s : TRUE
      BY <2>2
    <3>2. s \ {r} \in SUBSET C /\ Cardinality(s \ {r}) < Cardinality(s)
      BY <1>0, OneLess
    <3>3. Same(s \ {r})
      BY <3>2, <1>1
    <3>4. h[s] = g[r] + h[s \ {r}] /\ k[s] = f[r] + k[s \ {r}]
      BY <3>1 DEF AddsUp
    <3> QED
      BY <3>1, <3>3, <3>4
  <2> QED
    BY <2>1, <2>2
<1>2. \A s \in SUBSET C : Same(s)
  <2> DEFINE G == {s \in SUBSET C : Same(s)}
  <2> HIDE DEF Same
  <2>1. \A s \in SUBSET C :
          (\A t \in SUBSET C : Cardinality(t) < Cardinality(s) => t \in G) => s \in G
    BY <1>1
  <2>2. \A s \in SUBSET C : s \in G
    <3> HIDE DEF G
    <3> QED
      BY <2>1, <1>0, BySize
  <2> QED
    BY <2>2
<1> QED
  BY <1>2

(* The sum is the value of something that adds up over the whole set.       *)
LEMMA SumAdds ==
  ASSUME NEW g, NEW S, HasNumbers(g, S)
  PROVE  \E h : IsFiniteSet(S) /\ AddsUp(g, S, h) /\ SumOver(g, S) = h[S]
<1>1. PICK h : Unrolls(g, S, h) /\ SumOver(g, S) = h[S]
  BY SumUnrolls
<1> QED
  BY <1>1, AnyOrder DEF HasNumbers

(* SumFunction is that sum over the whole domain.                           *)
LEMMA SumIsOver ==
  ASSUME NEW f, NEW S, DOMAIN f = S
  PROVE  SumFunction(f) = SumOver(f, S)
BY DEF SumFunction, SumFunctionOnSet, FoldFunctionOnSet, MapThenFoldSet, SumOver

(* The sum of numbers the requests have.                                    *)
LEMMA SumOfRids ==
  ASSUME NEW f \in [Rids -> Int]
  PROVE  \E h : AddsUp(f, Rids, h) /\ SumFunction(f) = h[Rids] /\ h[Rids] \in Int
<1>1. HasNumbers(f, Rids)
  BY RidsAssumption DEF HasNumbers
<1>2. PICK h : IsFiniteSet(Rids) /\ AddsUp(f, Rids, h) /\ SumOver(f, Rids) = h[Rids]
  BY <1>1, SumAdds
<1>3. SumFunction(f) = SumOver(f, Rids)
  BY SumIsOver
<1> QED
  BY <1>2, <1>3 DEF AddsUp

(* Changing the number of one request moves the sum by the difference.      *)
LEMMA SumChanged ==
  ASSUME NEW f \in [Rids -> Int], NEW g \in [Rids -> Int], NEW r \in Rids,
         \A q \in Rids \ {r} : g[q] = f[q]
  PROVE  SumFunction(g) = SumFunction(f) - f[r] + g[r]
<1>1. PICK h : AddsUp(f, Rids, h) /\ SumFunction(f) = h[Rids]
  BY SumOfRids
<1>2. PICK k : AddsUp(g, Rids, k) /\ SumFunction(g) = k[Rids]
  BY SumOfRids
<1>3. h[Rids] = f[r] + h[Rids \ {r}] /\ h[Rids \ {r}] \in Int
  BY <1>1 DEF AddsUp
<1>4. k[Rids] = g[r] + k[Rids \ {r}]
  BY <1>2 DEF AddsUp
<1>5. h[Rids \ {r}] = k[Rids \ {r}]
  <2>1. IsFiniteSet(Rids) /\ AddsUp(f, Rids, h) /\ AddsUp(g, Rids, k)
    BY <1>1, <1>2, RidsAssumption
  <2>2. Rids \ {r} \subseteq Rids /\ \A q \in Rids \ {r} : f[q] = g[q]
    OBVIOUS
  <2> QED
    BY <2>1, <2>2, SameOnPart
<1>6. f[r] \in Int /\ g[r] \in Int
  OBVIOUS
<1> QED
  BY <1>1, <1>2, <1>3, <1>4, <1>5, <1>6

(* Sums of what the requests have or owe are compared request by request,   *)
(* and nothing sums up to nothing.                                          *)
LEMMA SumBound ==
  ASSUME NEW f \in [Rids -> Nat], NEW g \in [Rids -> Nat],
         \A r \in Rids : f[r] <= g[r]
  PROVE  /\ SumFunction(f) \in Nat /\ SumFunction(g) \in Nat
         /\ SumFunction(f) <= SumFunction(g)
         /\ (\A r \in Rids : f[r] = 0) => SumFunction(f) = 0
<1>0. f \in [Rids -> Int] /\ g \in [Rids -> Int] /\ IsFiniteSet(Rids)
  BY RidsAssumption
<1>1. PICK h : AddsUp(f, Rids, h) /\ SumFunction(f) = h[Rids]
  BY <1>0, SumOfRids
<1>2. PICK k : AddsUp(g, Rids, k) /\ SumFunction(g) = k[Rids]
  BY <1>0, SumOfRids
<1> DEFINE Good(s) == /\ h[s] \in Nat /\ k[s] \in Nat /\ h[s] <= k[s]
                      /\ (\A r \in s : f[r] = 0) => h[s] = 0
           G == {s \in SUBSET Rids : Good(s)}
<1>3. ASSUME NEW s \in SUBSET Rids,
             \A t \in SUBSET Rids : Cardinality(t) < Cardinality(s) => Good(t)
      PROVE  Good(s)
  <2>1. CASE s = {}
    BY <1>1, <1>2, <2>1 DEF AddsUp
  <2>2. CASE s # {}
    <3>1. PICK r \in s : TRUE
      BY <2>2
    <3>2. s \ {r} \in SUBSET Rids /\ Cardinality(s \ {r}) < Cardinality(s)
      BY <1>0, OneLess
    <3>3. Good(s \ {r})
      <4> HIDE DEF Good
      <4> QED
        BY <3>2, <1>3
    <3>4. h[s] = f[r] + h[s \ {r}] /\ k[s] = g[r] + k[s \ {r}]
      BY <1>1, <1>2, <3>1 DEF AddsUp
    <3>5. f[r] \in Nat /\ g[r] \in Nat /\ f[r] <= g[r]
      BY <3>1
    <3>6. (\A q \in s : f[q] = 0) => f[r] = 0 /\ h[s \ {r}] = 0
      BY <3>1, <3>3
    <3> QED
      BY <3>3, <3>4, <3>5, <3>6
  <2> QED
    BY <2>1, <2>2
<1>4. \A s \in SUBSET Rids : s \in G
  <2> HIDE DEF Good
  <2>1. \A s \in SUBSET Rids :
          (\A t \in SUBSET Rids : Cardinality(t) < Cardinality(s) => t \in G) => s \in G
    BY <1>3
  <2> HIDE DEF G
  <2> QED
    BY <2>1, <1>0, BySize
<1>5. Good(Rids)
  <2> HIDE DEF Good
  <2> QED
    BY <1>4
<1> QED
  BY <1>1, <1>2, <1>5

-----------------------------------------------------------------------------
(* Types                                                                    *)

(* The stamps stay numbers when they are packed.                            *)
LEMMA CompactType ==
  ASSUME NEW f \in [Rids -> Nat]
  PROVE  Compact(f) \in [Rids -> Nat]
<1>1. ASSUME NEW r \in Rids
      PROVE  Cardinality({f[s] : s \in Rids} \cap (1..f[r])) \in Nat
  <2>1. IsFiniteSet(1..f[r])
    BY FS_Interval
  <2>2. IsFiniteSet({f[s] : s \in Rids} \cap (1..f[r]))
    BY <2>1, FS_Subset
  <2> QED
    BY <2>2, FS_CardinalityType
<1> QED
  BY <1>1 DEF Compact

(* Stamping requests after the others keeps the stamps numbers.             *)
LEMMA StampType ==
  ASSUME NEW f \in [Rids -> Nat], NEW S, NEW pos,
         \A r \in S : pos[r] \in Nat
  PROVE  Stamp(f, S, pos) \in [Rids -> Nat]
<1>1. Cardinality(Rids) \in Nat
  BY RidsAssumption, FS_CardinalityType
<1>2. [r \in Rids |-> IF r \in S THEN Cardinality(Rids) + 1 + pos[r] ELSE f[r]]
        \in [Rids -> Nat]
  BY <1>1
<1> QED
  BY <1>2, CompactType DEF Stamp

(* A place in a ranking is a number.                                        *)
LEMMA PositionType ==
  ASSUME NEW S \in SUBSET Rids, NEW key
  PROVE  Position(S, key) \in [Rids -> Nat]
<1>1. ASSUME NEW r \in Rids
      PROVE  Cardinality({s \in S : LexLess(key[s], key[r])}) \in Nat
  <2>1. IsFiniteSet({s \in S : LexLess(key[s], key[r])})
    BY RidsAssumption, FS_Subset
  <2> QED
    BY <2>1, FS_CardinalityType
<1> QED
  BY <1>1 DEF Position

(* The zero function.                                                       *)
LEMMA NoneType == None \in [Rids -> Nat] /\ \A r \in Rids : None[r] = 0
BY DEF None

(* Whatever is promoted was eligible, and there is room for it.             *)
LEMMA LeadingBound ==
  ASSUME NEW S \in SUBSET Rids, NEW k \in Int, NEW key, NEW T \in Leading(S, k, key)
  PROVE  /\ T \subseteq S
         /\ IsFiniteSet(T)
         /\ Cardinality(T) \in Nat
         /\ Cardinality(T) <= k
<1>1. T \subseteq S /\ Cardinality(T) = Smaller(k, Cardinality(S))
  BY DEF Leading
<1>2. IsFiniteSet(S) /\ IsFiniteSet(T)
  BY <1>1, RidsAssumption, FS_Subset
<1>3. Cardinality(S) \in Nat /\ Cardinality(T) \in Nat
  BY <1>2, FS_CardinalityType
<1> QED
  BY <1>1, <1>2, <1>3 DEF Smaller

-----------------------------------------------------------------------------
(* Estimates and what is offered                                            *)

(* An estimate of a possible size is a positive number.                     *)
LEMMA CostType ==
  ASSUME model \in Models, NEW n \in 1..MaxTok
  PROVE  Cost(n) \in Nat \ {0}
BY ModelsAssumption DEF Cost, ModelType

(* Every size the policy considers is a prefill length that is left.        *)
LEMMA SizesType ==
  ASSUME NEW rem \in 1..MaxTok
  PROVE  Sizes(rem) \subseteq 1..rem
<1>1. ASSUME NEW n \in 1..MaxTok
      PROVE  Smaller(n, rem) \in 1..rem
  BY SizeAssumption DEF Smaller
<1>2. ASSUME NEW n \in {Chunk} \cup (IF mixedSeen \/ model.fit THEN Ladder ELSE {})
      PROVE  n \in 1..MaxTok
  BY SizeAssumption
<1> QED
  BY <1>1, <1>2 DEF Sizes

(* Capping settled credit only lowers it, to the limit of a step at most.   *)
LEMMA CappedBound ==
  ASSUME model \in Models, NEW c \in Int
  PROVE  /\ CreditLimit \in Nat \ {0} /\ CreditLimit <= MaxStep
         /\ Capped(c) \in Int
         /\ Capped(c) <= c /\ Capped(c) <= MaxStep
         /\ Capped(c) = c \/ Capped(c) = CreditLimit
<1>1. TopSize \in {Chunk} \cup Ladder
  BY SizeAssumption DEF TopSize
<1>2. Cost(TopSize) \in Nat \ {0}
  BY <1>1, SizeAssumption, CostType
<1>3. CreditLimit \in Nat \ {0} /\ CreditLimit <= MaxStep
  BY <1>2, LimitAssumption DEF CreditLimit, Smaller
<1> QED
  BY <1>3, LimitAssumption DEF Capped, Smaller

(* A grant offered fits the step; unless it is borrowed, the credit covers  *)
(* it; and it is only borrowed when nothing else is granted or owed.        *)
LEMMA OffersBound ==
  ASSUME model \in Models, credit \in Int, Reserved \in Nat, Reserved <= MaxStep,
         NEW r \in Rids, reqs[r].rem \in 1..MaxTok, NEW g \in Offers(r)
  PROVE  /\ g \in GrantType /\ g.cap \in 1..reqs[r].rem /\ g.cost = Cost(g.cap)
         /\ g.cost \in Nat \ {0} /\ g.cost <= MaxStep - Reserved
         /\ ~g.borrowed => g.cost <= credit
         /\ g.borrowed => /\ credit >= 0 /\ g.cost > credit
                          /\ Granted = {} /\ ~borrowed
<1>1. GapRoom = MaxStep - Reserved
  BY LimitAssumption DEF GapRoom, Larger
<1>2. ASSUME NEW room \in Int, NEW n \in Fitting(reqs[r].rem, room)
      PROVE  n \in 1..reqs[r].rem /\ Cost(n) \in Nat \ {0} /\ Cost(n) <= room
  <2>1. n \in 1..reqs[r].rem /\ Cost(n) <= room
    BY <1>2, SizesType DEF Fitting
  <2>2. n \in 1..MaxTok
    BY <2>1, SizeAssumption
  <2> QED
    BY <2>1, <2>2, CostType
<1>3. PICK n, b : /\ g = [cap |-> n, cost |-> Cost(n), borrowed |-> b]
                  /\ b \in BOOLEAN
                  /\ \/ /\ n \in Fitting(reqs[r].rem, GapRoom)
                        /\ ~b => Cost(n) <= credit \/ ~(Cost(n) > credit)
                        /\ b => Cost(n) > credit /\ MayBorrow(r)
                     \/ /\ n \in Fitting(reqs[r].rem,
                                         Smaller(GapRoom, Larger(0, credit)))
                        /\ ~b
  BY DEF Offers, Grant, Best
<1>4. CASE n \in Fitting(reqs[r].rem, GapRoom) /\ (~b => ~(Cost(n) > credit))
             /\ (b => Cost(n) > credit /\ MayBorrow(r))
  <2>1. n \in 1..reqs[r].rem /\ Cost(n) \in Nat \ {0} /\ Cost(n) <= MaxStep - Reserved
    BY <1>1, <1>2, <1>4, LimitAssumption
  <2>2. b => credit >= 0 /\ Granted = {} /\ ~borrowed
    BY <1>4 DEF MayBorrow
  <2> QED
    BY <1>3, <1>4, <2>1, <2>2, SizeAssumption DEF GrantType
<1>5. CASE n \in Fitting(reqs[r].rem, Smaller(GapRoom, Larger(0, credit))) /\ ~b
  <2>1. Smaller(GapRoom, Larger(0, credit)) \in Int
    BY <1>1, LimitAssumption DEF Smaller, Larger
  <2>2. /\ n \in 1..reqs[r].rem /\ Cost(n) \in Nat \ {0}
        /\ Cost(n) <= Smaller(GapRoom, Larger(0, credit))
    BY <1>2, <1>5, <2>1
  <2>3. Cost(n) <= MaxStep - Reserved /\ Cost(n) <= credit
    BY <1>1, <2>2, LimitAssumption DEF Smaller, Larger
  <2> QED
    BY <1>3, <1>5, <2>2, <2>3, SizeAssumption DEF GrantType
<1>6. CASE n \in Fitting(reqs[r].rem, GapRoom) /\ ~b /\ Cost(n) <= credit
  <2>1. n \in 1..reqs[r].rem /\ Cost(n) \in Nat \ {0} /\ Cost(n) <= MaxStep - Reserved
    BY <1>1, <1>2, <1>6, LimitAssumption
  <2> QED
    BY <1>3, <1>6, <2>1, SizeAssumption DEF GrantType
<1> QED
  BY <1>3, <1>4, <1>5, <1>6
-----------------------------------------------------------------------------
(* What is reserved, and what a step will be charged                        *)

(* The costs of any table of grants.                                        *)
CostsOf(g) == SumFunction([r \in Rids |-> g[r].cost])

(* Grants cost a number, and grants of nothing cost nothing.                *)
LEMMA CostsType ==
  ASSUME NEW g \in [Rids -> GrantType]
  PROVE  /\ CostsOf(g) \in Nat
         /\ (\A r \in Rids : g[r].cost = 0) => CostsOf(g) = 0
<1> DEFINE f == [r \in Rids |-> g[r].cost]
<1>1. f \in [Rids -> Nat]
  BY DEF GrantType
<1>2. \A r \in Rids : f[r] <= f[r] /\ f[r] = g[r].cost
  BY <1>1
<1>3. CostsOf(g) = SumFunction(f)
  BY DEF CostsOf
<1> HIDE DEF f
<1> QED
  BY <1>1, <1>2, <1>3, SumBound

(* One grant more, less or otherwise moves the costs by the difference.     *)
LEMMA CostsMove ==
  ASSUME NEW g \in [Rids -> GrantType], NEW k \in [Rids -> GrantType],
         NEW r \in Rids, \A q \in Rids \ {r} : k[q] = g[q]
  PROVE  CostsOf(k) = CostsOf(g) - g[r].cost + k[r].cost
<1> DEFINE f == [q \in Rids |-> g[q].cost]
           h == [q \in Rids |-> k[q].cost]
<1>1. f \in [Rids -> Int] /\ h \in [Rids -> Int]
  BY DEF GrantType
<1>2. /\ f[r] = g[r].cost /\ h[r] = k[r].cost
      /\ \A q \in Rids \ {r} : h[q] = f[q]
  OBVIOUS
<1>3. CostsOf(g) = SumFunction(f) /\ CostsOf(k) = SumFunction(h)
  BY DEF CostsOf
<1> HIDE DEF f, h
<1> QED
  BY <1>1, <1>2, <1>3, SumChanged

(* What is reserved before and after a step, as costs of the two tables.    *)
LEMMA ReservedIs == Reserved = CostsOf(grants) /\ Reserved' = CostsOf(grants')
BY DEF Reserved, CostsOf

(* What is reserved is a number, and follows the table of grants.           *)
LEMMA ReservedType ==
  /\ StepType => Reserved \in Nat
  /\ StepType' => Reserved' \in Nat
  /\ grants' = grants => Reserved' = Reserved
  /\ grants' = [r \in Rids |-> NoGrant] => Reserved' = 0
<1>1. ASSUME grants' = [r \in Rids |-> NoGrant] PROVE Reserved' = 0
  <2>1. NoGrant \in GrantType /\ NoGrant.cost = 0
    BY SizeAssumption DEF NoGrant, GrantType
  <2>2. grants' \in [Rids -> GrantType] /\ \A r \in Rids : grants'[r].cost = 0
    BY <1>1, <2>1
  <2> QED
    BY <2>2, CostsType, ReservedIs
<1>2. grants' = grants => Reserved' = Reserved
  BY ReservedIs
<1> QED
  BY <1>1, <1>2, CostsType, ReservedIs DEF StepType

(* A grant or a release moves what is reserved by the cost of the chunk.    *)
LEMMA ReservedMoves ==
  ASSUME StepType, StepType', NEW r \in Rids, NEW g,
         grants' = [grants EXCEPT ![r] = g]
  PROVE  Reserved' = Reserved - grants[r].cost + g.cost
<1>1. grants \in [Rids -> GrantType] /\ grants' \in [Rids -> GrantType]
  BY DEF StepType
<1>2. grants'[r] = g /\ \A q \in Rids \ {r} : grants'[q] = grants[q]
  BY <1>1
<1>3. CostsOf(grants') = CostsOf(grants) - grants[r].cost + grants'[r].cost
  BY <1>1, <1>2, CostsMove
<1> QED
  BY <1>2, <1>3, ReservedIs

(* The prefill part of a step is never more than what was left.             *)
LEMMA PrefillPartType ==
  ASSUME TypeOK, NEW r \in Rids
  PROVE  /\ num[r] \in 0..MaxTok /\ reqs[r].rem \in 0..MaxTok
         /\ PrefillPart(r) \in 0..MaxTok /\ PrefillPart(r) <= reqs[r].rem
         /\ PrefillPart(r) > 0 <=> num[r] > 0 /\ reqs[r].rem > 0
<1>1. num[r] \in 0..MaxTok /\ reqs[r].rem \in 0..MaxTok
  BY DEF TypeOK, CallType, Request
<1> QED
  BY <1>1, SizeAssumption DEF PrefillPart, Smaller

(* A step is charged no more than it reserved, and only for a granted chunk *)
(* that was scheduled.                                                      *)
LEMMA ChargedType ==
  ASSUME TypeOK
  PROVE  /\ Charged \in Nat /\ Charged <= Reserved
         /\ Charged > 0 => \E r \in Rids : /\ grants[r].cost > 0
                                           /\ num[r] > 0 /\ reqs[r].rem > 0
<1> DEFINE f == [r \in Rids |-> Sealed(r)]
           g == [r \in Rids |-> grants[r].cost]
<1>1. ASSUME NEW r \in Rids
      PROVE  /\ Sealed(r) \in Nat /\ grants[r].cost \in Nat /\ Sealed(r) <= grants[r].cost
             /\ Sealed(r) # 0 => /\ grants[r].cost > 0
                                 /\ num[r] > 0 /\ reqs[r].rem > 0
  <2>1. grants[r].cost \in Nat /\ model \in Models
    BY DEF TypeOK, StepType, CreditType, GrantType
  <2>2. CASE PrefillPart(r) > 0
    <3>1. PrefillPart(r) \in 1..MaxTok
      BY <2>2, PrefillPartType, SizeAssumption
    <3>2. Cost(PrefillPart(r)) \in Nat \ {0}
      BY <2>1, <3>1, CostType
    <3> QED
      BY <2>1, <2>2, <3>2, PrefillPartType DEF Sealed, Smaller
  <2>3. CASE ~(PrefillPart(r) > 0)
    BY <2>1, <2>3 DEF Sealed
  <2> QED
    BY <2>2, <2>3
<1>2. f \in [Rids -> Nat] /\ g \in [Rids -> Nat] /\ \A r \in Rids : f[r] <= g[r]
  BY <1>1
<1>3. (\A r \in Rids : Sealed(r) = 0) => \A r \in Rids : f[r] = 0
  OBVIOUS
<1>4. Charged = SumFunction(f) /\ Reserved = SumFunction(g)
  BY DEF Charged, Reserved
<1> HIDE DEF f, g
<1>5. /\ Charged \in Nat /\ Charged <= Reserved
      /\ (\A r \in Rids : Sealed(r) = 0) => Charged = 0
  BY <1>2, <1>3, <1>4, SumBound
<1> QED
  BY <1>1, <1>5

-----------------------------------------------------------------------------
(* Every handler leaves each field in its range                             *)

(* The empty function, request and grant are well formed.                   *)
LEMMA EmptyType ==
  /\ None \in [Rids -> 0..MaxTok] /\ None \in [Rids -> 0..Interval]
  /\ Gone \in Request /\ NoGrant \in GrantType
BY SizeAssumption, LimitAssumption DEF None, Gone, Request, NoGrant, GrantType

(* A chunk that is offered makes a well-formed grant.                       *)
LEMMA OfferType ==
  ASSUME model \in Models, NEW r \in Rids, reqs[r].rem \in 1..MaxTok,
         NEW g \in Offers(r)
  PROVE  g \in GrantType
<1>1. PICK n, b : /\ g = Grant(n, b) /\ b \in BOOLEAN
                  /\ n \in Sizes(reqs[r].rem)
  BY DEF Offers, Best, Fitting
<1>2. n \in 1..MaxTok
  BY <1>1, SizesType, SizeAssumption
<1> QED
  BY <1>1, <1>2, CostType, SizeAssumption DEF Grant, GrantType

(* The initial states have the shape.                                       *)
LEMMA InitType == Init => TypeOK
<1> SUFFICES ASSUME Init PROVE TypeOK
  OBVIOUS
<1>0. newSched \in BOOLEAN /\ inContention \in BOOLEAN /\ mixedSeen \in BOOLEAN
      /\ recOpen \in BOOLEAN /\ hadDecode \in BOOLEAN /\ borrowed \in BOOLEAN
  BY DEF Init
<1>1. CallType
  BY <1>0, EmptyType, LimitAssumption DEF Init, CallType
<1>2. RankType
  BY EmptyType, NoneType, LimitAssumption DEF Init, RankType
<1>3. CreditType
  <2>1. inflight \in Seq(Flight)
    BY DEF Init
  <2> QED
    BY <1>0, <2>1, LimitAssumption DEF Init, CreditType
<1>4. StepType
  <2>1. grants \in [Rids -> GrantType]
    BY EmptyType DEF Init
  <2> QED
    BY <1>0, <2>1, NoneType DEF Init, StepType
<1> QED
  BY <1>1, <1>2, <1>3, <1>4 DEF TypeOK

(* Arrivals, departures and a new scheduler keep the shape.                 *)
LEMMA EnvironmentType ==
  ASSUME TypeOK, Environment
  PROVE  TypeOK'
<1>1. CallType'
  <2>1. ASSUME NEW r \in Rids, Arrive(r) PROVE CallType'
    <3>1. ASSUME NEW n \in 1..MaxTok, NEW o \in Addrs
          PROVE  [at |-> "waiting", rem |-> n, obj |-> o] \in Request
      BY SizeAssumption, LimitAssumption DEF Request
    <3>2. reqs' \in [Rids -> Request] /\ events' \in 0..MaxEvents
      BY <2>1, <3>1, LimitAssumption DEF TypeOK, CallType, Arrive, Happens
    <3> QED
      BY <2>1, <3>2 DEF TypeOK, CallType, Arrive, callVars
  <2>2. ASSUME NEW r \in Rids, Leave(r) PROVE CallType'
    <3>1. reqs' \in [Rids -> Request] /\ events' \in 0..MaxEvents
      BY <2>2, EmptyType, LimitAssumption DEF TypeOK, CallType, Leave, Happens
    <3> QED
      BY <2>2, <3>1 DEF TypeOK, CallType, Leave, callVars
  <2>3. ASSUME NewScheduler PROVE CallType'
    <3>1. reqs' \in [Rids -> Request] /\ events' \in 0..MaxEvents
      BY <2>3, EmptyType, LimitAssumption DEF TypeOK, CallType, NewScheduler, Happens
    <3> QED
      BY <2>3, <3>1 DEF TypeOK, CallType, NewScheduler, callVars
  <2> QED
    BY <2>1, <2>2, <2>3 DEF Environment
<1>2. UNCHANGED <<rankVars, stepVars, acct, credit, inContention, inflight,
                  refused, refusedPrev, model, mixedSeen>>
  BY DEF Environment, Arrive, Leave, NewScheduler
<1>3. RankType' /\ CreditType' /\ StepType'
  BY <1>2 DEF TypeOK, RankType, CreditType, StepType, rankVars, stepVars
<1> QED
  BY <1>1, <1>3 DEF TypeOK

(* The clock keeps the shape.                                               *)
LEMMA TickType ==
  ASSUME TypeOK, Tick
  PROVE  TypeOK'
<1>1. CallType' /\ StepType'
  BY DEF Tick, TypeOK, CallType, StepType, envVars, callVars, stepVars
<1>2. RankType'
  <2>1. ASSUME NEW n \in 0..Interval
        PROVE  0 \in 0..Interval /\ Smaller(Interval, n + 1) \in 0..Interval
    BY LimitAssumption DEF Smaller
  <2>2. age' \in [Rids -> 0..Interval]
    BY <2>1 DEF Tick, TypeOK, RankType
  <2> QED
    BY <2>2 DEF Tick, TypeOK, RankType
<1>3. inflight' \in Seq(Flight)
  <2>1. \A i \in DOMAIN inflight : inflight[i] \in Flight
    BY DEF TypeOK, CreditType
  <2>2. ASSUME NEW rec \in Flight
        PROVE  [rec EXCEPT !.since = Smaller(MaxDt, @ + 1)] \in Flight
    BY LimitAssumption DEF Flight, Smaller
  <2>3. DOMAIN inflight = 1..Len(inflight) /\ Len(inflight) \in Nat
    BY DEF TypeOK, CreditType
  <2> QED
    BY <2>1, <2>2, <2>3 DEF Tick
<1>4. CreditType'
  BY <1>3, LimitAssumption DEF Tick, TypeOK, CreditType, Smaller
<1> QED
  BY <1>1, <1>2, <1>4 DEF TypeOK

(* Forgetting departed and rebound ids keeps stamps numbers.                *)
LEMMA KeptType ==
  ASSUME NEW f \in [Rids -> Nat]
  PROVE  Kept(f) \in [Rids -> Nat] /\ Pruned(f) \in [Rids -> Nat]
BY DEF Kept, Pruned

(* begin_step keeps the shape.                                              *)
LEMMA BeginStepType ==
  ASSUME TypeOK, BeginStep
  PROVE  TypeOK'
<1>1. CallType'
  <2>1. todo' \subseteq Rids /\ num' \in [Rids -> 0..MaxTok]
    BY EmptyType DEF BeginStep, Live
  <2> QED
    BY <2>1 DEF BeginStep, TypeOK, CallType
<1>2. RankType'
  <2>1. incarn' \in [Rids -> Nat]
    BY DEF BeginStep, TypeOK, CallType, Request
  <2>2. lastService' \in [Rids -> Nat] /\ rrSeq' \in [Rids -> Nat]
        /\ earnedBy' \in [Rids -> Nat]
    BY KeptType DEF BeginStep, TypeOK, RankType
  <2>3. arrival' \in [Rids -> Nat]
    BY KeptType, StampType, NoneType DEF BeginStep, TypeOK, RankType, Newcomers, Live
  <2>4. age' \in [Rids -> 0..Interval]
    BY LimitAssumption DEF BeginStep, TypeOK, RankType, Kept
  <2>5. refused' \subseteq Rids /\ refusedPrev' \subseteq Rids
    BY DEF BeginStep, TypeOK, RankType
  <2> QED
    BY <2>1, <2>2, <2>3, <2>4, <2>5 DEF RankType
<1>3. CreditType'
  <2>1. Cost(Chunk) \in Nat /\ MaxStep \in Nat
    BY CostType, SizeAssumption, LimitAssumption DEF TypeOK, CreditType
  <2>2. credit' \in Int
    BY <2>1, ReservedType DEF BeginStep, TypeOK, CreditType, Carried, Smaller
  <2>3. inflight' \in Seq(Flight)
    BY DEF BeginStep, TypeOK, CreditType
  <2> QED
    BY <2>2, <2>3, LimitAssumption DEF BeginStep, TypeOK, CreditType
<1>4. StepType'
  <2>1. Prefills \in SUBSET Rids
    BY DEF Prefills, Live
  <2>2. rank' \in [Rids -> Nat] /\ candidates' \subseteq Rids
    BY <2>1, PositionType DEF BeginStep
  <2>3. selected' \subseteq Rids
    BY <2>1 DEF BeginStep, Leading
  <2>4. stepMode' \in {"solo", "decode_only", "prefill_turn"}
    BY DEF BeginStep, ModeOf
  <2>5. grants' \in [Rids -> GrantType]
    BY EmptyType DEF BeginStep
  <2>6. /\ recOpen' \in BOOLEAN /\ hadDecode' \in BOOLEAN /\ borrowed' \in BOOLEAN
        /\ tried' = {} /\ passed' = {} /\ deferredTiers' = {}
    BY DEF BeginStep
  <2> QED
    BY <2>2, <2>3, <2>4, <2>5, <2>6 DEF StepType
<1> QED
  BY <1>1, <1>2, <1>3, <1>4 DEF TypeOK

(* Only live requests of the call are visited.                              *)
LEMMA VisitRange ==
  ASSUME NEW r, Visiting(r), todo \subseteq Rids
  PROVE  r \in todo /\ r \in Rids /\ pc = "open" /\ cur = 0
BY DEF Visiting, Turn

(* Scheduling tokens for a request keeps the shape.                         *)
LEMMA ScheduledType ==
  ASSUME TypeOK, NEW r \in Rids, NEW n \in 0..MaxTok, Scheduled(r, n)
  PROVE  reqs' \in [Rids -> Request] /\ num' \in [Rids -> 0..MaxTok]
<1>1. num' \in [Rids -> 0..MaxTok]
  BY DEF Scheduled, TypeOK, CallType
<1>2. ASSUME NEW q \in Request PROVE [q EXCEPT !.at = "running"] \in Request
  BY DEF Request
<1>3. reqs' \in [Rids -> Request]
  BY <1>2 DEF Scheduled, TypeOK, CallType
<1> QED
  BY <1>1, <1>3

(* Releasing a chunk and promoting another keeps the shape.                 *)
LEMMA ReleaseType ==
  ASSUME TypeOK, NEW r \in Rids, NEW rotates, NEW refusal,
         Release(r, rotates, refusal)
  PROVE  /\ credit' \in Int
         /\ grants' \in [Rids -> GrantType] /\ borrowed' \in BOOLEAN
         /\ rrSeq' \in [Rids -> Nat]
         /\ selected' \subseteq Rids /\ tried' \subseteq Rids
<1>1. grants[r].cost \in Nat
  BY DEF TypeOK, StepType, GrantType
<1>2. credit' \in Int
  BY <1>1 DEF Release, TypeOK, CreditType
<1>3. borrowed' \in BOOLEAN
  BY DEF Release, StillBorrowed
<1>4. grants' \in [Rids -> GrantType]
  BY EmptyType DEF Release, TypeOK, StepType
<1>5. rrSeq' \in [Rids -> Nat]
  BY StampType, NoneType DEF Release, TypeOK, RankType
<1>6. selected' \subseteq Rids /\ tried' \subseteq Rids
  BY DEF Release, Leading, TypeOK, StepType
<1> QED
  BY <1>2, <1>3, <1>4, <1>5, <1>6

(* cap_for keeps the shape, whatever it answers.                            *)
LEMMA VisitType ==
  ASSUME TypeOK, NEW r \in Rids, Visit(r)
  PROVE  TypeOK'
<1>1. CASE VisitUncapped(r)
  <2>1. PICK n \in 0..Larger(1, reqs[r].rem) : Scheduled(r, n)
    BY <1>1 DEF VisitUncapped
  <2>2. n \in 0..MaxTok
    BY <2>1, SizeAssumption DEF Larger, TypeOK, CallType, Request
  <2>3. CallType'
    BY <1>1, <2>1, <2>2, ScheduledType DEF VisitUncapped, TypeOK, CallType
  <2>4. RankType' /\ CreditType' /\ StepType'
    BY <1>1 DEF VisitUncapped, TypeOK, RankType, CreditType, StepType, rankVars, stepVars
  <2> QED
    BY <2>3, <2>4 DEF TypeOK
<1>2. CASE VisitPassed(r)
  <2>1. CallType' /\ RankType' /\ CreditType'
    BY <1>2 DEF VisitPassed, TypeOK, CallType, RankType, CreditType, rankVars, envVars
  <2>2. StepType'
    BY <1>2 DEF VisitPassed, TypeOK, StepType
  <2> QED
    BY <2>1, <2>2 DEF TypeOK
<1>3. CASE VisitGranted(r)
  <2>1. CallType' /\ RankType'
    BY <1>3 DEF VisitGranted, TypeOK, CallType, RankType, rankVars, envVars
  <2>2. PICK g \in Offers(r) : /\ grants' = [grants EXCEPT ![r] = g]
                               /\ credit' = credit - g.cost
                               /\ borrowed' = (borrowed \/ g.borrowed)
    BY <1>3 DEF VisitGranted
  <2>3. g \in GrantType
    <3>1. reqs[r] \in Request /\ reqs[r].rem > 0
      BY <1>3 DEF VisitGranted, HoldsTurn, TypeOK, CallType
    <3>2. reqs[r].rem \in 1..MaxTok
      BY <3>1, SizeAssumption DEF Request
    <3> QED
      BY <2>2, <3>2, OfferType DEF TypeOK, CreditType
  <2>4. /\ grants' \in [Rids -> GrantType] /\ credit' \in Int
        /\ borrowed' \in BOOLEAN
    BY <2>2, <2>3 DEF TypeOK, CreditType, StepType, GrantType
  <2>5. CreditType' /\ StepType'
    BY <1>3, <2>4 DEF VisitGranted, TypeOK, CreditType, StepType
  <2> QED
    BY <2>1, <2>5 DEF TypeOK
<1>4. CASE VisitDeferred(r)
  <2>1. Release(r, FALSE, FALSE)
    BY <1>4 DEF VisitDeferred
  <2>2. Tier[r] \in Nat
    BY TierAssumption
  <2>3. CallType' /\ RankType'
    BY <1>4, <2>1, ReleaseType
       DEF VisitDeferred, TypeOK, CallType, RankType, envVars
  <2>4. CreditType' /\ StepType'
    BY <1>4, <2>1, <2>2, ReleaseType DEF VisitDeferred, TypeOK, CreditType, StepType
  <2> QED
    BY <2>3, <2>4 DEF TypeOK
<1> QED
  BY <1>1, <1>2, <1>3, <1>4 DEF Visit

(* The outcome of a granted chunk keeps the shape.                          *)
LEMMA ChunkType ==
  ASSUME TypeOK, ChunkScheduled \/ ChunkZero \/ ChunkRefused
  PROVE  TypeOK'
<1>0. cur \in Rids
  BY DEF TypeOK, CallType, ChunkScheduled, ChunkZero, ChunkRefused
<1>1. CASE ChunkScheduled
  <2>1. PICK n \in 1..grants[cur].cap : Scheduled(cur, n)
    BY <1>1 DEF ChunkScheduled
  <2>2. grants[cur].cap \in 0..MaxTok
    BY <1>0 DEF TypeOK, StepType, GrantType
  <2>3. n \in 0..MaxTok
    BY <2>1, <2>2, SizeAssumption
  <2>4. CallType'
    BY <1>0, <1>1, <2>1, <2>3, ScheduledType DEF ChunkScheduled, TypeOK, CallType
  <2>5. RankType' /\ CreditType' /\ StepType'
    BY <1>1 DEF ChunkScheduled, TypeOK, RankType, CreditType, StepType, rankVars, stepVars
  <2> QED
    BY <2>4, <2>5 DEF TypeOK
<1>2. CASE ChunkZero
  <2>1. Release(cur, TRUE, FALSE)
    BY <1>2 DEF ChunkZero
  <2>2. CallType' /\ RankType'
    BY <1>0, <1>2, <2>1, ReleaseType DEF ChunkZero, TypeOK, CallType, RankType, envVars
  <2>3. CreditType' /\ StepType'
    BY <1>0, <1>2, <2>1, ReleaseType DEF ChunkZero, TypeOK, CreditType, StepType
  <2> QED
    BY <2>2, <2>3 DEF TypeOK
<1>3. CASE ChunkRefused
  <2>1. Release(cur, TRUE, TRUE)
    BY <1>3 DEF ChunkRefused
  <2>2. CallType' /\ RankType'
    BY <1>0, <1>3, <2>1, ReleaseType DEF ChunkRefused, TypeOK, CallType, RankType, envVars
  <2>3. CreditType' /\ StepType'
    BY <1>0, <1>3, <2>1, ReleaseType DEF ChunkRefused, TypeOK, CreditType, StepType
  <2> QED
    BY <2>2, <2>3 DEF TypeOK
<1> QED
  BY <1>1, <1>2, <1>3

(* A preemption keeps the shape.                                            *)
LEMMA PreemptType ==
  ASSUME TypeOK, NEW d \in Rids, NEW v \in Rids, Preempt(d, v)
  PROVE  TypeOK'
<1>1. PICK n \in 1..MaxTok :
        reqs' = [reqs EXCEPT ![v] = [at |-> "waiting", rem |-> n, obj |-> @.obj]]
  BY DEF Preempt
<1>2. ASSUME NEW q \in Request
      PROVE  [at |-> "waiting", rem |-> n, obj |-> q.obj] \in Request
  BY <1>1, SizeAssumption DEF Request
<1>3. reqs' \in [Rids -> Request]
  BY <1>1, <1>2 DEF TypeOK, CallType
<1>4. CallType'
  BY <1>3, SizeAssumption, LimitAssumption DEF Preempt, Happens, TypeOK, CallType
<1>5. RankType' /\ CreditType' /\ StepType'
  BY DEF Preempt, TypeOK, RankType, CreditType, StepType, rankVars, stepVars
<1> QED
  BY <1>4, <1>5 DEF TypeOK

(* A loop that ends early keeps the shape.                                  *)
LEMMA LoopEndsType ==
  ASSUME TypeOK, LoopEnds
  PROVE  TypeOK'
<1>1. CallType'
  BY LimitAssumption DEF LoopEnds, Happens, TypeOK, CallType
<1>2. RankType' /\ CreditType' /\ StepType'
  BY DEF LoopEnds, TypeOK, RankType, CreditType, StepType, rankVars, stepVars
<1> QED
  BY <1>1, <1>2 DEF TypeOK

(* A step that ends leaves well-formed fields behind.                       *)
LEMMA StepEndsType ==
  ASSUME StepEnds
  PROVE  /\ pc' = "idle" /\ cur' = 0 /\ todo' = {} /\ num' \in [Rids -> 0..MaxTok]
         /\ hadDecode' \in BOOLEAN /\ borrowed' \in BOOLEAN /\ stepMode' = "solo"
         /\ candidates' = {} /\ rank' \in [Rids -> Nat]
         /\ selected' = {} /\ tried' = {} /\ passed' = {} /\ deferredTiers' = {}
<1>1. hadDecode' \in BOOLEAN /\ borrowed' \in BOOLEAN
  BY DEF StepEnds
<1>2. num' \in [Rids -> 0..MaxTok] /\ rank' \in [Rids -> Nat]
  BY EmptyType, NoneType DEF StepEnds
<1> QED
  BY <1>1, <1>2 DEF StepEnds

(* finish_step keeps the shape.                                             *)
LEMMA FinishStepType ==
  ASSUME TypeOK, FinishStep
  PROVE  TypeOK'
<1>1. CallType'
  <2>1. ASSUME NEW r \in Rids
        PROVE  [reqs[r] EXCEPT !.rem = @ - PrefillPart(r)] \in Request
    BY PrefillPartType, SizeAssumption DEF TypeOK, CallType, Request
  <2>2. reqs' \in [Rids -> Request]
    BY <2>1 DEF FinishStep
  <2> QED
    BY <2>2, StepEndsType DEF FinishStep, TypeOK, CallType
<1>2. RankType'
  BY DEF FinishStep, TypeOK, RankType, rankVars
<1>3. CreditType'
  <2> DEFINE prefill == [r \in Rids |-> PrefillPart(r)]
             rec == [had_decode |-> hadDecode, prefill |-> prefill,
                     reserved |-> Charged, since |-> 0,
                     incarn |-> [r \in Rids |->
                                   IF prefill[r] > 0 THEN incarn[r] ELSE 0]]
  <2>1. prefill \in [Rids -> 0..MaxTok]
    BY PrefillPartType
  <2>2. [r \in Rids |-> IF prefill[r] > 0 THEN incarn[r] ELSE 0] \in [Rids -> Nat]
    BY DEF TypeOK, RankType
  <2>3. rec \in Flight
    <3> HIDE DEF prefill
    <3> QED
      BY <2>1, <2>2, ChargedType, LimitAssumption DEF Flight, TypeOK, StepType
  <2>4. inflight' = inflight \/ inflight' = Append(inflight, rec)
    BY DEF FinishStep
  <2>5. inflight' \in Seq(Flight)
    <3> HIDE DEF rec
    <3> QED
      BY <2>3, <2>4 DEF TypeOK, CreditType
  <2>6. credit' \in Int
    BY ReservedType, ChargedType DEF FinishStep, TypeOK, CreditType
  <2> QED
    BY <2>5, <2>6 DEF FinishStep, TypeOK, CreditType
<1>4. StepType'
  <2>1. recOpen' \in BOOLEAN /\ grants' \in [Rids -> GrantType] /\ StepEnds
    BY EmptyType DEF FinishStep
  <2> QED
    BY <2>1, StepEndsType DEF StepType
<1> QED
  BY <1>1, <1>2, <1>3, <1>4 DEF TypeOK

(* A step that fails keeps the shape.                                       *)
LEMMA AbortStepType ==
  ASSUME TypeOK, AbortStep
  PROVE  TypeOK'
<1>1. CallType'
  BY StepEndsType, LimitAssumption DEF AbortStep, Happens, TypeOK, CallType
<1>2. RankType' /\ CreditType'
  BY DEF AbortStep, TypeOK, RankType, CreditType, rankVars
<1>3. StepType'
  BY StepEndsType DEF AbortStep, TypeOK, StepType
<1> QED
  BY <1>1, <1>2, <1>3 DEF TypeOK

(* observe_output keeps the shape.                                          *)
LEMMA ObserveType ==
  ASSUME TypeOK, Observe
  PROVE  TypeOK'
<1> DEFINE rec == Head(inflight)
           dt == BusyTime(rec)
           served == {r \in Rids : rec.prefill[r] > 0}
           credited == {r \in served : rec.incarn[r] = incarn[r]}
           cost == IF served = {} THEN 0 ELSE Unit * dt
<1>0. rec \in Flight /\ inflight' \in Seq(Flight)
  <2>1. inflight \in Seq(Flight) /\ inflight # <<>> /\ inflight' = Tail(inflight)
    BY DEF Observe, TypeOK, CreditType
  <2> QED
    BY <2>1
<1>1. dt \in 0..MaxDt /\ rec.reserved \in Nat /\ rec.incarn \in [Rids -> Nat]
  BY <1>0, LimitAssumption DEF BusyTime, Smaller, Flight, TypeOK, CreditType
<1>2. CallType' /\ StepType'
  BY DEF Observe, TypeOK, CallType, StepType, envVars, callVars, stepVars
<1>3. RankType'
  <2>1. PICK pos \in Orders(credited) :
          /\ lastService' = Pruned(Stamp(lastService, credited, None))
          /\ rrSeq' = Pruned(Stamp(rrSeq, credited, pos))
    BY DEF Observe
  <2>2. \A r \in credited : pos[r] \in Nat
    BY <2>1 DEF Orders
  <2>3. lastService' \in [Rids -> Nat]
    BY <2>1, StampType, NoneType, KeptType DEF TypeOK, RankType
  <2>4. rrSeq' \in [Rids -> Nat]
    BY <2>1, <2>2, StampType, KeptType DEF TypeOK, RankType
  <2>5. age' \in [Rids -> 0..Interval]
    BY LimitAssumption DEF Observe, Pruned, TypeOK, RankType
  <2>6. earnedBy' \in [Rids -> Nat]
    <3>1. [r \in Rids |-> IF r \in credited THEN rec.incarn[r] ELSE earnedBy[r]]
            \in [Rids -> Nat]
      BY <1>1 DEF TypeOK, RankType
    <3> QED
      BY <3>1, KeptType DEF Observe
  <2>7. arrival' \in [Rids -> Nat] /\ incarn' \in [Rids -> Nat]
    BY KeptType DEF Observe, TypeOK, RankType
  <2>8. refused' \subseteq Rids /\ refusedPrev' \subseteq Rids
    BY DEF Observe, TypeOK, RankType
  <2> QED
    BY <2>3, <2>4, <2>5, <2>6, <2>7, <2>8 DEF RankType
<1>4. CreditType'
  <2>1. Unit * dt \in Int /\ Share * dt \in Int
    BY <1>1, LimitAssumption
  <2>2. cost \in Int
    BY <2>1
  <2>3. Settled(rec, dt, cost) \in Int
    <3> HIDE DEF cost, dt, rec
    <3> QED
      BY <1>1, <2>1, <2>2 DEF Settled, TypeOK, CreditType
  <2>4. credit' \in Int
    <3>1. credit' = Capped(Settled(rec, dt, cost)) \/ credit' = credit
      BY DEF Observe
    <3> QED
      BY <2>3, <3>1, CappedBound DEF TypeOK, CreditType
  <2>5. model' \in Models /\ mixedSeen' \in BOOLEAN
    BY DEF Observe, TypeOK, CreditType
  <2>6. acct' \in 0..MaxDt /\ inContention' \in BOOLEAN
    BY LimitAssumption DEF Observe, TypeOK, CreditType
  <2> QED
    BY <1>0, <2>4, <2>5, <2>6 DEF CreditType
<1> QED
  BY <1>2, <1>3, <1>4 DEF TypeOK

(* Every handler keeps the state in its shape.                              *)
LEMMA StepTypeOK == TypeOK /\ [Next]_vars => TypeOK'
<1>1. ASSUME TypeOK, UNCHANGED vars PROVE TypeOK'
  BY <1>1 DEF TypeOK, CallType, RankType, CreditType, StepType, vars, envVars,
              callVars, rankVars, stepVars
<1>2. ASSUME TypeOK, Next PROVE TypeOK'
  BY <1>2, EnvironmentType, TickType, BeginStepType, VisitType, PreemptType,
     ChunkType, LoopEndsType, FinishStepType, AbortStepType, ObserveType DEF Next
<1> QED
  BY <1>1, <1>2

(* The shape of the state holds in every behaviour, for every choice of     *)
(* requests, tiers, sizes, estimates and limits.                            *)
THEOREM TypeCorrect == Spec => []TypeOK
<1>1. Init => TypeOK
  BY InitType
<1>2. TypeOK /\ [Next]_vars => TypeOK'
  BY StepTypeOK
<1> QED
  BY <1>1, <1>2, PTL DEF Spec

-----------------------------------------------------------------------------
(* The budget of a step and the debt                                        *)

(* Only a record that was not finished has grants.  A step that is over     *)
(* leaves nothing else behind.                                              *)
Ledger ==
  /\ pc = "open" => recOpen
  /\ ~recOpen => Granted = {}
  /\ pc = "idle" => /\ cur = 0 /\ todo = {}
                    /\ ~hadDecode /\ ~borrowed /\ stepMode = "solo"

(* A request is visited once: until then it holds no grant and no tokens.   *)
(* What is granted is what it still needs.                                  *)
Held ==
  /\ \A r \in Rids : grants[r].cap = 0 => grants[r] = NoGrant
  /\ \A r \in todo : r \notin Granted /\ num[r] = 0
  /\ cur # 0 => /\ cur \in Granted /\ num[cur] = 0
                /\ grants[cur].cap <= reqs[cur].rem

(* Chunks are granted in a prefill turn only, and never out of debt; only   *)
(* they are prefilled next to a decoder.                                    *)
Turns ==
  /\ stepMode = "prefill_turn" => hadDecode /\ inContention /\ ~InflightPrefill
  /\ pc = "open" /\ Granted # {} =>
       stepMode = "prefill_turn" /\ credit + Reserved >= 0
  /\ Granted # {} => inContention
  /\ borrowed => credit < 0
  /\ hadDecode /\ stepMode = "solo" => \A r \in todo : reqs[r].rem = 0
  /\ hadDecode => \A r \in Rids : num[r] > 0 /\ reqs[r].rem > 0 => r \in Granted

(* What an output in flight can still charge was covered when it was        *)
(* granted, and it was granted in contention that has not ended since.      *)
Covered ==
  \A i \in DOMAIN inflight :
    /\ inflight[i].reserved > 0 => inflight[i].had_decode /\ HasPrefill(inflight[i])
    /\ inflight[i].had_decode /\ HasPrefill(inflight[i]) =>
         /\ inContention
         /\ credit + Reserved + inflight[i].reserved >= 0

Bounds == /\ SlotBound /\ StepBudget /\ BorrowAlone /\ SoleContendedPrefill
          /\ NoDebtOutsideContention /\ DebtBounded /\ CreditCeiling

IInv == TypeOK /\ Ledger /\ Held /\ Turns /\ Covered /\ Bounds

-----------------------------------------------------------------------------
(* Arithmetic of the account                                                *)

(* A step leaves at most MaxDebt unpaid, however long it took.              *)
LEMMA MaxDebtType ==
  /\ MaxDebt \in Nat
  /\ \A dt \in 0..MaxDt : /\ Share * dt \in Nat
                          /\ Share * dt - Unit * dt >= -MaxDebt
<1> DEFINE unpaid == Unit - Share
<1>1. unpaid \in Nat /\ MaxDt \in Nat /\ Share \in Nat /\ Unit \in Nat
  BY LimitAssumption
<1>2. ASSUME NEW k \in Nat, NEW a \in Nat, NEW b \in Nat, a <= b
      PROVE  k * a <= k * b /\ k * a \in Nat
  <2>1. PICK c \in Nat : b = a + c
    <3>1. b - a \in Nat /\ b = a + (b - a)
      BY <1>2
    <3> QED
      BY <3>1
  <2>2. k * b = k * a + k * c /\ k * a \in Nat /\ k * c \in Nat
    BY <1>2, <2>1
  <2> QED
    BY <2>2
<1>3. MaxDebt = unpaid * MaxDt
  BY DEF MaxDebt
<1>4. ASSUME NEW dt \in 0..MaxDt
      PROVE  /\ Share * dt \in Nat
             /\ Share * dt - Unit * dt >= -MaxDebt
  <2>1. dt \in Nat /\ dt <= MaxDt
    BY <1>1
  <2>2. Share * dt \in Nat /\ unpaid * dt <= unpaid * MaxDt
    BY <1>1, <1>2, <2>1
  <2>3. Share * dt - Unit * dt = -(unpaid * dt)
    BY <1>1, <2>1
  <2>4. unpaid * dt \in Nat /\ unpaid * MaxDt \in Nat
    BY <1>1, <1>2, <2>1
  <2> QED
    <3> HIDE DEF unpaid
    <3> QED
      BY <1>3, <2>2, <2>3, <2>4
<1>5. MaxDebt \in Nat
  <2> HIDE DEF unpaid
  <2> QED
    BY <1>1, <1>2, <1>3
<1> QED
  BY <1>4, <1>5

(* Outputs in flight are records of their type.                             *)
LEMMA FlightType ==
  ASSUME TypeOK, NEW i \in DOMAIN inflight
  PROVE  /\ inflight[i].reserved \in Nat /\ inflight[i].had_decode \in BOOLEAN
         /\ inflight[i].prefill \in [Rids -> 0..MaxTok]
         /\ inflight[i].since \in 0..MaxDt
<1>1. inflight[i] \in Flight
  BY DEF TypeOK, CreditType
<1> QED
  BY <1>1 DEF Flight

(* The fields of a grant, and when a request holds one.                     *)
LEMMA GrantsType ==
  ASSUME TypeOK, NEW r \in Rids
  PROVE  /\ grants[r].cap \in 0..MaxTok /\ grants[r].cost \in Nat
         /\ grants[r].borrowed \in BOOLEAN
         /\ r \in Granted <=> grants[r].cap # 0
<1>1. grants[r] \in GrantType
  BY DEF TypeOK, StepType
<1> QED
  BY <1>1, SizeAssumption DEF GrantType, Granted

(* Where nothing is granted, nothing is reserved.                           *)
LEMMA NothingReserved ==
  ASSUME TypeOK, Held, Granted = {}
  PROVE  Reserved = 0
<1>1. \A r \in Rids : grants[r] = NoGrant /\ NoGrant.cost = 0
  BY GrantsType DEF Held, NoGrant
<1>2. grants \in [Rids -> GrantType] /\ \A r \in Rids : grants[r].cost = 0
  BY <1>1 DEF TypeOK, StepType
<1> QED
  BY <1>2, CostsType, ReservedIs

(* A step that moves credit into reservations, or back, disturbs none of    *)
(* the facts about what is in flight.                                       *)
LEMMA SameBalance ==
  ASSUME IInv, TypeOK', inflight' = inflight, inContention' = inContention,
         credit' + Reserved' = credit + Reserved
  PROVE  Covered' /\ SoleContendedPrefill' /\ DebtBounded' /\ CreditCeiling'
<1>1. Covered'
  BY DEF IInv, Covered, HasPrefill
<1>2. SoleContendedPrefill'
  BY DEF IInv, Bounds, SoleContendedPrefill, HasPrefill
<1>3. DebtBounded'
  BY DEF IInv, Bounds, DebtBounded, MaxDebt
<1>4. CreditCeiling'
  BY DEF IInv, Bounds, CreditCeiling
<1> QED
  BY <1>1, <1>2, <1>3, <1>4

(* The room left for a promotion is what the other chunks do not take.      *)
LEMMA SlotsKept ==
  ASSUME NEW A \in SUBSET Rids, NEW S \in SUBSET Rids, NEW key,
         NEW T \in Leading(S, Room(A), key)
  PROVE  Cardinality(A \cup T) <= MaxChunks
<1>1. IsFiniteSet(A) /\ Cardinality(A) \in Nat
  BY RidsAssumption, FS_Subset, FS_CardinalityType
<1>2. Room(A) \in Int
  BY <1>1, LimitAssumption DEF Room
<1>3. IsFiniteSet(T) /\ Cardinality(T) \in Nat /\ Cardinality(T) <= Room(A)
  BY <1>2, LeadingBound
<1>4. Cardinality(A \cap T) \in Nat
  BY <1>1, FS_Subset, FS_CardinalityType
<1>5. Cardinality(A \cup T) = Cardinality(A) + Cardinality(T) - Cardinality(A \cap T)
  BY <1>1, <1>3, FS_Union
<1> QED
  BY <1>1, <1>3, <1>4, <1>5, LimitAssumption DEF Room
-----------------------------------------------------------------------------
(* The invariant holds initially, and between the calls of schedule()       *)

(* The initial states satisfy the inductive invariant.                      *)
LEMMA InitIInv == Init => IInv
<1> SUFFICES ASSUME Init PROVE IInv
  OBVIOUS
<1>1. TypeOK
  BY InitType
<1>2. Granted = {} /\ \A r \in Rids : grants[r] = NoGrant
  BY DEF Init, Granted, NoGrant
<1>3. Ledger /\ Held /\ Turns /\ Reserved = 0
  <2>1. Ledger /\ Held /\ Turns
    BY <1>2 DEF Init, Ledger, Held, Turns
  <2> QED
    BY <1>1, <1>2, <2>1, NothingReserved
<1>4. Covered /\ SoleContendedPrefill
  BY DEF Init, Covered, SoleContendedPrefill
<1>5. SlotBound
  BY <1>2, FS_EmptySet, LimitAssumption DEF Init, SlotBound
<1>6. StepBudget /\ BorrowAlone /\ NoDebtOutsideContention /\ DebtBounded
      /\ CreditCeiling
  BY <1>3, LimitAssumption, MaxDebtType
     DEF Init, StepBudget, BorrowAlone, NoDebtOutsideContention, DebtBounded, CreditCeiling
<1> QED
  BY <1>1, <1>3, <1>4, <1>5, <1>6 DEF IInv, Bounds

(* Arrivals, departures and a new scheduler keep the invariant.             *)
LEMMA EnvironmentIInv ==
  ASSUME IInv, Environment
  PROVE  IInv'
<1>1. /\ pc = "idle"
      /\ UNCHANGED <<callVars, stepVars, credit, inContention, inflight>>
  BY DEF Environment, Arrive, Leave, NewScheduler
<1>2. TypeOK'
  BY EnvironmentType DEF IInv
<1>3. /\ cur' = 0 /\ todo' = {} /\ ~hadDecode'
      /\ Granted' = Granted /\ InflightPrefill' = InflightPrefill
      /\ Reserved' = Reserved
  BY <1>1, ReservedType DEF IInv, Ledger, callVars, stepVars, Granted, InflightPrefill, HasPrefill
<1>4. Ledger' /\ Held' /\ Turns'
  BY <1>1, <1>3 DEF IInv, Ledger, Held, Turns, callVars, stepVars, NoGrant
<1>5. Covered' /\ SoleContendedPrefill' /\ DebtBounded' /\ CreditCeiling'
  BY <1>1, <1>2, <1>3, SameBalance
<1>6. SlotBound' /\ StepBudget' /\ BorrowAlone' /\ NoDebtOutsideContention'
  BY <1>1, <1>3 DEF IInv, Bounds, SlotBound, StepBudget, BorrowAlone,
                    NoDebtOutsideContention, callVars, stepVars
<1> QED
  BY <1>2, <1>4, <1>5, <1>6 DEF IInv, Bounds

(* The clock keeps the invariant.                                           *)
LEMMA TickIInv ==
  ASSUME IInv, Tick
  PROVE  IInv'
<1>1. UNCHANGED <<reqs, callVars, stepVars, credit, inContention>>
  BY DEF Tick, envVars
<1>2. /\ DOMAIN inflight' = DOMAIN inflight
      /\ \A i \in DOMAIN inflight :
           /\ inflight'[i].had_decode = inflight[i].had_decode
           /\ inflight'[i].prefill = inflight[i].prefill
           /\ inflight'[i].reserved = inflight[i].reserved
  <2>1. inflight \in Seq(Flight)
    BY DEF IInv, TypeOK, CreditType
  <2>2. \A i \in DOMAIN inflight : inflight[i] \in Flight
    BY <2>1
  <2> QED
    BY <2>2 DEF Tick, Flight
<1>3. \A i \in DOMAIN inflight : HasPrefill(inflight'[i]) <=> HasPrefill(inflight[i])
  BY <1>2 DEF HasPrefill
<1>4. TypeOK'
  BY TickType DEF IInv
<1>5. /\ Granted' = Granted /\ (InflightPrefill' <=> InflightPrefill)
      /\ Reserved' = Reserved
  BY <1>1, <1>2, <1>3, ReservedType DEF Granted, InflightPrefill, stepVars, HasPrefill
<1>6. Ledger' /\ Held' /\ Turns'
  BY <1>1, <1>5 DEF IInv, Ledger, Held, Turns, callVars, stepVars, NoGrant
<1>7. Covered'
  BY <1>1, <1>2, <1>3, <1>5 DEF IInv, Covered, HasPrefill
<1>8. SoleContendedPrefill'
  BY <1>2, <1>3 DEF IInv, Bounds, SoleContendedPrefill, HasPrefill
<1>9. DebtBounded'
  BY <1>1, <1>2, <1>5 DEF IInv, Bounds, DebtBounded, MaxDebt
<1>10. SlotBound' /\ StepBudget' /\ BorrowAlone' /\ NoDebtOutsideContention'
       /\ CreditCeiling'
  BY <1>1, <1>5 DEF IInv, Bounds, SlotBound, StepBudget, BorrowAlone, CreditCeiling,
                    NoDebtOutsideContention, callVars, stepVars
<1> QED
  BY <1>4, <1>6, <1>7, <1>8, <1>9, <1>10 DEF IInv, Bounds

-----------------------------------------------------------------------------
(* begin_step                                                               *)

(* begin_step keeps the invariant: an open record is refunded.              *)
LEMMA BeginStepIInv ==
  ASSUME IInv, BeginStep
  PROVE  IInv'
<1> DEFINE flight == IF newSched THEN <<>> ELSE inflight
           decoding == Decoding(flight)
           contending == inContention /\ ~newSched /\ decoding
           turn == Prefills # {} /\ Decodes # {}
           busy == \E i \in DOMAIN flight : HasPrefill(flight[i])
           funds == CASE newSched -> 0
                      [] ~newSched /\ recOpen -> credit + Reserved
                      [] OTHER -> credit
<1>1. TypeOK' /\ TypeOK
  BY BeginStepType DEF IInv
<1>2. Granted' = {} /\ \A r \in Rids : grants'[r] = NoGrant /\ num'[r] = 0
  BY DEF BeginStep, Granted, NoGrant, None
<1>3. /\ hadDecode' <=> Decodes # {}
      /\ stepMode' = ModeOf(turn, busy) /\ inflight' = flight
      /\ inContention' <=> contending \/ turn
      /\ credit' = IF turn /\ ~contending THEN Smaller(MaxStep, Cost(Chunk))
                   ELSE Carried(funds, decoding)
      /\ Reserved' = 0 /\ cur' = 0 /\ pc' = "open" /\ recOpen'
      /\ ~borrowed' /\ todo' = Live /\ reqs' = reqs
  BY ReservedType DEF BeginStep
<1>4. InflightPrefill' <=> busy
  BY <1>3 DEF InflightPrefill, HasPrefill
<1>5. Ledger' /\ Held'
  BY <1>2, <1>3 DEF Ledger, Held, NoGrant, Live
<1>6. Turns'
  <2>1. stepMode' = "prefill_turn" => hadDecode' /\ inContention' /\ ~InflightPrefill'
    BY <1>3, <1>4 DEF ModeOf
  <2>2. hadDecode' /\ stepMode' = "solo" => \A r \in todo' : reqs'[r].rem = 0
    <3>1. SUFFICES ASSUME Decodes # {}, stepMode' = "solo", NEW r \in Live
                   PROVE  reqs[r].rem = 0
      BY <1>3
    <3>2. Prefills = {}
      BY <1>3, <3>1 DEF ModeOf
    <3>3. reqs[r].rem \in Nat
      BY <1>1, SizeAssumption DEF Live, TypeOK, CallType, Request
    <3> QED
      BY <3>2, <3>3 DEF Prefills
  <2> QED
    <3>1. Granted' = {} /\ ~borrowed' /\ \A r \in Rids : ~(num'[r] > 0)
      BY <1>2, <1>3
    <3> QED
      BY <2>1, <2>2, <3>1 DEF Turns
<1>7. turn /\ ~contending => credit' > 0 /\ credit' <= MaxStep
  <2>1. Cost(Chunk) \in Nat \ {0}
    BY <1>1, CostType, SizeAssumption DEF TypeOK, CreditType
  <2>2. ASSUME turn, ~contending PROVE credit' = Smaller(MaxStep, Cost(Chunk))
    BY <1>3, <2>2
  <2> HIDE DEF turn, contending
  <2> QED
    BY <2>1, <2>2, LimitAssumption DEF Smaller
<1>8. ~newSched => funds = credit + Reserved
  <2>1. ~recOpen => Reserved = 0
    BY NothingReserved DEF IInv, Ledger
  <2> QED
    BY <1>1, <2>1, ReservedType DEF TypeOK, CreditType, StepType
<1>9. newSched => funds = 0
  OBVIOUS
<1>10. ASSUME NEW i \in DOMAIN inflight', inflight'[i].had_decode
       PROVE  /\ ~newSched /\ i \in DOMAIN inflight /\ inflight'[i] = inflight[i]
              /\ decoding
              /\ ~(turn /\ ~contending) => credit' = credit + Reserved
  <2>1. ~newSched /\ i \in DOMAIN inflight /\ inflight'[i] = inflight[i]
    BY <1>3, <1>10
  <2>2. decoding
    BY <1>3, <1>10 DEF Decoding
  <2> QED
    BY <1>3, <1>8, <2>1, <2>2 DEF Carried
<1>11. Covered'
  <2>1. ASSUME NEW i \in DOMAIN inflight'
        PROVE  /\ inflight'[i].reserved > 0
                    => inflight'[i].had_decode /\ HasPrefill(inflight'[i])
               /\ inflight'[i].had_decode /\ HasPrefill(inflight'[i]) =>
                    /\ inContention'
                    /\ credit' + Reserved' + inflight'[i].reserved >= 0
    <3>1. inflight'[i] = inflight[i] /\ i \in DOMAIN inflight
      BY <1>3
    <3>2. inflight[i].reserved \in Nat
      BY <1>1, <3>1, FlightType
    <3>3. inflight'[i].reserved > 0 => inflight'[i].had_decode /\ HasPrefill(inflight'[i])
      BY <3>1 DEF IInv, Covered
    <3>4. ASSUME inflight'[i].had_decode, HasPrefill(inflight'[i])
          PROVE  /\ inContention'
                 /\ credit' + Reserved' + inflight'[i].reserved >= 0
      <4>1. inContention /\ credit + Reserved + inflight[i].reserved >= 0
        BY <3>1, <3>4 DEF IInv, Covered
      <4>2. contending
        BY <1>10, <3>4, <4>1
      <4>3. credit' = credit + Reserved
        BY <1>10, <3>4, <4>2
      <4> QED
        <5>1. inContention' /\ Reserved' = 0
          BY <1>3, <4>2
        <5>2. credit \in Int /\ Reserved \in Int
          BY <1>1, ReservedType DEF TypeOK, CreditType
        <5> QED
          BY <3>1, <3>2, <4>1, <4>3, <5>1, <5>2
    <3> QED
      BY <3>3, <3>4
  <2> QED
    BY <2>1 DEF Covered, HasPrefill
<1>12. SoleContendedPrefill'
  BY <1>3 DEF IInv, Bounds, SoleContendedPrefill, HasPrefill
<1>13. DebtBounded'
  <2>1. CASE turn /\ ~contending
    BY <1>1, <1>3, <1>7, <2>1, MaxDebtType DEF DebtBounded, MaxDebt, TypeOK, CreditType
  <2>2. CASE ~(turn /\ ~contending) /\ (newSched \/ ~decoding)
    BY <1>3, <1>9, <2>2, MaxDebtType DEF DebtBounded, MaxDebt, Carried
  <2>3. CASE ~(turn /\ ~contending) /\ ~newSched /\ decoding
    <3>1. credit' + Reserved' = credit + Reserved /\ inflight' = inflight
      BY <1>1, <1>3, <1>8, <2>3, ReservedType DEF Carried, TypeOK, CreditType
    <3> QED
      BY <3>1 DEF DebtBounded, MaxDebt, IInv, Bounds
  <2> QED
    BY <2>1, <2>2, <2>3
<1>14. NoDebtOutsideContention'
  <2>1. SUFFICES ASSUME ~contending, ~turn PROVE credit' >= 0
    BY <1>3 DEF NoDebtOutsideContention
  <2>2. credit' = Carried(funds, decoding)
    BY <1>3, <2>1
  <2>3. CASE newSched \/ ~decoding
    BY <1>9, <2>2, <2>3 DEF Carried
  <2>4. CASE ~newSched /\ decoding
    <3>1. ~inContention
      BY <2>1, <2>4
    <3>2. credit >= 0 /\ Reserved = 0
      BY <3>1, NothingReserved DEF IInv, Bounds, NoDebtOutsideContention, Turns
    <3> QED
      BY <1>1, <1>8, <2>2, <2>4, <3>2 DEF Carried, TypeOK, CreditType
  <2> QED
    BY <2>3, <2>4
<1>15. CreditCeiling'
  <2>1. CASE turn /\ ~contending
    BY <1>1, <1>3, <1>7, <2>1, LimitAssumption DEF CreditCeiling, TypeOK, CreditType
  <2>2. CASE ~(turn /\ ~contending) /\ (newSched \/ ~decoding)
    BY <1>3, <1>9, <2>2, LimitAssumption DEF CreditCeiling, Carried
  <2>3. CASE ~(turn /\ ~contending) /\ ~newSched /\ decoding
    <3>1. credit' + Reserved' = credit + Reserved
      BY <1>1, <1>3, <1>8, <2>3, ReservedType DEF Carried, TypeOK, CreditType
    <3> QED
      BY <3>1 DEF CreditCeiling, IInv, Bounds
  <2> QED
    BY <2>1, <2>2, <2>3
<1>16. SlotBound'
  <2> DEFINE key == [r \in Rids |-> <<rank'[r]>>]
  <2>1. CASE stepMode' # "prefill_turn"
    <3>1. selected' = {}
      BY <2>1 DEF BeginStep
    <3> QED
      BY <1>2, <3>1, FS_EmptySet, LimitAssumption DEF SlotBound
  <2>2. CASE stepMode' = "prefill_turn"
    <3>1. PICK T \in Leading(Prefills \ refusedPrev', MaxChunks, key) :
            \E U \in Leading(Prefills \ T, Room(T), key) : selected' = T \cup U
      BY <2>2 DEF BeginStep
    <3>2. PICK U \in Leading(Prefills \ T, Room(T), key) : selected' = T \cup U
      BY <3>1
    <3>3. Prefills \ T \in SUBSET Rids /\ T \in SUBSET Rids
      BY <3>1 DEF Prefills, Live, Leading
    <3>4. Cardinality(T \cup U) <= MaxChunks
      <4> HIDE DEF key
      <4> QED
        BY <3>2, <3>3, SlotsKept
    <3> QED
      BY <1>2, <3>2, <3>4 DEF SlotBound
  <2> QED
    BY <2>1, <2>2
<1>17. StepBudget' /\ BorrowAlone'
  BY <1>2, <1>3, LimitAssumption DEF StepBudget, BorrowAlone, NoGrant
<1> QED
  BY <1>1, <1>5, <1>6, <1>11, <1>12, <1>13, <1>14, <1>15, <1>16, <1>17 DEF IInv, Bounds
-----------------------------------------------------------------------------
(* The visits                                                               *)

(* Scheduling tokens changes nothing of the account.                        *)
LEMMA ScheduledFrame ==
  ASSUME TypeOK, NEW r \in Rids, NEW n \in Nat, Scheduled(r, n)
  PROVE  /\ \A q \in Rids : reqs'[q].rem = reqs[q].rem
         /\ \A q \in Rids \ {r} : num'[q] = num[q]
         /\ num'[r] = n
<1>1. reqs \in [Rids -> Request] /\ num \in [Rids -> 0..MaxTok]
  BY DEF TypeOK, CallType
<1>2. \A q \in Rids : reqs'[q].rem = reqs[q].rem
  BY <1>1 DEF Scheduled, Request
<1> QED
  BY <1>1, <1>2 DEF Scheduled

(* Visiting a request without a cap keeps the invariant.                    *)
LEMMA VisitUncappedIInv ==
  ASSUME IInv, NEW r \in Rids, VisitUncapped(r)
  PROVE  IInv'
<1>1. TypeOK /\ TypeOK'
  BY VisitType DEF IInv, Visit
<1>2. r \in todo /\ pc = "open" /\ cur = 0
  BY <1>1, VisitRange DEF VisitUncapped, TypeOK, CallType
<1>3. PICK n \in 0..Larger(1, reqs[r].rem) : Scheduled(r, n)
  BY DEF VisitUncapped
<1>4. reqs[r].rem \in Nat /\ n \in Nat
  <2>1. reqs[r].rem \in Nat
    BY <1>1, SizeAssumption DEF TypeOK, CallType, Request
  <2> QED
    BY <1>3, <2>1 DEF Larger
<1>5. /\ \A q \in Rids : reqs'[q].rem = reqs[q].rem
      /\ \A q \in Rids \ {r} : num'[q] = num[q]
  BY <1>1, <1>3, <1>4, ScheduledFrame
<1>6. /\ todo' = todo \ {r}
      /\ UNCHANGED <<pc, cur, stepVars, credit, inContention, inflight>>
      /\ reqs[r].rem = 0 \/ stepMode = "solo"
  BY DEF VisitUncapped
<1>7. /\ Granted' = Granted /\ (InflightPrefill' <=> InflightPrefill)
      /\ Reserved' = Reserved
  BY <1>6, ReservedType DEF Granted, InflightPrefill, HasPrefill, stepVars
<1>8. Ledger' /\ Held'
  BY <1>2, <1>5, <1>6, <1>7 DEF IInv, Ledger, Held, NoGrant, stepVars, TypeOK, CallType
<1>9. Turns'
  <2>1. stepMode' = "prefill_turn" => hadDecode' /\ inContention' /\ ~InflightPrefill'
    BY <1>6, <1>7 DEF IInv, Turns, stepVars
  <2>2. /\ Granted' # {} => stepMode' = "prefill_turn" /\ credit' + Reserved' >= 0
        /\ Granted' # {} => inContention'
    BY <1>2, <1>6, <1>7 DEF IInv, Turns, stepVars
  <2>3. hadDecode' /\ stepMode' = "solo" => \A q \in todo' : reqs'[q].rem = 0
    BY <1>1, <1>5, <1>6 DEF IInv, Turns, stepVars, TypeOK, CallType
  <2>4. ASSUME hadDecode', NEW q \in Rids, num'[q] > 0, reqs'[q].rem > 0
        PROVE  q \in Granted'
    <3>1. hadDecode /\ reqs[q].rem > 0
      BY <1>5, <1>6, <2>4 DEF stepVars
    <3>2. q # r
      BY <1>2, <1>6, <3>1 DEF IInv, Turns
    <3> QED
      BY <1>5, <1>7, <2>4, <3>1, <3>2 DEF IInv, Turns
  <2> QED
    BY <1>6, <2>1, <2>2, <2>3, <2>4 DEF IInv, Turns, stepVars
<1>10. Covered' /\ SoleContendedPrefill' /\ DebtBounded' /\ CreditCeiling'
  BY <1>1, <1>6, <1>7, SameBalance
<1>11. SlotBound' /\ StepBudget' /\ BorrowAlone' /\ NoDebtOutsideContention'
  BY <1>6, <1>7 DEF IInv, Bounds, SlotBound, StepBudget, BorrowAlone,
                    NoDebtOutsideContention, stepVars
<1> QED
  BY <1>1, <1>8, <1>9, <1>10, <1>11 DEF IInv, Bounds

(* Leaving the list of requests to visit is all that is done to the others. *)
LEMMA FewerToVisit ==
  ASSUME IInv, TypeOK', todo' \subseteq todo, pc' = pc,
         UNCHANGED <<reqs, cur, num, recOpen, hadDecode, stepMode, selected,
                     grants, borrowed, credit, inContention, inflight>>
  PROVE  IInv'
<1>1. /\ Granted' = Granted /\ (InflightPrefill' <=> InflightPrefill)
      /\ Reserved' = Reserved
  BY ReservedType DEF Granted, InflightPrefill, HasPrefill
<1>2. Ledger' /\ Held' /\ Turns'
  BY <1>1 DEF IInv, Ledger, Held, Turns, NoGrant
<1>3. Covered' /\ SoleContendedPrefill' /\ DebtBounded' /\ CreditCeiling'
  BY <1>1, SameBalance
<1>4. SlotBound' /\ StepBudget' /\ BorrowAlone' /\ NoDebtOutsideContention'
  BY <1>1 DEF IInv, Bounds, SlotBound, StepBudget, BorrowAlone, NoDebtOutsideContention
<1> QED
  BY <1>2, <1>3, <1>4 DEF IInv, Bounds

(* Passing a request over keeps the invariant.                              *)
LEMMA VisitPassedIInv ==
  ASSUME IInv, NEW r \in Rids, VisitPassed(r)
  PROVE  IInv'
<1>1. TypeOK'
  BY VisitType DEF IInv, Visit
<1> QED
  BY <1>1, FewerToVisit DEF VisitPassed, envVars

(* Granting a chunk keeps the invariant: what is debited is reserved.       *)
LEMMA VisitGrantedIInv ==
  ASSUME IInv, NEW r \in Rids, VisitGranted(r)
  PROVE  IInv'
<1>1. TypeOK /\ TypeOK'
  BY VisitType DEF IInv, Visit
<1>2. r \in todo /\ pc = "open" /\ cur = 0
  BY <1>1, VisitRange DEF VisitGranted, HoldsTurn, TypeOK, CallType
<1>3. reqs[r].rem > 0 /\ stepMode = "prefill_turn" /\ r \in selected
  BY DEF VisitGranted, HoldsTurn
<1>4. PICK g \in Offers(r) : /\ grants' = [grants EXCEPT ![r] = g]
                             /\ credit' = credit - g.cost
                             /\ borrowed' = (borrowed \/ g.borrowed)
  BY DEF VisitGranted
<1>5. /\ todo' = todo \ {r} /\ cur' = r
      /\ UNCHANGED <<reqs, pc, num, recOpen, hadDecode, stepMode, selected,
                     inContention, inflight>>
  BY DEF VisitGranted, envVars
<1>6. credit \in Int /\ Reserved \in Nat /\ Reserved <= MaxStep
      /\ reqs[r].rem \in 1..MaxTok
  <2>1. reqs[r].rem \in 0..MaxTok
    BY <1>1 DEF TypeOK, CallType, Request
  <2> QED
    BY <1>1, <1>3, <2>1, SizeAssumption, ReservedType
       DEF IInv, Bounds, StepBudget, TypeOK, CreditType
<1>7. /\ g \in GrantType /\ g.cap \in 1..reqs[r].rem
      /\ g.cost \in Nat \ {0} /\ g.cost <= MaxStep - Reserved
      /\ ~g.borrowed => g.cost <= credit
      /\ g.borrowed => credit >= 0 /\ g.cost > credit /\ Granted = {} /\ ~borrowed
  BY <1>1, <1>4, <1>6, OffersBound DEF TypeOK, CreditType
<1>8. credit >= 0 /\ credit \in Nat
  BY <1>6, <1>7
<1>9. /\ Granted' = Granted \cup {r} /\ r \notin Granted
      /\ (InflightPrefill' <=> InflightPrefill)
  <2>1. grants \in [Rids -> GrantType]
    BY <1>1 DEF TypeOK, StepType
  <2>2. Granted' = Granted \cup {r}
    BY <1>4, <1>6, <1>7, <2>1 DEF Granted
  <2> QED
    BY <1>2, <1>5, <2>2 DEF IInv, Held, InflightPrefill, HasPrefill
<1>10. grants'[r] = g /\ \A q \in Rids \ {r} : grants'[q] = grants[q]
  BY <1>1, <1>4 DEF TypeOK, StepType
<1>11. ~borrowed
  BY <1>6, <1>8 DEF IInv, Turns
<1>12. Ledger'
  BY <1>2, <1>5 DEF IInv, Ledger
<1>13. Held'
  <2>1. \A q \in Rids : grants'[q].cap = 0 => grants'[q] = NoGrant
    BY <1>6, <1>7, <1>10 DEF IInv, Held
  <2>2. cur' \in Granted' /\ num'[cur'] = 0 /\ grants'[cur'].cap <= reqs'[cur'].rem
    BY <1>2, <1>5, <1>6, <1>7, <1>9, <1>10 DEF IInv, Held
  <2>3. \A q \in todo' : q \notin Granted' /\ num'[q] = 0
    BY <1>5, <1>9 DEF IInv, Held
  <2> QED
    BY <2>1, <2>2, <2>3 DEF Held, NoGrant
<1>14. Reserved' = Reserved + g.cost /\ credit' + Reserved' = credit + Reserved
  <2>1. grants[r].cost = 0
    BY <1>1, <1>9, GrantsType DEF IInv, Held, NoGrant
  <2>2. Reserved' = Reserved - grants[r].cost + g.cost
    BY <1>1, <1>4, ReservedMoves DEF TypeOK
  <2> QED
    BY <1>4, <1>6, <1>7, <2>1, <2>2
<1>15. Turns'
  <2>1. stepMode' = "prefill_turn" => hadDecode' /\ inContention' /\ ~InflightPrefill'
    BY <1>5, <1>9 DEF IInv, Turns
  <2>2. stepMode' = "prefill_turn" /\ credit' + Reserved' >= 0
    BY <1>3, <1>5, <1>6, <1>8, <1>14
  <2>3. borrowed' => credit' < 0
    <3>1. borrowed' => g.borrowed
      BY <1>4, <1>11
    <3>2. g.borrowed => g.cost > credit
      BY <1>7
    <3>3. g.cost > credit => credit' < 0
      BY <1>4, <1>6, <1>7
    <3> QED
      BY <3>1, <3>2, <3>3
  <2>4. hadDecode' => \A q \in Rids : num'[q] > 0 /\ reqs'[q].rem > 0 => q \in Granted'
    BY <1>5, <1>9 DEF IInv, Turns
  <2>5. inContention'
    BY <1>3, <1>5 DEF IInv, Turns
  <2> QED
    BY <2>1, <2>2, <2>3, <2>4, <2>5 DEF Turns
<1>16. Covered' /\ SoleContendedPrefill' /\ DebtBounded' /\ CreditCeiling'
  BY <1>1, <1>5, <1>14, SameBalance
<1>17. SlotBound'
  <2>1. selected' \cup Granted' = selected \cup Granted
    BY <1>3, <1>5, <1>9
  <2> QED
    BY <2>1 DEF IInv, Bounds, SlotBound
<1>18. StepBudget' /\ NoDebtOutsideContention'
  <2>1. inContention'
    BY <1>3, <1>5 DEF IInv, Turns
  <2> QED
    BY <1>6, <1>7, <1>14, <2>1, LimitAssumption DEF StepBudget, NoDebtOutsideContention
<1>19. BorrowAlone'
  <2>1. \A q \in Rids : ~grants[q].borrowed
    BY <1>2, <1>11 DEF IInv, Bounds, BorrowAlone
  <2>2. CASE g.borrowed
    <3>1. Granted' = {r} /\ grants'[r].borrowed /\ borrowed'
      BY <1>4, <1>7, <1>9, <1>10, <2>2
    <3> QED
      BY <3>1 DEF BorrowAlone
  <2>3. CASE ~g.borrowed
    <3>1. ~borrowed' /\ \A q \in Rids : ~grants'[q].borrowed
      BY <1>4, <1>10, <1>11, <2>1, <2>3
    <3> QED
      BY <3>1 DEF BorrowAlone
  <2> QED
    BY <2>2, <2>3
<1> QED
  BY <1>1, <1>12, <1>13, <1>15, <1>16, <1>17, <1>18, <1>19 DEF IInv, Bounds
-----------------------------------------------------------------------------
(* Releases                                                                 *)

(* A chunk that got nothing: what it held goes back to the credit, its slot *)
(* may be given to another candidate, and the rest of the step is as before.*)
LEMMA ReleaseIInv ==
  ASSUME IInv, TypeOK', NEW r \in Rids, NEW rotates, NEW refusal,
         Release(r, rotates, refusal),
         r \in todo \/ (r = cur /\ cur # 0), stepMode = "prefill_turn", pc = "open",
         cur' = 0, todo' \subseteq todo,
         UNCHANGED <<reqs, pc, num, recOpen, hadDecode, stepMode, inContention,
                     inflight>>
  PROVE  IInv'
<1>1. TypeOK
  BY DEF IInv
<1>2. /\ credit' = credit + grants[r].cost
      /\ borrowed' <=> borrowed /\ ~grants[r].borrowed
      /\ grants' = [grants EXCEPT ![r] = NoGrant]
  BY DEF Release, StillBorrowed
<1>3. credit \in Int /\ Reserved \in Nat /\ grants[r].cost \in Nat
  BY <1>1, GrantsType, ReservedType DEF TypeOK, CreditType
<1>4. grants'[r] = NoGrant /\ \A q \in Rids \ {r} : grants'[q] = grants[q]
  BY <1>1, <1>2 DEF TypeOK, StepType
<1>5. Granted' = Granted \ {r} /\ (InflightPrefill' <=> InflightPrefill)
  BY <1>4 DEF Granted, NoGrant, InflightPrefill, HasPrefill
<1>6. r \notin Granted => grants[r] = NoGrant
  BY <1>1, GrantsType DEF IInv, Held
<1>7. Reserved' = Reserved - grants[r].cost
  <2>1. Reserved' = Reserved - grants[r].cost + NoGrant.cost /\ NoGrant.cost = 0
    BY <1>1, <1>2, ReservedMoves DEF TypeOK, NoGrant
  <2> QED
    BY <1>3, <2>1
<1>8. hadDecode /\ inContention /\ ~InflightPrefill
  BY DEF IInv, Turns
<1>9. credit' + Reserved' = credit + Reserved
  BY <1>2, <1>3, <1>7
<1>10. Ledger'
  BY DEF IInv, Ledger
<1>11. Held'
  BY <1>4, <1>5 DEF IInv, Held, NoGrant
<1>12. borrowed' => borrowed /\ r \notin Granted /\ credit' = credit
  <2>1. SUFFICES ASSUME borrowed, ~grants[r].borrowed
                 PROVE  r \notin Granted /\ credit' = credit
    BY <1>2
  <2>2. r \notin Granted
    BY <2>1 DEF IInv, Bounds, BorrowAlone
  <2> QED
    BY <1>2, <1>3, <1>6, <2>2 DEF NoGrant
<1>13. Turns'
  <2>1. stepMode' = "prefill_turn" /\ hadDecode' /\ inContention' /\ ~InflightPrefill'
    BY <1>5, <1>8
  <2>2. Granted' # {} => credit' + Reserved' >= 0
    BY <1>5, <1>9 DEF IInv, Turns
  <2>3. borrowed' => credit' < 0
    BY <1>12 DEF IInv, Turns
  <2>4. ASSUME NEW q \in Rids, num'[q] > 0, reqs'[q].rem > 0
        PROVE  q \in Granted'
    <3>1. num[q] > 0 /\ q \in Granted
      BY <1>8, <2>4 DEF IInv, Turns
    <3>2. num[r] = 0
      BY DEF IInv, Held
    <3>3. q # r
      BY <3>1, <3>2
    <3> QED
      BY <1>5, <3>1, <3>3
  <2> QED
    BY <2>1, <2>2, <2>3, <2>4 DEF Turns
<1>14. Covered' /\ SoleContendedPrefill' /\ DebtBounded' /\ CreditCeiling'
  BY <1>9, SameBalance
<1>15. SlotBound'
  <2> DEFINE left == selected \ {r}
             held == Granted \ {r}
             eligible == candidates \ (tried \cup {r} \cup left)
             key == PromotionKey(passed', refusal)
  <2>1. PICK T \in Leading(eligible, Room(left \cup held), key) : selected' = left \cup T
    BY DEF Release
  <2>2. left \cup held \in SUBSET Rids /\ eligible \in SUBSET Rids
    BY <1>1 DEF TypeOK, StepType, Granted
  <2>3. Cardinality((left \cup held) \cup T) <= MaxChunks
    <3> HIDE DEF key, left, held, eligible
    <3> QED
      BY <2>1, <2>2, SlotsKept
  <2>4. selected' \cup Granted' = (left \cup held) \cup T
    BY <1>5, <2>1
  <2> QED
    BY <2>3, <2>4 DEF SlotBound
<1>16. StepBudget' /\ NoDebtOutsideContention'
  BY <1>3, <1>7, <1>8, LimitAssumption
     DEF IInv, Bounds, StepBudget, NoDebtOutsideContention
<1>17. BorrowAlone'
  <2>1. CASE borrowed'
    <3>1. borrowed /\ r \notin Granted
      BY <1>12, <2>1
    <3>2. PICK q \in Rids : Granted = {q} /\ grants[q].borrowed
      BY <3>1 DEF IInv, Bounds, BorrowAlone
    <3>3. Granted' = {q} /\ grants'[q].borrowed
      BY <1>4, <1>5, <3>1, <3>2
    <3> QED
      BY <2>1, <3>3 DEF BorrowAlone
  <2>2. CASE ~borrowed'
    <3>1. ~NoGrant.borrowed
      BY DEF NoGrant
    <3>2. ASSUME NEW q \in Rids, q # r PROVE ~grants[q].borrowed
      <4>1. CASE ~borrowed
        BY <4>1 DEF IInv, Bounds, BorrowAlone
      <4>2. CASE borrowed
        <5>1. grants[r].borrowed
          BY <1>2, <2>2, <4>2
        <5>2. r \in Granted
          BY <1>6, <3>1, <5>1
        <5>3. PICK b \in Rids : Granted = {b}
          BY <4>2 DEF IInv, Bounds, BorrowAlone
        <5>4. q \notin Granted
          BY <3>2, <5>2, <5>3
        <5>5. grants[q] = NoGrant
          BY <1>1, <5>4, GrantsType DEF IInv, Held
        <5> QED
          BY <3>1, <5>5
      <4> QED
        BY <4>1, <4>2
    <3>3. \A q \in Rids : ~grants'[q].borrowed
      BY <1>4, <3>1, <3>2
    <3> QED
      BY <2>2, <3>3 DEF BorrowAlone
  <2> QED
    BY <2>1, <2>2
<1> QED
  BY <1>10, <1>11, <1>13, <1>14, <1>15, <1>16, <1>17 DEF IInv, Bounds

(* Deferring a request keeps the invariant.                                 *)
LEMMA VisitDeferredIInv ==
  ASSUME IInv, NEW r \in Rids, VisitDeferred(r)
  PROVE  IInv'
<1>1. TypeOK /\ TypeOK'
  BY VisitType DEF IInv, Visit
<1>2. r \in todo /\ pc = "open" /\ cur = 0
  BY <1>1, VisitRange DEF VisitDeferred, HoldsTurn, TypeOK, CallType
<1>3. stepMode = "prefill_turn" /\ Release(r, FALSE, FALSE)
  BY DEF VisitDeferred, HoldsTurn
<1> QED
  BY <1>1, <1>2, <1>3, ReleaseIInv DEF VisitDeferred, envVars
-----------------------------------------------------------------------------
(* The outcomes of a chunk, and what the base scheduler does meanwhile      *)

(* A chunk that is scheduled keeps its grant.                               *)
LEMMA ChunkScheduledIInv ==
  ASSUME IInv, ChunkScheduled
  PROVE  IInv'
<1>1. TypeOK /\ TypeOK'
  BY ChunkType DEF IInv
<1>2. cur \in Rids /\ cur # 0 /\ cur' = 0 /\ pc = "open"
  BY <1>1 DEF ChunkScheduled, TypeOK, CallType
<1>3. PICK n \in 1..grants[cur].cap : Scheduled(cur, n)
  BY DEF ChunkScheduled
<1>4. UNCHANGED <<pc, todo, stepVars, credit, inContention, inflight>>
  BY DEF ChunkScheduled
<1>5. grants[cur].cap \in 0..MaxTok /\ reqs[cur].rem \in Nat
  BY <1>1, <1>2, GrantsType, SizeAssumption DEF TypeOK, CallType, Request
<1>6. n \in Nat
  BY <1>3, <1>5, SizeAssumption
<1>7. /\ \A q \in Rids : reqs'[q].rem = reqs[q].rem
      /\ \A q \in Rids \ {cur} : num'[q] = num[q]
  BY <1>1, <1>2, <1>3, <1>6, ScheduledFrame
<1>8. cur \in Granted /\ cur \notin todo
  BY <1>2 DEF IInv, Held
<1>9. /\ Granted' = Granted /\ (InflightPrefill' <=> InflightPrefill)
      /\ Reserved' = Reserved
  BY <1>4, ReservedType DEF Granted, InflightPrefill, HasPrefill, stepVars
<1>10. Ledger'
  BY <1>2, <1>4, <1>9 DEF IInv, Ledger, stepVars
<1>11. Held'
  <2>1. \A q \in todo : q \in Rids /\ q # cur
    BY <1>1, <1>8 DEF TypeOK, CallType
  <2> QED
    BY <1>2, <1>4, <1>7, <1>9, <2>1 DEF IInv, Held, NoGrant, stepVars
<1>12. Turns'
  <2>1. hadDecode' /\ stepMode' = "solo" => \A q \in todo' : reqs'[q].rem = 0
    BY <1>1, <1>4, <1>7 DEF IInv, Turns, TypeOK, CallType, stepVars
  <2>2. hadDecode' => \A q \in Rids : num'[q] > 0 /\ reqs'[q].rem > 0 => q \in Granted'
    <3>1. ASSUME hadDecode, NEW q \in Rids, num'[q] > 0, reqs'[q].rem > 0, q # cur
          PROVE  q \in Granted
      BY <1>7, <3>1 DEF IInv, Turns
    <3> QED
      BY <1>4, <1>8, <1>9, <3>1 DEF stepVars
  <2> QED
    BY <1>4, <1>9, <2>1, <2>2 DEF IInv, Turns, stepVars
<1>13. Covered' /\ SoleContendedPrefill' /\ DebtBounded' /\ CreditCeiling'
  BY <1>1, <1>4, <1>9, SameBalance
<1>14. SlotBound' /\ StepBudget' /\ BorrowAlone' /\ NoDebtOutsideContention'
  BY <1>4, <1>9 DEF IInv, Bounds, SlotBound, StepBudget, BorrowAlone,
                    NoDebtOutsideContention, stepVars
<1> QED
  BY <1>1, <1>10, <1>11, <1>12, <1>13, <1>14 DEF IInv, Bounds

(* A chunk that got nothing returns its whole grant.                        *)
LEMMA ChunkReleasedIInv ==
  ASSUME IInv, ChunkZero \/ ChunkRefused
  PROVE  IInv'
<1>1. TypeOK /\ TypeOK'
  BY ChunkType DEF IInv
<1>2. cur \in Rids /\ cur # 0 /\ pc = "open"
  BY <1>1 DEF ChunkZero, ChunkRefused, TypeOK, CallType
<1>3. stepMode = "prefill_turn"
  BY <1>2 DEF IInv, Held, Turns
<1>4. CASE ChunkZero
  <2>1. Release(cur, TRUE, FALSE)
    BY <1>4 DEF ChunkZero
  <2> QED
    BY <1>1, <1>2, <1>3, <1>4, <2>1, ReleaseIInv DEF ChunkZero, envVars
<1>5. CASE ChunkRefused
  <2>1. Release(cur, TRUE, TRUE)
    BY <1>5 DEF ChunkRefused
  <2> QED
    BY <1>1, <1>2, <1>3, <1>5, <2>1, ReleaseIInv DEF ChunkRefused, envVars
<1> QED
  BY <1>4, <1>5

(* A preemption keeps the invariant.                                        *)
LEMMA PreemptIInv ==
  ASSUME IInv, NEW d \in Rids, NEW v \in Rids, Preempt(d, v)
  PROVE  IInv'
<1>1. TypeOK /\ TypeOK'
  BY PreemptType DEF IInv
<1>2. /\ cur = 0 /\ cur' = 0 /\ v \notin Granted /\ num' = [num EXCEPT ![v] = 0]
      /\ todo' \subseteq todo \ {v}
      /\ UNCHANGED <<pc, stepVars, credit, inContention, inflight>>
  BY DEF Preempt, Visiting
<1>3. /\ num'[v] = 0 /\ \A q \in Rids \ {v} : num'[q] = num[q]
      /\ \A q \in Rids \ {v} : reqs'[q] = reqs[q]
  BY <1>1, <1>2 DEF Preempt, TypeOK, CallType
<1>4. /\ Granted' = Granted /\ (InflightPrefill' <=> InflightPrefill)
      /\ Reserved' = Reserved
  BY <1>2, ReservedType DEF Granted, InflightPrefill, HasPrefill, stepVars
<1>5. Ledger' /\ Held'
  <2>1. \A q \in todo' : q \in todo /\ q \in Rids \ {v}
    BY <1>1, <1>2 DEF TypeOK, CallType
  <2>2. pc = "idle" => todo' = {}
    BY <1>2 DEF IInv, Ledger
  <2> QED
    BY <1>2, <1>3, <1>4, <2>1, <2>2 DEF IInv, Ledger, Held, NoGrant, stepVars
<1>6. Turns'
  <2>1. hadDecode' /\ stepMode' = "solo" => \A q \in todo' : reqs'[q].rem = 0
    BY <1>1, <1>2, <1>3 DEF IInv, Turns, TypeOK, CallType, stepVars
  <2>2. hadDecode' => \A q \in Rids : num'[q] > 0 /\ reqs'[q].rem > 0 => q \in Granted'
    <3>1. ASSUME hadDecode, NEW q \in Rids, num'[q] > 0, reqs'[q].rem > 0
          PROVE  q \in Granted
      <4>1. q # v
        BY <1>3, <3>1
      <4> QED
        BY <1>3, <3>1, <4>1 DEF IInv, Turns
    <3> QED
      BY <1>2, <1>4, <3>1 DEF stepVars
  <2> QED
    BY <1>2, <1>4, <2>1, <2>2 DEF IInv, Turns, stepVars
<1>7. Covered' /\ SoleContendedPrefill' /\ DebtBounded' /\ CreditCeiling'
  BY <1>1, <1>2, <1>4, SameBalance
<1>8. SlotBound' /\ StepBudget' /\ BorrowAlone' /\ NoDebtOutsideContention'
  BY <1>2, <1>4 DEF IInv, Bounds, SlotBound, StepBudget, BorrowAlone,
                    NoDebtOutsideContention, stepVars
<1> QED
  BY <1>1, <1>5, <1>6, <1>7, <1>8 DEF IInv, Bounds

(* A loop that ends early keeps the invariant.                              *)
LEMMA LoopEndsIInv ==
  ASSUME IInv, LoopEnds
  PROVE  IInv'
<1>1. TypeOK'
  BY LoopEndsType DEF IInv
<1> QED
  BY <1>1, FewerToVisit DEF LoopEnds, stepVars

-----------------------------------------------------------------------------
(* The end of a step, and its completion                                    *)

(* What a step that ends clears.                                            *)
LEMMA StepEndsFacts ==
  ASSUME StepEnds
  PROVE  /\ pc' = "idle" /\ cur' = 0 /\ todo' = {}
         /\ ~hadDecode' /\ ~borrowed' /\ stepMode' = "solo" /\ selected' = {}
         /\ BorrowAlone'
BY DEF StepEnds, BorrowAlone

(* A step that fails leaves its grants to be refunded.                      *)
LEMMA AbortStepIInv ==
  ASSUME IInv, AbortStep
  PROVE  IInv'
<1>1. TypeOK /\ TypeOK'
  BY AbortStepType DEF IInv
<1>2. /\ StepEnds /\ pc = "open"
      /\ UNCHANGED <<recOpen, grants, credit, inContention, inflight>>
  BY DEF AbortStep
<1>3. Granted' = Granted /\ Reserved' = Reserved
  BY <1>2, ReservedType DEF Granted
<1>4. Ledger' /\ Turns'
  BY <1>2, <1>3, StepEndsFacts DEF IInv, Ledger, Turns
<1>5. Held'
  BY <1>2, <1>3, StepEndsFacts DEF IInv, Held, NoGrant
<1>6. Covered' /\ SoleContendedPrefill' /\ DebtBounded' /\ CreditCeiling'
  BY <1>1, <1>2, <1>3, SameBalance
<1>7. StepBudget' /\ NoDebtOutsideContention'
  BY <1>2, <1>3 DEF IInv, Bounds, StepBudget, NoDebtOutsideContention
<1>8. SlotBound'
  <2>1. selected' \cup Granted' \subseteq selected \cup Granted
    BY <1>2, <1>3, StepEndsFacts
  <2>2. selected \cup Granted \subseteq Rids
    BY <1>1 DEF TypeOK, StepType, Granted
  <2>3. IsFiniteSet(selected \cup Granted)
    BY <2>2, RidsAssumption, FS_Subset
  <2>4. /\ Cardinality(selected' \cup Granted') <= Cardinality(selected \cup Granted)
        /\ IsFiniteSet(selected' \cup Granted')
    BY <2>1, <2>3, FS_Subset
  <2>5. /\ Cardinality(selected' \cup Granted') \in Nat
        /\ Cardinality(selected \cup Granted) \in Nat
    BY <2>3, <2>4, FS_CardinalityType
  <2> QED
    BY <2>4, <2>5, LimitAssumption DEF IInv, Bounds, SlotBound
<1> QED
  BY <1>1, <1>2, <1>4, <1>5, <1>6, <1>7, <1>8, StepEndsFacts DEF IInv, Bounds

(* finish_step hands the charged part over to the output in flight.         *)
LEMMA FinishStepIInv ==
  ASSUME IInv, FinishStep
  PROVE  IInv'
<1> DEFINE prefill == [r \in Rids |-> PrefillPart(r)]
           rec == [had_decode |-> hadDecode, prefill |-> prefill,
                   reserved |-> Charged, since |-> 0,
                   incarn |-> [r \in Rids |->
                                 IF prefill[r] > 0 THEN incarn[r] ELSE 0]]
           last == Len(inflight) + 1
<1>1. TypeOK /\ TypeOK'
  BY FinishStepType DEF IInv
<1>2. /\ credit' = credit + Reserved - Charged /\ StepEnds
      /\ ~recOpen' /\ Reserved' = 0 /\ inContention' = inContention
      /\ inflight' = IF num = None THEN inflight ELSE Append(inflight, rec)
      /\ pc = "open" /\ cur = 0 /\ todo = {}
      /\ Granted' = {} /\ \A r \in Rids : grants'[r] = NoGrant
  BY ReservedType DEF FinishStep, Granted, NoGrant
<1>3. /\ credit \in Int /\ Reserved \in Int /\ Charged \in Nat
      /\ Charged <= Reserved /\ inflight \in Seq(Flight)
  BY <1>1, ReservedType, ChargedType DEF TypeOK, CreditType
<1>4. credit' + Reserved' + Charged = credit + Reserved
  BY <1>2, <1>3
<1>5. /\ rec.had_decode = hadDecode /\ rec.reserved = Charged
      /\ HasPrefill(rec) <=> \E r \in Rids : num[r] > 0 /\ reqs[r].rem > 0
  BY <1>1, PrefillPartType DEF HasPrefill
<1>6. /\ \A i \in DOMAIN inflight :
           i \in DOMAIN inflight' /\ inflight'[i] = inflight[i] /\ i < last
      /\ \A i \in DOMAIN inflight' :
           i \notin DOMAIN inflight => i = last /\ inflight'[i] = rec
      /\ num # None => last \in DOMAIN inflight' /\ inflight'[last] = rec
  <2> HIDE DEF rec
  <2>1. CASE num = None
    BY <1>2, <1>3, <2>1
  <2>2. CASE num # None
    BY <1>2, <1>3, <2>2
  <2> QED
    BY <2>1, <2>2
<1> HIDE DEF rec
<1>7. Charged > 0 => /\ hadDecode /\ HasPrefill(rec) /\ num # None
                     /\ ~InflightPrefill
  <2>1. SUFFICES ASSUME Charged > 0
                 PROVE  /\ hadDecode /\ HasPrefill(rec) /\ num # None
                        /\ ~InflightPrefill
    OBVIOUS
  <2>2. PICK r \in Rids : grants[r].cost > 0 /\ num[r] > 0 /\ reqs[r].rem > 0
    BY <1>1, <2>1, ChargedType
  <2>3. r \in Granted
    BY <1>1, <2>2, GrantsType DEF IInv, Held, NoGrant
  <2>4. hadDecode /\ ~InflightPrefill /\ num # None
    BY <1>2, <2>2, <2>3 DEF IInv, Turns, None
  <2> QED
    BY <1>5, <2>2, <2>4
<1>8. hadDecode /\ HasPrefill(rec) => /\ inContention /\ ~InflightPrefill
                                      /\ credit + Reserved >= 0
  <2>1. SUFFICES ASSUME hadDecode, HasPrefill(rec)
                 PROVE  inContention /\ ~InflightPrefill /\ credit + Reserved >= 0
    OBVIOUS
  <2>2. Granted # {}
    BY <1>5, <2>1 DEF IInv, Turns
  <2> QED
    BY <1>2, <2>2 DEF IInv, Turns
<1>9. InflightPrefill => Charged = 0
  BY <1>3, <1>7
<1>10. Ledger' /\ Held' /\ Turns'
  BY <1>2, StepEndsFacts DEF Ledger, Held, Turns, NoGrant
<1>11. Covered'
  <2>1. ASSUME NEW i \in DOMAIN inflight'
        PROVE  /\ inflight'[i].reserved > 0
                    => inflight'[i].had_decode /\ HasPrefill(inflight'[i])
               /\ inflight'[i].had_decode /\ HasPrefill(inflight'[i]) =>
                    /\ inContention'
                    /\ credit' + Reserved' + inflight'[i].reserved >= 0
    <3>1. CASE i \in DOMAIN inflight
      <4>1. inflight'[i] = inflight[i] /\ inflight[i].reserved \in Nat
        BY <1>1, <1>6, <3>1, FlightType
      <4>2. HasPrefill(inflight[i]) => Charged = 0
        BY <1>9, <3>1 DEF InflightPrefill
      <4>3. Charged = 0 => credit' + Reserved' = credit + Reserved
        BY <1>2, <1>3
      <4> QED
        BY <1>2, <3>1, <4>1, <4>2, <4>3 DEF IInv, Covered
    <3>2. CASE i \notin DOMAIN inflight
      <4>1. inflight'[i] = rec
        BY <1>6, <3>2
      <4> QED
        BY <1>2, <1>4, <1>5, <1>7, <1>8, <4>1
    <3> QED
      BY <3>1, <3>2
  <2> QED
    BY <2>1 DEF Covered, HasPrefill
<1>12. SoleContendedPrefill'
  <2>1. ASSUME NEW i \in DOMAIN inflight', NEW j \in DOMAIN inflight', i < j,
               inflight'[j].had_decode, HasPrefill(inflight'[j])
        PROVE  ~HasPrefill(inflight'[i])
    <3>1. CASE j \in DOMAIN inflight
      <4>1. i \in DOMAIN inflight
        BY <1>3, <2>1, <3>1, <1>6
      <4> QED
        BY <1>6, <2>1, <3>1, <4>1 DEF IInv, Bounds, SoleContendedPrefill
    <3>2. CASE j \notin DOMAIN inflight
      <4>1. j = last /\ inflight'[j] = rec
        BY <1>6, <3>2
      <4>2. ~InflightPrefill
        BY <1>5, <1>8, <2>1, <4>1
      <4>3. i # last /\ i \in DOMAIN inflight
        BY <1>3, <1>6, <2>1, <4>1
      <4> QED
        BY <1>6, <4>2, <4>3 DEF InflightPrefill
    <3> QED
      BY <3>1, <3>2
  <2> QED
    BY <2>1 DEF SoleContendedPrefill, HasPrefill
<1>13. DebtBounded'
  <2>1. CASE Charged = 0
    <3>1. credit' + Reserved' = credit + Reserved
      BY <1>2, <1>3, <2>1
    <3> QED
      BY <1>6, <3>1 DEF IInv, Bounds, DebtBounded, MaxDebt
  <2>2. CASE Charged > 0
    <3>1. ~\E i \in DOMAIN inflight : inflight[i].reserved > 0
      BY <1>7, <2>2 DEF IInv, Covered, InflightPrefill
    <3>2. credit + Reserved >= -MaxDebt
      BY <3>1 DEF IInv, Bounds, DebtBounded
    <3>3. last \in DOMAIN inflight' /\ inflight'[last].reserved = Charged
      BY <1>5, <1>6, <1>7, <2>2
    <3> QED
      BY <1>4, <2>2, <3>2, <3>3 DEF DebtBounded, MaxDebt
  <2> QED
    BY <1>3, <2>1, <2>2
<1>14. NoDebtOutsideContention' /\ CreditCeiling' /\ StepBudget'
  <2>1. ~inContention => Reserved = 0 /\ Charged = 0 /\ credit >= 0
    BY <1>1, <1>3, NothingReserved DEF IInv, Turns, Bounds, NoDebtOutsideContention
  <2>2. credit + Reserved <= 2 * MaxStep
    BY DEF IInv, Bounds, CreditCeiling
  <2> QED
    BY <1>2, <1>3, <2>1, <2>2, LimitAssumption
       DEF NoDebtOutsideContention, CreditCeiling, StepBudget
<1>15. SlotBound'
  BY <1>2, StepEndsFacts, FS_EmptySet, LimitAssumption DEF SlotBound
<1> QED
  BY <1>1, <1>2, <1>10, <1>11, <1>12, <1>13, <1>14, <1>15, StepEndsFacts DEF IInv, Bounds

(* What a completion does to the credit: a step that carried contended      *)
(* prefill may leave at most the unpaid part of one step's service; any     *)
(* other step can only earn.                                                *)
LEMMA SettledBound ==
  ASSUME IInv, Observe
  PROVE  /\ credit' = credit \/ credit' <= MaxStep
         /\ ~(inflight[1].had_decode /\ HasPrefill(inflight[1]))
              => credit' >= credit \/ credit' >= 1
         /\ inflight[1].had_decode /\ HasPrefill(inflight[1])
              => credit' + Reserved >= -MaxDebt
<1> DEFINE rec == Head(inflight)
           dt == BusyTime(rec)
           served == {r \in Rids : rec.prefill[r] > 0}
           cost == IF served = {} THEN 0 ELSE Unit * dt
           settled == Settled(rec, dt, cost)
<1>1. TypeOK /\ inflight # <<>> /\ inflight \in Seq(Flight)
  BY DEF IInv, Observe, TypeOK, CreditType
<1>2. rec = inflight[1] /\ 1 \in DOMAIN inflight
  BY <1>1
<1>3. rec.reserved \in Nat /\ rec.since \in 0..MaxDt /\ (HasPrefill(rec) <=> served # {})
  BY <1>1, <1>2, FlightType DEF HasPrefill
<1>4. dt \in 0..MaxDt
  BY <1>1, <1>3, LimitAssumption DEF BusyTime, Smaller, TypeOK, CreditType
<1>5. credit' = IF rec.had_decode THEN Capped(settled) ELSE credit
  BY DEF Observe
<1>6. credit \in Int /\ Reserved \in Int /\ Reserved >= 0 /\ Share * dt \in Nat
      /\ Unit * dt \in Int /\ Share * dt - Unit * dt >= -MaxDebt /\ MaxDebt \in Nat
  <2>1. credit \in Int /\ Reserved \in Int /\ Reserved >= 0
    BY <1>1, ReservedType DEF TypeOK, CreditType
  <2>2. Unit * dt \in Int
    BY <1>4, LimitAssumption
  <2> QED
    BY <1>4, <2>1, <2>2, MaxDebtType
<1>7. settled = credit + rec.reserved + Share * dt - cost
  BY DEF Settled
<1> HIDE DEF rec, dt, served, settled
<1>8. settled \in Int
  BY <1>3, <1>6, <1>7
<1>9. /\ Capped(settled) <= settled /\ Capped(settled) <= MaxStep
      /\ Capped(settled) = settled \/ Capped(settled) >= 1
  <2>1. model \in Models
    BY <1>1 DEF TypeOK, CreditType
  <2>2. CreditLimit >= 1
    BY <1>8, <2>1, CappedBound
  <2> QED
    BY <1>8, <2>1, <2>2, CappedBound
<1>10. credit' = credit \/ credit' <= MaxStep
  BY <1>5, <1>9
<1>11. ASSUME ~(rec.had_decode /\ HasPrefill(rec))
       PROVE  credit' >= credit \/ credit' >= 1
  <2>1. CASE ~rec.had_decode
    BY <1>5, <1>6, <2>1
  <2>2. CASE rec.had_decode
    <3>1. served = {}
      BY <1>3, <1>11, <2>2
    <3>2. settled >= credit
      BY <1>3, <1>6, <1>7, <3>1
    <3> QED
      BY <1>5, <1>9, <2>2, <3>2
  <2> QED
    BY <2>1, <2>2
<1>12. ASSUME rec.had_decode, HasPrefill(rec)
       PROVE  credit' + Reserved >= -MaxDebt
  <2>1. credit + Reserved + rec.reserved >= 0
    BY <1>2, <1>12 DEF IInv, Covered
  <2>2. settled = credit + rec.reserved + Share * dt - Unit * dt
    BY <1>3, <1>7, <1>12
  <2>3. settled + Reserved >= -MaxDebt
    BY <1>3, <1>6, <2>1, <2>2
  <2>4. Capped(settled) \in Int
    BY <1>1, <1>8, CappedBound DEF TypeOK, CreditType
  <2> QED
    BY <1>5, <1>6, <1>9, <1>12, <2>3, <2>4
<1> QED
  BY <1>2, <1>10, <1>11, <1>12

(* observe_output settles the oldest output and keeps the invariant.        *)
LEMMA ObserveIInv ==
  ASSUME IInv, Observe
  PROVE  IInv'
<1>1. TypeOK /\ TypeOK'
  BY ObserveType DEF IInv
<1>2. pc = "idle" /\ UNCHANGED <<reqs, callVars, stepVars, inContention>>
  BY DEF Observe, envVars
<1>3. /\ inflight' = Tail(inflight) /\ inflight # <<>> /\ inflight \in Seq(Flight)
      /\ \A i \in DOMAIN inflight' :
           /\ i + 1 \in DOMAIN inflight /\ inflight'[i] = inflight[i + 1]
           /\ i \in Nat /\ 1 < i + 1
      /\ 1 \in DOMAIN inflight
  <2>1. inflight' = Tail(inflight) /\ inflight # <<>> /\ inflight \in Seq(Flight)
    BY <1>1 DEF Observe, TypeOK, CreditType
  <2> QED
    BY <2>1
<1>4. /\ credit \in Int /\ credit' \in Int /\ Reserved \in Int /\ Reserved' = Reserved
      /\ Reserved >= 0 /\ Reserved <= MaxStep
  BY <1>1, <1>2, ReservedType DEF IInv, Bounds, StepBudget, TypeOK, CreditType, stepVars
<1>5. cur = 0 /\ todo = {} /\ ~hadDecode /\ ~borrowed /\ stepMode = "solo"
  BY <1>2 DEF IInv, Ledger
<1>6. Granted' = Granted
  BY <1>2 DEF Granted, stepVars
<1>7. Ledger' /\ Held' /\ Turns'
  BY <1>2, <1>4, <1>5, <1>6 DEF IInv, Ledger, Held, Turns, NoGrant, callVars, stepVars
<1> DEFINE mixed(i) == inflight[i].had_decode /\ HasPrefill(inflight[i])
<1>8. mixed(1) => \A i \in DOMAIN inflight' : ~mixed(i + 1)
  BY <1>3 DEF IInv, Bounds, SoleContendedPrefill
<1>9. ~mixed(1) => credit' >= credit \/ credit' >= 1
  BY SettledBound
<1>10. mixed(1) => credit' + Reserved' >= -MaxDebt
  BY <1>4, SettledBound
<1>11. Covered'
  <2>1. ASSUME NEW i \in DOMAIN inflight'
        PROVE  /\ inflight'[i].reserved > 0
                    => inflight'[i].had_decode /\ HasPrefill(inflight'[i])
               /\ inflight'[i].had_decode /\ HasPrefill(inflight'[i]) =>
                    /\ inContention'
                    /\ credit' + Reserved' + inflight'[i].reserved >= 0
    <3>1. i + 1 \in DOMAIN inflight /\ inflight'[i] = inflight[i + 1]
      BY <1>3
    <3>2. inflight'[i].reserved \in Nat
      BY <1>1, <3>1, FlightType
    <3>3. inflight'[i].reserved > 0 => mixed(i + 1)
      BY <3>1 DEF IInv, Covered
    <3>4. ASSUME mixed(i + 1)
          PROVE  inContention /\ credit' + Reserved' + inflight'[i].reserved >= 0
      <4>1. inContention /\ credit + Reserved + inflight'[i].reserved >= 0
        BY <3>1, <3>4 DEF IInv, Covered
      <4>2. credit' >= credit \/ credit' >= 1
        BY <1>8, <1>9, <3>4
      <4> QED
        BY <1>4, <3>2, <4>1, <4>2
    <3> QED
      BY <1>2, <3>1, <3>3, <3>4
  <2> QED
    BY <2>1 DEF Covered, HasPrefill
<1>12. SoleContendedPrefill'
  <2>1. ASSUME NEW i \in DOMAIN inflight', NEW j \in DOMAIN inflight', i < j,
               inflight'[j].had_decode, HasPrefill(inflight'[j])
        PROVE  ~HasPrefill(inflight'[i])
    <3>1. i + 1 < j + 1 /\ mixed(j + 1)
      BY <1>3, <2>1
    <3> QED
      BY <1>3, <3>1 DEF IInv, Bounds, SoleContendedPrefill
  <2> QED
    BY <2>1 DEF SoleContendedPrefill, HasPrefill
<1>13. DebtBounded'
  <2>1. CASE mixed(1)
    BY <1>10, <2>1 DEF DebtBounded, MaxDebt
  <2>2. CASE ~mixed(1) /\ credit' >= 1
    BY <1>4, <2>2, MaxDebtType DEF DebtBounded, MaxDebt
  <2>3. CASE ~mixed(1) /\ credit' >= credit
    <3>1. CASE credit + Reserved >= -MaxDebt
      BY <1>4, <2>3, <3>1, MaxDebtType DEF DebtBounded, MaxDebt
    <3>2. CASE ~(credit + Reserved >= -MaxDebt)
      <4>1. PICK k \in DOMAIN inflight :
              inflight[k].reserved > 0
              /\ credit + Reserved + inflight[k].reserved >= -MaxDebt
        BY <3>2 DEF IInv, Bounds, DebtBounded
      <4>2. k # 1
        BY <2>3, <4>1 DEF IInv, Covered
      <4>3. k - 1 \in DOMAIN inflight' /\ inflight'[k - 1] = inflight[k]
        BY <1>3, <4>1, <4>2
      <4>4. inflight[k].reserved \in Nat
        BY <1>1, <4>1, FlightType
      <4>5. credit' + Reserved' + inflight'[k - 1].reserved >= -MaxDebt
        BY <1>4, <2>3, <4>1, <4>3, <4>4, MaxDebtType
      <4> QED
        BY <4>1, <4>3, <4>5 DEF DebtBounded, MaxDebt
    <3> QED
      BY <3>1, <3>2
  <2> QED
    BY <1>9, <2>1, <2>2, <2>3
<1>14. NoDebtOutsideContention'
  <2>1. ASSUME ~inContention PROVE credit' >= 0
    <3>1. ~mixed(1) /\ credit >= 0
      BY <1>3, <2>1 DEF IInv, Covered, Bounds, NoDebtOutsideContention
    <3> QED
      BY <1>4, <1>9, <3>1
  <2> QED
    BY <1>2, <2>1 DEF NoDebtOutsideContention
<1>15. CreditCeiling'
  <2>1. credit' = credit \/ credit' <= MaxStep
    BY SettledBound
  <2>2. credit + Reserved <= 2 * MaxStep
    BY DEF IInv, Bounds, CreditCeiling
  <2>3. credit' + Reserved' <= 2 * MaxStep
    <3>1. CASE credit' = credit
      BY <1>4, <2>2, <3>1
    <3>2. CASE credit' <= MaxStep
      <4>1. ASSUME NEW a \in Int, NEW b \in Int, a <= MaxStep, b <= MaxStep
            PROVE  a + b <= 2 * MaxStep
        BY <4>1, LimitAssumption
      <4> QED
        BY <1>4, <3>2, <4>1
    <3> QED
      BY <2>1, <3>1, <3>2
  <2> QED
    BY <2>3 DEF CreditCeiling
<1>16. SlotBound' /\ StepBudget' /\ BorrowAlone'
  <2>1. SlotBound /\ selected' = selected /\ pc' # "open"
    BY <1>2 DEF IInv, Bounds, callVars, stepVars
  <2>2. SlotBound'
    BY <2>1, <1>6 DEF SlotBound
  <2>3. StepBudget'
    BY <1>4 DEF StepBudget
  <2> QED
    BY <2>1, <2>2, <2>3 DEF BorrowAlone
<1> QED
  BY <1>1, <1>7, <1>11, <1>12, <1>13, <1>14, <1>15, <1>16 DEF IInv, Bounds

-----------------------------------------------------------------------------
(* The theorems                                                             *)

(* Every step keeps the inductive invariant.                                *)
LEMMA StepIInv == IInv /\ [Next]_vars => IInv'
<1>1. ASSUME IInv, UNCHANGED vars PROVE IInv'
  <2>1. TypeOK'
    BY <1>1, StepTypeOK DEF IInv
  <2> QED
    BY <1>1, <2>1, FewerToVisit DEF vars, envVars, callVars, stepVars
<1>2. ASSUME IInv, NEW r \in Rids, Visit(r) PROVE IInv'
  BY <1>2, VisitUncappedIInv, VisitPassedIInv, VisitGrantedIInv, VisitDeferredIInv
     DEF Visit
<1>3. ASSUME IInv, Next PROVE IInv'
  BY <1>2, <1>3, EnvironmentIInv, TickIInv, BeginStepIInv, PreemptIInv,
     ChunkScheduledIInv, ChunkReleasedIInv, LoopEndsIInv, FinishStepIInv,
     AbortStepIInv, ObserveIInv DEF Next
<1> QED
  BY <1>1, <1>3

(* The inductive invariant holds in every reachable state: the account of   *)
(* the decoders' debt balances through every handler.                       *)
THEOREM Safety == Spec => []IInv
<1>1. Init => IInv
  BY InitIInv
<1>2. IInv /\ [Next]_vars => IInv'
  BY StepIInv
<1> QED
  BY <1>1, <1>2, PTL DEF Spec

(* One step never takes more than its slots or its time budget.             *)
THEOREM StepLimits == Spec => [](SlotBound /\ StepBudget)
<1>1. IInv => SlotBound /\ StepBudget
  BY DEF IInv, Bounds
<1> QED
  BY <1>1, Safety, PTL

(* A borrowed chunk is alone in its step.                                   *)
THEOREM BorrowedAlone == Spec => []BorrowAlone
<1>1. IInv => BorrowAlone
  BY DEF IInv, Bounds
<1> QED
  BY <1>1, Safety, PTL

(* Async scheduling never stacks a second mixed step on prefill in flight.  *)
THEOREM OneContendedPrefill == Spec => []SoleContendedPrefill
<1>1. IInv => SoleContendedPrefill
  BY DEF IInv, Bounds
<1> QED
  BY <1>1, Safety, PTL

(* The decoders' debt is at most the unpaid part of one step's service,     *)
(* whatever the estimates are worth and however deep the queue is.          *)
THEOREM BoundedDebt == Spec => []DebtBounded
<1>1. IInv => DebtBounded
  BY DEF IInv, Bounds
<1> QED
  BY <1>1, Safety, PTL

(* Nothing is owed outside contention, and the credit never runs away.      *)
THEOREM CreditRange == Spec => [](NoDebtOutsideContention /\ CreditCeiling)
<1>1. IInv => NoDebtOutsideContention /\ CreditCeiling
  BY DEF IInv, Bounds
<1> QED
  BY <1>1, Safety, PTL

(* Starting a step next to a decoder cancels no debt: neither departures    *)
(* nor new arrivals of prefills launder it.                                 *)
THEOREM ChurnKeepsDebt == Spec => DebtSurvivesChurn
<1> DEFINE Owing == pc = "idle" /\ pc' = "open" /\ ~newSched /\ credit < 0 /\ Decodes # {}
<1>1. ASSUME IInv, Next, Owing PROVE credit' <= credit + Reserved
  <2>1. BeginStep
    <3>1. ~StepEnds
      BY <1>1 DEF StepEnds
    <3> QED
      BY <1>1, <3>1 DEF Next, Environment, Arrive, Leave, NewScheduler, Tick, Visit,
         VisitUncapped, VisitPassed, VisitGranted, VisitDeferred, HoldsTurn, Visiting,
         Preempt, ChunkScheduled, ChunkZero, ChunkRefused, LoopEnds, FinishStep,
         AbortStep, Observe, callVars
  <2>2. inContention
    <3>1. credit \in Int
      BY <1>1 DEF IInv, TypeOK, CreditType
    <3> QED
      BY <1>1, <3>1 DEF IInv, Bounds, NoDebtOutsideContention
  <2>3. Decoding(inflight)
    BY <1>1 DEF Decoding
  <2>4. credit' = IF recOpen THEN credit + Reserved ELSE credit
    BY <1>1, <2>1, <2>2, <2>3 DEF BeginStep, Carried
  <2> QED
    BY <1>1, <2>4, ReservedType DEF IInv, TypeOK, CreditType
<1>2. IInv /\ [Next]_vars => [Owing => credit' <= credit + Reserved]_vars
  BY <1>1
<1> QED
  BY <1>2, Safety, PTL DEF Spec, DebtSurvivesChurn

-----------------------------------------------------------------------------
(* The order of service: tiers                                              *)

(* The first entries of two keys decide when they differ.                   *)
LEMMA LexFirst ==
  ASSUME NEW a, NEW b, 1 \in DOMAIN a, DOMAIN a \subseteq Nat \ {0},
         a[1] \in Nat, b[1] \in Nat
  PROVE  /\ a[1] < b[1] => LexLess(a, b)
         /\ LexLess(a, b) => a[1] <= b[1]
<1>1. ASSUME a[1] < b[1] PROVE LexLess(a, b)
  <2>1. 1..(1 - 1) = {}
    OBVIOUS
  <2> QED
    BY <1>1, <2>1 DEF LexLess
<1>2. ASSUME LexLess(a, b) PROVE a[1] <= b[1]
  <2>1. PICK i \in DOMAIN a : a[i] < b[i] /\ \A j \in 1..(i - 1) : a[j] = b[j]
    BY <1>2 DEF LexLess
  <2>2. CASE i = 1
    BY <2>1, <2>2
  <2>3. CASE i # 1
    <3>1. 1 \in 1..(i - 1)
      BY <2>1, <2>3
    <3> QED
      BY <2>1, <3>1
  <2> QED
    BY <2>2, <2>3
<1> QED
  BY <1>1, <1>2

(* A better tier comes first in the ranking.                                *)
LEMMA TierRanks ==
  ASSUME NEW S \in SUBSET Rids, NEW svc \in [Rids -> Nat], NEW rr \in [Rids -> Nat],
         NEW arr \in [Rids -> Nat], NEW r \in S, NEW s \in S,
         Tier[s] < Tier[r]
  PROVE  Position(S, RankKey(svc, rr, arr))[s] < Position(S, RankKey(svc, rr, arr))[r]
<1> DEFINE key == RankKey(svc, rr, arr)
           Ahead(x) == {y \in S : LexLess(key[y], key[x])}
<1>1. ASSUME NEW x \in S, NEW y \in S
      PROVE  /\ Tier[x] < Tier[y] => LexLess(key[x], key[y])
             /\ LexLess(key[x], key[y]) => Tier[x] <= Tier[y]
  <2>1. key[x] = <<Tier[x], svc[x], rr[x], arr[x], x>> /\ key[y][1] = Tier[y]
    BY DEF RankKey
  <2>2. Tier[x] \in Nat /\ Tier[y] \in Nat
    BY TierAssumption
  <2>3. 1 \in DOMAIN key[x] /\ DOMAIN key[x] \subseteq Nat \ {0} /\ key[x][1] = Tier[x]
    BY <2>1
  <2> QED
    BY <2>1, <2>2, <2>3, LexFirst
<1>2. Ahead(s) \subseteq Ahead(r) /\ s \in Ahead(r) /\ s \notin Ahead(s)
  <2>1. \A x \in S : Tier[x] \in Nat
    BY TierAssumption
  <2>2. s \in Ahead(r)
    BY <1>1
  <2>3. ASSUME NEW y \in Ahead(s) PROVE y \in Ahead(r)
    <3>1. Tier[y] <= Tier[s]
      BY <1>1
    <3> QED
      BY <1>1, <2>1, <3>1
  <2>4. ~LexLess(key[s], key[s])
    <3>1. key[s] = <<Tier[s], svc[s], rr[s], arr[s], s>>
      BY DEF RankKey
    <3>2. \A i \in DOMAIN key[s] : key[s][i] \in Nat
      BY <3>1, TierAssumption, RidsAssumption
    <3> QED
      BY <3>2 DEF LexLess
  <2> QED
    BY <2>2, <2>3, <2>4
<1>3. IsFiniteSet(Ahead(r))
  BY RidsAssumption, FS_Subset
<1>4. /\ Cardinality(Ahead(s)) \in Nat /\ Cardinality(Ahead(r)) \in Nat
      /\ Cardinality(Ahead(s)) < Cardinality(Ahead(r))
  <2>1. IsFiniteSet(Ahead(s)) /\ Cardinality(Ahead(s)) <= Cardinality(Ahead(r))
    BY <1>2, <1>3, FS_Subset
  <2>2. Cardinality(Ahead(s)) # Cardinality(Ahead(r))
    <3> HIDE DEF Ahead
    <3> QED
      BY <1>2, <1>3, FS_Subset
  <2>3. Cardinality(Ahead(s)) \in Nat /\ Cardinality(Ahead(r)) \in Nat
    BY <1>3, <2>1, FS_CardinalityType
  <2> QED
    BY <2>1, <2>2, <2>3
<1> QED
  BY <1>4 DEF Position

(* What is left behind does not come before what was chosen.                *)
LEMMA LeadingFirst ==
  ASSUME NEW S, NEW k, NEW key, NEW T \in Leading(S, k, key), NEW t \in T, NEW s \in S \ T
  PROVE  LexLess(key[t], key[s])
BY DEF Leading

(* What is chosen by rank alone leaves no better tier behind.               *)
LEMMA RankChoice ==
  ASSUME NEW f \in [Rids -> Nat], NEW key, \A r \in Rids : key[r] = <<f[r]>>,
         NEW S \in SUBSET Rids, NEW k, NEW T \in Leading(S, k, key),
         NEW t \in T, NEW s \in S \ T
  PROVE  f[t] <= f[s]
<1>1. T \subseteq S
  BY DEF Leading
<1>2. key[t] = <<f[t]>> /\ key[s] = <<f[s]>> /\ f[t] \in Nat /\ f[s] \in Nat
  BY <1>1
<1>3. LexLess(key[t], key[s])
  BY LeadingFirst
<1> QED
  BY <1>2, <1>3, LexFirst

(* A chunk goes past a better tier only by licence, and so may whatever can *)
(* still be selected: the ranking puts the tiers first.                     *)
Licensed(s) == s \in selected \cup tried \cup refusedPrev

TierOrder ==
  pc = "open" =>
    /\ \A r \in selected \cup Granted, s \in candidates : Tier[s] < Tier[r] => Licensed(s)
    /\ \A r, s \in candidates : Tier[s] < Tier[r] => rank[s] < rank[r]

LEMMA BeginStepTiers ==
  ASSUME TypeOK, BeginStep
  PROVE  TierOrder'
<1> DEFINE key == [r \in Rids |-> <<rank'[r]>>]
<1>1. TypeOK'
  BY BeginStepType
<1>2. /\ candidates' = Prefills /\ Granted' = {}
      /\ rank' = Position(Prefills, RankKey(lastService', rrSeq', arrival'))
  BY DEF BeginStep, Granted, NoGrant
<1>3. /\ rank' \in [Rids -> Nat] /\ candidates' \subseteq Rids
      /\ \A r \in Rids : Tier[r] \in Nat
  BY <1>1, TierAssumption DEF TypeOK, StepType
<1>4. \A r, s \in candidates' : Tier[s] < Tier[r] => rank'[s] < rank'[r]
  <2>1. /\ lastService' \in [Rids -> Nat] /\ rrSeq' \in [Rids -> Nat]
        /\ arrival' \in [Rids -> Nat] /\ Prefills \subseteq Rids
    BY <1>1, <1>2, <1>3 DEF TypeOK, RankType
  <2> QED
    BY <1>2, <2>1, TierRanks
<1>5. \A r \in selected', s \in candidates' : Tier[s] < Tier[r] => Licensed(s)'
  <2>1. CASE selected' = {}
    BY <2>1
  <2>2. CASE \E T \in Leading(Prefills \ refusedPrev', MaxChunks, key) :
               \E U \in Leading(Prefills \ T, Room(T), key) : selected' = T \cup U
    <3>0. PICK T \in Leading(Prefills \ refusedPrev', MaxChunks, key) :
            \E U \in Leading(Prefills \ T, Room(T), key) : selected' = T \cup U
      BY <2>2
    <3>1. PICK U \in Leading(Prefills \ T, Room(T), key) : selected' = T \cup U
      BY <3>0
    <3>2. T \subseteq Prefills /\ U \subseteq Prefills /\ Prefills \subseteq Rids
      BY <1>2, <1>3 DEF Leading
    <3>3. SUFFICES ASSUME NEW r \in T \cup U, NEW s \in Prefills, Tier[s] < Tier[r],
                          s \notin T \cup U, s \notin refusedPrev'
                   PROVE  FALSE
      BY <1>2, <3>1 DEF Licensed
    <3>4. rank'[s] < rank'[r]
      BY <1>2, <1>4, <3>2, <3>3
    <3>5. rank'[r] <= rank'[s]
      <4>1. key = [x \in Rids |-> <<rank'[x]>>]
        OBVIOUS
      <4> HIDE DEF key
      <4>2. CASE r \in T
        BY <1>3, <3>1, <3>2, <3>3, <4>1, <4>2, RankChoice
      <4>3. CASE r \in U
        BY <1>3, <3>1, <3>2, <3>3, <4>1, <4>3, RankChoice
      <4> QED
        BY <3>3, <4>2, <4>3
    <3> QED
      BY <1>3, <3>2, <3>3, <3>4, <3>5
  <2> QED
    BY <2>1, <2>2 DEF BeginStep
<1> QED
  BY <1>2, <1>4, <1>5 DEF TierOrder

(* A promotion takes the best tier that has not had its turn.               *)
LEMMA ReleaseTiers ==
  ASSUME TypeOK, TypeOK', TierOrder, pc = "open", NEW r \in Rids, NEW rotates,
         NEW refusal \in BOOLEAN, Release(r, rotates, refusal),
         UNCHANGED <<candidates, rank, refusedPrev>>
  PROVE  TierOrder'
<1> DEFINE left == selected \ {r}
           held == Granted \ {r}
           eligible == candidates \ (tried \cup {r} \cup left)
           key == PromotionKey(passed', refusal)
<1>1. PICK T \in Leading(eligible, Room(left \cup held), key) : selected' = left \cup T
  BY DEF Release
<1>2. /\ tried' = tried \cup {r} /\ Granted' \subseteq held /\ T \subseteq eligible
      /\ Granted \subseteq Rids /\ candidates \subseteq Rids /\ rank \in [Rids -> Nat]
      /\ \A x \in Rids : Tier[x] \in Nat
  <2>1. /\ candidates \subseteq Rids /\ rank \in [Rids -> Nat] /\ T \subseteq eligible
        /\ grants \in [Rids -> GrantType] /\ Granted \subseteq Rids
    BY DEF Leading, TypeOK, StepType, Granted
  <2>2. tried' = tried \cup {r} /\ grants' = [grants EXCEPT ![r] = NoGrant]
    BY DEF Release
  <2>3. Granted' \subseteq held
    BY <2>1, <2>2 DEF Granted, NoGrant
  <2> QED
    BY <2>1, <2>2, <2>3, TierAssumption
<1>3. ASSUME NEW t \in T, NEW s \in candidates, Tier[s] < Tier[t] PROVE Licensed(s)'
  <2>1. SUFFICES ASSUME s \notin selected' \cup tried' PROVE FALSE
    BY DEF Licensed
  <2>2. s \in eligible \ T
    BY <1>1, <1>2, <2>1
  <2>3. t \in candidates /\ rank[s] < rank[t]
    BY <1>2, <1>3 DEF TierOrder
  <2>4. CASE refusal
    <3>1. key[t][1] = Tier[t] /\ key[s][1] = Tier[s] /\ DOMAIN key[t] = 1..3
      BY <1>2, <2>3, <2>4 DEF PromotionKey
    <3>2. LexLess(key[t], key[s])
      BY <2>2, LeadingFirst
    <3>3. Tier[t] <= Tier[s]
      <4> HIDE DEF key
      <4> QED
        BY <1>2, <2>3, <3>1, <3>2, LexFirst
    <3> QED
      BY <1>2, <1>3, <2>3, <3>3
  <2>5. CASE ~refusal
    <3>1. \A x \in Rids : key[x] = <<rank[x]>>
      BY <2>5 DEF PromotionKey
    <3>2. eligible \subseteq Rids
      BY <1>2
    <3>3. rank[t] <= rank[s]
      <4> HIDE DEF key, eligible
      <4> QED
        BY <1>2, <2>2, <3>1, <3>2, RankChoice
    <3> QED
      BY <1>2, <2>3, <3>3
  <2> QED
    BY <2>4, <2>5
<1>4. ASSUME NEW t \in left \cup held, NEW s \in candidates, Tier[s] < Tier[t]
      PROVE  Licensed(s)'
  BY <1>1, <1>2, <1>4 DEF TierOrder, Licensed
<1> QED
  BY <1>1, <1>2, <1>3, <1>4 DEF TierOrder, Licensed

(* Nothing that the tiers depend on moves.                                  *)
LEMMA SameTiers ==
  ASSUME TierOrder, UNCHANGED <<candidates, rank, selected, tried, grants, refusedPrev>>,
         pc' = pc
  PROVE  TierOrder'
BY DEF TierOrder, Licensed, Granted

LEMMA StepTiers ==
  ASSUME TypeOK, TypeOK', TierOrder, [Next]_vars
  PROVE  TierOrder'
<1>1. CASE pc' = "idle"
  BY <1>1 DEF TierOrder
<1>2. CASE BeginStep
  BY <1>2, BeginStepTiers
<1>3. ASSUME NEW r \in Rids, VisitGranted(r) PROVE TierOrder'
  <2>1. PICK g \in Offers(r) : grants' = [grants EXCEPT ![r] = g]
    BY <1>3 DEF VisitGranted
  <2>2. r \in selected /\ tried' = tried \cup {r} /\ pc' = pc
        /\ UNCHANGED <<candidates, rank, selected, refusedPrev>>
    BY <1>3 DEF VisitGranted, HoldsTurn
  <2>3. Granted' \subseteq Granted \cup {r}
    BY <2>1 DEF Granted, TypeOK, StepType
  <2> QED
    BY <2>2, <2>3 DEF TierOrder, Licensed
<1>4. ASSUME NEW r \in Rids, VisitDeferred(r) PROVE TierOrder'
  BY <1>4, ReleaseTiers DEF VisitDeferred, HoldsTurn, Visiting
<1>5. CASE ChunkZero \/ ChunkRefused
  <2>1. cur \in Rids
    BY <1>5 DEF ChunkZero, ChunkRefused, TypeOK, CallType
  <2> QED
    BY <1>5, <2>1, ReleaseTiers DEF ChunkZero, ChunkRefused
<1>6. CASE UNCHANGED <<pc, stepVars, refusedPrev>>
  BY <1>6, SameTiers DEF stepVars
<1>7. ASSUME NEW r \in Rids, VisitUncapped(r) \/ VisitPassed(r) PROVE TierOrder'
  BY <1>7, SameTiers DEF VisitUncapped, VisitPassed, stepVars
<1>8. CASE ChunkScheduled
  BY <1>8, SameTiers DEF ChunkScheduled, stepVars
<1>9. ASSUME Next, ~BeginStep, pc' # "idle"
      PROVE  \/ \E r \in Rids : Visit(r)
             \/ ChunkScheduled \/ ChunkZero \/ ChunkRefused
             \/ UNCHANGED <<pc, stepVars, refusedPrev>>
  BY <1>9 DEF Next, Environment, Arrive, Leave, NewScheduler, Tick, Preempt, LoopEnds,
     FinishStep, AbortStep, StepEnds, Observe, callVars
<1>10. CASE UNCHANGED vars
  BY <1>10, <1>6 DEF vars, callVars, stepVars
<1>11. CASE Next
  BY <1>1, <1>2, <1>3, <1>4, <1>5, <1>6, <1>7, <1>8, <1>9, <1>11 DEF Visit
<1> QED
  BY <1>10, <1>11

(* Under the priority policy a chunk goes past a better tier's candidate    *)
(* only if that candidate had its turn in this step or was refused blocks   *)
(* in the previous one: through every release and promotion, for any number *)
(* of chunks per step (_select and _promote_next of the fair policy).       *)
THEOREM TiersNotInverted == Spec => []NoTierInversion
<1>1. Init => TypeOK /\ TierOrder
  BY InitType DEF Init, TierOrder
<1>2. TypeOK /\ TierOrder /\ [Next]_vars => (TypeOK /\ TierOrder)'
  BY StepTypeOK, StepTiers
<1>3. TypeOK /\ TierOrder => NoTierInversion
  BY DEF TypeOK, StepType, TierOrder, Licensed, NoTierInversion
<1> QED
  BY <1>1, <1>2, <1>3, PTL DEF Spec

-----------------------------------------------------------------------------
(* The order of service: borrowing                                          *)

(* With one chunk per step, a request that is deferred was the only one     *)
(* selected, so nothing is borrowed then.                                   *)
LEMMA SoleSelected ==
  ASSUME IInv, MaxChunks = 1, NEW r \in selected, r \notin Granted
  PROVE  \A s \in Rids : ~grants[s].borrowed
<1>1. Cardinality(selected \cup Granted) <= 1 /\ selected \cup Granted \subseteq Rids
  BY DEF IInv, Bounds, SlotBound, TypeOK, StepType, Granted
<1>2. IsFiniteSet(selected \cup Granted)
  BY <1>1, RidsAssumption, FS_Subset
<1>3. selected \cup Granted = {r}
  <2>1. Cardinality({r}) = 1 /\ {r} \subseteq selected \cup Granted
    BY FS_Singleton
  <2>2. Cardinality(selected \cup Granted) \in Nat
    BY <1>2, FS_CardinalityType
  <2>3. Cardinality({r}) <= Cardinality(selected \cup Granted)
    BY <1>2, <2>1, FS_Subset
  <2>4. Cardinality({r}) = Cardinality(selected \cup Granted)
    BY <1>1, <2>1, <2>2, <2>3
  <2> QED
    BY <1>2, <2>1, <2>4, FS_Subset
<1>4. \A s \in Rids : grants[s].cap = 0
  BY <1>3, GrantsType DEF IInv
<1> QED
  BY <1>4 DEF IInv, Held, NoGrant

LEMMA StepBorrows ==
  ASSUME IInv, TypeOK', MaxChunks = 1, NoBorrowPastDeferredTier, [Next]_vars
  PROVE  NoBorrowPastDeferredTier'
<1>0. TypeOK /\ \A r \in Rids : NoGrant.borrowed = FALSE
  BY DEF IInv, NoGrant
<1>1. CASE BeginStep \/ FinishStep \/ AbortStep
  BY <1>1, <1>0 DEF BeginStep, FinishStep, AbortStep, StepEnds, NoBorrowPastDeferredTier
<1>2. ASSUME NEW r \in Rids, VisitGranted(r) PROVE NoBorrowPastDeferredTier'
  <2>1. PICK g \in Offers(r) : grants' = [grants EXCEPT ![r] = g]
    BY <1>2 DEF VisitGranted
  <2>2. g.borrowed => MayBorrow(r)
    BY DEF Offers, Grant
  <2>3. deferredTiers \subseteq Nat /\ Tier[r] \in Nat
        /\ deferredTiers' = deferredTiers
    BY <1>0, <1>2, TierAssumption DEF VisitGranted, TypeOK, StepType
  <2>4. g.borrowed => \A d \in deferredTiers : d >= Tier[r]
    BY <2>2, <2>3 DEF MayBorrow
  <2>5. \A s \in Rids : grants'[s] = IF s = r THEN g ELSE grants[s]
    BY <1>0, <2>1 DEF TypeOK, StepType
  <2> QED
    BY <2>3, <2>4, <2>5 DEF NoBorrowPastDeferredTier
<1>3. ASSUME NEW r \in Rids, NEW rotates, NEW refusal, Release(r, rotates, refusal)
      PROVE  \A s \in Rids : grants'[s].borrowed => grants[s].borrowed
  <2>1. \A s \in Rids : grants'[s] = IF s = r THEN NoGrant ELSE grants[s]
    BY <1>0, <1>3 DEF Release, TypeOK, StepType
  <2> QED
    BY <1>0, <2>1
<1>4. ASSUME NEW r \in Rids, VisitDeferred(r) PROVE NoBorrowPastDeferredTier'
  <2>1. r \in selected /\ r \notin Granted
    BY <1>4 DEF VisitDeferred, HoldsTurn, Visiting, Turn, IInv, Held
  <2>2. \A s \in Rids : ~grants[s].borrowed
    BY <2>1, SoleSelected
  <2> QED
    BY <1>3, <1>4, <2>2 DEF VisitDeferred, NoBorrowPastDeferredTier
<1>5. CASE ChunkZero \/ ChunkRefused
  <2>1. cur \in Rids
    BY <1>0, <1>5 DEF ChunkZero, ChunkRefused, TypeOK, CallType
  <2>2. deferredTiers' = deferredTiers
    BY <1>5 DEF ChunkZero, ChunkRefused
  <2> QED
    BY <1>3, <1>5, <2>1, <2>2 DEF ChunkZero, ChunkRefused, NoBorrowPastDeferredTier
<1>6. CASE UNCHANGED <<grants, deferredTiers>>
  BY <1>6 DEF NoBorrowPastDeferredTier
<1>7. ASSUME NEW r \in Rids, VisitUncapped(r) \/ VisitPassed(r)
      PROVE  UNCHANGED <<grants, deferredTiers>>
  BY <1>7 DEF VisitUncapped, VisitPassed, stepVars
<1>8. ASSUME Environment \/ Tick \/ (\E d, v \in Rids : Preempt(d, v)) \/ ChunkScheduled
             \/ LoopEnds \/ Observe \/ UNCHANGED vars
      PROVE  UNCHANGED <<grants, deferredTiers>>
  BY <1>8 DEF Environment, Arrive, Leave, NewScheduler, Tick, Preempt, ChunkScheduled,
     LoopEnds, Observe, stepVars, vars
<1> QED
  BY <1>1, <1>2, <1>4, <1>5, <1>6, <1>7, <1>8 DEF Next, Visit

(* With one chunk per step, the default of GLM53_FAIR_PREFILL_MAX_CHUNKS, a *)
(* tier is passed over only by licence and never borrowed past once it was  *)
(* deferred.  With more the second half is false, as the run                *)
(* fair_borrow_past shows.                                                  *)
THEOREM TiersKeptByOneChunk == MaxChunks = 1 => (Spec => []TiersKept)
<1> SUFFICES ASSUME MaxChunks = 1 PROVE Spec => []TiersKept
  OBVIOUS
<1>1. Init => NoBorrowPastDeferredTier
  BY DEF Init, NoBorrowPastDeferredTier, NoGrant
<1>2. IInv /\ IInv' /\ NoBorrowPastDeferredTier /\ [Next]_vars => NoBorrowPastDeferredTier'
  BY StepBorrows DEF IInv
<1>3. NoTierInversion /\ NoBorrowPastDeferredTier => TiersKept
  BY DEF TiersKept
<1> QED
  BY <1>1, <1>2, <1>3, Safety, TiersNotInverted, PTL DEF Spec

-----------------------------------------------------------------------------
(* The order of service: whose age it is                                    *)

(* An id carries its service age together with the object that earned it,   *)
(* which is the one it was last bound to; an output in flight knows the     *)
(* objects it served.                                                       *)
Earned ==
  /\ \A r \in Rids : lastService[r] > 0 => earnedBy[r] = incarn[r] /\ incarn[r] # 0
  /\ \A r \in Rids : /\ reqs[r].at = "out" => reqs[r].rem = 0
                     /\ reqs[r].at # "out" => reqs[r].obj # 0
  /\ pc = "open" => /\ \A r \in Live : incarn[r] = reqs[r].obj
                    /\ todo \subseteq Live /\ cur \in Live \cup {0}
  /\ \A i \in DOMAIN inflight, r \in Rids :
       inflight[i].prefill[r] > 0 => inflight[i].incarn[r] # 0

(* Packing keeps zero, and so does stamping others.                         *)
LEMMA StampZero ==
  ASSUME NEW f \in [Rids -> Nat], NEW S, NEW pos, NEW r \in Rids, r \notin S, f[r] = 0
  PROVE  Stamp(f, S, pos)[r] = 0
<1> DEFINE g == [x \in Rids |-> IF x \in S THEN Cardinality(Rids) + 1 + pos[x] ELSE f[x]]
<1>1. g[r] = 0
  OBVIOUS
<1>2. {g[s] : s \in Rids} \cap (1..g[r]) = {}
  <2> HIDE DEF g
  <2> QED
    BY <1>1
<1>3. Compact(g)[r] = 0
  <2> HIDE DEF g
  <2> QED
    BY <1>2, FS_EmptySet DEF Compact
<1> QED
  BY <1>3 DEF Stamp

(* A step that moves requests only between the lists, or lets them go.      *)
LEMMA SameEarned ==
  ASSUME Earned, UNCHANGED <<lastService, earnedBy, incarn, inflight>>,
         pc' = pc \/ pc' = "idle",
         pc' = "open" => todo' \subseteq todo /\ cur' \in todo \cup {0, cur},
         \A r \in Rids : reqs'[r].at # "out" =>
            reqs[r].at # "out" /\ reqs'[r].obj = reqs[r].obj,
         \A r \in Rids : reqs'[r].at = "out" => reqs'[r].rem = 0,
         pc' = "open" => \A r \in Rids : reqs[r].at # "out" => reqs'[r].at # "out"
  PROVE  Earned'
BY DEF Earned, Live

LEMMA BeginStepEarned ==
  ASSUME TypeOK, Earned, BeginStep
  PROVE  Earned'
<1>1. /\ reqs' = reqs /\ pc' = "open" /\ todo' = Live /\ cur' = 0
      /\ incarn' = [r \in Rids |-> IF r \in Live THEN reqs[r].obj ELSE 0]
      /\ lastService' = Kept(lastService) /\ earnedBy' = Kept(earnedBy)
      /\ inflight' \in {<<>>, inflight}
  BY DEF BeginStep
<1>2. ASSUME NEW r \in Rids, lastService'[r] > 0
      PROVE  earnedBy'[r] = incarn'[r] /\ incarn'[r] # 0
  <2>1. ~Forgotten(r) /\ lastService[r] > 0 /\ earnedBy'[r] = earnedBy[r]
    BY <1>1, <1>2 DEF Kept
  <2>2. r \in Live /\ incarn[r] = reqs[r].obj /\ earnedBy[r] = incarn[r] /\ incarn[r] # 0
    BY <2>1 DEF Forgotten, Earned
  <2> QED
    BY <1>1, <2>1, <2>2
<1>3. /\ \A r \in Live' : incarn'[r] = reqs'[r].obj
      /\ todo' = Live' /\ cur' = 0
  BY <1>1 DEF Live
<1>4. \A i \in DOMAIN inflight', r \in Rids :
        inflight'[i].prefill[r] > 0 => inflight'[i].incarn[r] # 0
  BY <1>1 DEF Earned
<1> QED
  BY <1>1, <1>2, <1>3, <1>4 DEF Earned

(* What a finished step dispatches was served to objects it knows.          *)
LEMMA FinishStepEarned ==
  ASSUME TypeOK, Earned, FinishStep
  PROVE  Earned'
<1> DEFINE prefill == [r \in Rids |-> PrefillPart(r)]
           rec == [had_decode |-> hadDecode, prefill |-> prefill,
                   reserved |-> Charged, since |-> 0,
                   incarn |-> [r \in Rids |-> IF prefill[r] > 0 THEN incarn[r] ELSE 0]]
<1>1. /\ UNCHANGED <<lastService, earnedBy, incarn>> /\ pc = "open" /\ pc' = "idle"
      /\ reqs' = [r \in Rids |-> [reqs[r] EXCEPT !.rem = @ - prefill[r]]]
      /\ inflight' = inflight \/ inflight' = Append(inflight, rec)
  BY DEF FinishStep, StepEnds, rankVars
<1>2. ASSUME NEW r \in Rids
      PROVE  /\ reqs'[r].at = reqs[r].at /\ reqs'[r].obj = reqs[r].obj
             /\ reqs[r].rem = 0 => reqs'[r].rem = 0 /\ ~(prefill[r] > 0)
  <2>1. reqs[r] \in Request /\ num[r] \in Nat
    BY SizeAssumption DEF TypeOK, CallType
  <2>2. reqs'[r] = [reqs[r] EXCEPT !.rem = @ - prefill[r]]
    BY <1>1
  <2>3. reqs[r].rem = 0 => prefill[r] = 0
    BY <2>1 DEF PrefillPart, Smaller
  <2> QED
    BY <2>1, <2>2, <2>3 DEF Request
<1>3. ASSUME NEW r \in Rids, prefill[r] > 0 PROVE rec.incarn[r] # 0
  <2>1. reqs[r].at # "out"
    BY <1>2, <1>3 DEF Earned
  <2> QED
    BY <1>1, <1>3, <2>1 DEF Earned, Live
<1>4. ASSUME NEW i \in DOMAIN inflight', NEW r \in Rids, inflight'[i].prefill[r] > 0
      PROVE  inflight'[i].incarn[r] # 0
  <2>1. CASE inflight' = inflight
    BY <1>4, <2>1 DEF Earned
  <2>2. CASE inflight' = Append(inflight, rec)
    <3>1. inflight \in Seq(Flight)
      BY DEF TypeOK, CreditType
    <3>2. \/ i \in DOMAIN inflight /\ inflight'[i] = inflight[i]
          \/ inflight'[i] = rec
      <4> HIDE DEF rec
      <4> QED
        BY <2>2, <3>1, <1>4
    <3> QED
      BY <1>3, <1>4, <3>2 DEF Earned
  <2> QED
    BY <1>1, <2>1, <2>2
<1> QED
  BY <1>1, <1>2, <1>4 DEF Earned

(* A completion credits the objects it served, if they are still bound.     *)
LEMMA ObserveEarned ==
  ASSUME TypeOK, Earned, Observe
  PROVE  Earned'
<1> DEFINE rec == Head(inflight)
           credited == {r \in {r \in Rids : rec.prefill[r] > 0} : rec.incarn[r] = incarn[r]}
<1>1. /\ inflight' = Tail(inflight) /\ reqs' = reqs /\ pc' = "idle"
      /\ lastService' = Pruned(Stamp(lastService, credited, None))
      /\ earnedBy' = Pruned([r \in Rids |->
                       IF r \in credited THEN rec.incarn[r] ELSE earnedBy[r]])
      /\ incarn' = Pruned(incarn)
  BY DEF Observe, envVars, callVars
<1>2. /\ inflight \in Seq(Flight) /\ inflight # <<>> /\ 1 \in DOMAIN inflight
      /\ rec = inflight[1] /\ lastService \in [Rids -> Nat]
  BY DEF Observe, TypeOK, CreditType, RankType
<1>3. ASSUME NEW r \in Rids, lastService'[r] > 0
      PROVE  earnedBy'[r] = incarn'[r] /\ incarn'[r] # 0
  <2>1. r \in Live /\ incarn'[r] = incarn[r]
        /\ Stamp(lastService, credited, None)[r] > 0
    BY <1>1, <1>3 DEF Pruned
  <2>2. CASE r \in credited
    <3>1. rec.incarn[r] = incarn[r] /\ rec.incarn[r] # 0
      BY <1>2, <2>2 DEF Earned
    <3> QED
      BY <1>1, <2>1, <2>2, <3>1 DEF Pruned
  <2>3. CASE r \notin credited
    <3>1. lastService[r] > 0
      <4> HIDE DEF credited
      <4> QED
        BY <1>2, <2>1, <2>3, StampZero
    <3> QED
      BY <1>1, <2>1, <2>3, <3>1 DEF Pruned, Earned
  <2> QED
    BY <2>2, <2>3
<1>4. \A i \in DOMAIN inflight' : i + 1 \in DOMAIN inflight /\ inflight'[i] = inflight[i + 1]
  BY <1>1, <1>2
<1> QED
  BY <1>1, <1>3, <1>4 DEF Earned

LEMMA StepEarned ==
  ASSUME TypeOK, TypeOK', Earned, [Next]_vars
  PROVE  Earned'
<1>0. reqs \in [Rids -> Request] /\ todo \subseteq Rids /\ cur \in Rids \cup {0} /\ 0 \notin Rids
  BY RidsAssumption DEF TypeOK, CallType
<1>1. ASSUME UNCHANGED <<reqs, lastService, earnedBy, incarn, inflight>>,
             pc' = pc \/ pc' = "idle",
             pc' = "open" => todo' \subseteq todo /\ cur' \in todo \cup {0, cur}
      PROVE  Earned'
  BY <1>1, SameEarned DEF Earned
<1>2. ASSUME NEW r \in Rids, VisitPassed(r) \/ VisitGranted(r) \/ VisitDeferred(r)
      PROVE  Earned'
  <2>1. r \in todo
    BY <1>2 DEF VisitPassed, VisitGranted, VisitDeferred, HoldsTurn, Visiting, Turn
  <2> QED
    BY <1>1, <1>2, <2>1 DEF VisitPassed, VisitGranted, VisitDeferred, rankVars, envVars
<1>3. CASE ChunkZero \/ ChunkRefused \/ LoopEnds \/ AbortStep \/ UNCHANGED vars
  BY <1>1, <1>3 DEF ChunkZero, ChunkRefused, LoopEnds, AbortStep, StepEnds, vars, rankVars,
                    envVars, callVars
<1>4. ASSUME NEW r \in Live, NEW n \in Int, Scheduled(r, n)
      PROVE  \A s \in Rids : /\ reqs'[s].obj = reqs[s].obj /\ reqs'[s].rem = reqs[s].rem
                             /\ reqs'[s].at = "out" <=> reqs[s].at = "out"
  BY <1>0, <1>4 DEF Scheduled, Request, Live
<1>5. ASSUME NEW r \in Rids, VisitUncapped(r) PROVE Earned'
  <2>1. r \in todo /\ pc = "open"
    BY <1>5 DEF VisitUncapped, Visiting, Turn
  <2>2. PICK n \in 0..Larger(1, reqs[r].rem) : Scheduled(r, n)
    BY <1>5 DEF VisitUncapped
  <2>3. r \in Live
    BY <2>1 DEF Earned
  <2> QED
    BY <1>4, <1>5, <2>2, <2>3, SameEarned DEF VisitUncapped, rankVars, Earned
<1>6. CASE ChunkScheduled
  <2>1. cur \in Live
    BY <1>0, <1>6 DEF ChunkScheduled, Earned
  <2>2. PICK n \in 1..grants[cur].cap : Scheduled(cur, n)
    BY <1>6 DEF ChunkScheduled
  <2> QED
    BY <1>4, <1>6, <2>1, <2>2, SameEarned DEF ChunkScheduled, rankVars, Earned
<1>7. ASSUME NEW d \in Rids, NEW v \in Rids, Preempt(d, v) PROVE Earned'
  <2>1. PICK n \in 1..MaxTok :
          reqs' = [reqs EXCEPT ![v] = [at |-> "waiting", rem |-> n, obj |-> @.obj]]
    BY <1>7 DEF Preempt
  <2>2. reqs[v].at # "out" /\ todo' \subseteq todo /\ pc' = pc /\ cur' = cur
    BY <1>7 DEF Preempt, Running
  <2>3. \A s \in Rids : /\ reqs'[s].obj = reqs[s].obj
                        /\ reqs'[s].at = "out" <=> reqs[s].at = "out"
                        /\ reqs'[s].at = "out" => reqs'[s].rem = reqs[s].rem
    BY <1>0, <2>1, <2>2
  <2> QED
    BY <1>7, <2>2, <2>3, SameEarned DEF Preempt, rankVars, Earned
<1>8. ASSUME NEW r \in Rids, Leave(r) PROVE Earned'
  <2>1. \A s \in Rids : reqs'[s] = IF s = r THEN Gone ELSE reqs[s]
    BY <1>0, <1>8 DEF Leave
  <2> QED
    BY <1>8, <2>1, SameEarned DEF Leave, rankVars, callVars, Earned, Gone
<1>9. CASE NewScheduler
  <2>1. \A s \in Rids : reqs'[s].at = "out" /\ reqs'[s].rem = 0
    BY <1>9 DEF NewScheduler, Gone
  <2> QED
    BY <1>9, <2>1, SameEarned DEF NewScheduler, rankVars, callVars
<1>10. ASSUME NEW r \in Rids, Arrive(r) PROVE Earned'
  <2>1. PICK n \in 1..MaxTok, o \in Addrs :
          reqs' = [reqs EXCEPT ![r] = [at |-> "waiting", rem |-> n, obj |-> o]]
    BY <1>10 DEF Arrive
  <2>2. o # 0
    BY LimitAssumption
  <2>3. \A s \in Rids : \/ s = r /\ reqs'[s].at # "out" /\ reqs'[s].obj # 0
                       \/ reqs'[s] = reqs[s]
    BY <1>0, <2>1, <2>2
  <2> QED
    BY <1>10, <2>3 DEF Arrive, rankVars, callVars, Earned
<1>11. CASE Tick
  <2>1. \A i \in DOMAIN inflight : inflight[i] \in Flight
    BY DEF TypeOK, CreditType
  <2>2. /\ DOMAIN inflight' = DOMAIN inflight
        /\ \A i \in DOMAIN inflight : /\ inflight'[i].prefill = inflight[i].prefill
                                      /\ inflight'[i].incarn = inflight[i].incarn
    BY <1>11, <2>1 DEF Tick, Flight
  <2>3. UNCHANGED <<reqs, lastService, earnedBy, incarn>> /\ pc' = "idle"
    BY <1>11 DEF Tick, envVars, callVars
  <2> QED
    BY <2>2, <2>3 DEF Earned, Live
<1> QED
  BY <1>2, <1>3, <1>5, <1>6, <1>7, <1>8, <1>9, <1>10, <1>11, BeginStepEarned,
     FinishStepEarned, ObserveEarned DEF Next, Environment, Visit

(* The service age a request is ranked by was earned by that very request   *)
(* object, never by an earlier one under the same id, whatever was in       *)
(* flight when the id was bound again (_track_incarnations and              *)
(* observe_output of the fair policy).                                      *)
THEOREM ServiceIsOnesOwn == Spec => []ServiceBelongsToRequest
<1>1. Init => TypeOK /\ Earned
  BY InitType DEF Init, Earned, Gone, None
<1>2. TypeOK /\ Earned /\ [Next]_vars => (TypeOK /\ Earned)'
  BY StepTypeOK, StepEarned
<1>3. TypeOK /\ Earned => ServiceBelongsToRequest
  BY DEF Earned, Live, ServiceBelongsToRequest
<1> QED
  BY <1>1, <1>2, <1>3, PTL DEF Spec

=============================================================================
