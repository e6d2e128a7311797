------------------------------ MODULE EngineProofs ------------------------------
(****************************************************************************)
(* Proofs about a step of the engine: the alignment of the recurrent states *)
(* to the pages of the pool, for any pages, prompt, batches in flight and   *)
(* blocks to speculate; and the tier of kernels its experts are served by.  *)
(****************************************************************************)
EXTENDS ServingProofs

(****************************************************************************)
(* The recurrent states of a prefill                                        *)
(****************************************************************************)

(* What the parameters satisfy.                                             *)
LEMMA MambaConstants ==
  /\ \A p \in MambaPages : p \in Nat \ {0} /\ MambaCheckpoint % p = 0
  /\ MambaCheckpoint \in Nat \ {0} /\ MambaPrompt \in Nat \ {0}
  /\ MambaBatches \in Nat \ {0} /\ MambaBackoff \in {0, MambaCheckpoint}
  /\ MambaSpec \in Nat /\ MambaGrants \subseteq Nat \ {0}
BY ServingAssumption DEF MA!MambaAssumption

(* Cardinality and the bounds of a set mean the same inside the instance.   *)
LEMMA SameCount == \A S : MA!Cardinality(S) = Cardinality(S)
  BY DEF MA!Cardinality, Cardinality

LEMMA LeastOf ==
  ASSUME NEW S \in SUBSET Nat, S # {}
  PROVE  MA!Min(S) \in S /\ \A x \in S : MA!Min(S) <= x
<1>1. \E n \in S : \A m \in S : n <= m
  BY Lowest
<1> QED
  BY <1>1 DEF MA!Min

LEMMA GreatestOf ==
  ASSUME NEW n \in Nat, NEW S \in SUBSET (0..n), S # {}
  PROVE  MA!Max(S) \in S /\ \A x \in S : x <= MA!Max(S)
<1>1. \E x \in S : \A y \in S : x >= y
  BY Highest
<1>2. S \subseteq Int
  OBVIOUS
<1> QED
  BY <1>1, <1>2 DEF MA!Max

(* The number of pages that cover n tokens.                                 *)
LEMMA Pages ==
  ASSUME NEW n \in Nat, NEW p \in Nat \ {0}
  PROVE  /\ MA!Cdiv(n, p) \in Nat /\ MA!Cdiv(n, p) * p \in Nat
         /\ n <= MA!Cdiv(n, p) * p /\ MA!Cdiv(n, p) * p < n + p
         /\ \A k \in Int : n <= k * p <=> MA!Cdiv(n, p) <= k
<1> PICK t, q, x : t = n + p - 1 /\ q = t \div p /\ x = t % p
  OBVIOUS
<1>1. t \in Int /\ q \in Int /\ x \in 0..(p - 1) /\ t = q * p + x /\ q * p \in Int
  BY Divided
<1>2. MA!Cdiv(n, p) = q
  BY DEF MA!Cdiv
<1>3. n <= q * p /\ q * p < n + p
  BY <1>1
<1>4. q \in Nat
  <2> SUFFICES ASSUME q < 0 PROVE FALSE
    BY <1>1
  <2>1. q * p + p <= 0 * p
    BY <1>1, Grows
  <2> QED
    BY <1>1, <2>1
<1>5. ASSUME NEW k \in Int PROVE n <= k * p <=> q <= k
  <2>0. k * p \in Int
    OBVIOUS
  <2>1. CASE q <= k
    <3>1. q = k \/ q * p + p <= k * p
      BY <1>1, <2>1, Grows
    <3> QED
      BY <1>1, <1>3, <2>0, <2>1, <3>1
  <2>2. CASE k < q
    <3>1. k * p + p <= q * p
      BY <1>1, <2>2, Grows
    <3> QED
      BY <1>1, <1>3, <2>0, <2>2, <3>1
  <2> QED
    BY <1>1, <2>1, <2>2
<1>6. q * p \in Nat
  BY <1>1, <1>3
<1> QED
  BY <1>2, <1>3, <1>4, <1>5, <1>6

LEMMA PagesGrow ==
  ASSUME NEW a \in Nat, NEW b \in Nat, a <= b, NEW p \in Nat \ {0}
  PROVE  MA!Cdiv(a, p) <= MA!Cdiv(b, p)
<1> PICK k : k = MA!Cdiv(b, p)
  OBVIOUS
<1>1. k \in Nat /\ k * p \in Nat /\ b <= k * p
  BY Pages
<1>2. a <= k * p
  BY <1>1
<1> QED
  BY <1>1, <1>2, Pages

(* A multiple of a page is covered exactly.                                 *)
LEMMA PagesExact ==
  ASSUME NEW n \in Nat, NEW p \in Nat \ {0}, n % p = 0
  PROVE  n = MA!Cdiv(n, p) * p /\ MA!Cdiv(n, p) = n \div p
<1> PICK d, q : d = n \div p /\ q = MA!Cdiv(n, p)
  OBVIOUS
<1>1. d \in Int /\ n = d * p + 0 /\ d * p \in Int
  BY Divided
<1>2. q \in Nat /\ q * p \in Nat /\ n <= q * p /\ q * p < n + p
  BY Pages
<1>3. q <= d
  BY <1>1, <1>2, Pages
<1>4. ~(q < d)
  <2> SUFFICES ASSUME q < d PROVE FALSE
    OBVIOUS
  <2>1. q * p + p <= d * p
    BY <1>1, <1>2, Grows
  <2> QED
    BY <1>1, <1>2, <2>1
<1> QED
  BY <1>1, <1>2, <1>3, <1>4

(* From the middle of a page, the rest of it.                               *)
LEMMA PagesInside ==
  ASSUME NEW n \in Nat, NEW p \in Nat \ {0}, n % p # 0
  PROVE  MA!Cdiv(n, p) = n \div p + 1
<1>0. /\ n \div p \in Int /\ n % p \in 0..(p - 1)
      /\ n = (n \div p) * p + (n % p)
  BY Divided
<1> PICK d, x, q : d = n \div p /\ x = n % p /\ q = MA!Cdiv(n, p)
  OBVIOUS
<1>1. d \in Int /\ x \in 1..(p - 1) /\ n = d * p + x /\ d * p \in Int
  BY <1>0
<1>2. q \in Nat
  BY Pages
<1>3. ~(n <= d * p)
  BY <1>1
<1>4. (d + 1) * p = d * p + p /\ d + 1 \in Int
  BY <1>1
<1>5. n <= (d + 1) * p
  BY <1>1, <1>4
<1>6. ~(q <= d) /\ q <= d + 1
  BY <1>1, <1>3, <1>4, <1>5, Pages
<1> QED
  BY <1>1, <1>2, <1>6

LEMMA Multiple ==
  ASSUME NEW p \in Nat \ {0}, NEW g \in Int
  PROVE  g * p \in Int /\ (g * p) % p = 0
<1>1. 0 \in 0..(p - 1) /\ g * p \in Int
  OBVIOUS
<1>2. (g * p + 0) % p = 0
  BY <1>1, DivMod
<1> QED
  BY <1>1, <1>2

(* What divides the checkpoint divides its multiples.                       *)
LEMMA OnPages ==
  ASSUME NEW n \in Nat, NEW p \in MambaPages, n % MambaCheckpoint = 0
  PROVE  n % p = 0
<1> PICK c : c = MambaCheckpoint
  OBVIOUS
<1>1. c \in Nat \ {0} /\ p \in Nat \ {0} /\ c % p = 0
  BY MambaConstants
<1> PICK a, b : a = n \div c /\ b = c \div p
  OBVIOUS
<1>2. a \in Int /\ n = a * c + 0
  BY <1>1, Divided
<1>3. b \in Int /\ c = b * p + 0
  BY <1>1, Divided
<1>4. a * (b * p) = (a * b) * p
  BY <1>1, <1>2, <1>3
<1> PICK g : g = a * b
  OBVIOUS
<1>5. g \in Int /\ n = g * p /\ 0 \in 0..(p - 1)
  <2>1. n = a * c /\ c = b * p
    BY <1>1, <1>2, <1>3
  <2>2. g \in Int /\ 0 \in 0..(p - 1)
    BY <1>1, <1>2, <1>3
  <2> QED
    BY <1>4, <2>1, <2>2
<1> QED
  BY <1>1, <1>5, Multiple

(* The next boundary of a page is ahead, and at most a page.                *)
LEMMA BoundaryAhead ==
  ASSUME NEW n \in Nat, NEW p \in Nat \ {0}
  PROVE  MA!Boundary(n, p) \in Nat /\ n < MA!Boundary(n, p)
<1>1. /\ n \div p \in Int /\ n % p \in 0..(p - 1)
      /\ n = (n \div p) * p + (n % p)
  BY Divided
<1> PICK d, x : d = n \div p /\ x = n % p
  OBVIOUS
<1>2. d \in Int /\ x \in 0..(p - 1) /\ n = d * p + x /\ d * p \in Int
  BY <1>1
<1>3. (d + 1) * p = d * p + p
  BY <1>2
<1> QED
  BY <1>2, <1>3 DEF MA!Boundary

LEMMA LastBefore == MA!LastCheckpoint \in Nat /\ MA!LastCheckpoint <= MambaPrompt
<1> PICK x : x = MambaPrompt % MambaCheckpoint
  OBVIOUS
<1>1. MambaPrompt \in Nat /\ MambaBackoff \in Nat
  BY MambaConstants
<1>2. x \in Nat
  BY MambaConstants
<1>3. MambaPrompt - x - MambaBackoff \in Int
  BY <1>1, <1>2
<1> QED
  BY <1>1, <1>2, <1>3 DEF MA!LastCheckpoint, MA!Most

(* Where a chunk may have to end: ahead of its start, and from the middle   *)
(* of a page no later than the end of that page.                            *)
LEMMA StopsAhead ==
  ASSUME NEW n \in Nat
  PROVE  /\ \A s \in MA!Stops(n) : s \in Nat /\ n < s
         /\ \A p \in MambaPages : n % p # 0 =>
              MA!NextBoundary(n) \in MA!Stops(n) /\ MA!NextBoundary(n) <= MA!Boundary(n, p)
<1> DEFINE pages == MA!SubPages(n) \cup {MambaCheckpoint}
           S == {MA!Boundary(n, p) : p \in pages}
<1>1. \A p \in pages : p \in Nat \ {0}
  BY MambaConstants DEF MA!SubPages
<1>2. \A s \in S : s \in Nat /\ n < s
  BY <1>1, BoundaryAhead
<1>3. S \in SUBSET Nat /\ S # {}
  BY <1>2
<1>4. MA!NextBoundary(n) = MA!Min(S)
  BY DEF MA!NextBoundary
<1>5. MA!NextBoundary(n) \in S /\ \A s \in S : MA!NextBoundary(n) <= s
  <2> HIDE DEF S
  <2> QED
    BY <1>3, <1>4, LeastOf
<1>6. \A s \in MA!Stops(n) : s \in Nat /\ n < s
  BY <1>2, <1>5, LastBefore DEF MA!Stops
<1>7. ASSUME NEW p \in MambaPages, n % p # 0
      PROVE  MA!NextBoundary(n) \in MA!Stops(n) /\ MA!NextBoundary(n) <= MA!Boundary(n, p)
  <2>1. n % MambaCheckpoint # 0
    BY <1>7, OnPages
  <2>2. p \in pages
    BY <1>7 DEF MA!SubPages
  <2>3. MA!Boundary(n, p) \in S
    BY <2>2
  <2> QED
    BY <1>5, <2>1, <2>3 DEF MA!Stops
<1> QED
  BY <1>6, <1>7

LEMMA RoundedAhead ==
  ASSUME NEW n \in Nat, NEW e \in Nat, n < e, e <= MambaPrompt
  PROVE  /\ MA!Rounded(n, e) \in Nat
         /\ n < MA!Rounded(n, e) /\ MA!Rounded(n, e) <= MambaPrompt
<1> PICK x : x = e % MambaCheckpoint
  OBVIOUS
<1>1. MambaCheckpoint \in Nat \ {0} /\ MambaPrompt \in Nat
  BY MambaConstants
<1>2. x \in 0..(MambaCheckpoint - 1)
  BY <1>1
<1> QED
  BY <1>1, <1>2 DEF MA!Rounded

(* A positive grant makes progress, never past a page that was begun nor    *)
(* past the last checkpoint.                                                *)
LEMMA SplitAdvances ==
  ASSUME NEW n \in Nat, n < MambaPrompt, NEW grant \in MambaGrants
  PROVE  /\ MA!SplitEnd(n, grant) \in Nat
         /\ n < MA!SplitEnd(n, grant) /\ MA!SplitEnd(n, grant) <= MambaPrompt
         /\ n < MA!LastCheckpoint => MA!SplitEnd(n, grant) <= MA!LastCheckpoint
         /\ \A p \in MambaPages : n % p # 0 => MA!SplitEnd(n, grant) <= MA!Boundary(n, p)
<1> PICK e : e = MA!Least(n + grant, MambaPrompt)
  OBVIOUS
<1> PICK rnd : rnd = MA!Rounded(n, e)
  OBVIOUS
<1> DEFINE S == {rnd} \cup MA!Stops(n)
<1>1. e \in Nat /\ n < e /\ e <= MambaPrompt /\ MambaPrompt \in Nat
  BY MambaConstants DEF MA!Least
<1>2. rnd \in Nat /\ n < rnd /\ rnd <= MambaPrompt
  BY <1>1, RoundedAhead
<1>3. \A s \in S : s \in Nat /\ n < s
  BY <1>2, StopsAhead
<1>4. MA!SplitEnd(n, grant) = MA!Min(S)
  BY DEF MA!SplitEnd
<1>5. S \in SUBSET Nat /\ S # {}
  BY <1>3
<1> PICK m : m = MA!SplitEnd(n, grant)
  OBVIOUS
<1>6. m \in S /\ \A s \in S : m <= s
  <2> HIDE DEF S
  <2> QED
    BY <1>4, <1>5, LeastOf
<1>7. m \in Nat /\ n < m /\ m <= MambaPrompt
  <2>1. m \in Nat /\ n < m
    BY <1>3, <1>6
  <2>2. m <= rnd
    BY <1>6
  <2> QED
    BY <1>1, <1>2, <2>1, <2>2
<1>8. n < MA!LastCheckpoint => m <= MA!LastCheckpoint
  BY <1>6 DEF MA!Stops
<1>9. ASSUME NEW p \in MambaPages, n % p # 0 PROVE m <= MA!Boundary(n, p)
  <2>1. /\ MA!NextBoundary(n) \in MA!Stops(n)
        /\ MA!NextBoundary(n) <= MA!Boundary(n, p)
    BY <1>9, StopsAhead
  <2>2. m <= MA!NextBoundary(n) /\ MA!NextBoundary(n) \in Nat
    BY <1>3, <1>6, <2>1
  <2>3. p \in Nat \ {0}
    BY MambaConstants
  <2>4. MA!Boundary(n, p) \in Nat
    BY <2>3, BoundaryAhead
  <2> QED
    BY <1>7, <2>1, <2>2, <2>4
<1> QED
  BY <1>7, <1>8, <1>9

LEMMA Repeated ==
  ASSUME NEW g \in Nat, NEW v \in Int
  PROVE  /\ [i \in 1..g |-> v] \in Seq(Int) /\ Len([i \in 1..g |-> v]) = g
         /\ \A i \in 1..g : [j \in 1..g |-> v][i] = v
OBVIOUS

LEMMA Blanked ==
  ASSUME NEW t \in Seq(Int), NEW M
  PROVE  LET k == [i \in 1..Len(t) |-> IF i - 1 \in M THEN MA!Null ELSE t[i]]
         IN /\ k \in Seq(Int) /\ Len(k) = Len(t)
            /\ \A i \in 1..Len(t) : k[i] = IF i - 1 \in M THEN MA!Null ELSE t[i]
BY DEF MA!Null

(* A sequence put together from four.                                       *)
Joined(e, a, b, c, d) ==
  /\ e \in Seq(Int) /\ Len(e) = Len(a) + Len(b) + Len(c) + Len(d)
  /\ \A i \in 1..Len(e) :
       e[i] = IF i <= Len(a) THEN a[i]
              ELSE IF i <= Len(a) + Len(b) THEN b[i - Len(a)]
              ELSE IF i <= Len(a) + Len(b) + Len(c) THEN c[i - Len(a) - Len(b)]
              ELSE d[i - Len(a) - Len(b) - Len(c)]

LEMMA FourParts ==
  ASSUME NEW a \in Seq(Int), NEW b \in Seq(Int), NEW c \in Seq(Int), NEW d \in Seq(Int),
         NEW e, e = a \o b \o c \o d
  PROVE  Joined(e, a, b, c, d) /\ Len(a \o b \o c) = Len(a) + Len(b) + Len(c)
<1> PICK f : f = a \o b
  OBVIOUS
<1>1. f \in Seq(Int) /\ Len(f) = Len(a) + Len(b)
  OBVIOUS
<1>2. \A i \in 1..Len(f) : f[i] = IF i <= Len(a) THEN a[i] ELSE b[i - Len(a)]
  OBVIOUS
<1> PICK g : g = f \o c
  OBVIOUS
<1>3. g \in Seq(Int) /\ Len(g) = Len(f) + Len(c)
  BY <1>1
<1>4. \A i \in 1..Len(g) : g[i] = IF i <= Len(f) THEN f[i] ELSE c[i - Len(f)]
  BY <1>1
<1>0. e = g \o d
  OBVIOUS
<1>5. e \in Seq(Int) /\ Len(e) = Len(g) + Len(d)
  BY <1>0, <1>3
<1>6. \A i \in 1..Len(e) : e[i] = IF i <= Len(g) THEN g[i] ELSE d[i - Len(g)]
  BY <1>0, <1>3
<1>7. Len(a \o b \o c) = Len(f) + Len(c)
  BY <1>3
<1>8. Len(a) \in Nat /\ Len(b) \in Nat /\ Len(c) \in Nat /\ Len(d) \in Nat
  OBVIOUS
<1>9. \A i \in 1..Len(e) :
                 e[i] = IF i <= Len(a) THEN a[i]
                        ELSE IF i <= Len(a) + Len(b) THEN b[i - Len(a)]
                        ELSE IF i <= Len(a) + Len(b) + Len(c) THEN c[i - Len(a) - Len(b)]
                        ELSE d[i - Len(a) - Len(b) - Len(c)]
  <2> SUFFICES ASSUME NEW i \in 1..Len(e)
               PROVE  e[i] = IF i <= Len(a) THEN a[i]
                        ELSE IF i <= Len(a) + Len(b) THEN b[i - Len(a)]
                        ELSE IF i <= Len(a) + Len(b) + Len(c) THEN c[i - Len(a) - Len(b)]
                        ELSE d[i - Len(a) - Len(b) - Len(c)]
    OBVIOUS
  <2>1. i <= Len(f) => i \in 1..Len(f)
    BY <1>1, <1>8
  <2>2. i <= Len(g) => i \in 1..Len(g)
    BY <1>1, <1>3, <1>8
  <2>3. i \in Int /\ i - Len(g) = i - Len(a) - Len(b) - Len(c) /\ i - Len(f) = i - Len(a) - Len(b)
    BY <1>1, <1>3, <1>8
  <2> QED
    BY <1>1, <1>2, <1>3, <1>4, <1>6, <1>8, <2>1, <2>2, <2>3
<1> QED
  BY <1>1, <1>3, <1>5, <1>7, <1>8, <1>9 DEF Joined

LEMMA MovedCount ==
  ASSUME NEW n \in Nat, NEW prev \in Nat, NEW m \in Nat, n <= prev, n < m
  PROVE  LET c == MA!Cardinality({i \in n..(prev - 1) : i < m - 1})
         IN (prev <= m - 1 => c = prev - n) /\ (m - 1 < prev => c = m - 1 - n)
<1>b. PICK b : b = IF prev <= m - 1 THEN prev - 1 ELSE m - 2
  OBVIOUS
<1>1. b \in Int
  BY <1>b
<1>2. {i \in n..(prev - 1) : i < m - 1} = n..b
  BY <1>b
<1>3. Cardinality(n..b) = IF n > b THEN 0 ELSE b - n + 1
  BY <1>1, FS_Interval
<1>4. /\ prev <= m - 1 => Cardinality(n..b) = prev - n
      /\ m - 1 < prev => Cardinality(n..b) = m - 1 - n
  BY <1>b, <1>1, <1>3
<1> QED
  BY <1>2, <1>4, SameCount

LEMMA Lengths ==
  ASSUME NEW n \in Nat, NEW prev \in Nat, NEW m \in Nat, NEW S \in Nat, n <= prev,
         prev <= n + S, n < m, NEW c, NEW g,
         prev <= m - 1 => c = prev - n /\ g = m - 1 - prev,
         m - 1 < prev => c = m - 1 - n /\ g = 0
  PROVE  c \in Nat /\ g \in Nat /\ prev + g + c = m - 1 + prev - n
<1>1. CASE prev <= m - 1
  BY <1>1
<1>2. CASE m - 1 < prev
  BY <1>2
<1> QED
  BY <1>1, <1>2

LEMMA RestLength ==
  ASSUME NEW n \in Nat, NEW prev \in Nat, NEW m \in Nat, NEW S \in Nat, prev <= n + S,
         n < m, n <= prev, NEW r, r = m + S - (m - 1 + prev - n)
  PROVE  r \in Nat /\ (m - 1 + prev - n) + r = m + S
<1>1. r = S + 1 - (prev - n)
  OBVIOUS
<1> QED
  BY <1>1

LEMMA PlaceOf ==
  ASSUME NEW n \in Nat, NEW prev \in Nat, NEW m \in Nat, NEW S \in Nat, n <= prev,
         prev <= n + S, n < m, NEW g,
         prev <= m - 1 => g = m - 1 - prev, m - 1 < prev => g = 0,
         NEW i \in 1..(m + S)
  PROVE  /\ i <= n => i <= prev
         /\ n < i /\ i < m /\ prev < i => i <= prev + g
         /\ m <= i /\ prev < i => ~(i <= prev + g)
<1>1. CASE prev <= m - 1
  BY <1>1
<1>2. CASE m - 1 < prev
  BY <1>2
<1> QED
  BY <1>1, <1>2

(* A table of n pages, grown to m.                                          *)
Grown(x, t, n, m) ==
  /\ x \in Seq(Int) /\ Len(x) = m + MambaSpec
  /\ \A i \in 1..n : x[i] = t[i]
  /\ \A i \in (n + 1)..(m - 1) : x[i] = MA!Null
  /\ \A i \in m..(m + MambaSpec) : x[i] = IF i <= Len(t) THEN t[i] ELSE MA!Blank

(* What is appended to a table of blocks: the state positions as they were, *)
(* nothing for the pages skipped, the new state and the speculative blocks. *)
LEMMA ExtendedIs ==
  ASSUME NEW p \in Nat \ {0}, NEW t \in Seq(Int), NEW has \in BOOLEAN, NEW n \in Nat,
         NEW end, NEW m \in Nat, m = MA!Cdiv(end, p), n < m,
         has => Len(t) = n + MambaSpec, ~has => Len(t) = n
  PROVE  Grown(MA!Extended(t, has, end, p), t, n, m)
<1> DEFINE moved == IF has THEN {i \in (Len(t) - MambaSpec)..(Len(t) - 1) :
                                   i < (MA!Cdiv(end, p) + MambaSpec) - 1 - MambaSpec} ELSE {}
           kept == [i \in 1..Len(t) |-> IF i - 1 \in moved THEN MA!Null ELSE t[i]]
           g == MA!Most((MA!Cdiv(end, p) + MambaSpec) - 1 - MambaSpec - Len(t), 0)
           gap == [i \in 1..g |-> MA!Null]
           c == MA!Cardinality(moved)
           back == [i \in 1..c |-> MA!Blank]
           r == (MA!Cdiv(end, p) + MambaSpec) - Len(kept \o gap \o back)
           rest == [i \in 1..r |-> MA!Blank]
           e == kept \o gap \o back \o rest
           S == MambaSpec
           prev == Len(t)
<1>0. /\ S \in Nat /\ prev \in Nat
      /\ has => prev = n + S
      /\ ~has => prev = n
  BY MambaConstants
<1>1. S \in Nat /\ prev \in Nat /\ n <= prev /\ prev <= n + S /\ m + S > prev
  BY <1>0
<1>1a. ~(MA!Cdiv(end, p) + MambaSpec <= Len(t))
  BY <1>1
<1>12. MA!Extended(t, has, end, p) = e
  BY <1>1a DEF MA!Extended, MA!Nulls
<1>1b. MA!Cdiv(end, p) = m
  OBVIOUS
<1>1c. (MA!Cdiv(end, p) + MambaSpec) - 1 - MambaSpec = m - 1
  BY <1>1, <1>1b
<1> HIDE DEF moved, kept, g, gap, c, back, r, rest, e, S, prev
<1>2. ASSUME NEW i \in Int
      PROVE  i \in moved <=> n <= i /\ i < prev /\ i < m - 1
  <2>1. CASE has
    BY <1>0, <1>1, <1>1c, <2>1 DEF moved, S, prev
  <2>2. CASE ~has
    BY <1>0, <1>1, <1>1c, <2>2 DEF moved, S, prev
  <2> QED
    BY <2>1, <2>2
<1>3. (prev <= m - 1 => c = prev - n) /\ (m - 1 < prev => c = m - 1 - n)
  <2>1. moved = {i \in n..(prev - 1) : i < m - 1}
    <3>1. CASE has
      BY <1>0, <1>1, <1>1c, <3>1 DEF moved, S, prev
    <3>2. CASE ~has
      BY <1>0, <1>1, <1>1c, <3>2 DEF moved, S, prev
    <3> QED
      BY <3>1, <3>2
  <2> QED
    BY <1>1, <2>1, MovedCount DEF c
<1>4. (prev <= m - 1 => g = m - 1 - prev) /\ (m - 1 < prev => g = 0)
  BY <1>1, <1>1c DEF g, S, prev, MA!Most
<1>5. c \in Nat /\ g \in Nat /\ prev + g + c = m - 1 + prev - n
  <2>1. n \in Nat /\ m \in Nat /\ n < m
    OBVIOUS
  <2>2. S \in Nat /\ prev \in Nat
    BY <1>1
  <2>3. n <= prev /\ prev <= n + S
    BY <1>1
  <2>4. prev <= m - 1 => c = prev - n /\ g = m - 1 - prev
    BY <1>3, <1>4
  <2>5. m - 1 < prev => c = m - 1 - n /\ g = 0
    BY <1>3, <1>4
  <2> QED
    BY <2>1, <2>2, <2>3, <2>4, <2>5, Lengths
<1>6. kept \in Seq(Int) /\ Len(kept) = prev
  BY Blanked DEF kept, prev
<1>7. gap \in Seq(Int) /\ Len(gap) = g
  BY <1>5, Repeated DEF gap, MA!Null
<1>8. back \in Seq(Int) /\ Len(back) = c
  BY <1>5, Repeated DEF back, MA!Blank
<1>9. Len(kept \o gap \o back) = m - 1 + prev - n
  <2>1. Len(kept \o gap \o back) = Len(kept) + Len(gap) + Len(back)
    <3>1. kept \in Seq(Int) /\ gap \in Seq(Int) /\ back \in Seq(Int)
      BY <1>6, <1>7, <1>8
    <3> QED
      BY <3>1, FourParts
  <2> QED
    BY <1>5, <1>6, <1>7, <1>8, <2>1
<1>10. r \in Nat /\ prev + g + c + r = m + S
  <2>0. r = (m + S) - (m - 1 + prev - n)
    BY <1>1b, <1>9, Zenon DEF r, S
  <2>1. r = m + S - (m - 1 + prev - n)
    BY <1>1, <2>0
  <2>2. r \in Nat /\ (m - 1 + prev - n) + r = m + S
    <3>1. n \in Nat /\ m \in Nat /\ n < m
      OBVIOUS
    <3>2. prev \in Nat /\ S \in Nat /\ prev <= n + S /\ n <= prev
      BY <1>1
    <3>3. r = S + 1 - (prev - n)
      BY <2>1, <3>1, <3>2
    <3> QED
      BY <3>1, <3>2, <3>3
  <2> QED
    BY <1>5, <2>2
<1>11. rest \in Seq(Int) /\ Len(rest) = r
  BY <1>10, Repeated DEF rest, MA!Blank
<1>12b. Len(kept) = prev /\ Len(gap) = g /\ Len(back) = c /\ Len(rest) = r
  BY <1>6, <1>7, <1>8, <1>11
<1>13. /\ e \in Seq(Int) /\ Len(e) = m + S
       /\ \A i \in 1..Len(e) :
             e[i] = IF i <= prev THEN kept[i]
                    ELSE IF i <= prev + g THEN gap[i - prev]
                    ELSE IF i <= prev + g + c THEN back[i - prev - g]
                    ELSE rest[i - prev - g - c]
  <2>1. Joined(e, kept, gap, back, rest)
    <3>1. kept \in Seq(Int)
      BY <1>6
    <3>2. gap \in Seq(Int)
      BY <1>7
    <3>3. back \in Seq(Int)
      BY <1>8
    <3>4. rest \in Seq(Int)
      BY <1>11
    <3> QED
      BY <3>1, <3>2, <3>3, <3>4, FourParts DEF e
  <2>2. Len(e) = m + S
    BY <1>10, <1>12b, <2>1 DEF Joined
  <2> QED
    BY <1>12b, <2>1, <2>2 DEF Joined
<1>14. ASSUME NEW i \in 1..(m + S)
       PROVE  e[i] = IF i <= prev THEN (IF n < i /\ i < m THEN MA!Null ELSE t[i])
                     ELSE IF i <= prev + g THEN MA!Null ELSE MA!Blank
  <2>1. i <= prev => kept[i] = IF n < i /\ i < m THEN MA!Null ELSE t[i]
    <3>1. i - 1 \in moved <=> n <= i - 1 /\ i - 1 < prev /\ i - 1 < m - 1
      BY <1>2
    <3> QED
      BY <1>1, <3>1 DEF kept, prev
  <2>2. prev < i /\ i <= prev + g => gap[i - prev] = MA!Null
    BY <1>1, <1>5 DEF gap
  <2>3. prev + g < i /\ i <= prev + g + c => back[i - prev - g] = MA!Blank
    BY <1>1, <1>5 DEF back
  <2>4. prev + g + c < i => rest[i - prev - g - c] = MA!Blank
    BY <1>1, <1>5, <1>10 DEF rest
  <2>5. i \in 1..Len(e)
    BY <1>13
  <2>6. e[i] = IF i <= prev THEN kept[i]
               ELSE IF i <= prev + g THEN gap[i - prev]
               ELSE IF i <= prev + g + c THEN back[i - prev - g]
               ELSE rest[i - prev - g - c]
    BY <1>13, <2>5
  <2>7. CASE i <= prev
    BY <2>1, <2>6, <2>7
  <2>8. CASE prev < i /\ i <= prev + g
    BY <1>1, <2>2, <2>6, <2>8
  <2>9. CASE prev < i /\ ~(i <= prev + g)
    <3>1. i <= prev + g + c \/ prev + g + c < i
      BY <1>1, <1>5
    <3>2. prev + g < i
      BY <1>1, <1>5, <2>9
    <3>3. ~(i <= prev)
      BY <1>1, <2>9
    <3>4. CASE i <= prev + g + c
      BY <2>3, <2>6, <2>9, <3>2, <3>3, <3>4
    <3>5. CASE ~(i <= prev + g + c)
      BY <2>4, <2>6, <2>9, <3>1, <3>3, <3>5
    <3> QED
      BY <3>4, <3>5
  <2> QED
    BY <1>1, <2>7, <2>8, <2>9
<1>15. \A i \in 1..n : e[i] = t[i]
  <2> SUFFICES ASSUME NEW i \in 1..n PROVE e[i] = t[i]
    OBVIOUS
  <2>1. i \in 1..(m + S) /\ i <= prev /\ ~(n < i)
    BY <1>1
  <2> QED
    BY <1>14, <2>1
<1>16. \A i \in (n + 1)..(m - 1) : e[i] = MA!Null
  <2> SUFFICES ASSUME NEW i \in (n + 1)..(m - 1) PROVE e[i] = MA!Null
    OBVIOUS
  <2>1. i \in 1..(m + S) /\ n < i /\ i < m
    BY <1>1
  <2>2. prev < i => i <= prev + g
    BY <1>1, <1>4, <2>1, PlaceOf
  <2>3. i <= prev \/ prev < i
    BY <1>1
  <2> QED
    BY <1>14, <2>1, <2>2, <2>3
<1>17. \A i \in m..(m + S) : e[i] = IF i <= prev THEN t[i] ELSE MA!Blank
  <2> SUFFICES ASSUME NEW i \in m..(m + S)
               PROVE  e[i] = IF i <= prev THEN t[i] ELSE MA!Blank
    OBVIOUS
  <2>1. i \in 1..(m + S) /\ ~(i < m)
    BY <1>1
  <2>2. prev < i => ~(i <= prev + g)
    BY <1>1, <1>4, <2>1, PlaceOf
  <2>3. i <= prev \/ prev < i
    BY <1>1
  <2> QED
    BY <1>14, <2>1, <2>2, <2>3
<1> QED
  BY <1>12, <1>13, <1>15, <1>16, <1>17 DEF S, prev, Grown

(* The step whose state has been read last is the oldest in flight.         *)
Oldest(fl, n) == IF fl = <<>> THEN n ELSE fl[1].start

(* The page a position falls in, counted from one.                          *)
Reached(n, p) == MA!Cdiv(n, p)

(* Steps come back in the order of their chunks, and none of them crosses   *)
(* the last checkpoint.                                                     *)
InOrder(fl, n) ==
  /\ fl \in Seq([start : Nat, end : Nat]) /\ Len(fl) <= MambaBatches
  /\ \A i \in 1..Len(fl) :
       /\ fl[i].start < fl[i].end /\ fl[i].end <= n
       /\ \A j \in i..Len(fl) : fl[i].start <= fl[j].start
       /\ fl[i].start < MA!LastCheckpoint => fl[i].end <= MA!LastCheckpoint

(* Until blocks were allocated the request stands where it was admitted.    *)
Fresh(own, st, n, fl) ==
  ~own => fl = <<>> /\ st = <<>> /\ n % MambaCheckpoint = 0

(* A table ends with the running state and the speculative blocks.          *)
Shaped(t, own, n, p) ==
  /\ own => Len(t) = Reached(n, p) + MambaSpec /\ Reached(n, p) > 0
  /\ ~own => Len(t) = Reached(n, p)
  /\ Reached(n, p) > 0 => t[Reached(n, p)] = n
  /\ \A i \in (Reached(n, p) + 1)..Len(t) : t[i] = MA!Blank

(* A block before the running state is one that waits to be released, and   *)
(* holds the state of the end of its page.                                  *)
OnlyStale(t, st, n, p) ==
  \A i \in 1..(Reached(n, p) - 1) : t[i] # MA!Null =>
    /\ t[i] = i * p
    /\ \E j \in 1..Len(st) : st[j] = i - 1

(* Blocks are superseded in the order of their pages.                       *)
Ascending(st, n, p) ==
  /\ \A i, j \in 1..Len(st) : i < j => st[i] < st[j]
  /\ \A i \in 1..Len(st) : st[i] < Reached(n, p) - 1

(* Beyond the state that was read last, a step in flight starts from each   *)
(* superseded block; before it there are only those of one scheduling.      *)
Awaited(st, n, fl, p) ==
  /\ \A i \in 1..Len(st) : st[i] >= Reached(Oldest(fl, n), p) - 1 =>
       \E j \in 1..Len(fl) : st[i] = Reached(fl[j].start, p) - 1
  /\ Cardinality({st[i] : i \in 1..Len(st)}) <= MambaBatches

(* The blocks a step in flight reads and writes are there.                  *)
FlightHas(t, fl, p) ==
  \A i \in 1..Len(fl) :
    /\ fl[i].start > 0 => /\ Reached(fl[i].start, p) <= Len(t)
                          /\ t[Reached(fl[i].start, p)] # MA!Null
    /\ Reached(fl[i].end, p) <= Len(t) /\ t[Reached(fl[i].end, p)] # MA!Null

PageInv(t, own, st, n, fl, p) ==
  /\ t \in Seq(Int) /\ own \in BOOLEAN /\ st \in Seq(Nat)
  /\ Fresh(own, st, n, fl) /\ Shaped(t, own, n, p) /\ OnlyStale(t, st, n, p)
  /\ Ascending(st, n, p) /\ Awaited(st, n, fl, p) /\ FlightHas(t, fl, p)

MambaInv ==
  /\ computed \in 0..MambaPrompt /\ InOrder(flight, computed)
  /\ table \in [MambaPages -> Seq(Int)] /\ owned \in [MambaPages -> BOOLEAN]
  /\ stale \in [MambaPages -> Seq(Nat)]
  /\ \A p \in MambaPages :
       PageInv(table[p], owned[p], stale[p], computed, flight, p)

LEMMA NothingReached ==
  ASSUME NEW p \in Nat \ {0}
  PROVE  Reached(0, p) = 0
<1> PICK q : q = MA!Cdiv(0, p)
  OBVIOUS
<1>1. q \in Nat /\ \A k \in Int : 0 <= k * p <=> q <= k
  BY Pages
<1>2. 0 <= 0 * p <=> q <= 0
  BY <1>1
<1>3. 0 * p = 0
  OBVIOUS
<1> QED
  BY <1>1, <1>2, <1>3 DEF Reached

LEMMA ReachedGrows ==
  ASSUME NEW a \in Nat, NEW b \in Nat, a <= b, NEW p \in Nat \ {0}
  PROVE  /\ Reached(a, p) \in Nat /\ Reached(b, p) \in Nat
         /\ Reached(a, p) <= Reached(b, p)
<1>1. MA!Cdiv(a, p) \in Nat /\ MA!Cdiv(b, p) \in Nat
  BY Pages
<1>2. MA!Cdiv(a, p) <= MA!Cdiv(b, p)
  BY PagesGrow
<1> QED
  BY <1>1, <1>2 DEF Reached

LEMMA ReachedSome ==
  ASSUME NEW n \in Nat, NEW p \in Nat \ {0}, n > 0
  PROVE  Reached(n, p) \in Nat /\ Reached(n, p) > 0
<1> PICK q : q = MA!Cdiv(n, p)
  OBVIOUS
<1>1. q \in Nat /\ n <= q * p
  BY Pages
<1>2. q # 0
  BY <1>1
<1> QED
  BY <1>1, <1>2 DEF Reached

(* A request is admitted with the one block that holds the state of the     *)
(* hit.                                                                     *)
LEMMA HitIs ==
  ASSUME NEW n \in Nat, NEW p \in MambaPages, n % MambaCheckpoint = 0
  PROVE  /\ MA!Hit(n, p) \in Seq(Int) /\ Len(MA!Hit(n, p)) = Reached(n, p)
         /\ Reached(n, p) > 0 => MA!Hit(n, p)[Reached(n, p)] = n
         /\ \A i \in 1..(Reached(n, p) - 1) : MA!Hit(n, p)[i] = MA!Null
<1>1. p \in Nat \ {0}
  BY MambaConstants
<1>2. n % p = 0
  BY OnPages
<1> PICK c : c = Reached(n, p)
  OBVIOUS
<1>3. c \in Nat /\ n = c * p /\ c = n \div p
  BY <1>1, <1>2, Pages, PagesExact DEF Reached
<1>4. CASE n = 0
  <2>1. c = 0
    BY <1>1, <1>4, NothingReached
  <2>2. MA!Hit(n, p) = <<>>
    BY <1>4 DEF MA!Hit
  <2> QED
    BY <2>1, <2>2
<1>5. CASE n # 0
  <2>1. c > 0
    BY <1>1, <1>3, <1>5
  <2> PICK h : h = MA!Nulls(c - 1)
    OBVIOUS
  <2>2. h \in Seq(Int) /\ Len(h) = c - 1 /\ \A i \in 1..(c - 1) : h[i] = MA!Null
    <3>1. h = [i \in 1..(c - 1) |-> MA!Null]
      BY <1>3, <2>1 DEF MA!Nulls, MA!Most
    <3>2. c - 1 \in Nat /\ MA!Null \in Int
      BY <1>3, <2>1 DEF MA!Null
    <3> QED
      BY <3>1, <3>2, Repeated
  <2>3. MA!Hit(n, p) = Append(h, n)
    BY <1>3, <1>5 DEF MA!Hit
  <2>4. /\ Append(h, n) \in Seq(Int) /\ Len(Append(h, n)) = c
        /\ Append(h, n)[c] = n /\ \A i \in 1..(c - 1) : Append(h, n)[i] = h[i]
    <3>1. n \in Int /\ c \in Nat /\ c - 1 \in Nat
      BY <1>3, <2>1
    <3> QED
      BY <2>2, <3>1
  <2> QED
    BY <2>2, <2>3, <2>4
<1> QED
  BY <1>4, <1>5

LEMMA AdmittedInv ==
  ASSUME NEW n \in Nat, NEW p \in MambaPages, n % MambaCheckpoint = 0
  PROVE  PageInv(MA!Hit(n, p), FALSE, <<>>, n, <<>>, p)
<1>1. p \in Nat \ {0}
  BY MambaConstants
<1>2. /\ MA!Hit(n, p) \in Seq(Int) /\ Len(MA!Hit(n, p)) = Reached(n, p)
      /\ Reached(n, p) > 0 => MA!Hit(n, p)[Reached(n, p)] = n
      /\ \A i \in 1..(Reached(n, p) - 1) : MA!Hit(n, p)[i] = MA!Null
  BY HitIs
<1>3. Reached(n, p) \in Nat
  BY <1>1, Pages DEF Reached
<1>4. Fresh(FALSE, <<>>, n, <<>>)
  BY DEF Fresh
<1>5. Shaped(MA!Hit(n, p), FALSE, n, p)
  BY <1>2, <1>3 DEF Shaped
<1>6. OnlyStale(MA!Hit(n, p), <<>>, n, p)
  BY <1>2 DEF OnlyStale
<1>7. Ascending(<<>>, n, p)
  BY DEF Ascending
<1>8. Awaited(<<>>, n, <<>>, p)
  <2>1. {<<>>[i] : i \in 1..Len(<<>>)} = {}
    OBVIOUS
  <2>2. Cardinality({}) <= MambaBatches
    BY FS_EmptySet, MambaConstants
  <2>3. Len(<<>>) = 0
    OBVIOUS
  <2> QED
    BY <2>1, <2>2, <2>3 DEF Awaited
<1>9. FlightHas(MA!Hit(n, p), <<>>, p)
  BY DEF FlightHas
<1>10. <<>> \in Seq(Nat)
  OBVIOUS
<1> QED
  BY <1>2, <1>4, <1>5, <1>6, <1>7, <1>8, <1>9, <1>10 DEF PageInv

LEMMA NoFlight ==
  ASSUME NEW n PROVE InOrder(<<>>, n)
<1>1. <<>> \in Seq([start : Nat, end : Nat]) /\ Len(<<>>) = 0
  OBVIOUS
<1>2. MambaBatches \in Nat
  BY MambaConstants
<1> QED
  BY <1>1, <1>2 DEF InOrder

(* The oldest step comes back.                                              *)
LEMMA ReturnedOrder ==
  ASSUME NEW n \in Nat, NEW fl, InOrder(fl, n), fl # <<>>
  PROVE  InOrder(Tail(fl), n)
<1> PICK f : f = Tail(fl)
  OBVIOUS
<1> DEFINE Steps == [start : Nat, end : Nat]
<1>1. fl \in Seq(Steps) /\ Len(fl) <= MambaBatches /\ MambaBatches \in Nat
  BY MambaConstants DEF InOrder
<1>2. f \in Seq(Steps) /\ Len(f) = Len(fl) - 1 /\ \A i \in 1..Len(f) : f[i] = fl[i + 1]
  BY <1>1
<1>3. Len(fl) \in Nat
  BY <1>1
<1>4. ASSUME NEW i \in 1..Len(f)
      PROVE  /\ f[i].start < f[i].end /\ f[i].end <= n
             /\ f[i].start < MA!LastCheckpoint => f[i].end <= MA!LastCheckpoint
             /\ \A j \in i..Len(f) : f[i].start <= f[j].start
  <2>1. i + 1 \in 1..Len(fl) /\ f[i] = fl[i + 1]
    BY <1>2, <1>3
  <2>2. ASSUME NEW j \in i..Len(f) PROVE f[i].start <= f[j].start
    <3>1. j + 1 \in (i + 1)..Len(fl) /\ j \in 1..Len(f)
      BY <1>2, <1>3
    <3>2. f[j] = fl[j + 1]
      BY <1>2, <3>1
    <3> QED
      BY <2>1, <3>1, <3>2 DEF InOrder
  <2> QED
    BY <2>1, <2>2 DEF InOrder
<1> QED
  BY <1>1, <1>2, <1>3, <1>4 DEF InOrder

LEMMA OldestFirst ==
  ASSUME NEW n \in Nat, NEW fl, InOrder(fl, n)
  PROVE  /\ Oldest(fl, n) \in Nat /\ Oldest(fl, n) <= n
         /\ \A i \in 1..Len(fl) :
              /\ fl[i].start \in Nat /\ fl[i].end \in Nat
              /\ Oldest(fl, n) <= fl[i].start /\ fl[i].start < fl[i].end /\ fl[i].end <= n
<1>1. fl \in Seq([start : Nat, end : Nat]) /\ Len(fl) \in Nat
  BY DEF InOrder
<1>2. ASSUME NEW i \in 1..Len(fl) PROVE fl[i].start \in Nat /\ fl[i].end \in Nat
  <2> DEFINE Steps == [start : Nat, end : Nat]
  <2>1. fl \in Seq(Steps) /\ \A s \in Steps : s.start \in Nat /\ s.end \in Nat
    BY <1>1
  <2> HIDE DEF Steps
  <2>2. fl[i] \in Steps
    BY <2>1
  <2> QED
    BY <2>1, <2>2
<1>3. CASE fl = <<>>
  BY <1>3 DEF Oldest
<1>4. CASE fl # <<>>
  <2>1. 1 \in 1..Len(fl)
    BY <1>1, <1>4
  <2>2. Oldest(fl, n) = fl[1].start
    BY <1>4 DEF Oldest
  <2>3. \A i \in 1..Len(fl) : fl[1].start <= fl[i].start
    BY <1>1, <2>1 DEF InOrder
  <2> QED
    BY <1>2, <2>1, <2>2, <2>3 DEF InOrder
<1> QED
  BY <1>3, <1>4

LEMMA ReturnedAwaited ==
  ASSUME NEW n \in Nat, NEW p \in MambaPages, NEW fl, InOrder(fl, n), fl # <<>>,
         NEW st \in Seq(Nat), Ascending(st, n, p), Awaited(st, n, fl, p)
  PROVE  Awaited(st, n, Tail(fl), p)
<1>1. p \in Nat \ {0}
  BY MambaConstants
<1> PICK f : f = Tail(fl)
  OBVIOUS
<1>2. fl \in Seq([start : Nat, end : Nat]) /\ Len(fl) \in Nat /\ Len(fl) > 0
  BY DEF InOrder
<1>3. Len(f) = Len(fl) - 1 /\ \A i \in 1..Len(f) : f[i] = fl[i + 1]
  BY <1>2
<1>4. InOrder(f, n)
  BY ReturnedOrder
<1>5. ASSUME NEW i \in 1..Len(st), st[i] >= Reached(Oldest(f, n), p) - 1
      PROVE  \E j \in 1..Len(f) : st[i] = Reached(f[j].start, p) - 1
  <2>1. Reached(n, p) \in Nat /\ st[i] \in Nat /\ st[i] < Reached(n, p) - 1
    <3>1. Reached(n, p) \in Nat
      BY <1>1, Pages DEF Reached
    <3>2. st[i] \in Nat
      OBVIOUS
    <3> QED
      BY <3>1, <3>2 DEF Ascending
  <2>2. f # <<>>
    <3> SUFFICES ASSUME f = <<>> PROVE FALSE
      OBVIOUS
    <3>1. Oldest(f, n) = n
      BY DEF Oldest
    <3> QED
      BY <1>5, <2>1, <3>1
  <2>3. Len(f) >= 1
    BY <1>2, <1>3, <2>2
  <2>4. 1 \in 1..Len(fl) /\ 2 \in 1..Len(fl) /\ 1 \in 1..Len(f) /\ f[1] = fl[2]
    BY <1>2, <1>3, <2>3
  <2>5. Oldest(f, n) = fl[2].start /\ Oldest(fl, n) = fl[1].start
    BY <2>2, <2>4 DEF Oldest
  <2>6. /\ fl[1].start \in Nat /\ fl[2].start \in Nat
        /\ fl[1].start <= fl[2].start
    BY <2>4, <2>5, OldestFirst
  <2> PICK a, b : a = Reached(fl[1].start, p) /\ b = Reached(fl[2].start, p)
    OBVIOUS
  <2>7. a \in Nat /\ b \in Nat /\ a <= b
    BY <1>1, <2>6, Pages, PagesGrow DEF Reached
  <2>8. st[i] >= b - 1 /\ st[i] >= a - 1
    BY <1>5, <2>1, <2>5, <2>7
  <2>9. PICK j \in 1..Len(fl) : st[i] = Reached(fl[j].start, p) - 1
    BY <2>5, <2>8 DEF Awaited
  <2>10. CASE j = 1
    <3>1. st[i] = b - 1
      BY <2>7, <2>8, <2>9, <2>10
    <3> QED
      BY <2>4, <3>1
  <2>11. CASE j # 1
    <3>1. j - 1 \in 1..Len(f) /\ f[j - 1] = fl[j]
      BY <1>2, <1>3, <2>11
    <3> QED
      BY <2>9, <3>1
  <2> QED
    BY <2>10, <2>11
<1> QED
  BY <1>5 DEF Awaited

LEMMA ReturnedInv ==
  ASSUME NEW n \in Nat, NEW p \in MambaPages, NEW fl, InOrder(fl, n), fl # <<>>,
         NEW t, NEW own, NEW st, PageInv(t, own, st, n, fl, p)
  PROVE  PageInv(t, own, st, n, Tail(fl), p)
<1> PICK f : f = Tail(fl)
  OBVIOUS
<1>1. fl \in Seq([start : Nat, end : Nat]) /\ Len(fl) \in Nat /\ Len(fl) > 0
  BY DEF InOrder
<1>2. Len(f) = Len(fl) - 1 /\ \A i \in 1..Len(f) : f[i] = fl[i + 1]
  BY <1>1
<1>3. Awaited(st, n, f, p)
  BY ReturnedAwaited DEF PageInv
<1>4. Fresh(own, st, n, f)
  BY DEF PageInv, Fresh
<1>5. FlightHas(t, f, p)
  <2>1. \A i \in 1..Len(f) : i + 1 \in 1..Len(fl) /\ f[i] = fl[i + 1]
    BY <1>1, <1>2
  <2>2. FlightHas(t, fl, p)
    BY DEF PageInv
  <2> QED
    BY <2>1, <2>2 DEF FlightHas
<1> QED
  BY <1>3, <1>4, <1>5 DEF PageInv

(* The list is walked up to the first block that is still needed.           *)
LEMMA PoppedIs ==
  ASSUME NEW p \in MambaPages, stale[p] \in Seq(Nat), MA!ReleasableBelow(p) \in Int
  PROVE  /\ MA!Popped(p) \in 0..Len(stale[p])
         /\ \A j \in 1..MA!Popped(p) : stale[p][j] < MA!ReleasableBelow(p)
         /\ MA!Popped(p) < Len(stale[p]) =>
              stale[p][MA!Popped(p) + 1] >= MA!ReleasableBelow(p)
<1> PICK st, low : st = stale[p] /\ low = MA!ReleasableBelow(p)
  OBVIOUS
<1> DEFINE S == {k \in 0..Len(st) : \A j \in 1..k : st[j] < low}
<1>1. Len(st) \in Nat
  OBVIOUS
<1>2. MA!Popped(p) = MA!Max(S)
  BY DEF MA!Popped
<1>3. 0 \in S
  BY <1>1
<1>4. MA!Max(S) \in S /\ \A x \in S : x <= MA!Max(S)
  <2>1. S \in SUBSET (0..Len(st)) /\ S # {}
    BY <1>3
  <2> HIDE DEF S
  <2> QED
    BY <1>1, <2>1, GreatestOf
<1> PICK k : k = MA!Popped(p)
  OBVIOUS
<1>5. k \in 0..Len(st) /\ \A j \in 1..k : st[j] < low
  BY <1>2, <1>4
<1>6. ASSUME k < Len(st) PROVE st[k + 1] >= low
  <2> SUFFICES ASSUME ~(st[k + 1] >= low) PROVE FALSE
    OBVIOUS
  <2>0. k + 1 \in 1..Len(st) /\ k + 1 \in 0..Len(st)
    BY <1>1, <1>5, <1>6
  <2>1. st[k + 1] \in Nat
    BY <2>0
  <2>2. st[k + 1] < low
    BY <2>1
  <2>3. \A j \in 1..(k + 1) : st[j] < low
    <3>1. \A j \in 1..(k + 1) : j \in 1..k \/ j = k + 1
      BY <1>5
    <3> QED
      BY <1>5, <2>2, <3>1
  <2>4. k + 1 \in S
    BY <2>0, <2>3
  <2>5. k + 1 <= k
    BY <1>2, <1>4, <2>4
  <2> QED
    BY <1>5, <2>5
<1> QED
  BY <1>5, <1>6

LEMMA RestOf ==
  ASSUME NEW s \in Seq(Nat), NEW k \in 0..Len(s)
  PROVE  /\ SubSeq(s, k + 1, Len(s)) \in Seq(Nat)
         /\ Len(SubSeq(s, k + 1, Len(s))) = Len(s) - k
         /\ \A i \in 1..(Len(s) - k) : SubSeq(s, k + 1, Len(s))[i] = s[i + k]
<1>1. \A i \in (k + 1)..Len(s) : s[i] \in Nat
  OBVIOUS
<1> QED
  BY <1>1

LEMMA RestAbove ==
  ASSUME NEW s \in Seq(Nat), NEW k \in 0..Len(s), NEW b \in Int,
         \A i, j \in 1..Len(s) : i < j => s[i] < s[j],
         k < Len(s) => s[k + 1] >= b
  PROVE  \A i \in 1..(Len(s) - k) : i + k \in 1..Len(s) /\ s[i + k] >= b
<1> SUFFICES ASSUME NEW i \in 1..(Len(s) - k)
             PROVE  i + k \in 1..Len(s) /\ s[i + k] >= b
  OBVIOUS
<1>1. i + k \in 1..Len(s) /\ k + 1 \in 1..Len(s) /\ k < Len(s)
  OBVIOUS
<1>2. s[i + k] \in Nat /\ s[k + 1] \in Nat
  BY <1>1
<1>3. i = 1 => s[i + k] = s[k + 1]
  OBVIOUS
<1>4. i # 1 => s[k + 1] < s[i + k]
  BY <1>1
<1> QED
  BY <1>1, <1>2, <1>3, <1>4

(* What is left on the list is still needed, and in order.                  *)
LEMMA WaitingIs ==
  ASSUME NEW p \in MambaPages, stale[p] \in Seq(Nat), MA!ReleasableBelow(p) \in Int,
         NEW n, Ascending(stale[p], n, p)
  PROVE  /\ MA!Waiting(p) \in Seq(Nat)
         /\ Len(MA!Waiting(p)) = Len(stale[p]) - MA!Popped(p)
         /\ \A i \in 1..Len(MA!Waiting(p)) :
              /\ MA!Waiting(p)[i] = stale[p][i + MA!Popped(p)]
              /\ i + MA!Popped(p) \in 1..Len(stale[p])
              /\ MA!Waiting(p)[i] >= MA!ReleasableBelow(p)
<1> DEFINE st == stale[p]
           k == MA!Popped(p)
           b == MA!ReleasableBelow(p)
           w == SubSeq(st, k + 1, Len(st))
<1>1. /\ k \in 0..Len(st)
      /\ k < Len(st) => st[k + 1] >= b
  BY PoppedIs
<1>2. MA!Waiting(p) = w
  BY DEF MA!Waiting
<1>3. st \in Seq(Nat) /\ b \in Int
  OBVIOUS
<1>4. \A i, j \in 1..Len(st) : i < j => st[i] < st[j]
  BY DEF Ascending
<1> HIDE DEF st, k, b
<1>5. w \in Seq(Nat) /\ Len(w) = Len(st) - k /\ \A i \in 1..(Len(st) - k) : w[i] = st[i + k]
  BY <1>1, <1>3, RestOf
<1>6. \A i \in 1..(Len(st) - k) : i + k \in 1..Len(st) /\ st[i + k] >= b
  BY <1>1, <1>3, <1>4, RestAbove
<1> HIDE DEF w
<1>7. \A i \in 1..Len(w) : w[i] = st[i + k] /\ i + k \in 1..Len(st) /\ w[i] >= b
  BY <1>5, <1>6
<1> QED
  BY <1>2, <1>5, <1>7 DEF st, k, b

LEMMA ReleasedIs ==
  ASSUME NEW p \in MambaPages, table[p] \in Seq(Int), MA!Popped(p) \in Nat
  PROVE  /\ MA!Released(p) \in Seq(Int) /\ Len(MA!Released(p)) = Len(table[p])
         /\ \A i \in 1..Len(table[p]) :
              /\ (\E j \in 1..MA!Popped(p) : stale[p][j] = i - 1) =>
                    MA!Released(p)[i] = MA!Null
              /\ ~(\E j \in 1..MA!Popped(p) : stale[p][j] = i - 1) =>
                    MA!Released(p)[i] = table[p][i]
<1> DEFINE t == table[p]
           r == MA!Released(p)
           gone(i) == \E j \in 1..MA!Popped(p) : stale[p][j] = i - 1
<1>1. r = [i \in 1..Len(t) |-> IF gone(i) THEN MA!Null ELSE t[i]]
  BY DEF MA!Released
<1>2. t \in Seq(Int) /\ MA!Null \in Int
  BY DEF MA!Null
<1> HIDE DEF t, r, gone
<1>3. r \in Seq(Int) /\ Len(r) = Len(t)
  BY <1>1, <1>2
<1>4. \A i \in 1..Len(t) : (gone(i) => r[i] = MA!Null) /\ (~gone(i) => r[i] = t[i])
  BY <1>1
<1> QED
  BY <1>3, <1>4 DEF t, r, gone

(* A sequence has no more entries than places.                              *)
LEMMA Entries ==
  ASSUME NEW s \in Seq(Nat)
  PROVE  /\ IsFiniteSet({s[i] : i \in 1..Len(s)})
         /\ Cardinality({s[i] : i \in 1..Len(s)}) <= Len(s)
<1> DEFINE V == {s[i] : i \in 1..Len(s)}
           f == [i \in 1..Len(s) |-> s[i]]
<1>1. f \in Surjection(1..Len(s), V)
  <2>1. f \in [1..Len(s) -> V]
    OBVIOUS
  <2>2. \A v \in V : \E i \in 1..Len(s) : f[i] = v
    OBVIOUS
  <2> QED
    BY <2>1, <2>2 DEF Surjection
<1>2. IsFiniteSet(1..Len(s)) /\ Cardinality(1..Len(s)) = Len(s)
  <2>1. Len(s) \in Int /\ 1 \in Int /\ Len(s) \in Nat
    OBVIOUS
  <2>2. IsFiniteSet(1..Len(s))
    BY <2>1, FS_Interval
  <2>3. Cardinality(1..Len(s)) = IF 1 > Len(s) THEN 0 ELSE Len(s) - 1 + 1
    BY <2>1, FS_Interval
  <2> QED
    BY <2>1, <2>2, <2>3
<1> HIDE DEF V, f
<1>3. IsFiniteSet(V) /\ Cardinality(V) <= Len(s)
  BY <1>1, <1>2, FS_Surjection
<1> QED
  BY <1>3 DEF V

(* Entries that steps in flight start from are no more than those steps.    *)
LEMMA FewEntries ==
  ASSUME NEW p \in Nat \ {0}, NEW s \in Seq(Nat), NEW f, Len(f) \in Nat,
         Len(f) <= MambaBatches,
         \A i \in 1..Len(s) : \E j \in 1..Len(f) : s[i] = Reached(f[j].start, p) - 1
  PROVE  Cardinality({s[i] : i \in 1..Len(s)}) <= MambaBatches
<1> DEFINE V == {s[i] : i \in 1..Len(s)}
           g == [j \in 1..Len(f) |-> Reached(f[j].start, p) - 1]
           W == {g[j] : j \in 1..Len(f)}
<1>1. g \in Surjection(1..Len(f), W)
  <2>1. g \in [1..Len(f) -> W]
    OBVIOUS
  <2>2. \A v \in W : \E i \in 1..Len(f) : g[i] = v
    OBVIOUS
  <2> QED
    BY <2>1, <2>2 DEF Surjection
<1>2. V \in SUBSET W
  <2>1. ASSUME NEW i \in 1..Len(s) PROVE s[i] \in W
    <3>1. PICK j \in 1..Len(f) : s[i] = Reached(f[j].start, p) - 1
      OBVIOUS
    <3>2. g[j] = s[i]
      BY <3>1
    <3> QED
      BY <3>2
  <2> QED
    BY <2>1
<1> HIDE DEF V, g, W
<1>3. IsFiniteSet(1..Len(f)) /\ Cardinality(1..Len(f)) = Len(f)
  <2>1. Len(f) \in Int /\ 1 \in Int /\ Len(f) \in Nat
    OBVIOUS
  <2>2. IsFiniteSet(1..Len(f))
    BY <2>1, FS_Interval
  <2>3. Cardinality(1..Len(f)) = IF 1 > Len(f) THEN 0 ELSE Len(f) - 1 + 1
    BY <2>1, FS_Interval
  <2> QED
    BY <2>1, <2>2, <2>3
<1>4. IsFiniteSet(W) /\ Cardinality(W) <= Len(f)
  BY <1>1, <1>3, FS_Surjection
<1>5. IsFiniteSet(V) /\ Cardinality(V) <= Cardinality(W)
  BY <1>2, <1>4, FS_Subset
<1>6. Cardinality(V) \in Nat /\ Cardinality(W) \in Nat /\ MambaBatches \in Nat
  BY <1>4, <1>5, FS_CardinalityType, MambaConstants
<1>7. Cardinality(V) <= MambaBatches
  BY <1>4, <1>5, <1>6
<1> QED
  BY <1>7 DEF V

(* What every reader still needs survives a release.                        *)
Walked(t, st, r, w, k, b) ==
  /\ k \in 0..Len(st) /\ \A j \in 1..k : st[j] < b
  /\ w \in Seq(Nat) /\ Len(w) = Len(st) - k
  /\ \A i \in 1..Len(w) : w[i] = st[i + k] /\ i + k \in 1..Len(st) /\ w[i] >= b
  /\ r \in Seq(Int) /\ Len(r) = Len(t)
  /\ \A i \in 1..Len(t) :
       /\ (\E j \in 1..k : st[j] = i - 1) => r[i] = MA!Null
       /\ ~(\E j \in 1..k : st[j] = i - 1) => r[i] = t[i]

LEMMA ReleasedInv ==
  ASSUME NEW p \in MambaPages, NEW n \in Nat, NEW fl, InOrder(fl, n),
         NEW t, NEW own, NEW st, PageInv(t, own, st, n, fl, p), NEW r, NEW w, NEW k,
         Walked(t, st, r, w, k, Reached(Oldest(fl, n), p) - 1)
  PROVE  PageInv(r, own, w, n, fl, p)
<1> DEFINE b == Reached(Oldest(fl, n), p) - 1
           c == Reached(n, p)
<1>0. p \in Nat \ {0}
  BY MambaConstants
<1>1. b \in Int /\ c \in Nat /\ b <= c - 1
  <2>1. Oldest(fl, n) \in Nat /\ Oldest(fl, n) <= n
    BY OldestFirst
  <2>2. /\ Reached(Oldest(fl, n), p) \in Nat /\ Reached(n, p) \in Nat
        /\ Reached(Oldest(fl, n), p) <= Reached(n, p)
    BY <1>0, <2>1, ReachedGrows
  <2> QED
    BY <2>2
<1> HIDE DEF b, c
<1>2. /\ t \in Seq(Int) /\ own \in BOOLEAN /\ st \in Seq(Nat)
      /\ Fresh(own, st, n, fl) /\ Shaped(t, own, n, p) /\ OnlyStale(t, st, n, p)
      /\ Ascending(st, n, p) /\ Awaited(st, n, fl, p) /\ FlightHas(t, fl, p)
  BY DEF PageInv
<1>3. Walked(t, st, r, w, k, b)
  BY DEF b
<1>4. /\ k \in 0..Len(st) /\ Len(st) \in Nat /\ Len(t) \in Nat
      /\ w \in Seq(Nat) /\ Len(w) = Len(st) - k /\ Len(w) \in Nat
      /\ r \in Seq(Int) /\ Len(r) = Len(t)
  BY <1>2, <1>3 DEF Walked
<1>5. \A i \in 1..Len(w) : w[i] = st[i + k] /\ i + k \in 1..Len(st)
  BY <1>3 DEF Walked
<1>6. ASSUME NEW i \in 1..Len(t), i > b PROVE r[i] = t[i]
  <2> SUFFICES ASSUME NEW j \in 1..k, st[j] = i - 1 PROVE FALSE
    BY <1>3 DEF Walked
  <2>1. st[j] < b
    BY <1>3 DEF Walked
  <2> QED
    BY <1>1, <1>6, <2>1
<1>7. Fresh(own, w, n, fl)
  <2>1. st = <<>> => w = <<>>
    BY <1>4
  <2> QED
    BY <1>2, <2>1 DEF Fresh
<1>8. Shaped(r, own, n, p)
  <2>1. Shaped(t, own, n, p)
    BY <1>2
  <2>2. c <= Len(t)
    <3>1. MambaSpec \in Nat
      BY MambaConstants
    <3>2. own => Len(t) = c + MambaSpec
      BY <1>2 DEF Shaped, c
    <3>3. ~own => Len(t) = c
      BY <1>2 DEF Shaped, c
    <3>4. CASE own
      BY <1>1, <3>1, <3>2, <3>4
    <3>5. CASE ~own
      BY <1>1, <3>3, <3>5
    <3> QED
      BY <3>4, <3>5
  <2>3. c > 0 => r[c] = t[c]
    BY <1>1, <1>4, <1>6, <2>2
  <2>4. \A i \in (c + 1)..Len(t) : r[i] = t[i]
    BY <1>1, <1>6
  <2> QED
    BY <1>4, <2>1, <2>3, <2>4 DEF Shaped, c
<1>9. OnlyStale(r, w, n, p)
  <2> SUFFICES ASSUME NEW i \in 1..(c - 1), r[i] # MA!Null
               PROVE  r[i] = i * p /\ \E j \in 1..Len(w) : w[j] = i - 1
    BY DEF OnlyStale, c
  <2>1. i \in 1..Len(t)
    <3>1. MambaSpec \in Nat
      BY MambaConstants
    <3>2. own => Len(t) = c + MambaSpec
      BY <1>2 DEF Shaped, c
    <3>3. ~own => Len(t) = c
      BY <1>2 DEF Shaped, c
    <3> QED
      BY <1>1, <1>2, <3>1, <3>2, <3>3
  <2>2. r[i] = t[i] /\ ~(\E j \in 1..k : st[j] = i - 1)
    BY <1>3, <2>1 DEF Walked
  <2>3. t[i] = i * p /\ \E j \in 1..Len(st) : st[j] = i - 1
    BY <1>2, <2>2 DEF OnlyStale, c
  <2>4. PICK j \in 1..Len(st) : st[j] = i - 1
    BY <2>3
  <2>5. ~(j \in 1..k)
    BY <2>2, <2>4
  <2>6. j - k \in 1..Len(w) /\ (j - k) + k = j
    BY <1>4, <2>5
  <2>7. w[j - k] = i - 1
    BY <1>5, <2>4, <2>6
  <2> QED
    BY <2>2, <2>3, <2>6, <2>7
<1>10. Ascending(w, n, p)
  <2>1. ASSUME NEW i \in 1..Len(w), NEW j \in 1..Len(w), i < j PROVE w[i] < w[j]
    <3>1. i + k \in 1..Len(st) /\ j + k \in 1..Len(st) /\ i + k < j + k
      BY <1>4, <1>5, <2>1
    <3>2. st[i + k] < st[j + k]
      BY <1>2, <3>1 DEF Ascending
    <3> QED
      BY <1>5, <3>2
  <2>2. \A i \in 1..Len(w) : w[i] < Reached(n, p) - 1
    BY <1>2, <1>5 DEF Ascending
  <2> QED
    BY <2>1, <2>2 DEF Ascending
<1>11. Awaited(w, n, fl, p)
  <2>1. \A i \in 1..Len(w) : w[i] >= Reached(Oldest(fl, n), p) - 1 =>
          \E j \in 1..Len(fl) : w[i] = Reached(fl[j].start, p) - 1
    BY <1>2, <1>5 DEF Awaited
  <2> DEFINE V == {st[i] : i \in 1..Len(st)}
             W == {w[i] : i \in 1..Len(w)}
  <2>2. W \in SUBSET V
    BY <1>5
  <2>3. IsFiniteSet(V)
    BY <1>2, Entries
  <2>4. Cardinality(V) <= MambaBatches
    BY <1>2 DEF Awaited
  <2> HIDE DEF V, W
  <2>5. Cardinality(W) <= Cardinality(V) /\ IsFiniteSet(W)
    BY <2>2, <2>3, FS_Subset
  <2>6. Cardinality(W) \in Nat /\ Cardinality(V) \in Nat /\ MambaBatches \in Nat
    BY <2>3, <2>5, FS_CardinalityType, MambaConstants
  <2>7. Cardinality(W) <= MambaBatches
    BY <2>4, <2>5, <2>6
  <2> QED
    BY <2>1, <2>7 DEF Awaited, W
<1>12. FlightHas(r, fl, p)
  <2> SUFFICES ASSUME NEW i \in 1..Len(fl)
               PROVE  /\ fl[i].start > 0 => /\ Reached(fl[i].start, p) <= Len(r)
                                            /\ r[Reached(fl[i].start, p)] # MA!Null
                      /\ Reached(fl[i].end, p) <= Len(r)
                      /\ r[Reached(fl[i].end, p)] # MA!Null
    BY DEF FlightHas
  <2>1. /\ fl[i].start \in Nat /\ fl[i].end \in Nat /\ Oldest(fl, n) \in Nat
        /\ Oldest(fl, n) <= fl[i].start /\ Oldest(fl, n) <= fl[i].end
        /\ fl[i].end > 0
    BY OldestFirst
  <2>2. /\ Reached(fl[i].start, p) \in Nat /\ Reached(fl[i].start, p) >= b + 1
        /\ Reached(fl[i].end, p) \in Nat /\ Reached(fl[i].end, p) >= b + 1
    <3>1. Reached(Oldest(fl, n), p) <= Reached(fl[i].start, p) /\ Reached(fl[i].start, p) \in Nat
      BY <1>0, <2>1, ReachedGrows
    <3>2. Reached(Oldest(fl, n), p) <= Reached(fl[i].end, p) /\ Reached(fl[i].end, p) \in Nat
      BY <1>0, <2>1, ReachedGrows
    <3>3. Reached(Oldest(fl, n), p) \in Nat
      BY <1>0, <2>1, ReachedGrows
    <3> QED
      BY <3>1, <3>2, <3>3 DEF b
  <2>3. fl[i].start > 0 => Reached(fl[i].start, p) > 0
    BY <1>0, <2>1, ReachedSome
  <2>4. Reached(fl[i].end, p) > 0
    BY <1>0, <2>1, ReachedSome
  <2>5. /\ fl[i].start > 0 => /\ Reached(fl[i].start, p) <= Len(t)
                              /\ t[Reached(fl[i].start, p)] # MA!Null
        /\ Reached(fl[i].end, p) <= Len(t)
        /\ t[Reached(fl[i].end, p)] # MA!Null
    BY <1>2 DEF FlightHas
  <2>6. ASSUME NEW x \in Nat, x >= b + 1, x > 0, x <= Len(t) PROVE r[x] = t[x]
    <3>1. x \in 1..Len(t) /\ x > b
      BY <1>1, <1>4, <2>6
    <3> QED
      BY <1>6, <3>1
  <2>7. r[Reached(fl[i].end, p)] = t[Reached(fl[i].end, p)]
    BY <2>2, <2>4, <2>5, <2>6
  <2>8. fl[i].start > 0 => r[Reached(fl[i].start, p)] = t[Reached(fl[i].start, p)]
    BY <2>2, <2>3, <2>5, <2>6
  <2> QED
    BY <1>4, <2>5, <2>7, <2>8
<1> QED
  BY <1>2, <1>4, <1>7, <1>8, <1>9, <1>10, <1>11, <1>12 DEF PageInv

(* A chunk from n to e has moved the running state of a page: it is written *)
(* to the block of the new end, the state of a page that was left waits.    *)
Advanced(r, w, n, e, p, t, st) ==
  /\ t \in Seq(Int) /\ Len(t) = Reached(e, p) + MambaSpec
  /\ \A i \in 1..Reached(n, p) : i # Reached(e, p) => t[i] = r[i]
  /\ \A i \in (Reached(n, p) + 1)..(Reached(e, p) - 1) : t[i] = MA!Null
  /\ t[Reached(e, p)] = e
  /\ \A i \in (Reached(e, p) + 1)..Len(t) : t[i] = MA!Blank
  /\ Reached(n, p) < Reached(e, p) /\ Reached(n, p) > 0 =>
        st = Append(w, Reached(n, p) - 1)
  /\ ~(Reached(n, p) < Reached(e, p) /\ Reached(n, p) > 0) => st = w

LEMMA AdvancedInv ==
  ASSUME NEW p \in MambaPages, NEW n \in Nat, NEW e \in Nat, n < e,
         NEW fl, InOrder(fl, n), Len(fl) < MambaBatches,
         NEW r, NEW own, NEW w, PageInv(r, own, w, n, fl, p),
         \A i \in 1..Len(w) : w[i] >= Reached(Oldest(fl, n), p) - 1,
         Reached(n, p) < Reached(e, p) => n = Reached(n, p) * p,
         NEW t, NEW st, Advanced(r, w, n, e, p, t, st)
  PROVE  PageInv(t, TRUE, st, e, Append(fl, [start |-> n, end |-> e]), p)
<1> DEFINE c == Reached(n, p)
           m == Reached(e, p)
           b == Reached(Oldest(fl, n), p) - 1
           new == [start |-> n, end |-> e]
           f == Append(fl, new)
           grown == c < m /\ c > 0
<1>0. p \in Nat \ {0} /\ MambaSpec \in Nat /\ MambaBatches \in Nat
  BY MambaConstants
<1>1. c \in Nat /\ m \in Nat /\ c <= m /\ m > 0
  BY <1>0, ReachedGrows, ReachedSome
<1>2. b \in Int /\ b <= c - 1
  <2>1. Oldest(fl, n) \in Nat /\ Oldest(fl, n) <= n
    BY OldestFirst
  <2>2. /\ Reached(Oldest(fl, n), p) \in Nat /\ Reached(n, p) \in Nat
        /\ Reached(Oldest(fl, n), p) <= Reached(n, p)
    BY <1>0, <2>1, ReachedGrows
  <2> QED
    BY <2>2
<1>3. /\ r \in Seq(Int) /\ w \in Seq(Nat)
      /\ Shaped(r, own, n, p) /\ OnlyStale(r, w, n, p)
      /\ Ascending(w, n, p) /\ Awaited(w, n, fl, p) /\ FlightHas(r, fl, p)
  BY DEF PageInv
<1>4. fl \in Seq([start : Nat, end : Nat]) /\ Len(fl) \in Nat
  BY DEF InOrder
<1>5. /\ Len(f) = Len(fl) + 1 /\ f # <<>>
      /\ \A i \in 1..Len(fl) : i \in 1..Len(f) /\ f[i] = fl[i]
      /\ Len(fl) + 1 \in 1..Len(f) /\ f[Len(fl) + 1] = new
      /\ new.start = n /\ new.end = e
  BY <1>4
<1>6. Oldest(f, e) = Oldest(fl, n)
  <2>1. CASE fl = <<>>
    <3>1. Len(fl) = 0
      BY <2>1
    <3>2. f[1] = new
      BY <1>5, <3>1
    <3> QED
      BY <1>5, <2>1, <3>2 DEF Oldest
  <2>2. CASE fl # <<>>
    <3>1. 1 \in 1..Len(fl)
      BY <1>4, <2>2
    <3>2. f[1] = fl[1]
      BY <1>5, <3>1
    <3> QED
      BY <1>5, <2>2, <3>2 DEF Oldest
  <2> QED
    BY <2>1, <2>2
<1>7. /\ t \in Seq(Int) /\ Len(t) = m + MambaSpec
      /\ \A i \in 1..c : i # m => t[i] = r[i]
      /\ \A i \in (c + 1)..(m - 1) : t[i] = MA!Null
      /\ t[m] = e
      /\ \A i \in (m + 1)..Len(t) : t[i] = MA!Blank
      /\ grown => st = Append(w, c - 1)
      /\ ~grown => st = w
  BY DEF Advanced
<1>8. c < m => n = c * p
  OBVIOUS
<1>9. c > 0 => r[c] = n
  BY <1>3 DEF Shaped
<1>10. \A i \in 1..Len(w) : w[i] >= b /\ w[i] < c - 1 /\ w[i] \in Nat
  BY <1>3 DEF Ascending
<1>11. b = Reached(Oldest(f, e), p) - 1
  BY <1>6
<1>12. f # <<>>
  BY <1>5
<1> HIDE DEF c, m, b, new, f
<1>20. /\ st \in Seq(Nat) /\ Len(w) \in Nat
       /\ \A i \in 1..Len(w) : i \in 1..Len(st) /\ st[i] = w[i]
       /\ grown => Len(st) = Len(w) + 1 /\ st[Len(w) + 1] = c - 1
       /\ ~grown => Len(st) = Len(w)
  <2>1. CASE grown
    <3>1. c - 1 \in Nat
      BY <1>1, <2>1
    <3>2. st = Append(w, c - 1)
      BY <1>7, <2>1
    <3>3. w \in Seq(Nat)
      BY <1>3
    <3>4. /\ Append(w, c - 1) \in Seq(Nat) /\ Len(Append(w, c - 1)) = Len(w) + 1
          /\ \A i \in 1..Len(w) : Append(w, c - 1)[i] = w[i]
          /\ Append(w, c - 1)[Len(w) + 1] = c - 1 /\ Len(w) \in Nat
      BY <3>1, <3>3
    <3> QED
      BY <2>1, <3>2, <3>4
  <2>2. CASE ~grown
    BY <1>3, <1>7, <2>2
  <2> QED
    BY <2>1, <2>2
<1>21. Shaped(t, TRUE, e, p)
  BY <1>1, <1>7 DEF Shaped, m
<1>22. OnlyStale(t, st, e, p)
  <2> SUFFICES ASSUME NEW i \in 1..(m - 1), t[i] # MA!Null
               PROVE  t[i] = i * p /\ \E j \in 1..Len(st) : st[j] = i - 1
    BY DEF OnlyStale, m
  <2>1. i <= c /\ i # m /\ i \in 1..c
    BY <1>1, <1>7
  <2>2. t[i] = r[i]
    BY <1>7, <2>1
  <2>3. CASE i < c
    <3>1. i \in 1..(c - 1) /\ r[i] # MA!Null
      BY <1>1, <2>1, <2>2, <2>3
    <3>2. r[i] = i * p /\ \E j \in 1..Len(w) : w[j] = i - 1
      BY <1>3, <3>1 DEF OnlyStale, c
    <3> QED
      BY <1>20, <2>2, <3>2
  <2>4. CASE i = c
    <3>1. grown
      BY <1>1, <2>1, <2>4
    <3>2. t[i] = i * p
      BY <1>8, <1>9, <2>2, <2>4, <3>1
    <3>3. Len(w) + 1 \in 1..Len(st) /\ st[Len(w) + 1] = i - 1
      BY <1>20, <2>4, <3>1
    <3> QED
      BY <3>2, <3>3
  <2> QED
    BY <1>1, <2>1, <2>3, <2>4
<1>23. Ascending(st, e, p)
  <2>1. ASSUME NEW i \in 1..Len(st) PROVE st[i] < m - 1
    <3>1. CASE i \in 1..Len(w)
      <4>1. st[i] = w[i]
        BY <1>20, <3>1
      <4> QED
        BY <1>1, <1>10, <3>1, <4>1
    <3>2. CASE ~(i \in 1..Len(w))
      <4>1. grown /\ i = Len(w) + 1
        BY <1>20, <3>2
      <4> QED
        BY <1>1, <1>20, <4>1
    <3> QED
      BY <3>1, <3>2
  <2>2. ASSUME NEW i \in 1..Len(st), NEW j \in 1..Len(st), i < j PROVE st[i] < st[j]
    <3>1. i \in 1..Len(w)
      BY <1>20, <2>2
    <3>2. CASE j \in 1..Len(w)
      <4>1. w[i] < w[j]
        BY <1>3, <2>2, <3>1, <3>2 DEF Ascending
      <4> QED
        BY <1>20, <3>1, <3>2, <4>1
    <3>3. CASE ~(j \in 1..Len(w))
      <4>1. grown /\ j = Len(w) + 1
        BY <1>20, <3>3
      <4>2. st[j] = c - 1 /\ st[i] = w[i]
        BY <1>20, <3>1, <4>1
      <4> QED
        BY <1>10, <3>1, <4>2
    <3> QED
      BY <3>2, <3>3
  <2> QED
    BY <2>1, <2>2 DEF Ascending, m
<1>24. \A i \in 1..Len(st) : \E j \in 1..Len(f) : st[i] = Reached(f[j].start, p) - 1
  <2> SUFFICES ASSUME NEW i \in 1..Len(st)
               PROVE  \E j \in 1..Len(f) : st[i] = Reached(f[j].start, p) - 1
    OBVIOUS
  <2>1. CASE i \in 1..Len(w)
    <3>1. w[i] >= Reached(Oldest(fl, n), p) - 1
      BY <2>1
    <3>2. PICK j \in 1..Len(fl) : w[i] = Reached(fl[j].start, p) - 1
      BY <1>3, <2>1, <3>1 DEF Awaited
    <3>3. j \in 1..Len(f) /\ f[j] = fl[j] /\ st[i] = w[i]
      BY <1>5, <1>20, <2>1 DEF f
    <3> QED
      BY <3>2, <3>3
  <2>2. CASE ~(i \in 1..Len(w))
    <3>1. grown /\ i = Len(w) + 1
      BY <1>20, <2>2
    <3>2. st[i] = c - 1
      BY <1>20, <3>1
    <3>3. /\ Len(fl) + 1 \in 1..Len(f)
          /\ f[Len(fl) + 1].start = n
      BY <1>5 DEF f, new
    <3>4. st[i] = Reached(f[Len(fl) + 1].start, p) - 1
      BY <3>2, <3>3 DEF c
    <3> QED
      BY <3>3, <3>4
  <2> QED
    BY <2>1, <2>2
<1>25. Awaited(st, e, f, p)
  <2>1. Len(f) \in Nat /\ Len(f) <= MambaBatches
    BY <1>0, <1>4, <1>5 DEF f
  <2>2. Cardinality({st[i] : i \in 1..Len(st)}) <= MambaBatches
    <3>1. st \in Seq(Nat)
      BY <1>20
    <3> QED
      BY <1>0, <1>24, <2>1, <3>1, FewEntries
  <2> QED
    BY <1>24, <2>2 DEF Awaited
<1>26. FlightHas(t, f, p)
  <2>1. ASSUME NEW x \in Nat, x > 0, x <= c, r[x] # MA!Null
        PROVE  x <= Len(t) /\ t[x] # MA!Null
    <3>1. x <= Len(t)
      BY <1>0, <1>1, <1>7, <2>1
    <3>2. CASE x = m
      BY <1>7, <3>1, <3>2 DEF MA!Null
    <3>3. CASE x # m
      <4>1. t[x] = r[x]
        BY <1>7, <2>1, <3>3
      <4> QED
        BY <2>1, <3>1, <4>1
    <3> QED
      BY <3>2, <3>3
  <2>2. m <= Len(t) /\ t[m] # MA!Null
    BY <1>0, <1>1, <1>7 DEF MA!Null
  <2>3. ASSUME NEW i \in 1..Len(fl)
        PROVE  /\ fl[i].start > 0 => /\ Reached(fl[i].start, p) <= Len(t)
                                     /\ t[Reached(fl[i].start, p)] # MA!Null
               /\ Reached(fl[i].end, p) <= Len(t)
               /\ t[Reached(fl[i].end, p)] # MA!Null
    <3>1. /\ fl[i].start \in Nat /\ fl[i].end \in Nat /\ fl[i].start <= n /\ fl[i].end <= n
          /\ fl[i].end > 0
      BY OldestFirst
    <3>2. Reached(fl[i].start, p) \in Nat /\ Reached(fl[i].start, p) <= c
      BY <1>0, <3>1, ReachedGrows DEF c
    <3>3. Reached(fl[i].end, p) \in Nat /\ Reached(fl[i].end, p) <= c
      BY <1>0, <3>1, ReachedGrows DEF c
    <3>4. fl[i].start > 0 => Reached(fl[i].start, p) > 0
      BY <1>0, <3>1, ReachedSome
    <3>5. Reached(fl[i].end, p) > 0
      BY <1>0, <3>1, ReachedSome
    <3>6. /\ fl[i].start > 0 => r[Reached(fl[i].start, p)] # MA!Null
          /\ r[Reached(fl[i].end, p)] # MA!Null
      BY <1>3 DEF FlightHas
    <3> QED
      BY <2>1, <3>2, <3>3, <3>4, <3>5, <3>6
  <2>4. n > 0 => c <= Len(t) /\ t[c] # MA!Null
    <3>1. n > 0 => c > 0
      BY <1>0, ReachedSome DEF c
    <3>2. n > 0 => r[c] # MA!Null
      BY <1>9, <3>1 DEF MA!Null
    <3> QED
      BY <1>1, <2>1, <3>1, <3>2
  <2>5. ASSUME NEW i \in 1..Len(f)
        PROVE  /\ f[i].start > 0 => /\ Reached(f[i].start, p) <= Len(t)
                                    /\ t[Reached(f[i].start, p)] # MA!Null
               /\ Reached(f[i].end, p) <= Len(t)
               /\ t[Reached(f[i].end, p)] # MA!Null
    <3>1. CASE i \in 1..Len(fl)
      <4>1. f[i] = fl[i]
        BY <1>5, <3>1 DEF f
      <4> QED
        BY <2>3, <3>1, <4>1
    <3>2. CASE ~(i \in 1..Len(fl))
      <4>1. i = Len(fl) + 1
        BY <1>4, <1>5, <3>2 DEF f
      <4>2. f[i].start = n /\ f[i].end = e
        BY <1>5, <4>1 DEF f, new
      <4> QED
        BY <2>2, <2>4, <4>2 DEF c, m
    <3> QED
      BY <3>1, <3>2
  <2> QED
    BY <2>5 DEF FlightHas
<1>27. Fresh(TRUE, st, e, f)
  BY DEF Fresh
<1>28. PageInv(t, TRUE, st, e, f, p)
  BY <1>7, <1>20, <1>21, <1>22, <1>23, <1>25, <1>26, <1>27 DEF PageInv
<1> QED
  BY <1>28 DEF f, new

(* A chunk moves to another page only from the end of one, and always if    *)
(* it starts there.                                                         *)
LEMMA PageLeft ==
  ASSUME NEW n \in Nat, NEW e \in Nat, n < e, NEW p \in Nat \ {0},
         n % p # 0 => e <= MA!Boundary(n, p)
  PROVE  /\ Reached(n, p) < Reached(e, p) => n = Reached(n, p) * p
         /\ n % p = 0 => Reached(n, p) < Reached(e, p)
<1> PICK c, m : c = MA!Cdiv(n, p) /\ m = MA!Cdiv(e, p)
  OBVIOUS
<1>1. c \in Nat /\ m \in Nat
  BY Pages
<1>2. \A k \in Int : e <= k * p <=> m <= k
  BY Pages
<1>3. c \in Int /\ c * p \in Int
  BY <1>1
<1>4. e <= c * p <=> m <= c
  BY <1>2, <1>3
<1>5. CASE n % p = 0
  <2>1. n = c * p
    BY <1>5, PagesExact
  <2>2. ~(e <= c * p)
    BY <2>1
  <2> QED
    BY <1>1, <1>4, <2>1, <2>2 DEF Reached
<1>6. CASE n % p # 0
  <2>1. MA!Boundary(n, p) = c * p
    <3>1. c = n \div p + 1
      BY <1>6, PagesInside
    <3> QED
      BY <3>1 DEF MA!Boundary
  <2>2. e <= c * p
    BY <1>6, <2>1
  <2>3. m <= c
    BY <1>4, <2>2
  <2> QED
    BY <1>1, <1>6, <2>3 DEF Reached
<1> QED
  BY <1>5, <1>6

LEMMA ProcessedIs == MA!Processed = Oldest(flight, computed)
  BY DEF MA!Processed, Oldest

LEMMA WalkedIs ==
  ASSUME MambaInv, NEW p \in MambaPages
  PROVE  Walked(table[p], stale[p], MA!Released(p), MA!Waiting(p), MA!Popped(p),
                Reached(Oldest(flight, computed), p) - 1)
<1>1. /\ computed \in Nat /\ InOrder(flight, computed) /\ p \in Nat \ {0}
      /\ PageInv(table[p], owned[p], stale[p], computed, flight, p)
  BY MambaConstants DEF MambaInv
<1>2. /\ table[p] \in Seq(Int) /\ stale[p] \in Seq(Nat)
      /\ Ascending(stale[p], computed, p)
  BY <1>1 DEF PageInv
<1>3. MA!ReleasableBelow(p) = Reached(Oldest(flight, computed), p) - 1
  BY ProcessedIs DEF MA!ReleasableBelow, Reached
<1>4. MA!ReleasableBelow(p) \in Int
  <2>1. Oldest(flight, computed) \in Nat
    BY <1>1, OldestFirst
  <2>2. Reached(Oldest(flight, computed), p) \in Nat
    BY <1>1, <2>1, ReachedGrows
  <2> QED
    BY <1>3, <2>2
<1>5. /\ MA!Popped(p) \in 0..Len(stale[p])
      /\ \A j \in 1..MA!Popped(p) : stale[p][j] < MA!ReleasableBelow(p)
  BY <1>2, <1>4, PoppedIs
<1>6. /\ MA!Waiting(p) \in Seq(Nat)
      /\ Len(MA!Waiting(p)) = Len(stale[p]) - MA!Popped(p)
      /\ \A i \in 1..Len(MA!Waiting(p)) :
           /\ MA!Waiting(p)[i] = stale[p][i + MA!Popped(p)]
           /\ i + MA!Popped(p) \in 1..Len(stale[p])
           /\ MA!Waiting(p)[i] >= MA!ReleasableBelow(p)
  BY <1>2, <1>4, WaitingIs
<1>7. MA!Popped(p) \in Nat
  BY <1>2, <1>5
<1>8. /\ MA!Released(p) \in Seq(Int) /\ Len(MA!Released(p)) = Len(table[p])
      /\ \A i \in 1..Len(table[p]) :
           /\ (\E j \in 1..MA!Popped(p) : stale[p][j] = i - 1) =>
                 MA!Released(p)[i] = MA!Null
           /\ ~(\E j \in 1..MA!Popped(p) : stale[p][j] = i - 1) =>
                 MA!Released(p)[i] = table[p][i]
  BY <1>2, <1>7, ReleasedIs
<1> QED
  BY <1>3, <1>5, <1>6, <1>8 DEF Walked

LEMMA Written ==
  ASSUME NEW s \in Seq(Int), NEW k \in 1..Len(s), NEW v \in Int
  PROVE  /\ [s EXCEPT ![k] = v] \in Seq(Int) /\ Len([s EXCEPT ![k] = v]) = Len(s)
         /\ [s EXCEPT ![k] = v][k] = v
         /\ \A j \in 1..Len(s) : j # k => [s EXCEPT ![k] = v][j] = s[j]
OBVIOUS

(* What one scheduling makes of a table and of its list.                    *)
Made(t, st, r, own, w, e, p) ==
  /\ t = [MA!Extended(r, own, e, p) EXCEPT ![MA!StateIndex(e, p) + 1] = e]
  /\ st = w \o (IF MA!Cdiv(e, p) + MambaSpec <= Len(r) THEN <<>>
               ELSE IF own THEN <<Len(r) - 1 - MambaSpec>>
               ELSE IF Len(r) > 0 THEN <<Len(r) - 1>> ELSE <<>>)

(* What a longer table is made of, and what stays on the list.              *)
LEMMA GrownIs ==
  ASSUME NEW p \in MambaPages, NEW n \in Nat, NEW e \in Nat, n < e,
         NEW r \in Seq(Int), NEW own \in BOOLEAN, Shaped(r, own, n, p),
         ~own => Reached(n, p) < Reached(e, p), NEW w \in Seq(Nat), NEW t, NEW st,
         Made(t, st, r, own, w, e, p)
  PROVE  Advanced(r, w, n, e, p, t, st)
<1> DEFINE c == Reached(n, p)
           m == Reached(e, p)
           x == MA!Extended(r, own, e, p)
           S == MambaSpec
<1>0. p \in Nat \ {0} /\ S \in Nat
  BY MambaConstants
<1>1. c \in Nat /\ m \in Nat /\ c <= m /\ m > 0
  BY <1>0, ReachedGrows, ReachedSome
<1>2. /\ own => Len(r) = c + S /\ c > 0
      /\ ~own => Len(r) = c /\ c < m
      /\ \A i \in (c + 1)..Len(r) : r[i] = MA!Blank
  BY DEF Shaped
<1>3. MA!Cdiv(e, p) = m
  BY DEF Reached
<1>4. t = [x EXCEPT ![m] = e]
  <2>1. MA!StateIndex(e, p) + 1 = m
    BY <1>1, <1>3 DEF MA!StateIndex
  <2>2. t = [x EXCEPT ![MA!StateIndex(e, p) + 1] = e]
    BY DEF Made
  <2> QED
    BY <2>1, <2>2, Zenon
<1>5. CASE c = m
  <2>1. own
    BY <1>1, <1>2, <1>5
  <2>2. MA!Cdiv(e, p) + MambaSpec <= Len(r)
    BY <1>0, <1>1, <1>2, <1>3, <1>5, <2>1
  <2>3. x = r
    BY <2>2 DEF MA!Extended
  <2>4. st = w
    <3>1. st = w \o <<>>
      BY <2>2, Zenon DEF Made
    <3> QED
      BY <3>1
  <2>5. Len(r) = m + S
    BY <1>2, <1>5, <2>1
  <2> HIDE DEF c, m, x, S
  <2>6. /\ t \in Seq(Int) /\ Len(t) = m + S /\ t[m] = e
        /\ \A i \in 1..Len(r) : i # m => t[i] = r[i]
    <3>1. e \in Int /\ m \in 1..Len(r)
      BY <1>0, <1>1, <2>5
    <3>2. t = [r EXCEPT ![m] = e]
      BY <1>4, <2>3, Zenon
    <3>3. /\ [r EXCEPT ![m] = e] \in Seq(Int) /\ Len([r EXCEPT ![m] = e]) = Len(r)
          /\ [r EXCEPT ![m] = e][m] = e
          /\ \A j \in 1..Len(r) : j # m => [r EXCEPT ![m] = e][j] = r[j]
      BY <3>1, Written
    <3> QED
      BY <2>5, <3>2, <3>3, Zenon
  <2>7. ASSUME NEW i \in 1..c, i # m PROVE t[i] = r[i]
    <3>1. i \in 1..Len(r)
      BY <1>0, <1>1, <1>5, <2>5
    <3> QED
      BY <2>6, <2>7, <3>1
  <2>8. \A i \in (m + 1)..Len(t) : t[i] = MA!Blank
    BY <1>0, <1>1, <1>2, <1>5, <2>5, <2>6
  <2>9. \A i \in (c + 1)..(m - 1) : t[i] = MA!Null
    BY <1>1, <1>5
  <2>10. ~(c < m)
    BY <1>1, <1>5
  <2> QED
    BY <2>4, <2>6, <2>7, <2>8, <2>9, <2>10 DEF Advanced, c, m, S
<1>6. CASE c < m
  <2>1. /\ x \in Seq(Int) /\ Len(x) = m + S
        /\ \A i \in 1..c : x[i] = r[i]
        /\ \A i \in (c + 1)..(m - 1) : x[i] = MA!Null
        /\ \A i \in m..(m + S) : x[i] = IF i <= Len(r) THEN r[i] ELSE MA!Blank
    <3>1. own => Len(r) = c + MambaSpec
      BY <1>2
    <3>2. ~own => Len(r) = c
      BY <1>2
    <3>3. m = MA!Cdiv(e, p)
      BY <1>3
    <3>4. c \in Nat /\ m \in Nat /\ c < m
      BY <1>1, <1>6
    <3> HIDE DEF c, m
    <3>5. Grown(MA!Extended(r, own, e, p), r, c, m)
      BY <1>0, <3>1, <3>2, <3>3, <3>4, ExtendedIs
    <3> QED
      BY <3>5 DEF Grown
  <2>2. ~(MA!Cdiv(e, p) + MambaSpec <= Len(r))
    <3>1. CASE own
      BY <1>0, <1>1, <1>2, <1>3, <1>6, <3>1
    <3>2. CASE ~own
      BY <1>0, <1>1, <1>2, <1>3, <1>6, <3>2
    <3> QED
      BY <3>1, <3>2
  <2>3. c > 0 => st = Append(w, c - 1)
    <3> SUFFICES ASSUME c > 0 PROVE st = Append(w, c - 1)
      OBVIOUS
    <3>1. CASE own
      <4>0. Len(r) = c + MambaSpec /\ c \in Nat /\ MambaSpec \in Nat
        BY <1>0, <1>1, <1>2, <3>1
      <4>1. Len(r) - 1 - MambaSpec = c - 1
        <5> HIDE DEF c
        <5> QED
          BY <4>0
      <4>2. st = w \o <<c - 1>>
        BY <2>2, <3>1, <4>1, Zenon DEF Made
      <4> QED
        BY <4>2
    <3>2. CASE ~own
      <4>1. Len(r) - 1 = c - 1 /\ Len(r) > 0
        BY <1>1, <1>2, <3>2
      <4>2. st = w \o <<c - 1>>
        BY <2>2, <3>2, <4>1, Zenon DEF Made
      <4> QED
        BY <4>2
    <3> QED
      BY <3>1, <3>2
  <2>4. ~(c > 0) => st = w
    <3> SUFFICES ASSUME ~(c > 0) PROVE st = w
      OBVIOUS
    <3>1. ~own /\ ~(Len(r) > 0)
      BY <1>1, <1>2
    <3>2. st = w \o <<>>
      BY <2>2, <3>1, Zenon DEF Made
    <3> QED
      BY <3>2
  <2> HIDE DEF c, m, x, S
  <2>5. /\ t \in Seq(Int) /\ Len(t) = m + S /\ t[m] = e
        /\ \A i \in 1..(m + S) : i # m => t[i] = x[i]
    <3>1. e \in Int /\ m \in 1..Len(x)
      BY <1>0, <1>1, <2>1
    <3>2. x \in Seq(Int) /\ Len(x) = m + S
      BY <2>1
    <3>3. /\ [x EXCEPT ![m] = e] \in Seq(Int) /\ Len([x EXCEPT ![m] = e]) = Len(x)
          /\ [x EXCEPT ![m] = e][m] = e
          /\ \A j \in 1..Len(x) : j # m => [x EXCEPT ![m] = e][j] = x[j]
      BY <3>1, <3>2, Written
    <3> QED
      BY <1>4, <3>2, <3>3, Zenon
  <2>6. ASSUME NEW i \in 1..c, i # m PROVE t[i] = r[i]
    <3>1. i \in 1..(m + S)
      BY <1>0, <1>1
    <3> QED
      BY <2>1, <2>5, <2>6, <3>1
  <2>7. ASSUME NEW i \in (c + 1)..(m - 1) PROVE t[i] = MA!Null
    <3>1. i \in 1..(m + S) /\ i # m
      BY <1>0, <1>1
    <3> QED
      BY <2>1, <2>5, <3>1
  <2>8. ASSUME NEW i \in (m + 1)..Len(t) PROVE t[i] = MA!Blank
    <3>1. i \in 1..(m + S) /\ i # m /\ i \in m..(m + S)
      BY <1>0, <1>1, <2>5
    <3>2. t[i] = IF i <= Len(r) THEN r[i] ELSE MA!Blank
      BY <2>1, <2>5, <3>1
    <3>3. i <= Len(r) => i \in (c + 1)..Len(r)
      BY <1>0, <1>1, <1>6
    <3> QED
      BY <1>2, <3>2, <3>3
  <2> QED
    BY <1>6, <2>3, <2>4, <2>5, <2>6, <2>7, <2>8 DEF Advanced, c, m, S
<1>7. c = m \/ c < m
  <2> HIDE DEF c, m
  <2> QED
    BY <1>1
<1> QED
  BY <1>5, <1>6, <1>7

LEMMA ScheduledOrder ==
  ASSUME NEW n \in Nat, NEW e \in Nat, n < e, NEW fl, InOrder(fl, n),
         Len(fl) < MambaBatches, n < MA!LastCheckpoint => e <= MA!LastCheckpoint
  PROVE  InOrder(Append(fl, [start |-> n, end |-> e]), e)
<1> DEFINE new == [start |-> n, end |-> e]
           f == Append(fl, new)
           Steps == [start : Nat, end : Nat]
<1>1. fl \in Seq(Steps) /\ Len(fl) \in Nat /\ MambaBatches \in Nat
  BY MambaConstants DEF InOrder
<1>2. new \in Steps /\ new.start = n /\ new.end = e
  OBVIOUS
<1> HIDE DEF Steps, new
<1>3. /\ f \in Seq(Steps) /\ Len(f) = Len(fl) + 1
      /\ \A i \in 1..Len(fl) : f[i] = fl[i]
      /\ f[Len(fl) + 1] = new
  BY <1>1, <1>2
<1>4. Len(f) <= MambaBatches
  BY <1>1, <1>3
<1> HIDE DEF f
<1>5. \A i \in 1..Len(f) : i \in 1..Len(fl) \/ i = Len(fl) + 1
  BY <1>1, <1>3
<1>6. \A i \in 1..Len(fl) : /\ fl[i].start \in Nat /\ fl[i].end \in Nat
                            /\ fl[i].start < fl[i].end /\ fl[i].end <= n
  BY OldestFirst
<1>7. ASSUME NEW i \in 1..Len(f)
      PROVE  /\ f[i].start < f[i].end /\ f[i].end <= e
             /\ f[i].start < MA!LastCheckpoint => f[i].end <= MA!LastCheckpoint
             /\ \A j \in i..Len(f) : f[i].start <= f[j].start
  <2>1. CASE i = Len(fl) + 1
    <3>1. f[i] = new
      BY <1>3, <2>1
    <3>2. \A j \in i..Len(f) : j = i
      BY <1>1, <1>3, <2>1
    <3> QED
      BY <1>2, <3>1, <3>2
  <2>2. CASE i \in 1..Len(fl)
    <3>1. f[i] = fl[i]
      BY <1>3, <2>2
    <3>2. fl[i].start < MA!LastCheckpoint => fl[i].end <= MA!LastCheckpoint
      BY <2>2 DEF InOrder
    <3>3. ASSUME NEW j \in i..Len(f) PROVE f[i].start <= f[j].start
      <4>1. j \in i..Len(fl) \/ j = Len(fl) + 1
        BY <1>1, <1>3
      <4>2. CASE j \in i..Len(fl)
        <5>1. j \in 1..Len(fl)
          BY <2>2, <4>2
        <5>2. f[j] = fl[j] /\ fl[i].start <= fl[j].start
          BY <1>3, <2>2, <4>2, <5>1 DEF InOrder
        <5> QED
          BY <3>1, <5>2
      <4>3. CASE j = Len(fl) + 1
        BY <1>2, <1>3, <1>6, <2>2, <3>1, <4>3
      <4> QED
        BY <4>1, <4>2, <4>3
    <3> QED
      BY <1>6, <2>2, <3>1, <3>2, <3>3
  <2> QED
    BY <1>5, <2>1, <2>2
<1>8. InOrder(f, e)
  BY <1>3, <1>4, <1>7 DEF InOrder, Steps
<1> QED
  BY <1>8 DEF f, new

LEMMA ScheduledPage ==
  ASSUME MambaInv, NEW p \in MambaPages, NEW e \in Nat, computed < e,
         computed % p # 0 => e <= MA!Boundary(computed, p), Len(flight) < MambaBatches
  PROVE  /\ PageInv(MA!Allocated(p, e), TRUE, MA!Recorded(p, e), e,
                    Append(flight, [start |-> computed, end |-> e]), p)
         /\ owned[p] \/ MA!Grows(p, e)
<1> DEFINE n == computed
           r == MA!Released(p)
           w == MA!Waiting(p)
           own == owned[p]
           b == Reached(Oldest(flight, n), p) - 1
<1>1. /\ n \in Nat /\ InOrder(flight, n) /\ p \in Nat \ {0}
      /\ PageInv(table[p], own, stale[p], n, flight, p)
  BY MambaConstants DEF MambaInv
<1>2. Walked(table[p], stale[p], r, w, MA!Popped(p), b)
  BY WalkedIs
<1>3. PageInv(r, own, w, n, flight, p)
  <2> HIDE DEF n, r, w, own
  <2>1. Walked(table[p], stale[p], r, w, MA!Popped(p), Reached(Oldest(flight, n), p) - 1)
    BY <1>2
  <2> QED
    BY <1>1, <2>1, ReleasedInv
<1>4. /\ r \in Seq(Int) /\ own \in BOOLEAN /\ w \in Seq(Nat)
      /\ Shaped(r, own, n, p) /\ Fresh(own, w, n, flight)
  <2> HIDE DEF n, r, w, own
  <2> QED
    BY <1>3 DEF PageInv
<1>5. Len(r) = Len(table[p])
  <2> HIDE DEF r, w
  <2> QED
    BY <1>2 DEF Walked
<1>6. \A i \in 1..Len(w) : w[i] >= b
  <2> HIDE DEF r, w, b
  <2> QED
    BY <1>2 DEF Walked
<1>7. /\ Reached(n, p) < Reached(e, p) => n = Reached(n, p) * p
      /\ n % p = 0 => Reached(n, p) < Reached(e, p)
  BY <1>1, PageLeft
<1>8. ~own => Reached(n, p) < Reached(e, p)
  <2>1. ~own => n % MambaCheckpoint = 0
    BY <1>4 DEF Fresh
  <2>2. ~own => n % p = 0
    BY <1>1, <2>1, OnPages
  <2> QED
    BY <1>7, <2>2
<1>9. Made(MA!Allocated(p, e), MA!Recorded(p, e), r, own, w, e, p)
  <2>1. MA!Allocated(p, e) =
          [MA!Extended(r, own, e, p) EXCEPT ![MA!StateIndex(e, p) + 1] = e]
    BY DEF MA!Allocated
  <2>2. MA!Recorded(p, e) = w \o MA!Superseded(p, e)
    BY DEF MA!Recorded
  <2>3. MA!Superseded(p, e) =
          IF MA!Cdiv(e, p) + MambaSpec <= Len(r) THEN <<>>
          ELSE IF own THEN <<Len(r) - 1 - MambaSpec>>
          ELSE IF Len(r) > 0 THEN <<Len(r) - 1>> ELSE <<>>
    BY <1>5, Zenon DEF MA!Superseded
  <2> HIDE DEF r, w, own
  <2> QED
    BY <2>1, <2>2, <2>3, Zenon DEF Made
<1>10. Advanced(r, w, n, e, p, MA!Allocated(p, e), MA!Recorded(p, e))
  <2> HIDE DEF n, r, w, own
  <2>1. n < e
    BY DEF n
  <2> QED
    BY <1>1, <1>4, <1>8, <1>9, <2>1, GrownIs
<1>11. PageInv(MA!Allocated(p, e), TRUE, MA!Recorded(p, e), e,
               Append(flight, [start |-> n, end |-> e]), p)
  <2> HIDE DEF n, r, w, own
  <2>1. n < e
    BY DEF n
  <2>2. \A i \in 1..Len(w) : w[i] >= Reached(Oldest(flight, n), p) - 1
    BY <1>6 DEF b
  <2>3. Reached(n, p) < Reached(e, p) => n = Reached(n, p) * p
    BY <1>7
  <2> QED
    BY <1>1, <1>3, <1>10, <2>1, <2>2, <2>3, AdvancedInv
<1>12. own \/ MA!Grows(p, e)
  <2> SUFFICES ASSUME ~own PROVE MA!Grows(p, e)
    OBVIOUS
  <2>1. Len(table[p]) = Reached(n, p)
    BY <1>4, <1>5 DEF Shaped
  <2>2. Reached(n, p) < Reached(e, p)
    BY <1>8
  <2>3. Reached(n, p) \in Nat /\ Reached(e, p) \in Nat /\ MambaSpec \in Nat
    <3>1. n <= e
      BY <1>1
    <3> QED
      BY <1>1, <3>1, ReachedGrows, MambaConstants
  <2>4. Reached(e, p) + MambaSpec > Reached(n, p)
    BY <2>2, <2>3
  <2> QED
    BY <2>1, <2>4 DEF MA!Grows, Reached
<1> QED
  BY <1>11, <1>12

LEMMA MambaInitInv == MA!MAInit => MambaInv
<1> SUFFICES ASSUME MA!MAInit PROVE MambaInv
  OBVIOUS
<1>1. PICK n \in {c \in 0..(MambaPrompt - 1) : c % MambaCheckpoint = 0} :
        table = [p \in MambaPages |-> MA!Hit(n, p)] /\ computed = n
  BY DEF MA!MAInit
<1>2. /\ owned = [p \in MambaPages |-> FALSE] /\ stale = [p \in MambaPages |-> <<>>]
      /\ flight = <<>>
  BY DEF MA!MAInit
<1>3. n \in Nat /\ n \in 0..MambaPrompt /\ n % MambaCheckpoint = 0
  BY MambaConstants
<1>4. ASSUME NEW p \in MambaPages
      PROVE  PageInv(table[p], owned[p], stale[p], computed, flight, p)
  <2>1. table[p] = MA!Hit(n, p) /\ owned[p] = FALSE /\ stale[p] = <<>>
    BY <1>1, <1>2
  <2>2. PageInv(MA!Hit(n, p), FALSE, <<>>, n, <<>>, p)
    BY <1>3, AdmittedInv
  <2> QED
    BY <1>1, <1>2, <2>1, <2>2, Zenon
<1>5. InOrder(flight, computed)
  BY <1>2, NoFlight
<1>6. /\ table \in [MambaPages -> Seq(Int)] /\ owned \in [MambaPages -> BOOLEAN]
      /\ stale \in [MambaPages -> Seq(Nat)]
  <2>1. \A p \in MambaPages : MA!Hit(n, p) \in Seq(Int)
    BY <1>3, HitIs
  <2>2. <<>> \in Seq(Nat)
    OBVIOUS
  <2> QED
    BY <1>1, <1>2, <2>1, <2>2, Zenon
<1> QED
  BY <1>1, <1>3, <1>4, <1>5, <1>6 DEF MambaInv

LEMMA MambaPreemptInv == MambaInv /\ MA!Preempt => MambaInv'
<1> SUFFICES ASSUME MA!Preempt PROVE MambaInv'
  OBVIOUS
<1>1. PICK n \in {c \in 0..(MambaPrompt - 1) : c % MambaCheckpoint = 0} : MA!Admit(n)
  BY DEF MA!Preempt
<1>2. /\ table' = [p \in MambaPages |-> MA!Hit(n, p)] /\ computed' = n
      /\ owned' = [p \in MambaPages |-> FALSE] /\ stale' = [p \in MambaPages |-> <<>>]
      /\ flight' = <<>>
  BY <1>1 DEF MA!Admit
<1>3. n \in Nat /\ n \in 0..MambaPrompt /\ n % MambaCheckpoint = 0
  BY MambaConstants
<1>4. ASSUME NEW p \in MambaPages
      PROVE  PageInv(table'[p], owned'[p], stale'[p], computed', flight', p)
  <2>1. table'[p] = MA!Hit(n, p) /\ owned'[p] = FALSE /\ stale'[p] = <<>>
    BY <1>2
  <2>2. PageInv(MA!Hit(n, p), FALSE, <<>>, n, <<>>, p)
    BY <1>3, AdmittedInv
  <2> QED
    BY <1>2, <2>1, <2>2, Zenon
<1>5. InOrder(flight', computed')
  BY <1>2, NoFlight
<1>6. /\ table' \in [MambaPages -> Seq(Int)] /\ owned' \in [MambaPages -> BOOLEAN]
      /\ stale' \in [MambaPages -> Seq(Nat)]
  <2>1. \A p \in MambaPages : MA!Hit(n, p) \in Seq(Int)
    BY <1>3, HitIs
  <2>2. <<>> \in Seq(Nat)
    OBVIOUS
  <2> QED
    BY <1>2, <2>1, <2>2, Zenon
<1> QED
  BY <1>2, <1>3, <1>4, <1>5, <1>6 DEF MambaInv

LEMMA MambaReturnInv == MambaInv /\ MA!Return => MambaInv'
<1> SUFFICES ASSUME MambaInv, MA!Return PROVE MambaInv'
  OBVIOUS
<1>1. /\ flight # <<>> /\ flight' = Tail(flight)
      /\ table' = table /\ owned' = owned /\ stale' = stale /\ computed' = computed
  BY DEF MA!Return
<1>2. computed \in Nat /\ InOrder(flight, computed)
  BY DEF MambaInv
<1>3. InOrder(Tail(flight), computed)
  BY <1>1, <1>2, ReturnedOrder
<1>4. ASSUME NEW p \in MambaPages
      PROVE  PageInv(table[p], owned[p], stale[p], computed, Tail(flight), p)
  <2>1. PageInv(table[p], owned[p], stale[p], computed, flight, p)
    BY DEF MambaInv
  <2> QED
    BY <1>1, <1>2, <2>1, ReturnedInv
<1> QED
  BY <1>1, <1>3, <1>4 DEF MambaInv

LEMMA MambaScheduleInv == MambaInv /\ MA!Schedule => MambaInv'
<1> SUFFICES ASSUME MambaInv, MA!Schedule PROVE MambaInv'
  OBVIOUS
<1>1. Len(flight) < MambaBatches /\ computed < MambaPrompt
  BY DEF MA!Schedule
<1>2. PICK grant \in MambaGrants :
        LET e == MA!SplitEnd(computed, grant) IN
        /\ table' = [p \in MambaPages |-> MA!Allocated(p, e)]
        /\ stale' = [p \in MambaPages |-> MA!Recorded(p, e)]
        /\ owned' = [p \in MambaPages |-> owned[p] \/ MA!Grows(p, e)]
        /\ computed' = e
        /\ flight' = Append(flight, [start |-> computed, end |-> e])
  BY DEF MA!Schedule
<1> DEFINE e == MA!SplitEnd(computed, grant)
           f == Append(flight, [start |-> computed, end |-> e])
<1>3. computed \in Nat /\ InOrder(flight, computed)
  BY DEF MambaInv
<1>4. /\ e \in Nat /\ computed < e /\ e <= MambaPrompt
      /\ computed < MA!LastCheckpoint => e <= MA!LastCheckpoint
      /\ \A p \in MambaPages : computed % p # 0 => e <= MA!Boundary(computed, p)
  BY <1>1, <1>3, SplitAdvances
<1>5. /\ table' = [p \in MambaPages |-> MA!Allocated(p, e)]
      /\ stale' = [p \in MambaPages |-> MA!Recorded(p, e)]
      /\ owned' = [p \in MambaPages |-> owned[p] \/ MA!Grows(p, e)]
      /\ computed' = e /\ flight' = f
  BY <1>2
<1> HIDE DEF e
<1>6. ASSUME NEW p \in MambaPages
      PROVE  /\ PageInv(MA!Allocated(p, e), TRUE, MA!Recorded(p, e), e, f, p)
             /\ (owned[p] \/ MA!Grows(p, e)) = TRUE
  <2>1. PageInv(MA!Allocated(p, e), TRUE, MA!Recorded(p, e), e, f, p)
    BY <1>1, <1>4, ScheduledPage
  <2>2. owned[p] \/ MA!Grows(p, e)
    BY <1>1, <1>4, ScheduledPage
  <2> QED
    BY <2>1, <2>2
<1>7. InOrder(f, e)
  BY <1>1, <1>3, <1>4, ScheduledOrder
<1> HIDE DEF f
<1>8. ASSUME NEW p \in MambaPages
      PROVE  /\ PageInv(table'[p], owned'[p], stale'[p], computed', flight', p)
             /\ table'[p] \in Seq(Int) /\ stale'[p] \in Seq(Nat)
  <2>1. table'[p] = MA!Allocated(p, e) /\ stale'[p] = MA!Recorded(p, e) /\ owned'[p] = TRUE
    BY <1>5, <1>6, Zenon
  <2>2. PageInv(table'[p], owned'[p], stale'[p], computed', flight', p)
    BY <1>5, <1>6, <2>1, Zenon
  <2> QED
    BY <2>2 DEF PageInv
<1>9. owned' \in [MambaPages -> BOOLEAN]
  BY <1>5
<1>10. table' \in [MambaPages -> Seq(Int)] /\ stale' \in [MambaPages -> Seq(Nat)]
  <2>1. table' = [p \in MambaPages |-> table'[p]] /\ stale' = [p \in MambaPages |-> stale'[p]]
    BY <1>5, Zenon
  <2> QED
    BY <1>8, <2>1, Zenon
<1>11. computed' \in 0..MambaPrompt /\ InOrder(flight', computed')
  BY <1>4, <1>5, <1>7, MambaConstants
<1> QED
  BY <1>8, <1>9, <1>10, <1>11 DEF MambaInv

LEMMA MambaNextInv == MambaInv /\ [MA!MANext]_mavars => MambaInv'
<1>1. MambaInv /\ UNCHANGED mavars => MambaInv'
  BY DEF mavars, MambaInv
<1> QED
  BY <1>1, MambaScheduleInv, MambaReturnInv, MambaPreemptInv DEF MA!MANext

LEMMA KeptInFlight ==
  ASSUME NEW t \in Seq(Int), NEW fl, NEW n \in Nat, InOrder(fl, n), NEW p \in MambaPages,
         FlightHas(t, fl, p), NEW i \in 1..Len(fl)
  PROVE  /\ fl[i].start > 0 => MA!StateIndex(fl[i].start, p) \in MA!Real(t)
         /\ MA!StateIndex(fl[i].end, p) \in MA!Real(t)
<1>1. p \in Nat \ {0} /\ Len(t) \in Nat
  BY MambaConstants
<1>2. fl[i].start \in Nat /\ fl[i].end \in Nat /\ fl[i].end > 0
  BY OldestFirst
<1>3. ASSUME NEW x \in Nat, x > 0, Reached(x, p) <= Len(t), t[Reached(x, p)] # MA!Null
      PROVE  MA!StateIndex(x, p) \in MA!Real(t)
  <2>1. Reached(x, p) \in Nat /\ Reached(x, p) > 0
    BY <1>1, <1>3, ReachedSome
  <2>2. MA!StateIndex(x, p) = Reached(x, p) - 1
    BY DEF MA!StateIndex, Reached
  <2> PICK c : c = Reached(x, p)
    OBVIOUS
  <2>3. c - 1 \in 0..(Len(t) - 1) /\ (c - 1) + 1 = c
    BY <1>1, <1>3, <2>1
  <2>4. MA!At(t, c - 1) # MA!Null
    BY <1>3, <2>3 DEF MA!At
  <2> QED
    BY <2>2, <2>3, <2>4 DEF MA!Real
<1>4. /\ fl[i].start > 0 => /\ Reached(fl[i].start, p) <= Len(t)
                            /\ t[Reached(fl[i].start, p)] # MA!Null
      /\ Reached(fl[i].end, p) <= Len(t) /\ t[Reached(fl[i].end, p)] # MA!Null
  BY DEF FlightHas
<1> QED
  BY <1>2, <1>3, <1>4

(* A page the chunks have passed holds the state of its own end.            *)
LEMMA HashedPage ==
  ASSUME NEW t \in Seq(Int), NEW own, NEW st, NEW n \in Nat, NEW p \in MambaPages,
         Shaped(t, own, n, p), OnlyStale(t, st, n, p),
         NEW i \in MA!Real(t), (i + 1) * p <= n
  PROVE  MA!At(t, i) = (i + 1) * p
<1> DEFINE c == Reached(n, p)
           k == i + 1
<1>1. p \in Nat \ {0} /\ c \in Nat /\ n <= c * p /\ c * p \in Nat
  BY MambaConstants, Pages DEF Reached
<1>2. i \in Nat /\ k \in Nat /\ k \in 1..Len(t) /\ t[k] # MA!Null /\ MA!At(t, i) = t[k]
  BY DEF MA!Real, MA!At
<1>3. k * p <= n /\ k * p \in Nat
  BY <1>1, <1>2
<1> HIDE DEF c, k
<1>4. k <= c
  <2> SUFFICES ASSUME c < k PROVE FALSE
    BY <1>1, <1>2
  <2>1. c * p + p <= k * p
    BY <1>1, <1>2, Grows
  <2> QED
    BY <1>1, <1>3, <2>1
<1>5. CASE k = c
  <2>1. c > 0 /\ t[c] = n
    BY <1>2, <1>5 DEF Shaped, c
  <2>2. n = c * p
    BY <1>1, <1>3, <1>5
  <2> QED
    BY <1>2, <1>5, <2>1, <2>2 DEF k
<1>6. CASE k < c
  <2>1. k \in 1..(c - 1)
    BY <1>1, <1>2, <1>6
  <2>2. t[k] = k * p
    BY <1>2, <2>1 DEF OnlyStale, c
  <2> QED
    BY <1>2, <2>2 DEF k
<1> QED
  BY <1>1, <1>2, <1>4, <1>5, <1>6

(* The blocks held are those on the list, the running state's and the       *)
(* speculative ones.                                                        *)
LEMMA HeldPage ==
  ASSUME NEW t \in Seq(Int), NEW own \in BOOLEAN, NEW st \in Seq(Nat), NEW n \in Nat,
         NEW p \in MambaPages, Shaped(t, own, n, p), OnlyStale(t, st, n, p),
         Cardinality({st[i] : i \in 1..Len(st)}) <= MambaBatches
  PROVE  MA!Cardinality(MA!Real(t)) <= 1 + MambaBatches + MambaSpec
<1> DEFINE c == Reached(n, p)
           V == {st[i] : i \in 1..Len(st)}
           U == (c - 1)..(c + MambaSpec - 1)
           B == MA!Real(t)
<1>1. p \in Nat \ {0} /\ MambaSpec \in Nat /\ MambaBatches \in Nat /\ c \in Nat
  BY MambaConstants, Pages DEF Reached
<1>2. Len(t) <= c + MambaSpec /\ Len(t) \in Nat
  <2>1. own => Len(t) = c + MambaSpec
    BY DEF Shaped
  <2>2. ~own => Len(t) = c
    BY DEF Shaped
  <2>3. CASE own
    BY <1>1, <2>1, <2>3
  <2>4. CASE ~own
    BY <1>1, <2>2, <2>4
  <2> QED
    BY <2>3, <2>4
<1>3. ASSUME NEW i \in B PROVE i \in V \cup U
  <2>1. i \in 0..(Len(t) - 1) /\ t[i + 1] # MA!Null
    BY DEF MA!Real, MA!At
  <2> HIDE DEF c, V, U
  <2>2. CASE i + 1 < c
    <3>1. i + 1 \in 1..(c - 1)
      BY <1>1, <1>2, <2>1, <2>2
    <3>2. \E j \in 1..Len(st) : st[j] = (i + 1) - 1
      BY <2>1, <3>1 DEF OnlyStale, c
    <3>3. (i + 1) - 1 = i
      BY <1>2, <2>1
    <3>4. PICK j \in 1..Len(st) : st[j] = i
      BY <3>2, <3>3
    <3> QED
      BY <3>4 DEF V
  <2>3. CASE ~(i + 1 < c)
    <3>1. i >= c - 1 /\ i <= c + MambaSpec - 1 /\ i \in Int
      BY <1>1, <1>2, <2>1, <2>3
    <3> QED
      BY <1>1, <3>1 DEF U
  <2> QED
    BY <2>2, <2>3
<1>4. IsFiniteSet(V) /\ Cardinality(V) <= MambaBatches /\ Cardinality(V) \in Nat
  <2>1. IsFiniteSet(V)
    BY Entries
  <2> QED
    BY <2>1, FS_CardinalityType
<1>5. IsFiniteSet(U) /\ Cardinality(U) = MambaSpec + 1
  <2>1. c - 1 \in Int /\ c + MambaSpec - 1 \in Int /\ c - 1 <= c + MambaSpec - 1
    BY <1>1
  <2>2. IsFiniteSet(U)
    BY <2>1, FS_Interval
  <2>3. Cardinality(U) = IF c - 1 > c + MambaSpec - 1 THEN 0
                         ELSE (c + MambaSpec - 1) - (c - 1) + 1
    BY <2>1, FS_Interval
  <2> HIDE DEF c, U
  <2>4. (c + MambaSpec - 1) - (c - 1) + 1 = MambaSpec + 1 /\ ~(c - 1 > c + MambaSpec - 1)
    BY <1>1
  <2> QED
    BY <2>2, <2>3, <2>4
<1> HIDE DEF V, U, B
<1>6. /\ IsFiniteSet(V \cup U) /\ Cardinality(V \cap U) \in Nat
      /\ Cardinality(V \cup U) = Cardinality(V) + Cardinality(U) - Cardinality(V \cap U)
  <2>1. V \cap U \in SUBSET V
    OBVIOUS
  <2>2. IsFiniteSet(V \cap U)
    BY <1>4, <2>1, FS_Subset
  <2> QED
    BY <1>4, <1>5, <2>2, FS_Union, FS_CardinalityType
<1>7. B \in SUBSET (V \cup U)
  BY <1>3
<1>8. IsFiniteSet(B) /\ Cardinality(B) <= Cardinality(V \cup U)
  BY <1>6, <1>7, FS_Subset
<1>9. Cardinality(B) \in Nat
  BY <1>8, FS_CardinalityType
<1>10. Cardinality(B) <= 1 + MambaBatches + MambaSpec
  BY <1>1, <1>4, <1>5, <1>6, <1>8, <1>9
<1> QED
  BY <1>10, SameCount DEF B

LEMMA MambaInvAligned == MambaInv => MA!StatesAligned
<1> SUFFICES ASSUME MambaInv PROVE MA!StatesAligned
  OBVIOUS
<1>1. computed \in Nat /\ computed \in 0..MambaPrompt /\ InOrder(flight, computed)
  BY DEF MambaInv
<1>2. ASSUME NEW p \in MambaPages
      PROVE  /\ table[p] \in Seq(Int) /\ owned[p] \in BOOLEAN /\ stale[p] \in Seq(Nat)
             /\ Shaped(table[p], owned[p], computed, p)
             /\ OnlyStale(table[p], stale[p], computed, p)
             /\ FlightHas(table[p], flight, p)
             /\ Cardinality({stale[p][i] : i \in 1..Len(stale[p])}) <= MambaBatches
  <2>1. PageInv(table[p], owned[p], stale[p], computed, flight, p)
    BY DEF MambaInv
  <2> QED
    BY <2>1 DEF PageInv, Awaited
<1>3. MA!InFlightKept
  <2>1. ASSUME NEW i \in 1..Len(flight), NEW p \in MambaPages
        PROVE  /\ flight[i].start > 0 =>
                     MA!StateIndex(flight[i].start, p) \in MA!Real(table[p])
               /\ MA!StateIndex(flight[i].end, p) \in MA!Real(table[p])
    BY <1>1, <1>2, KeptInFlight
  <2> QED
    BY <2>1 DEF MA!InFlightKept
<1>4. MA!HashedExact
  <2>1. ASSUME NEW p \in MambaPages, NEW i \in MA!Real(table[p]), (i + 1) * p <= computed
        PROVE  MA!At(table[p], i) = (i + 1) * p
    BY <1>1, <1>2, <2>1, HashedPage
  <2> QED
    BY <2>1 DEF MA!HashedExact
<1>5. MA!ReservationHolds
  <2>1. ASSUME NEW p \in MambaPages
        PROVE  MA!Cardinality(MA!Real(table[p])) <= 1 + MambaBatches + MambaSpec
    BY <1>1, <1>2, HeldPage
  <2> QED
    BY <2>1 DEF MA!ReservationHolds
<1>6. MA!SplitProgress
  <2>1. ASSUME NEW grant \in MambaGrants, computed < MambaPrompt
        PROVE  MA!SplitEnd(computed, grant) > computed
    <3>1. MA!SplitEnd(computed, grant) \in Nat /\ computed < MA!SplitEnd(computed, grant)
      BY <1>1, <2>1, SplitAdvances
    <3> QED
      BY <1>1, <3>1
  <2>2. \A i \in 1..Len(flight) :
          flight[i].start < MA!LastCheckpoint => flight[i].end <= MA!LastCheckpoint
    BY <1>1 DEF InOrder
  <2> QED
    BY <2>1, <2>2 DEF MA!SplitProgress
<1> QED
  BY <1>3, <1>4, <1>5, <1>6 DEF MA!StatesAligned

(* However the prompt is cut by the grants, speculation and the checkpoint, *)
(* and wherever a request is preempted or its batches return: the states a  *)
(* batch in flight reads and writes stay in the table, the state under a    *)
(* hash is the one of its page boundary, no group holds more than it        *)
(* reserved, and every grant moves on and ends on what the pool can keep    *)
(* (patch_mamba_align_chunking.py, patch_mamba_align_state_free.py).        *)
THEOREM StatesStayAligned == MCSpec => []StatesAligned
<1> DEFINE Inv == part = "mamba" => MambaInv
<1>1. MCInit => Inv
  BY MambaInitInv DEF MCInit, MambaPart
<1>2. Inv /\ [MCNext]_<<part, vars, shardvars, densevars, moevars, akvars, coopvars,
                        gbvars, mavars, kpvars>> => Inv'
  BY MambaNextInv, OnlyItsPart
<1>3. Inv => StatesAligned
  BY MambaInvAligned DEF StatesAligned
<1> QED
  BY <1>1, <1>2, <1>3, PTL DEF MCSpec

(****************************************************************************)
(* The tier of an expert layer                                              *)
(****************************************************************************)

(* The routes the environment may ask for.                                  *)
FatFlags == {"off", "sorted", "batched", "kernel", "grouped"}

(* What the environment, the image and the layer decide.                    *)
MoeGiven ==
  /\ env.fat \in FatFlags /\ env.rowTile \in BOOLEAN /\ env.fused \in BOOLEAN
  /\ image.fused \in BOOLEAN /\ image.kernel \in BOOLEAN /\ image.grouped \in BOOLEAN
  /\ experts.shared \in BOOLEAN /\ experts.fits \in BOOLEAN

(* After the load the tier is the one resolved, and one that was refused    *)
(* serves nothing.                                                          *)
MoeInv ==
  /\ MoeGiven
  /\ pc # "load" => tier = MD!Resolved(experts.shared, experts.shared /\ experts.fits)
  /\ pc \notin {"load", "refused"} => tier # "refused"
  /\ MD!TierAsResolved

(* What a name in the log of a call promises.                               *)
Promised(name) ==
  name \notin {"none", "loop", "row_tile"} =>
    /\ name = tier
    /\ name = "kernel" => image.kernel
    /\ name = "grouped" => image.grouped /\ experts.fits

(* A tier that was resolved has its kernels.                                *)
LEMMA ResolvedHas ==
  ASSUME MoeGiven, tier = MD!Resolved(experts.shared, experts.shared /\ experts.fits)
  PROVE  /\ tier = "grouped" => image.grouped /\ experts.fits
         /\ tier = "kernel" => image.kernel
BY DEF MoeGiven, FatFlags, MD!Resolved, MD!Configured

(* The pass that serves the full experts goes by the flags, and comes out   *)
(* at the tier.                                                             *)
LEMMA FatPathIsTier ==
  ASSUME MoeGiven, tier = MD!Resolved(experts.shared, experts.shared /\ experts.fits),
         tier # "refused", ~MD!TakesGrouped, ~env.rowTile
  PROVE  /\ MD!UseBatched /\ MD!WantKernel => tier = "kernel"
         /\ MD!UseBatched /\ ~MD!WantKernel => tier = "batched"
         /\ ~MD!UseBatched /\ MD!UseSorted => tier = "sorted"
         /\ ~MD!UseBatched /\ ~MD!UseSorted => tier = "legacy"
<1>1. env.fat \in FatFlags /\ experts.shared \in BOOLEAN
  BY DEF MoeGiven
<1>2. CASE env.fat = "off"
  BY <1>2 DEF MD!Resolved, MD!Configured, MD!UseBatched, MD!WantBatched, MD!UseSorted
<1>3. CASE env.fat = "sorted"
  BY <1>3 DEF MD!Resolved, MD!Configured, MD!UseBatched, MD!WantBatched, MD!UseSorted
<1>4. CASE env.fat = "batched"
  BY <1>1, <1>4 DEF MD!Resolved, MD!Configured, MD!UseBatched, MD!WantBatched,
       MD!UseSorted, MD!WantKernel
<1>5. CASE env.fat = "kernel"
  BY <1>1, <1>5 DEF MD!Resolved, MD!Configured, MD!UseBatched, MD!WantBatched,
       MD!UseSorted, MD!WantKernel
<1>6. CASE env.fat = "grouped"
  BY <1>1, <1>6 DEF MD!Resolved, MD!Configured, MD!UseBatched, MD!WantBatched,
       MD!UseSorted, MD!WantKernel, MD!TakesGrouped
<1> QED
  BY <1>1, <1>2, <1>3, <1>4, <1>5, <1>6 DEF FatFlags

(* A step of the layer's experts is one of MoeDispatch.                     *)
LEMMA OnlyExperts ==
  ASSUME [MCNext]_<<part, vars, shardvars, densevars, moevars, akvars, coopvars,
                    gbvars, mavars, kpvars>>
  PROVE  /\ part' = part
         /\ part = "moe" => [MD!MoeNext]_moevars
  BY DEF MCNext, Install, Shard, Dense, Experts, Adaptive, Coop, Structured, Recurrent,
         Pooled

(* Nothing has been resolved or served when the engine comes up.            *)
LEMMA MoeInitInv == MD!MoeInit => MoeInv
BY DEF MD!MoeInit, MoeInv, MoeGiven, FatFlags, MD!TierAsResolved

(* A call that serves under a name that keeps its promise keeps it all.     *)
LEMMA ServedPromised ==
  ASSUME MoeInv, pc = "call", NEW name, NEW added, MD!Served(name, added), Promised(name)
  PROVE  MoeInv'
<1>1. /\ pc' = "done" /\ last' = name /\ UNCHANGED <<env, image, experts, tier>>
  BY DEF MD!Served
<1>2. MoeGiven'
  BY <1>1 DEF MoeInv, MoeGiven
<1>3. tier' = MD!Resolved(experts.shared, experts.shared /\ experts.fits)' /\ tier' # "refused"
  BY <1>1 DEF MoeInv, MD!Resolved, MD!Configured
<1>4. MD!TierAsResolved'
  BY <1>1 DEF MD!TierAsResolved, Promised
<1> QED
  BY <1>2, <1>3, <1>4 DEF MoeInv

(* Each path of apply_exl3_fused_moe is taken under its own tier.           *)
LEMMA MoeNextInv == MoeInv /\ [MD!MoeNext]_(MD!moevars) => MoeInv'
<1> SUFFICES ASSUME MoeInv, [MD!MoeNext]_(MD!moevars) PROVE MoeInv'
  OBVIOUS
<1>1. CASE UNCHANGED MD!moevars
  BY <1>1 DEF MoeInv, MoeGiven, MD!moevars, MD!Resolved, MD!Configured, MD!TierAsResolved
<1>2. CASE MD!Load
  <2>1. /\ tier' = MD!Resolved(experts.shared, experts.shared /\ experts.fits)
        /\ pc' = IF tier' = "refused" THEN "refused" ELSE "ready"
        /\ UNCHANGED <<env, image, experts>>
    BY <1>2 DEF MD!Load
  <2> QED
    BY <2>1 DEF MoeInv, MoeGiven, MD!Resolved, MD!Configured, MD!TierAsResolved
<1>3. CASE MD!Call
  BY <1>3 DEF MD!Call, MoeInv, MoeGiven, MD!Resolved, MD!Configured, MD!TierAsResolved
<1>4. CASE MD!Return
  BY <1>4 DEF MD!Return, MoeInv, MoeGiven, MD!Resolved, MD!Configured, MD!TierAsResolved
<1>a. ASSUME pc = "call"
      PROVE  /\ MoeGiven /\ tier # "refused"
             /\ tier = MD!Resolved(experts.shared, experts.shared /\ experts.fits)
  BY <1>a DEF MoeInv
<1>5. CASE MD!AllLoop
  <2>1. pc = "call" /\ Promised("loop") /\ MD!Served("loop", MD!Loop(0 .. MD!Locals - 1))
    BY <1>5 DEF MD!AllLoop, Promised
  <2> QED
    BY <2>1, ServedPromised
<1>6. CASE MD!Small \/ MD!ThinPath
  <2>1. pc = "call" /\ Promised("none") /\ MD!Served("none", MD!Fused(MD!Counts, MD!Sorted))
    BY <1>6 DEF MD!Small, MD!ThinPath, MD!Overflow, Promised
  <2> QED
    BY <2>1, ServedPromised
<1>7. CASE MD!RowTilePath
  <2>1. pc = "call" /\ Promised("row_tile")
        /\ MD!Served("row_tile", MD!RowTiles(MD!Counts, MD!Sorted))
    BY <1>7 DEF MD!RowTilePath, MD!Overflow, Promised
  <2> QED
    BY <2>1, ServedPromised
<1>8. CASE MD!GroupedPath
  <2>1. pc = "call" /\ MD!TakesGrouped
    BY <1>8 DEF MD!GroupedPath
  <2>2. tier = "grouped"
    BY <2>1 DEF MD!TakesGrouped
  <2>3. Promised("grouped")
    BY <1>a, <2>1, <2>2, ResolvedHas DEF Promised
  <2>4. \E p : MD!Served("grouped", p)
    BY <1>8 DEF MD!GroupedPath
  <2> QED
    BY <2>1, <2>3, <2>4, ServedPromised
<1>9. CASE MD!FatPath
  <2>1. pc = "call" /\ ~MD!TakesGrouped /\ ~env.rowTile
    BY <1>9 DEF MD!FatPath, MD!Overflow
  <2>2. /\ tier = "grouped" => image.grouped /\ experts.fits
        /\ tier = "kernel" => image.kernel
    BY <1>a, <2>1, ResolvedHas
  <2>3. /\ MD!UseBatched /\ MD!WantKernel => tier = "kernel"
        /\ MD!UseBatched /\ ~MD!WantKernel => tier = "batched"
        /\ ~MD!UseBatched /\ MD!UseSorted => tier = "sorted"
        /\ ~MD!UseBatched /\ ~MD!UseSorted => tier = "legacy"
    BY <1>a, <2>1, FatPathIsTier
  <2>4. Promised(tier)
    BY <2>2 DEF Promised
  <2>5. \E p : MD!Served(tier, p)
    BY <1>9, <2>3 DEF MD!FatPath
  <2> QED
    BY <2>1, <2>4, <2>5, ServedPromised
<1> QED
  BY <1>1, <1>2, <1>3, <1>4, <1>5, <1>6, <1>7, <1>8, <1>9 DEF MD!MoeNext

(* Whatever the environment asks for, the image offers and the layer fits:  *)
(* the pass that serves the full experts is the tier that was resolved and  *)
(* logged at load, and its kernels are in the image (exl3.py).  With        *)
(* EachChoiceOnce, which is checked by TLC, this is ExpertsServed.          *)
THEOREM TiersStayResolved == MCSpec => [](part = "moe" => MD!TierAsResolved)
<1> DEFINE Inv == part = "moe" => MoeInv
<1>1. MCInit => Inv
  BY MoeInitInv DEF MCInit, MoePart
<1>2. Inv /\ [MCNext]_<<part, vars, shardvars, densevars, moevars, akvars, coopvars,
                        gbvars, mavars, kpvars>> => Inv'
  <2> SUFFICES ASSUME Inv, part' = "moe",
                      [MCNext]_<<part, vars, shardvars, densevars, moevars, akvars, coopvars,
                                 gbvars, mavars, kpvars>>
               PROVE  MoeInv'
    OBVIOUS
  <2>1. part = "moe" /\ [MD!MoeNext]_moevars
    BY OnlyExperts
  <2>2. [MD!MoeNext]_(MD!moevars)
    BY <2>1 DEF moevars, MD!moevars
  <2> QED
    BY <2>1, <2>2, MoeNextInv
<1>3. Inv => (part = "moe" => MD!TierAsResolved)
  BY DEF MoeInv
<1> QED
  BY <1>1, <1>2, <1>3, PTL DEF MCSpec
=============================================================================
