--------------------------- MODULE HybridHitProofs ---------------------------
(****************************************************************************)
(* Proofs about HybridHit: what the lookup returns is usable (HitUsable),   *)
(* passes over nothing (NoBoundaryMissed) and lands on a state kept for it  *)
(* (PriorReachable).  The first part is arithmetic of the grids of          *)
(* positions, the second what the managers' lookups find, the third the     *)
(* invariant of the passes, HitInv, one lemma per action; the two other     *)
(* properties each add a clause to it.                                      *)
(****************************************************************************)
EXTENDS HybridHit, WellFoundedInduction, TLAPS

(****************************************************************************)
(* Arithmetic of the grids of positions                                     *)
(****************************************************************************)

(* A position is on the grid of a unit.                                     *)
OnGrid(u, p) == p % u = 0

(* Rounding down gives a position on the grid, less than a unit below.      *)
LEMMA DownFacts ==
  ASSUME NEW n \in Int, NEW u \in Nat \ {0}
  PROVE  /\ Down(n, u) \in Int /\ Down(n, u) <= n /\ n < Down(n, u) + u
         /\ OnGrid(u, Down(n, u))
         /\ n >= 0 => Down(n, u) >= 0
<1>1. n \div u \in Int
  OBVIOUS
<1>2. (n \div u) * u <= n /\ n < (n \div u) * u + u
  OBVIOUS
<1>3. ((n \div u) * u) % u = 0
  BY <1>1
<1>4. ASSUME n >= 0, (n \div u) * u < 0 PROVE FALSE
  <2>1. n \div u < 0
    BY <1>1, <1>4
  <2>2. n \div u <= -1
    BY <1>1, <2>1
  <2>3. (n \div u) * u <= -u
    BY <1>1, <2>2
  <2> QED
    BY <1>1, <1>2, <1>4, <2>3
<1>5. (n \div u) * u \in Int
  BY <1>1
<1> QED
  BY <1>1, <1>2, <1>3, <1>4, <1>5 DEF Down, OnGrid

(* What is on the grid is a whole number of units.                          *)
LEMMA GridUnits ==
  ASSUME NEW p \in Nat, NEW u \in Nat \ {0}, OnGrid(u, p)
  PROVE  \E k \in Nat : p = k * u /\ k = p \div u
<1>1. p \div u \in Int /\ (p \div u) * u <= p /\ p < (p \div u) * u + u
  OBVIOUS
<1>2. p = (p \div u) * u
  BY <1>1 DEF OnGrid
<1>3. p \div u >= 0
  OBVIOUS
<1> QED
  BY <1>1, <1>2, <1>3

(* Distinct positions of a grid are a unit apart.                           *)
LEMMA GridApart ==
  ASSUME NEW u \in Nat \ {0}, NEW a \in Nat, NEW b \in Nat,
         OnGrid(u, a), OnGrid(u, b), a < b
  PROVE  a + u <= b
<1>1. PICK i \in Nat : a = i * u
  BY GridUnits
<1>2. PICK j \in Nat : b = j * u
  BY GridUnits
<1>3. i < j
  BY <1>1, <1>2
<1>4. (i + 1) * u <= j * u
  BY <1>3
<1> QED
  BY <1>1, <1>2, <1>4

(* Sums and differences stay on the grid.                                   *)
LEMMA GridSums ==
  ASSUME NEW u \in Nat \ {0}, NEW a \in Nat, NEW b \in Nat,
         OnGrid(u, a), OnGrid(u, b)
  PROVE  OnGrid(u, a + b) /\ (b <= a => OnGrid(u, a - b))
<1>1. PICK i \in Nat : a = i * u
  BY GridUnits
<1>2. PICK j \in Nat : b = j * u
  BY GridUnits
<1>3. a + b = (i + j) * u /\ a - b = (i - j) * u
  BY <1>1, <1>2
<1>4. ((i + j) * u) % u = 0 /\ ((i - j) * u) % u = 0
  OBVIOUS
<1> QED
  BY <1>3, <1>4 DEF OnGrid

(* Rounding down gives the last position of the grid.                       *)
LEMMA DownIsLast ==
  ASSUME NEW u \in Nat \ {0}, NEW n \in Nat, NEW h \in Nat, OnGrid(u, h), h <= n
  PROVE  Down(n, u) \in Nat /\ h <= Down(n, u)
<1>1. PICK d : d = Down(n, u)
  OBVIOUS
<1>2. n \in Int
  OBVIOUS
<1>3. d \in Nat /\ OnGrid(u, d) /\ n < d + u
  BY <1>1, <1>2, DownFacts
<1>4. ~(d < h)
  BY <1>3, GridApart
<1> QED
  BY <1>1, <1>3, <1>4

(* The multiples of a unit up to n are the positions of its grid.           *)
LEMMA Multiples ==
  ASSUME NEW u \in Nat \ {0}, NEW n \in Nat, NEW p
  PROVE  p \in {k * u : k \in 1..(n \div u)} <=> p \in 1..n /\ OnGrid(u, p)
<1>0. n \div u \in Int /\ (n \div u) * u <= n
  OBVIOUS
<1>1. ASSUME NEW k \in 1..(n \div u), p = k * u
      PROVE  p \in 1..n /\ OnGrid(u, p)
  <2>1. k \in Nat /\ 1 <= k /\ k <= n \div u
    BY <1>0, <1>1
  <2>2. k * u <= (n \div u) * u /\ 1 * u <= k * u
    BY <1>0, <2>1
  <2>3. (k * u) % u = 0
    BY <2>1
  <2> QED
    BY <1>0, <1>1, <2>1, <2>2, <2>3 DEF OnGrid
<1>2. ASSUME p \in 1..n, OnGrid(u, p)
      PROVE  \E k \in 1..(n \div u) : p = k * u
  <2> p \in Nat
    BY <1>2
  <2>1. PICK k \in Nat : p = k * u
    BY <1>2, GridUnits
  <2>2. k >= 1
    BY <1>2, <2>1
  <2>3. k <= n \div u
    <3>1. SUFFICES ASSUME n \div u + 1 <= k PROVE FALSE
      BY <1>0, <2>2
    <3>2. (n \div u + 1) * u <= k * u
      BY <1>0, <3>1
    <3>3. n < (n \div u) * u + u
      OBVIOUS
    <3> QED
      BY <1>0, <1>2, <2>1, <3>2, <3>3
  <2> QED
    BY <1>0, <2>1, <2>2, <2>3
<1> QED
  BY <1>1, <1>2

(* What is on the grid of the blocks is on the grid of the hits.            *)
LEMMA UnitDivides ==
  ASSUME NEW p \in Nat, OnGrid(Align, p)
  PROVE  OnGrid(Unit, p)
<1>1. Align \in Nat \ {0} /\ Unit \in Nat \ {0} /\ (Unit = Align \/ OnGrid(Unit, Align))
  BY GeometryAssumption DEF OnGrid
<1>2. CASE Unit = Align
  BY <1>2
<1>3. CASE OnGrid(Unit, Align)
  <2>1. PICK i \in Nat : p = i * Align
    BY <1>1, GridUnits
  <2>2. PICK j \in Nat : Align = j * Unit
    BY <1>1, <1>3, GridUnits
  <2>3. p = (i * j) * Unit
    BY <1>1, <2>1, <2>2
  <2>4. ((i * j) * Unit) % Unit = 0
    BY <1>1, <2>1, <2>2
  <2> QED
    BY <2>3, <2>4 DEF OnGrid
<1> QED
  BY <1>1, <1>2, <1>3

-----------------------------------------------------------------------------
(* A bounded set of naturals has a largest element.                         *)
LEMMA MaxIsLargest ==
  ASSUME NEW S \in SUBSET Nat, NEW n \in Nat, S # {}, \A x \in S : x <= n
  PROVE  Max(S) \in S /\ \A x \in S : x <= Max(S)
<1> DEFINE T == {n - x : x \in S}
           R == {ss \in Nat \X Nat : ss[1] < ss[2]}
<1>1. IsWellFoundedOn(R, Nat)
  BY NatLessThanWellFounded DEF OpToRel
<1>2. T \subseteq Nat
  OBVIOUS
<1>3. T # {}
  OBVIOUS
<1>4. \A s, t \in Nat : s < t => <<s, t>> \in R
  OBVIOUS
<1> HIDE DEF T, R
<1>5. \E t \in T : \A s \in T : ~ (<<s, t>> \in R)
  BY <1>1, <1>2, <1>3, WFMin
<1>6. PICK t \in T : \A s \in T : ~ (<<s, t>> \in R)
  BY <1>5
<1>7. ASSUME NEW s \in T PROVE t <= s
  <2>1. s \in Nat /\ t \in Nat /\ <<s, t>> \notin R
    BY <1>2, <1>6
  <2> QED
    BY <2>1, <1>4
<1>8. PICK m \in S : t = n - m
  BY <1>6 DEF T
<1>9. \A x \in S : x <= m
  BY <1>7, <1>8 DEF T
<1> QED
  BY <1>8, <1>9 DEF Max

(* Largest is the largest element, or 0 when there is none.                 *)
LEMMA LargestFacts ==
  ASSUME NEW n \in Nat, NEW S \in SUBSET (0..n)
  PROVE  /\ Largest(S) \in 0..n
         /\ Largest(S) = 0 \/ Largest(S) \in S
         /\ \A x \in S : x <= Largest(S)
<1>1. S \cup {0} \in SUBSET Nat /\ S \cup {0} # {} /\ \A x \in S \cup {0} : x <= n
  OBVIOUS
<1>2. PICK m : m = Largest(S)
  OBVIOUS
<1>3. m \in S \cup {0} /\ \A x \in S \cup {0} : x <= m
  BY <1>1, <1>2, MaxIsLargest DEF Largest
<1>4. m \in 0..n /\ (m = 0 \/ m \in S) /\ \A x \in S : x <= m
  BY <1>3
<1> QED
  BY <1>2, <1>4

(* The smaller of two numbers.                                              *)
LEMMA MinFacts ==
  ASSUME NEW a \in Int, NEW b \in Int
  PROVE  /\ Min({a, b}) \in Int
         /\ Min({a, b}) = IF a <= b THEN a ELSE b
<1>1. CASE a <= b
  <2>1. a \in {a, b} /\ \A y \in {a, b} : a <= y
    BY <1>1
  <2>2. Min({a, b}) \in {a, b} /\ \A y \in {a, b} : Min({a, b}) <= y
    BY <2>1 DEF Min
  <2> QED
    BY <1>1, <2>2
<1>2. CASE ~ (a <= b)
  <2>1. b \in {a, b} /\ \A y \in {a, b} : b <= y
    BY <1>2
  <2>2. Min({a, b}) \in {a, b} /\ \A y \in {a, b} : Min({a, b}) <= y
    BY <2>1 DEF Min
  <2> QED
    BY <1>2, <2>2
<1> QED
  BY <1>1, <1>2

(* The candidate leaves a token and a complete kpool to compute, and no     *)
(* other length that does is longer.                                        *)
LEMMA CandidateFacts ==
  ASSUME NEW n \in Nat \ {0}
  PROVE  /\ Candidate(n) \in 0..(n - 1)
         /\ Candidate(n) > 0 => Candidate(n) <= n - Kpool
         /\ \A h \in Nat : h <= n - 1 /\ h <= n - Kpool => h <= Candidate(n)
<1>1. Kpool \in Nat
  BY GeometryAssumption
<1> QED
  BY <1>1, MinFacts DEF Candidate, AtLeast0

-----------------------------------------------------------------------------
(* What the managers find                                                   *)

(* Every cached position of the target is on the grid of hits.              *)
CachedOnGrid == \A p \in mla \cup states : OnGrid(Unit, p)

Cached ==
  /\ mla \subseteq 1..MaxLen /\ states \subseteq 1..MaxLen
  /\ draft \subseteq 1..(MaxLen \div DraftBlock)
  /\ query \in [len : 1..MaxLen, div : 0..MaxLen]
  /\ CachedOnGrid

LEMMA FullEndFacts ==
  ASSUME Cached, NEW n \in Nat
  PROVE  /\ FullEnd(n) \in 0..n
         /\ FullEnd(n) = 0 \/ FullEnd(n) \in FullHits
         /\ \A m \in FullHits : m <= n => m <= FullEnd(n)
         /\ OnGrid(Unit, FullEnd(n))
         /\ FullCovers(FullEnd(n))
<1> DEFINE S == {m \in FullHits : m <= n}
<1>1. FullHits \subseteq mla /\ mla \subseteq Nat
  BY DEF Cached, FullHits
<1>2. \A m \in S : m \in 0..n
  BY <1>1
<1>3. FullEnd(n) = Largest(S)
  BY DEF FullEnd
<1> HIDE DEF S
<1>4. FullEnd(n) \in 0..n /\ (FullEnd(n) = 0 \/ FullEnd(n) \in S)
        /\ \A x \in S : x <= FullEnd(n)
  BY <1>2, <1>3, LargestFacts
<1>5. FullEnd(n) = 0 \/ FullEnd(n) \in FullHits
  BY <1>4 DEF S
<1>6. \A m \in FullHits : m <= n => m <= FullEnd(n)
  BY <1>4 DEF S
<1>7. OnGrid(Unit, 0)
  BY GeometryAssumption DEF OnGrid
<1>8. OnGrid(Unit, FullEnd(n))
  BY <1>1, <1>5, <1>7 DEF Cached, CachedOnGrid
<1>9. FullCovers(FullEnd(n))
  BY <1>4, <1>5 DEF FullCovers
<1> QED
  BY <1>4, <1>5, <1>6, <1>8, <1>9

LEMMA StateEndFacts ==
  ASSUME Cached, NEW n \in Nat
  PROVE  /\ StateEnd(n) \in 0..n
         /\ StateEnd(n) = 0 \/ (StateEnd(n) \in states /\ StateEnd(n) <= query.div)
         /\ \A s \in states : s <= n /\ s <= query.div => s <= StateEnd(n)
         /\ OnGrid(Unit, StateEnd(n))
<1> DEFINE S == {s \in states : s <= n /\ s <= query.div}
<1>1. states \subseteq Nat
  BY DEF Cached
<1>2. \A s \in S : s \in 0..n
  BY <1>1
<1>3. StateEnd(n) = Largest(S)
  BY DEF StateEnd
<1> HIDE DEF S
<1>4. StateEnd(n) \in 0..n /\ (StateEnd(n) = 0 \/ StateEnd(n) \in S)
        /\ \A x \in S : x <= StateEnd(n)
  BY <1>2, <1>3, LargestFacts
<1>5. StateEnd(n) = 0 \/ (StateEnd(n) \in states /\ StateEnd(n) <= query.div)
  BY <1>4 DEF S
<1>6. \A s \in states : s <= n /\ s <= query.div => s <= StateEnd(n)
  BY <1>4 DEF S
<1>7. OnGrid(Unit, 0)
  BY GeometryAssumption DEF OnGrid
<1>8. OnGrid(Unit, StateEnd(n))
  BY <1>5, <1>7 DEF Cached, CachedOnGrid
<1> QED
  BY <1>4, <1>5, <1>6, <1>8

(* The blocks of the window at p, and `ahead' more, are those of the query. *)
Owned == {i \in draft : i * DraftBlock <= query.div}
AheadOf(p, ahead) == (p \div DraftBlock + 1)..(p \div DraftBlock + ahead)
WindowThere(p, ahead) == WindowAt(p) \cup AheadOf(p, ahead) \subseteq Owned

LEMMA DraftEndFacts ==
  ASSUME NEW n \in Nat, NEW ahead \in {0, 1}, MaxLen \in Nat
  PROVE  /\ DraftEnd(n, ahead) \in 0..n
         /\ DraftEnd(n, ahead) > 0 =>
              /\ DraftEnd(n, ahead) + ahead * DraftBlock <= n
              /\ WindowThere(DraftEnd(n, ahead), ahead)
         /\ \A p \in 1..MaxLen :
              OnGrid(Unit, p) /\ p + ahead * DraftBlock <= n /\ WindowThere(p, ahead)
                => p <= DraftEnd(n, ahead)
<1>1. DraftBlock \in Nat /\ Unit \in Nat \ {0} /\ ahead * DraftBlock \in Nat
  BY GeometryAssumption
<1> DEFINE S == DraftEnds(n, ahead)
<1>2. \A p : p \in S <=> /\ p \in {k * Unit : k \in 1..(MaxLen \div Unit)}
                        /\ p + ahead * DraftBlock <= n /\ WindowThere(p, ahead)
  BY DEF DraftEnds, WindowThere, AheadOf, Owned
<1>3. \A p : p \in S <=> /\ p \in 1..MaxLen /\ OnGrid(Unit, p)
                        /\ p + ahead * DraftBlock <= n /\ WindowThere(p, ahead)
  BY <1>1, <1>2, Multiples
<1> HIDE DEF S
<1>4. S \in SUBSET (0..n)
  BY <1>1, <1>3
<1>5. DraftEnd(n, ahead) = Largest(S)
  BY DEF DraftEnd, S
<1>6. DraftEnd(n, ahead) \in 0..n /\ (DraftEnd(n, ahead) = 0 \/ DraftEnd(n, ahead) \in S)
        /\ \A x \in S : x <= DraftEnd(n, ahead)
  BY <1>4, <1>5, LargestFacts
<1> QED
  BY <1>3, <1>6

-----------------------------------------------------------------------------
(* The inductive invariant of a lookup                                      *)

(* Nothing of a lookup outlives it.                                         *)
AtRest == look.pc = "idle" => look = NoLook

(* The candidate only shrinks, and a pass starts and ends at the hit.       *)
Shrinks ==
  /\ look.curr <= look.hit /\ look.hit <= Candidate(query.len)
  /\ look.pc \in {"full", "done"} => look.curr = look.hit

(* Once the full-attention blocks are found they cover the candidate.       *)
Covered ==
  /\ look.pc \in {"mamba", "draft", "converge", "done"} => look.full
  /\ look.full => FullCovers(look.curr) /\ OnGrid(Unit, look.curr)

(* A Mamba state of the stream is at h.                                     *)
StateAt(h) == h \in states /\ h <= query.div

(* After the Mamba groups there is a state at the candidate.                *)
Resumes ==
  look.pc \in {"draft", "converge", "done"} => look.curr = 0 \/ StateAt(look.curr)

(* The window at h is cached, and what confirms it.                         *)
Confirmed(h) == h + Lookahead * DraftBlock <= MaxHit /\ WindowThere(h, Lookahead)

(* A window that was kept ends at the candidate, which no group shortens    *)
(* any more; and a group that is verified has confirmed it.                 *)
Windowed ==
  /\ look.window # 0 => look.full /\ look.window = look.curr /\ StateAt(look.curr)
  /\ look.verified /\ look.curr > 0 => look.window = look.curr /\ Confirmed(look.curr)

(* A lookup ends with a window or at a length that is not backed up.        *)
Ended == look.pc = "done" => WindowReady \/ BackedUp(look.curr) >= look.curr

HitInv ==
  TypeOK /\ CachedOnGrid /\ AtRest /\ Shrinks /\ Covered /\ Resumes /\ Windowed /\ Ended

(* What is found does not change during a lookup.                           *)
LEMMA LookupFrame ==
  ASSUME UNCHANGED <<mla, states, draft, query>>
  PROVE  /\ \A h : FullCovers(h)' <=> FullCovers(h)
         /\ \A h : StateAt(h)' <=> StateAt(h)
         /\ \A h : Confirmed(h)' <=> Confirmed(h)
         /\ CachedOnGrid' <=> CachedOnGrid
<1>1. \A h : FullCovers(h)' <=> FullCovers(h)
  BY DEF FullCovers, FullHits
<1>2. \A h : Confirmed(h)' <=> Confirmed(h)
  BY DEF Confirmed, MaxHit, WindowThere, Owned
<1> QED
  BY <1>1, <1>2 DEF StateAt, CachedOnGrid

(* What HitInv says of the types, one field at a time.                      *)
LEMMA HitTypes ==
  ASSUME HitInv
  PROVE  /\ Cached /\ MaxLen \in Nat
         /\ query.len \in 1..MaxLen /\ query.div \in 0..MaxLen
         /\ look.hit \in 0..(MaxLen - 1) /\ look.curr \in 0..(MaxLen - 1)
         /\ look.window \in 0..(MaxLen - 1) /\ look.longest \in 0..(MaxLen - 1)
         /\ look.full \in BOOLEAN /\ look.verified \in BOOLEAN
         /\ look = [pc |-> look.pc, hit |-> look.hit, curr |-> look.curr,
                    full |-> look.full, verified |-> look.verified,
                    window |-> look.window, longest |-> look.longest]
         /\ Candidate(query.len) \in 0..(query.len - 1)
<1>1. MaxLen \in Nat
  BY GeometryAssumption
<1>2. Cached /\ query.len \in 1..MaxLen /\ query.div \in 0..MaxLen
  BY DEF HitInv, TypeOK, Cached
<1>3. Candidate(query.len) \in 0..(query.len - 1)
  BY <1>1, <1>2, CandidateFacts
<1> QED
  BY <1>1, <1>2, <1>3 DEF HitInv, TypeOK

(* At rest no clause about a lookup says anything.                          *)
LEMMA RestIsFine ==
  ASSUME TypeOK', CachedOnGrid', look' = NoLook, query'.len \in Nat \ {0}
  PROVE  HitInv'
<1> USE DEF NoLook
<1>1. Shrinks'
  BY CandidateFacts DEF Shrinks
<1>2. Covered' /\ Resumes' /\ Windowed' /\ Ended' /\ AtRest'
  BY DEF Covered, Resumes, Windowed, Ended, AtRest
<1> QED
  BY <1>1, <1>2 DEF HitInv

LEMMA HitInitially == Init => HitInv
<1> SUFFICES ASSUME Init PROVE HitInv
  OBVIOUS
<1> USE DEF Init, NoQuery, NoLook
<1>1. TypeOK
  BY GeometryAssumption DEF TypeOK
<1>2. CachedOnGrid /\ AtRest
  BY DEF CachedOnGrid, AtRest
<1>3. Shrinks
  BY CandidateFacts DEF Shrinks
<1>4. Covered /\ Resumes /\ Windowed /\ Ended
  BY DEF Covered, Resumes, Windowed, Ended
<1> QED
  BY <1>1, <1>2, <1>3, <1>4 DEF HitInv

LEMMA ArriveKeeps ==
  ASSUME HitInv, Arrive
  PROVE  HitInv'
<1>0. PICK n \in 1..MaxLen : \E d \in 0..n :
        /\ query' = [len |-> n, div |-> d]
        /\ look' = [NoLook EXCEPT !.pc = "full", !.hit = Candidate(n), !.curr = Candidate(n)]
  BY DEF Arrive
<1>1. PICK d \in 0..n :
        /\ query' = [len |-> n, div |-> d]
        /\ look' = [NoLook EXCEPT !.pc = "full", !.hit = Candidate(n), !.curr = Candidate(n)]
  BY <1>0
<1>2. MaxLen \in Nat /\ n \in Nat \ {0} /\ n <= MaxLen /\ Candidate(n) \in 0..(n - 1)
  BY GeometryAssumption, CandidateFacts
<1>3. /\ look'.pc = "full" /\ look'.hit = Candidate(n) /\ look'.curr = Candidate(n)
      /\ look'.full = FALSE /\ look'.verified = FALSE /\ look'.window = 0
      /\ look'.longest = 0
  BY <1>1 DEF NoLook
<1>4. look' \in [pc : {"idle", "full", "mamba", "draft", "converge", "done"},
              hit : 0..(MaxLen - 1), curr : 0..(MaxLen - 1), full : BOOLEAN,
              verified : BOOLEAN, window : 0..(MaxLen - 1), longest : 0..(MaxLen - 1)]
  <2>1. look' = [pc |-> "full", hit |-> Candidate(n), curr |-> Candidate(n), full |-> FALSE,
                 verified |-> FALSE, window |-> 0, longest |-> 0]
    BY <1>1 DEF NoLook
  <2>2. Candidate(n) \in 0..(MaxLen - 1) /\ 0 \in 0..(MaxLen - 1)
    BY <1>2
  <2> QED
    BY <2>1, <2>2
<1>5. TypeOK'
  <2>1. query' \in [len : 1..MaxLen, div : 0..MaxLen]
    BY <1>1, <1>2
  <2>2. served' \in 0..MaxRequests
    BY GeometryAssumption DEF Arrive, HitInv, TypeOK
  <2> QED
    BY <1>4, <2>1, <2>2 DEF Arrive, HitInv, TypeOK
<1>6. CachedOnGrid'
  BY DEF Arrive, HitInv, CachedOnGrid
<1>7. Shrinks'
  BY <1>1, <1>2, <1>3 DEF Shrinks
<1>8. AtRest' /\ Covered' /\ Resumes' /\ Windowed' /\ Ended'
  BY <1>3 DEF AtRest, Covered, Resumes, Windowed, Ended
<1> QED
  BY <1>5, <1>6, <1>7, <1>8 DEF HitInv

(* A step of a lookup that forms its record well keeps the types.           *)
LEMMA LookupTypes ==
  ASSUME HitInv, UNCHANGED <<mla, states, draft, query, served, intact>>,
         look'.pc \in {"full", "mamba", "draft", "converge", "done"},
         look' = [pc |-> look'.pc, hit |-> look'.hit, curr |-> look'.curr,
                  full |-> look'.full, verified |-> look'.verified,
                  window |-> look'.window, longest |-> look'.longest],
         look'.hit \in 0..(MaxLen - 1), look'.curr \in 0..(MaxLen - 1),
         look'.full \in BOOLEAN, look'.verified \in BOOLEAN,
         look'.window \in 0..(MaxLen - 1), look'.longest \in 0..(MaxLen - 1)
  PROVE  TypeOK' /\ CachedOnGrid' /\ AtRest'
<1>1. TypeOK'
  BY DEF HitInv, TypeOK
<1>2. CachedOnGrid' /\ AtRest'
  BY DEF HitInv, CachedOnGrid, AtRest
<1> QED
  BY <1>1, <1>2

(* A shorter length is covered as well.                                     *)
LEMMA CoversLess ==
  ASSUME Cached, NEW h \in Nat, NEW g \in Nat, g <= h, FullCovers(h)
  PROVE  FullCovers(g)
<1>1. FullHits \subseteq mla /\ mla \subseteq Nat
  BY DEF FullHits, Cached
<1>2. CASE h = 0
  BY <1>2 DEF FullCovers
<1>3. CASE h # 0
  BY <1>1, <1>3 DEF FullCovers
<1> QED
  BY <1>2, <1>3

LEMMA FullLookupKeeps ==
  ASSUME HitInv, FullLookup
  PROVE  HitInv'
<1> DEFINE n == IF look.full THEN Down(look.curr, Unit) ELSE FullEnd(look.curr)
<1>1. /\ look.pc = "full"
      /\ look' = [look EXCEPT !.pc = "mamba", !.curr = n, !.full = TRUE,
                          !.verified = @ /\ (look.full \/ n = look.curr),
                          !.longest = IF look.full THEN @ ELSE Largest({@, n})]
      /\ UNCHANGED <<mla, states, draft, query, served, intact>>
  BY DEF FullLookup
<1>2. Unit \in Nat \ {0} /\ look.curr \in Nat
  BY HitTypes, GeometryAssumption
<1>3. n \in 0..look.curr /\ FullCovers(n) /\ OnGrid(Unit, n)
  <2>1. CASE look.full
    <3>1. n \in Nat /\ n <= look.curr /\ OnGrid(Unit, n)
      BY <1>2, <2>1, DownFacts
    <3> QED
      BY <1>2, <2>1, <3>1, CoversLess, HitTypes DEF HitInv, Covered
  <2>2. CASE ~look.full
    BY <1>2, <2>2, FullEndFacts, HitTypes
  <2> QED
    BY <2>1, <2>2
<1>4. look.full => n = look.curr
  <2> SUFFICES ASSUME look.full PROVE n = look.curr
    OBVIOUS
  <2>1. OnGrid(Unit, look.curr)
    BY DEF HitInv, Covered
  <2>2. look.curr <= Down(look.curr, Unit) /\ Down(look.curr, Unit) \in Nat
    BY <1>2, <2>1, DownIsLast
  <2>3. n = Down(look.curr, Unit)
    OBVIOUS
  <2> QED
    BY <1>2, <1>3, <2>2, <2>3
<1> HIDE DEF n
<1>5. /\ look'.pc = "mamba" /\ look'.hit = look.hit /\ look'.curr = n
      /\ look'.full = TRUE /\ look'.window = look.window
      /\ look'.verified = (look.verified /\ (look.full \/ n = look.curr))
      /\ look'.longest \in 0..(MaxLen - 1)
      /\ look' = [pc |-> look'.pc, hit |-> look'.hit, curr |-> look'.curr,
                  full |-> look'.full, verified |-> look'.verified,
                  window |-> look'.window, longest |-> look'.longest]
  <2>1. MaxLen - 1 \in Nat /\ {look.longest, n} \in SUBSET (0..(MaxLen - 1))
    BY <1>3, HitTypes
  <2>2. Largest({look.longest, n}) \in 0..(MaxLen - 1)
    BY <2>1, LargestFacts
  <2> QED
    BY <1>1, <2>2, HitTypes
<1>6. TypeOK' /\ CachedOnGrid' /\ AtRest'
  BY <1>1, <1>3, <1>5, LookupTypes, HitTypes
<1>7. Shrinks'
  BY <1>1, <1>2, <1>3, <1>5, HitTypes DEF HitInv, Shrinks
<1>8. Covered'
  BY <1>1, <1>3, <1>5, LookupFrame DEF Covered
<1>9. Windowed'
  <2>1. look.window # 0 => n = look.curr
    BY <1>4 DEF HitInv, Windowed
  <2>2. look'.verified => look.verified /\ n = look.curr
    BY <1>4, <1>5
  <2> QED
    BY <1>1, <1>5, <2>1, <2>2, LookupFrame DEF HitInv, Windowed
<1>10. Resumes' /\ Ended'
  BY <1>5 DEF Resumes, Ended
<1> QED
  BY <1>6, <1>7, <1>8, <1>9, <1>10 DEF HitInv

LEMMA MambaLookupKeeps ==
  ASSUME HitInv, MambaLookup
  PROVE  HitInv'
<1> DEFINE n == StateEnd(look.curr)
<1>1. /\ look.pc = "mamba"
      /\ look' = [look EXCEPT !.pc = "draft", !.curr = n,
                     !.verified = @ /\ n = look.curr, !.longest = Largest({@, n})]
      /\ UNCHANGED <<mla, states, draft, query, served, intact>>
  BY DEF MambaLookup
<1>2. look.curr \in Nat /\ look.full
  BY <1>1, HitTypes DEF HitInv, Covered
<1>3. /\ n \in 0..look.curr /\ (n = 0 \/ StateAt(n)) /\ OnGrid(Unit, n)
      /\ \A s \in states : s <= look.curr /\ s <= query.div => s <= n
  BY <1>2, StateEndFacts, HitTypes DEF StateAt
<1>4. FullCovers(n)
  BY <1>2, <1>3, CoversLess, HitTypes DEF HitInv, Covered
<1>5. StateAt(look.curr) => n = look.curr
  BY <1>2, <1>3 DEF StateAt
<1> HIDE DEF n
<1>6. /\ look'.pc = "draft" /\ look'.hit = look.hit /\ look'.curr = n
      /\ look'.full = look.full /\ look'.window = look.window
      /\ look'.verified = (look.verified /\ n = look.curr)
      /\ look'.longest \in 0..(MaxLen - 1)
      /\ look' = [pc |-> look'.pc, hit |-> look'.hit, curr |-> look'.curr,
                  full |-> look'.full, verified |-> look'.verified,
                  window |-> look'.window, longest |-> look'.longest]
  <2>1. MaxLen - 1 \in Nat /\ {look.longest, n} \in SUBSET (0..(MaxLen - 1))
    BY <1>3, HitTypes
  <2>2. Largest({look.longest, n}) \in 0..(MaxLen - 1)
    BY <2>1, LargestFacts
  <2> QED
    BY <1>1, <2>2, HitTypes
<1>7. TypeOK' /\ CachedOnGrid' /\ AtRest'
  BY <1>1, <1>3, <1>6, LookupTypes, HitTypes
<1>8. Shrinks'
  BY <1>1, <1>2, <1>3, <1>6, HitTypes DEF HitInv, Shrinks
<1>9. Covered' /\ Resumes'
  BY <1>1, <1>2, <1>3, <1>4, <1>6, LookupFrame DEF Covered, Resumes
<1>10. Windowed'
  <2>1. look.window # 0 => n = look.curr
    BY <1>5 DEF HitInv, Windowed
  <2> QED
    BY <1>1, <1>6, <2>1, LookupFrame DEF HitInv, Windowed
<1>11. Ended'
  BY <1>6 DEF Ended
<1> QED
  BY <1>7, <1>8, <1>9, <1>10, <1>11 DEF HitInv

(* The window the drafter finds ends at the candidate, or none is taken.    *)
LEMMA DraftLookupKeeps ==
  ASSUME HitInv, DraftLookup
  PROVE  HitInv'
<1> DEFINE drop == ~look.verified /\ ~Compact
           most == IF drop THEN Min({look.curr + DraftBlock, MaxHit}) ELSE look.curr
           ahead == IF drop THEN 1 ELSE 0
           n == DraftEnd(most, ahead)
<1>1. /\ look.pc = "draft"
      /\ look' = [look EXCEPT !.pc = "converge", !.verified = Verified(n, drop),
                              !.window = WindowFound(n)]
      /\ UNCHANGED <<mla, states, draft, query, served, intact>>
  BY DEF DraftLookup
<1>2. /\ DraftBlock \in Nat \ {0} /\ look.curr \in Nat /\ look.full
      /\ look.curr <= MaxHit /\ MaxHit \in Nat
  BY <1>1, HitTypes, GeometryAssumption DEF HitInv, Covered, Shrinks, MaxHit
<1>3. /\ most \in Nat /\ ahead \in {0, 1}
      /\ most <= look.curr + ahead * DraftBlock /\ most <= MaxHit
  BY <1>2, MinFacts
<1>4. /\ drop => ahead = 1 /\ Lookahead = 1
      /\ Compact => ahead = 0 /\ Lookahead = 0
      /\ drop \/ Compact \/ look.verified
      /\ drop \in BOOLEAN /\ (drop => ~Compact)
  BY DEF Lookahead
<1> HIDE DEF drop, most, ahead
<1>5. /\ n \in 0..most
      /\ n > 0 => n + ahead * DraftBlock <= most /\ WindowThere(n, ahead)
  BY <1>3, DraftEndFacts, HitTypes
<1> HIDE DEF n
<1>6. n \in Nat /\ n <= look.curr
  BY <1>2, <1>3, <1>5
<1>7. /\ look'.pc = "converge" /\ look'.hit = look.hit /\ look'.curr = look.curr
      /\ look'.full = look.full /\ look'.longest = look.longest
      /\ look'.window = WindowFound(n) /\ look'.verified = Verified(n, drop)
      /\ look' = [pc |-> look'.pc, hit |-> look'.hit, curr |-> look'.curr,
                  full |-> look'.full, verified |-> look'.verified,
                  window |-> look'.window, longest |-> look'.longest]
  BY <1>1, HitTypes
<1>8. WindowFound(n) = (IF n = look.curr THEN look.curr ELSE look.window)
  BY <1>2, <1>6 DEF WindowFound
<1>9. /\ Verified(n, drop) \in BOOLEAN
      /\ Verified(n, drop) => n = look.curr /\ (Compact \/ drop \/ look.verified)
      /\ Verified(n, drop) /\ ~Compact /\ ~drop => look.verified
  <2>1. (n >= look.curr) <=> (n = look.curr)
    BY <1>2, <1>6
  <2>2. Verified(n, drop) <=> /\ n >= look.curr
                              /\ Compact \/ drop \/ look.verified
    BY DEF Verified
  <2>4. (look.verified /\ n >= look.curr) \in BOOLEAN /\ (n >= look.curr) \in BOOLEAN
    OBVIOUS
  <2>5. Verified(n, drop) \in BOOLEAN
    BY <2>4, Zenon DEF Verified
  <2> QED
    BY <2>1, <2>2, <2>5
<1>10. TypeOK' /\ CachedOnGrid' /\ AtRest'
  BY <1>1, <1>7, <1>8, <1>9, LookupTypes, HitTypes
<1>11. Shrinks'
  BY <1>1, <1>7 DEF HitInv, Shrinks
<1>12. Covered' /\ Resumes'
  BY <1>1, <1>7, LookupFrame DEF HitInv, Covered, Resumes
<1>13. look'.window # 0 =>
         look'.full /\ look'.window = look'.curr /\ StateAt(look'.curr)
  <2>1. CASE n = look.curr
    BY <1>1, <1>2, <1>7, <1>8, <2>1 DEF HitInv, Resumes
  <2>2. CASE n # look.curr
    BY <1>7, <1>8, <2>2 DEF HitInv, Windowed
  <2> QED
    BY <2>1, <2>2
<1>14. look'.verified /\ look'.curr > 0 =>
         look'.window = look'.curr /\ Confirmed(look'.curr)
  <2> SUFFICES ASSUME Verified(n, drop), look.curr > 0
               PROVE  Confirmed(look.curr)
    BY <1>7, <1>8, <1>9
  <2>1. n = look.curr
    BY <1>9
  <2>2. CASE drop
    BY <1>2, <1>3, <1>4, <1>5, <2>1, <2>2 DEF Confirmed
  <2>3. CASE Compact
    BY <1>2, <1>3, <1>4, <1>5, <2>1, <2>3 DEF Confirmed
  <2>4. CASE ~drop /\ ~Compact
    BY <1>9, <2>4 DEF HitInv, Windowed
  <2> QED
    BY <2>2, <2>3, <2>4
<1>15. Windowed'
  BY <1>1, <1>13, <1>14, LookupFrame DEF Windowed
<1>16. Ended'
  BY <1>7 DEF Ended
<1> QED
  BY <1>10, <1>11, <1>12, <1>15, <1>16 DEF HitInv

(* Rounding up goes less than a unit up, and not past the grid.             *)
LEMMA UpFacts ==
  ASSUME NEW u \in Nat \ {0}, NEW x \in Nat
  PROVE  /\ Up(x, u) \in Nat /\ x <= Up(x, u) /\ OnGrid(u, Up(x, u))
         /\ \A a \in Nat : OnGrid(u, a) /\ x <= a => Up(x, u) <= a
<1>1. x + u - 1 \in Nat
  OBVIOUS
<1>2. /\ Up(x, u) \in Nat /\ Up(x, u) <= x + u - 1 /\ x + u - 1 < Up(x, u) + u
      /\ OnGrid(u, Up(x, u))
  BY <1>1, DownFacts DEF Up
<1>3. ASSUME NEW a \in Nat, OnGrid(u, a), x <= a, a < Up(x, u) PROVE FALSE
  <2>1. a + u <= Up(x, u)
    BY <1>2, <1>3, GridApart
  <2> QED
    BY <1>2, <1>3, <2>1
<1> QED
  BY <1>2, <1>3

(* Backing up stays on the grid, leaves a hit alone only when its suffix    *)
(* rebuilds a window, and goes back a block at most when windows fit one.   *)
LEMMA SafeHitFacts ==
  ASSUME NEW h \in Nat, OnGrid(Unit, h), query.len \in Nat, h < query.len
  PROVE  /\ SafeHit(h) \in 0..h /\ OnGrid(Unit, SafeHit(h))
         /\ h > 0 /\ SafeHit(h) >= h => Fresh(h) >= WindowTokens
         /\ Fresh(h) >= WindowTokens => SafeHit(h) = h
         /\ WindowTokens <= Align => SafeHit(h) >= h - Align
<1> DEFINE x == WindowTokens - Fresh(h)
           s == h - Up(x, Unit)
<1>1. /\ Unit \in Nat \ {0} /\ WindowTokens \in Nat \ {0} /\ Align \in Nat \ {0}
      /\ OnGrid(Unit, 0) /\ OnGrid(Align, Align) /\ Fresh(h) \in Nat \ {0}
  BY GeometryAssumption DEF OnGrid, Fresh
<1>2. CASE h = 0 \/ Fresh(h) >= WindowTokens
  BY <1>1, <1>2 DEF SafeHit
<1>3. CASE h # 0 /\ Fresh(h) < WindowTokens
  <2>1. x \in Nat \ {0}
    BY <1>1, <1>3
  <2>2. SafeHit(h) = AtLeast0(s)
    BY <1>1, <1>3 DEF SafeHit
  <2> HIDE DEF x
  <2>3. /\ Up(x, Unit) \in Nat /\ x <= Up(x, Unit) /\ OnGrid(Unit, Up(x, Unit))
        /\ \A a \in Nat : OnGrid(Unit, a) /\ x <= a => Up(x, Unit) <= a
    BY <1>1, <2>1, UpFacts
  <2>4. s \in Int /\ s < h /\ (s >= 0 => OnGrid(Unit, s))
    <3>1. s \in Int /\ s < h
      BY <1>1, <2>1, <2>3
    <3>2. s >= 0 => Up(x, Unit) <= h
      BY <1>1, <2>1, <2>3
    <3>3. Up(x, Unit) <= h => OnGrid(Unit, s)
      BY <1>1, <2>3, GridSums
    <3> QED
      BY <3>1, <3>2, <3>3
  <2>5. WindowTokens <= Align => s >= h - Align
    <3> SUFFICES ASSUME WindowTokens <= Align PROVE s >= h - Align
      OBVIOUS
    <3>1. x <= Align
      BY <1>1 DEF x
    <3>2. OnGrid(Unit, Align)
      BY <1>1, UnitDivides
    <3> QED
      BY <1>1, <2>3, <3>1, <3>2
  <2> HIDE DEF s
  <2>6. SafeHit(h) \in 0..h /\ SafeHit(h) < h /\ OnGrid(Unit, SafeHit(h))
    BY <1>1, <1>3, <2>2, <2>4 DEF AtLeast0
  <2>7. WindowTokens <= Align => SafeHit(h) >= h - Align
    BY <1>1, <2>2, <2>4, <2>5 DEF AtLeast0
  <2> QED
    BY <1>1, <1>3, <2>6, <2>7
<1> QED
  BY <1>1, <1>2, <1>3

(* The same when a fine hit falls back to the boundary before it.           *)
LEMMA BackedUpFacts ==
  ASSUME NEW h \in Nat, OnGrid(Unit, h), query.len \in Nat, h < query.len
  PROVE  /\ BackedUp(h) \in 0..h /\ OnGrid(Unit, BackedUp(h))
         /\ h > 0 /\ BackedUp(h) >= h => Fresh(h) >= WindowTokens
         /\ OnGrid(Align, h) => BackedUp(h) = SafeHit(h)
         /\ ~OnGrid(Align, h) => BackedUp(h) >= Down(h, Align)
<1>1. SafeHit(h) \in 0..h /\ OnGrid(Unit, SafeHit(h))
        /\ (h > 0 /\ SafeHit(h) >= h => Fresh(h) >= WindowTokens)
  BY SafeHitFacts
<1>2. CASE OnGrid(Align, h)
  BY <1>1, <1>2 DEF BackedUp, OnGrid
<1>3. CASE ~OnGrid(Align, h)
  <2> DEFINE d == Down(h, Align)
             S == {SafeHit(h), d}
  <2>1. Align \in Nat \ {0}
    BY GeometryAssumption
  <2>2. d \in Nat /\ d <= h /\ OnGrid(Align, d)
    BY <2>1, DownFacts
  <2>3. d < h /\ OnGrid(Unit, d)
    BY <1>3, <2>2, UnitDivides
  <2>4. BackedUp(h) = Largest(S)
    BY <1>3 DEF BackedUp, OnGrid
  <2>5. S \in SUBSET (0..h)
    BY <1>1, <2>2
  <2>6. /\ BackedUp(h) \in 0..h
        /\ BackedUp(h) = 0 \/ BackedUp(h) = SafeHit(h) \/ BackedUp(h) = d
        /\ d <= BackedUp(h)
    BY <2>4, <2>5, LargestFacts
  <2>7. OnGrid(Unit, 0)
    BY GeometryAssumption DEF OnGrid
  <2> HIDE DEF d, S
  <2>8. OnGrid(Unit, BackedUp(h))
    BY <1>1, <2>3, <2>6, <2>7
  <2>9. h > 0 /\ BackedUp(h) >= h => Fresh(h) >= WindowTokens
    BY <1>1, <2>2, <2>3, <2>6
  <2> QED
    BY <1>3, <2>6, <2>8, <2>9 DEF d
<1> QED
  BY <1>2, <1>3

LEMMA ConvergeKeeps ==
  ASSUME HitInv, Converge
  PROVE  HitInv'
<1> DEFINE b == BackedUp(look.curr)
<1>1. /\ look.pc = "converge"
      /\ UNCHANGED <<mla, states, draft, query, served, intact>>
      /\ look' = IF look.curr < look.hit
                 THEN [look EXCEPT !.pc = "full", !.hit = look.curr]
                 ELSE IF ~WindowReady /\ b < look.curr
                 THEN Retry(b)
                 ELSE [look EXCEPT !.pc = "done"]
  BY DEF Converge
<1>2. /\ look.curr \in Nat /\ look.hit \in Nat /\ look.full
      /\ FullCovers(look.curr) /\ OnGrid(Unit, look.curr)
      /\ look.curr <= look.hit /\ look.hit <= Candidate(query.len)
      /\ query.len \in Nat /\ Candidate(query.len) \in 0..(query.len - 1)
  BY <1>1, HitTypes DEF HitInv, Covered, Shrinks
<1>3. b \in 0..look.curr /\ OnGrid(Unit, b)
  BY <1>2, BackedUpFacts
<1>4. FullCovers(b)
  BY <1>2, <1>3, CoversLess, HitTypes
<1> HIDE DEF b
<1>5. CASE look.curr < look.hit
  <2>1. /\ look'.pc = "full" /\ look'.hit = look.curr /\ look'.curr = look.curr
        /\ look'.full = look.full /\ look'.verified = look.verified
        /\ look'.window = look.window /\ look'.longest = look.longest
        /\ look' = [pc |-> look'.pc, hit |-> look'.hit, curr |-> look'.curr,
                    full |-> look'.full, verified |-> look'.verified,
                    window |-> look'.window, longest |-> look'.longest]
    BY <1>1, <1>5, HitTypes
  <2>2. TypeOK' /\ CachedOnGrid' /\ AtRest'
    BY <1>1, <2>1, LookupTypes, HitTypes
  <2>3. Shrinks' /\ Resumes' /\ Ended'
    BY <1>1, <1>2, <2>1 DEF Shrinks, Resumes, Ended
  <2>4. Covered'
    BY <1>1, <1>2, <2>1, LookupFrame DEF Covered
  <2>5. Windowed'
    BY <1>1, <2>1, LookupFrame DEF HitInv, Windowed
  <2> QED
    BY <2>2, <2>3, <2>4, <2>5 DEF HitInv
<1>6. CASE ~(look.curr < look.hit) /\ ~WindowReady /\ b < look.curr
  <2>1. /\ look'.pc = "full" /\ look'.hit = b /\ look'.curr = b
        /\ look'.full = look.full /\ look'.verified = FALSE
        /\ look'.window = 0 /\ look'.longest = look.longest
        /\ look' = [pc |-> look'.pc, hit |-> look'.hit, curr |-> look'.curr,
                    full |-> look'.full, verified |-> look'.verified,
                    window |-> look'.window, longest |-> look'.longest]
    BY <1>1, <1>6, HitTypes DEF Retry
  <2>2. TypeOK' /\ CachedOnGrid' /\ AtRest'
    <3>1. look.curr \in 0..(MaxLen - 1) /\ MaxLen \in Nat
      BY HitTypes
    <3>2. b \in 0..(MaxLen - 1) /\ 0 \in 0..(MaxLen - 1)
      BY <1>3, <3>1
    <3>3. /\ look'.hit \in 0..(MaxLen - 1) /\ look'.curr \in 0..(MaxLen - 1)
          /\ look'.window \in 0..(MaxLen - 1) /\ look'.longest \in 0..(MaxLen - 1)
          /\ look'.full \in BOOLEAN /\ look'.verified \in BOOLEAN
      BY <2>1, <3>2, HitTypes
    <3> QED
      BY <1>1, <2>1, <3>3, LookupTypes
  <2>3. Shrinks' /\ Resumes' /\ Ended'
    BY <1>1, <1>2, <1>3, <2>1 DEF Shrinks, Resumes, Ended
  <2>4. Covered'
    BY <1>1, <1>3, <1>4, <2>1, LookupFrame DEF Covered
  <2>5. Windowed'
    BY <2>1 DEF Windowed
  <2> QED
    BY <2>2, <2>3, <2>4, <2>5 DEF HitInv
<1>7. CASE ~(look.curr < look.hit) /\ (WindowReady \/ b >= look.curr)
  <2>1. look' = [look EXCEPT !.pc = "done"]
    BY <1>1, <1>2, <1>3, <1>7
  <2>2. /\ look'.pc = "done" /\ look'.hit = look.hit /\ look'.curr = look.curr
        /\ look'.full = look.full /\ look'.verified = look.verified
        /\ look'.window = look.window /\ look'.longest = look.longest
        /\ look' = [pc |-> look'.pc, hit |-> look'.hit, curr |-> look'.curr,
                    full |-> look'.full, verified |-> look'.verified,
                    window |-> look'.window, longest |-> look'.longest]
    BY <2>1, HitTypes
  <2>3. TypeOK' /\ CachedOnGrid' /\ AtRest'
    BY <1>1, <2>2, LookupTypes, HitTypes
  <2>4. Shrinks'
    BY <1>1, <1>2, <1>7, <2>2 DEF Shrinks
  <2>5. Covered' /\ Resumes' /\ Windowed'
    BY <1>1, <1>2, <2>2, LookupFrame DEF HitInv, Covered, Resumes, Windowed
  <2>6. WindowReady' <=> WindowReady
    BY <2>2 DEF WindowReady
  <2>7. BackedUp(look.curr)' = b
    BY <1>1, <2>2 DEF b, BackedUp, SafeHit, Fresh
  <2>8. Ended'
    BY <1>7, <2>2, <2>6, <2>7 DEF Ended
  <2> QED
    BY <2>3, <2>4, <2>5, <2>8 DEF HitInv
<1> QED
  BY <1>2, <1>3, <1>5, <1>6, <1>7

(* What a request leaves behind, as the clauses of Complete name it.        *)
Shared == {p \in 1..query.len : p <= query.div}
Ends == {k * Align : k \in 1..(query.len \div Align)} \cup Tails(query.len, look.hit)
States(junction) == NewStates(query.len, look.hit, junction) \cup Tails(query.len, look.hit)
Left(junction) ==
  /\ mla' = mla \cup ({p \in Ends : p > look.hit} \cap Shared)
  /\ states' = states \cup (States(junction) \cap Shared)
  /\ draft' = draft \cup {i \in NewDraft(query.len, look.hit, look.window > 0, junction) :
                            i * DraftBlock <= query.div}
  /\ intact' = IF look.hit < ReplayBoundary(query.len) /\ ReplayBoundary(query.len) <= query.div
               THEN Largest({intact, ReplayBoundary(query.len)}) ELSE intact

LEMMA CompleteLeaves ==
  ASSUME Complete
  PROVE  \E junction \in {0, look.longest} : Left(junction)
BY DEF Complete, Left, Shared, Ends, States

(* The replay boundary is a boundary before the last token.                 *)
LEMMA ReplayFacts ==
  ASSUME NEW n \in Nat \ {0}
  PROVE  ReplayBoundary(n) \in 0..(n - 1) /\ OnGrid(Align, ReplayBoundary(n))
<1>1. PICK m \in Nat : m = n - 1
  OBVIOUS
<1>2. Align \in Nat \ {0} /\ ReplayBoundary(n) = Down(m, Align)
  BY <1>1, GeometryAssumption DEF ReplayBoundary
<1>3. /\ Down(m, Align) \in Int /\ 0 <= Down(m, Align) /\ Down(m, Align) <= m
      /\ OnGrid(Align, Down(m, Align))
  BY <1>1, <1>2, DownFacts
<1> QED
  BY <1>1, <1>2, <1>3

(* Whatever is left is on the grid of hits.                                 *)
LEMMA LeftOnGrid ==
  ASSUME HitInv, NEW junction, NEW p \in Ends \cup States(junction)
  PROVE  p \in Int /\ OnGrid(Unit, p)
<1>1. /\ Align \in Nat \ {0} /\ Unit \in Nat \ {0}
      /\ query.len \in Nat \ {0}
  BY HitTypes, GeometryAssumption
<1>2. CASE p \in {k * Align : k \in 1..(query.len \div Align)}
  <2>1. p \in Nat /\ OnGrid(Align, p)
    BY <1>1, <1>2, Multiples
  <2> QED
    BY <2>1, UnitDivides
<1>3. CASE p \in Tails(query.len, look.hit)
  <2>1. p = Down(query.len - 1, Unit) /\ query.len - 1 \in Int
    BY <1>1, <1>3 DEF Tails
  <2>2. Down(query.len - 1, Unit) \in Int /\ OnGrid(Unit, Down(query.len - 1, Unit))
    BY <1>1, <2>1, DownFacts
  <2> QED
    BY <2>1, <2>2
<1> QED
  BY <1>2, <1>3 DEF Ends, States, NewStates

(* Draft blocks are numbered within the prompt.                             *)
LEMMA DraftLeft ==
  ASSUME HitInv, NEW junction, NEW reused \in BOOLEAN,
         NEW i \in NewDraft(query.len, look.hit, reused, junction)
  PROVE  i \in 1..(MaxLen \div DraftBlock)
<1> DEFINE first == IF reused THEN look.hit ELSE AtLeast0(look.hit - WindowTokens + 1)
           ends == {p \in {k * Align : k \in 1..(query.len \div Align)} :
                 DraftDense \/ p \in {ReplayBoundary(query.len), junction}}
           kept == UNION {WindowAt(p) \cup {p \div DraftBlock + Lookahead} : p \in ends}
<1>1. /\ DraftBlock \in Nat \ {0} /\ Align \in Nat \ {0} /\ WindowTokens \in Nat
      /\ query.len \in Nat /\ query.len <= MaxLen /\ MaxLen \in Nat /\ look.hit \in Nat
  BY HitTypes, GeometryAssumption
<1>2. i \in kept /\ i > first \div DraftBlock /\ i * DraftBlock <= query.len
  BY DEF NewDraft
<1>3. first \in Nat
  BY <1>1 DEF AtLeast0
<1> HIDE DEF first
<1>4. first \div DraftBlock >= 0 /\ first \div DraftBlock \in Int
  BY <1>1, <1>3
<1>5. i \in Int
  <2>1. PICK p \in ends : i \in WindowAt(p) \cup {p \div DraftBlock + Lookahead}
    BY <1>2
  <2>2. p \in Nat
    BY <1>1, Multiples
  <2>3. p \div DraftBlock \in Int
    BY <1>1, <2>2
  <2> QED
    BY <2>1, <2>3 DEF WindowAt, Lookahead
<1>6. i \in 1..MaxLen
  BY <1>1, <1>2, <1>4, <1>5
<1> HIDE DEF kept, ends
<1>7. i * DraftBlock \in {k * DraftBlock : k \in 1..(MaxLen \div DraftBlock)}
  <2>1. PICK q : q = i * DraftBlock
    OBVIOUS
  <2>2. q % DraftBlock = 0 /\ q \in Int /\ q >= 1
    BY <1>1, <1>6, <2>1
  <2>3. q \in 1..MaxLen /\ OnGrid(DraftBlock, q)
    BY <1>1, <1>2, <2>1, <2>2 DEF OnGrid
  <2>4. q \in {k * DraftBlock : k \in 1..(MaxLen \div DraftBlock)}
    BY <1>1, <2>3, Multiples
  <2> QED
    BY <2>1, <2>4
<1>8. PICK k \in 1..(MaxLen \div DraftBlock) : i * DraftBlock = k * DraftBlock
  BY <1>7
<1>9. i = k
  BY <1>1, <1>6, <1>8
<1> QED
  BY <1>8, <1>9

LEMMA CompleteKeeps ==
  ASSUME HitInv, Complete
  PROVE  HitInv'
<1>1. PICK junction \in {0, look.longest} : Left(junction)
  BY CompleteLeaves
<1>2. query' = NoQuery /\ look' = NoLook /\ served' = served
  BY DEF Complete
<1>3. /\ query.len \in 1..MaxLen /\ MaxLen \in Nat \ {0} /\ Align \in Nat \ {0}
      /\ mla \subseteq 1..MaxLen /\ states \subseteq 1..MaxLen
      /\ draft \subseteq 1..(MaxLen \div DraftBlock) /\ intact \in 0..MaxLen
      /\ served \in 0..MaxRequests
  BY HitTypes, GeometryAssumption DEF Cached, HitInv, TypeOK
<1>4. \A p \in Shared : p \in 1..MaxLen
  BY <1>3 DEF Shared
<1>5. mla' \subseteq 1..MaxLen /\ states' \subseteq 1..MaxLen
  BY <1>1, <1>3, <1>4 DEF Left
<1>6. draft' \subseteq 1..(MaxLen \div DraftBlock)
  <2>1. (look.window > 0) \in BOOLEAN
    OBVIOUS
  <2>2. \A i \in NewDraft(query.len, look.hit, look.window > 0, junction) :
          i \in 1..(MaxLen \div DraftBlock)
    BY <2>1, DraftLeft
  <2> QED
    BY <1>1, <1>3, <2>2 DEF Left
<1>7. intact' \in 0..MaxLen
  <2> DEFINE r == ReplayBoundary(query.len)
             S == {intact, r}
  <2>1. r \in 0..MaxLen
    BY <1>3, ReplayFacts
  <2>2. S \in SUBSET (0..MaxLen)
    BY <1>3, <2>1
  <2>3. Largest(S) \in 0..MaxLen
    BY <1>3, <2>2, LargestFacts
  <2> QED
    BY <1>1, <1>3, <2>3 DEF Left
<1>8. TypeOK'
  BY <1>2, <1>3, <1>5, <1>6, <1>7 DEF TypeOK, NoQuery, NoLook
<1>9. CachedOnGrid'
  <2>1. \A p \in mla' \cup states' : p \in mla \cup states \/ p \in Ends \cup States(junction)
    BY <1>1 DEF Left
  <2>2. \A p \in Ends \cup States(junction) : OnGrid(Unit, p)
    BY LeftOnGrid
  <2> QED
    BY <2>1, <2>2 DEF HitInv, CachedOnGrid
<1>10. query'.len \in Nat \ {0}
  BY <1>2 DEF NoQuery
<1> QED
  BY <1>2, <1>8, <1>9, <1>10, RestIsFine

LEMMA EvictKeeps ==
  ASSUME HitInv, Evict
  PROVE  HitInv'
<1>1. mla' \subseteq mla /\ states' \subseteq states /\ draft' \subseteq draft
  BY DEF Evict
<1>2. /\ look' = NoLook /\ query' = query /\ served' = served /\ intact' = 0
      /\ look = NoLook
  BY DEF Evict, HitInv, AtRest
<1>3. TypeOK'
  BY <1>1, <1>2, GeometryAssumption DEF HitInv, TypeOK
<1>4. CachedOnGrid'
  BY <1>1 DEF HitInv, CachedOnGrid
<1>5. query'.len \in Nat \ {0}
  BY <1>2, HitTypes
<1> QED
  BY <1>2, <1>3, <1>4, <1>5, RestIsFine

(* Every step keeps the invariant.                                          *)
LEMMA HitStep == HitInv /\ [Next]_vars => HitInv'
<1> SUFFICES ASSUME HitInv, [Next]_vars PROVE HitInv'
  OBVIOUS
<1>1. CASE Arrive
  BY <1>1, ArriveKeeps
<1>2. CASE FullLookup
  BY <1>2, FullLookupKeeps
<1>3. CASE MambaLookup
  BY <1>3, MambaLookupKeeps
<1>4. CASE DraftLookup
  BY <1>4, DraftLookupKeeps
<1>5. CASE Converge
  BY <1>5, ConvergeKeeps
<1>6. CASE Complete
  BY <1>6, CompleteKeeps
<1>7. CASE Evict
  BY <1>7, EvictKeeps
<1>8. CASE UNCHANGED vars
  <2>1. UNCHANGED <<mla, states, draft, query, look, served, intact>>
    BY <1>8 DEF vars
  <2>2. TypeOK' /\ CachedOnGrid' /\ AtRest' /\ Shrinks'
    BY <2>1 DEF HitInv, TypeOK, CachedOnGrid, AtRest, Shrinks
  <2>3. Covered' /\ Resumes' /\ Windowed'
    BY <2>1, LookupFrame DEF HitInv, Covered, Resumes, Windowed
  <2>4. Ended'
    BY <2>1 DEF HitInv, Ended, WindowReady, BackedUp, SafeHit, Fresh
  <2> QED
    BY <2>2, <2>3, <2>4 DEF HitInv
<1> QED
  BY <1>1, <1>2, <1>3, <1>4, <1>5, <1>6, <1>7, <1>8 DEF Next, Lookup

LEMMA HitSafety == Spec => []HitInv
BY HitInitially, HitStep, PTL DEF Spec

-----------------------------------------------------------------------------
(* What a lookup returns can be resumed at by the target, and by the        *)
(* drafter, for every geometry: the agreed length survives the shortening   *)
(* by the groups in turn, the retries and the backing up.                   *)
THEOREM HitsAreUsable == Spec => []HitUsable
<1>1. HitInv => HitUsable
  <2> SUFFICES ASSUME HitInv PROVE HitUsable
    OBVIOUS
  <2>1. TypeOK
    BY DEF HitInv
  <2>2. ASSUME look.pc = "done" PROVE look.window \in {0, look.hit}
    BY <2>2 DEF HitInv, Windowed, Shrinks
  <2>3. ASSUME look.pc = "done", look.hit > 0
        PROVE  TargetHas(look.hit)
    <3>1. /\ look.curr = look.hit /\ look.hit \in Nat /\ FullCovers(look.hit)
          /\ OnGrid(Unit, look.hit) /\ StateAt(look.hit)
      BY <2>3, HitTypes DEF HitInv, Shrinks, Covered, Resumes
    <3>2. Fresh(look.hit) >= Kpool
      <4>1. /\ look.hit <= Candidate(query.len) /\ query.len \in Nat \ {0}
            /\ Kpool \in Nat
        BY HitTypes, GeometryAssumption DEF HitInv, Shrinks
      <4>2. Candidate(query.len) \in Nat
              /\ (Candidate(query.len) > 0 => Candidate(query.len) <= query.len - Kpool)
        BY <4>1, CandidateFacts
      <4> QED
        BY <2>3, <3>1, <4>1, <4>2 DEF Fresh
    <3> QED
      BY <3>1, <3>2 DEF TargetHas, OnGrid, StateAt
  <2>4. ASSUME look.pc = "done", look.hit > 0
        PROVE  \/ Fresh(look.hit) >= WindowTokens
               \/ look.window = look.hit /\ WindowCached(look.hit)
    <3>1. look.curr = look.hit /\ look.curr \in Nat /\ query.len \in Nat
            /\ look.curr < query.len /\ OnGrid(Unit, look.curr)
      BY <2>4, HitTypes DEF HitInv, Shrinks, Covered
    <3>2. CASE WindowReady
      <4>1. look.window = look.hit /\ Confirmed(look.hit)
              /\ look.hit \div DraftBlock >= TailBlocks
        BY <2>4, <3>1, <3>2 DEF WindowReady, HitInv, Windowed
      <4>2. WindowCached(look.hit)
        BY <4>1 DEF WindowCached, Confirmed, WindowThere, AheadOf, Owned
      <4> QED
        BY <4>1, <4>2
    <3>3. CASE BackedUp(look.curr) >= look.curr
      BY <2>4, <3>1, <3>3, BackedUpFacts
    <3> QED
      BY <2>4, <3>2, <3>3 DEF HitInv, Ended
  <2> QED
    BY <2>1, <2>2, <2>3, <2>4 DEF HitUsable, HitResumable, WindowOrReplay, WindowOfTheHit
<1> QED
  BY <1>1, HitSafety, PTL

-----------------------------------------------------------------------------
(* No usable boundary is passed over                                        *)

(* A boundary that the target and the drafter could resume at.              *)
Usable(h) ==
  /\ h \in 1..MaxHit /\ OnGrid(Align, h) /\ TargetHas(h)
  /\ Fresh(h) >= WindowTokens \/ WindowCached(h)

(* The candidate never shrinks below one.                                   *)
KeepsUp == look.pc # "idle" => \A h : Usable(h) => h <= look.curr

(* A window that is cached at the candidate is found and verified.          *)
Spotted ==
  look.pc = "converge" /\ look.curr > 0 /\ WindowCached(look.curr)
    => look.verified /\ look.window = look.curr

NoneMissed == KeepsUp /\ Spotted

LEMMA UsableFrame ==
  ASSUME UNCHANGED <<mla, states, draft, query>>
  PROVE  /\ \A h : Usable(h)' <=> Usable(h)
         /\ \A h : WindowCached(h)' <=> WindowCached(h)
<1>1. \A h : WindowCached(h)' <=> WindowCached(h)
  BY DEF WindowCached, MaxHit
<1>2. \A h : TargetHas(h)' <=> TargetHas(h)
  BY LookupFrame DEF TargetHas, Fresh
<1> QED
  BY <1>1, <1>2 DEF Usable, MaxHit, Fresh

(* What is known of a usable boundary.                                      *)
LEMMA UsableFacts ==
  ASSUME HitInv, NEW h, Usable(h)
  PROVE  /\ h \in Nat \ {0} /\ OnGrid(Align, h) /\ OnGrid(Unit, h)
         /\ h <= Candidate(query.len) /\ StateAt(h) /\ FullCovers(h)
         /\ Fresh(h) >= WindowTokens \/ WindowCached(h)
<1>1. query.len \in Nat \ {0} /\ Kpool \in Nat
  BY HitTypes, GeometryAssumption
<1>2. h \in Nat \ {0} /\ h <= query.len - 1 /\ OnGrid(Align, h)
  BY <1>1 DEF Usable, MaxHit
<1>3. Fresh(h) >= Kpool /\ FullCovers(h) /\ StateAt(h)
  BY DEF Usable, TargetHas, StateAt
<1>4. h <= query.len - Kpool
  BY <1>1, <1>2, <1>3 DEF Fresh
<1>5. h <= Candidate(query.len)
  BY <1>1, <1>2, <1>4, CandidateFacts
<1> QED
  BY <1>2, <1>3, <1>5, UnitDivides DEF Usable

(* A boundary that is covered is itself the end of a chain of blocks.       *)
LEMMA CoveredBoundary ==
  ASSUME Cached, NEW h \in Nat \ {0}, OnGrid(Align, h), FullCovers(h)
  PROVE  h \in FullHits
<1>1. Align \in Nat \ {0} /\ query.div \in Nat /\ mla \subseteq Nat
  BY GeometryAssumption DEF Cached
<1>2. PICK m \in FullHits : h <= m
  BY DEF FullCovers
<1>3. m \in Nat /\ m <= query.div /\ \A k \in 1..(m \div Align) : k * Align \in mla
  BY <1>1, <1>2 DEF FullHits
<1>4. \A p \in 1..m : OnGrid(Align, p) => p \in mla
  <2> SUFFICES ASSUME NEW p \in 1..m, OnGrid(Align, p) PROVE p \in mla
    OBVIOUS
  <2>1. p \in {k * Align : k \in 1..(m \div Align)}
    BY <1>1, <1>3, Multiples
  <2> QED
    BY <1>3, <2>1
<1>5. h \in mla /\ h <= query.div
  BY <1>1, <1>2, <1>3, <1>4
<1>6. ASSUME NEW k \in 1..(h \div Align) PROVE k * Align \in mla
  <2>1. PICK p : p = k * Align
    OBVIOUS
  <2>2. p \in {j * Align : j \in 1..(h \div Align)}
    BY <2>1
  <2>3. p \in 1..h /\ OnGrid(Align, p)
    BY <1>1, <2>2, Multiples
  <2> QED
    BY <1>2, <1>3, <1>4, <2>1, <2>3
<1> QED
  BY <1>5, <1>6 DEF FullHits

LEMMA ArriveMissesNone ==
  ASSUME HitInv, Arrive
  PROVE  NoneMissed'
<1>1. HitInv'
  BY ArriveKeeps
<1>2. look'.pc = "full" /\ look'.curr = Candidate(query'.len)
  BY DEF Arrive, NoLook
<1>3. \A h : Usable(h)' => h <= Candidate(query'.len)
  <2> TAKE h
  <2> HAVE Usable(h)'
  <2>1. (HitInv /\ Usable(h) => h <= Candidate(query.len))'
    BY UsableFacts, PTL
  <2> QED
    BY <1>1, <2>1
<1> QED
  BY <1>2, <1>3 DEF NoneMissed, KeepsUp, Spotted

LEMMA FullMissesNone ==
  ASSUME HitInv, NoneMissed, FullLookup
  PROVE  NoneMissed'
<1>1. /\ look.pc = "full" /\ look'.pc = "mamba"
      /\ look'.curr = IF look.full THEN Down(look.curr, Unit) ELSE FullEnd(look.curr)
      /\ UNCHANGED <<mla, states, draft, query>>
  BY HitTypes DEF FullLookup
<1>2. Unit \in Nat \ {0} /\ look.curr \in Nat /\ Cached
  BY HitTypes, GeometryAssumption
<1>3. ASSUME NEW h, Usable(h) PROVE h <= look'.curr
  <2>1. h \in Nat \ {0} /\ OnGrid(Align, h) /\ OnGrid(Unit, h) /\ FullCovers(h)
    BY <1>3, UsableFacts
  <2>2. h <= look.curr
    BY <1>1, <1>3 DEF NoneMissed, KeepsUp
  <2>3. CASE look.full
    BY <1>1, <1>2, <2>1, <2>2, <2>3, DownIsLast
  <2>4. CASE ~look.full
    <3>1. h \in FullHits
      BY <1>2, <2>1, CoveredBoundary
    <3> QED
      BY <1>1, <1>2, <2>2, <2>4, <3>1, FullEndFacts
  <2> QED
    BY <2>3, <2>4
<1> QED
  BY <1>1, <1>3, UsableFrame DEF NoneMissed, KeepsUp, Spotted

LEMMA MambaMissesNone ==
  ASSUME HitInv, NoneMissed, MambaLookup
  PROVE  NoneMissed'
<1>1. /\ look.pc = "mamba" /\ look'.pc = "draft" /\ look'.curr = StateEnd(look.curr)
      /\ UNCHANGED <<mla, states, draft, query>>
  BY HitTypes DEF MambaLookup
<1>2. look.curr \in Nat /\ Cached
  BY HitTypes
<1>3. ASSUME NEW h, Usable(h) PROVE h <= look'.curr
  <2>1. StateAt(h)
    BY <1>3, UsableFacts
  <2>2. h <= look.curr
    BY <1>1, <1>3 DEF NoneMissed, KeepsUp
  <2> QED
    BY <1>1, <1>2, <2>1, <2>2, StateEndFacts DEF StateAt
<1> QED
  BY <1>1, <1>3, UsableFrame DEF NoneMissed, KeepsUp, Spotted

(* A cached window is within what the drafter's group is asked for.         *)
LEMMA DraftMissesNone ==
  ASSUME HitInv, NoneMissed, DraftLookup
  PROVE  NoneMissed'
<1> DEFINE drop == ~look.verified /\ ~Compact
           most == IF drop THEN Min({look.curr + DraftBlock, MaxHit}) ELSE look.curr
           ahead == IF drop THEN 1 ELSE 0
           n == DraftEnd(most, ahead)
<1>1. /\ look.pc = "draft" /\ look'.pc = "converge" /\ look'.curr = look.curr
      /\ look'.verified = Verified(n, drop) /\ look'.window = WindowFound(n)
      /\ UNCHANGED <<mla, states, draft, query>>
  BY HitTypes DEF DraftLookup
<1>2. /\ DraftBlock \in Nat \ {0} /\ look.curr \in Nat /\ MaxLen \in Nat
      /\ look.curr <= MaxLen /\ MaxHit \in Nat /\ look.curr <= MaxHit
      /\ OnGrid(Unit, look.curr)
  BY <1>1, HitTypes, GeometryAssumption DEF HitInv, Covered, Shrinks, MaxHit
<1>3. KeepsUp'
  BY <1>1, UsableFrame DEF NoneMissed, KeepsUp
<1>4. ASSUME look.curr > 0, WindowCached(look.curr)
      PROVE  look'.verified /\ look'.window = look.curr
  <2>1. /\ look.curr + Lookahead * DraftBlock <= MaxHit
        /\ WindowThere(look.curr, Lookahead)
    BY <1>4 DEF WindowCached, WindowThere, AheadOf, Owned
  <2>2. drop => ahead = 1 /\ Lookahead = 1 /\ most = look.curr + DraftBlock
    BY <1>2, <2>1, MinFacts DEF Lookahead
  <2>3. ~drop => ahead = 0 /\ most = look.curr /\ (Compact \/ look.verified)
    OBVIOUS
  <2>4. WindowThere(look.curr, ahead)
    <3>1. CASE drop
      BY <2>1, <2>2, <3>1
    <3>2. CASE ~drop
      <4>1. AheadOf(look.curr, 0) = {}
        BY <1>2 DEF AheadOf
      <4> QED
        BY <2>1, <2>3, <3>2, <4>1 DEF WindowThere
    <3> QED
      BY <3>1, <3>2
  <2>5. most \in Nat /\ ahead \in {0, 1} /\ look.curr + ahead * DraftBlock <= most
          /\ most <= look.curr + ahead * DraftBlock
    BY <1>2, <2>2, <2>3
  <2>6. drop \/ Compact \/ look.verified
    OBVIOUS
  <2> HIDE DEF drop, most, ahead
  <2>7. look.curr <= n /\ n \in Nat
    BY <1>2, <1>4, <2>4, <2>5, DraftEndFacts
  <2>8. n > 0 => n + ahead * DraftBlock <= most
    BY <1>2, <2>5, DraftEndFacts
  <2> HIDE DEF n
  <2>9. n = look.curr
    BY <1>2, <1>4, <2>5, <2>7, <2>8
  <2>10. n >= look.curr
    BY <1>2, <2>9
  <2>11. Verified(n, drop)
    BY <2>6, <2>10 DEF Verified
  <2> QED
    BY <1>1, <2>9, <2>10, <2>11 DEF WindowFound
<1>5. Spotted'
  BY <1>1, <1>4, UsableFrame DEF Spotted
<1> QED
  BY <1>3, <1>5 DEF NoneMissed

(* Backing up passes over no usable boundary, when the window fits a block. *)
LEMMA ConvergeMissesNone ==
  ASSUME HitInv, NoneMissed, Converge, WindowTokens <= Align
  PROVE  NoneMissed'
<1> DEFINE b == BackedUp(look.curr)
<1>1. /\ look.pc = "converge" /\ look'.pc \in {"full", "done"}
      /\ UNCHANGED <<mla, states, draft, query>>
      /\ \/ look'.curr = look.curr
         \/ look'.curr = b /\ ~WindowReady /\ b < look.curr
  BY HitTypes DEF Converge, Retry
<1>2. /\ look.curr \in Nat /\ query.len \in Nat /\ look.curr < query.len
      /\ OnGrid(Unit, look.curr)
  BY <1>1, HitTypes DEF HitInv, Covered, Shrinks
<1>3. /\ Align \in Nat \ {0} /\ WindowTokens \in Nat \ {0} /\ DraftBlock \in Nat \ {0}
  BY GeometryAssumption
<1>4. ASSUME NEW h, Usable(h), ~WindowReady, b < look.curr
      PROVE  h <= b
  <2>1. /\ h \in Nat \ {0} /\ OnGrid(Align, h) /\ h <= look.curr
        /\ Fresh(h) >= WindowTokens \/ WindowCached(h)
    BY <1>1, <1>4, UsableFacts DEF NoneMissed, KeepsUp
  <2>2. CASE ~OnGrid(Align, look.curr)
    <3>1. Down(look.curr, Align) \in Nat /\ h <= Down(look.curr, Align)
      BY <1>2, <1>3, <2>1, DownIsLast
    <3>2. b >= Down(look.curr, Align) /\ b \in Nat
      BY <1>2, <2>2, BackedUpFacts
    <3> QED
      BY <2>1, <3>1, <3>2
  <2>3. CASE OnGrid(Align, look.curr) /\ h < look.curr
    <3>1. h + Align <= look.curr
      BY <1>2, <1>3, <2>1, <2>3, GridApart
    <3>2. b = SafeHit(look.curr) /\ b \in Nat
      BY <1>2, <2>3, BackedUpFacts
    <3>3. b >= look.curr - Align
      BY <1>2, <3>2, SafeHitFacts
    <3> QED
      BY <1>2, <1>3, <2>1, <3>1, <3>2, <3>3
  <2>4. CASE h = look.curr
    <3>1. b = SafeHit(look.curr)
      BY <1>2, <2>1, <2>4, BackedUpFacts
    <3>2. Fresh(look.curr) < WindowTokens
      BY <1>2, <1>3, <1>4, <3>1, SafeHitFacts DEF Fresh
    <3>3. WindowCached(look.curr)
      BY <1>2, <1>3, <2>1, <2>4, <3>2 DEF Fresh
    <3>4. look.verified /\ look.window = look.curr
      BY <1>1, <2>1, <2>4, <3>3 DEF NoneMissed, Spotted
    <3>5. ~(TailBlocks > 0)
      BY <1>4, <3>3, <3>4 DEF WindowReady, WindowCached
    <3>6. FALSE
      <4>1. WindowTokens >= 2
        BY <1>2, <1>3, <3>2 DEF Fresh
      <4>2. PICK w \in Nat \ {0} : w = WindowTokens - 1
        BY <4>1, <1>3
      <4>3. PICK u : u = Up(w, DraftBlock)
        OBVIOUS
      <4>4. u \in Nat /\ w <= u /\ OnGrid(DraftBlock, u)
        BY <1>3, <4>2, <4>3, UpFacts
      <4>5. PICK k \in Nat : u = k * DraftBlock /\ k = u \div DraftBlock
        BY <1>3, <4>4, GridUnits
      <4>6. k = TailBlocks
        BY <4>2, <4>3, <4>5 DEF TailBlocks
      <4> QED
        BY <1>3, <3>5, <4>2, <4>4, <4>5, <4>6
    <3> QED
      BY <3>6
  <2> QED
    BY <1>2, <2>1, <2>2, <2>3, <2>4
<1>5. ASSUME NEW h, Usable(h) PROVE h <= look'.curr
  <2>1. h <= look.curr
    BY <1>1, <1>5 DEF NoneMissed, KeepsUp
  <2> QED
    BY <1>1, <1>4, <1>5, <2>1
<1> QED
  BY <1>1, <1>5, UsableFrame DEF NoneMissed, KeepsUp, Spotted

(* No boundary a request could use is passed over: for every geometry in    *)
(* which the drafter's window fits a block of the target, as the deployed   *)
(* one does.                                                                *)
THEOREM NoUsableBoundaryMissed ==
  WindowTokens <= Align => (Spec => []NoBoundaryMissed)
<1> SUFFICES ASSUME WindowTokens <= Align PROVE Spec => []NoBoundaryMissed
  OBVIOUS
<1>1. Init => NoneMissed
  BY DEF Init, NoLook, NoneMissed, KeepsUp, Spotted
<1>2. HitInv /\ NoneMissed /\ [Next]_vars => NoneMissed'
  <2> SUFFICES ASSUME HitInv, NoneMissed, [Next]_vars PROVE NoneMissed'
    OBVIOUS
  <2>1. CASE Arrive
    BY <2>1, ArriveMissesNone
  <2>2. CASE FullLookup
    BY <2>2, FullMissesNone
  <2>3. CASE MambaLookup
    BY <2>3, MambaMissesNone
  <2>4. CASE DraftLookup
    BY <2>4, DraftMissesNone
  <2>5. CASE Converge
    BY <2>5, ConvergeMissesNone
  <2>6. CASE Complete
    BY <2>6 DEF Complete, NoLook, NoneMissed, KeepsUp, Spotted
  <2>7. CASE Evict
    BY <2>7 DEF Evict, NoneMissed, KeepsUp, Spotted
  <2>8. CASE UNCHANGED vars
    BY <2>8, UsableFrame DEF vars, NoneMissed, KeepsUp, Spotted
  <2> QED
    BY <2>1, <2>2, <2>3, <2>4, <2>5, <2>6, <2>7, <2>8 DEF Next, Lookup
<1>3. HitInv /\ NoneMissed => NoBoundaryMissed
  <2> SUFFICES ASSUME HitInv, NoneMissed, look.pc = "done",
                      NEW h \in {k * Align : k \in 1..(MaxHit \div Align)},
                      TargetHas(h), Fresh(h) >= WindowTokens \/ WindowCached(h)
               PROVE  look.hit >= h
    BY DEF NoBoundaryMissed
  <2>1. MaxHit \in Nat /\ Align \in Nat \ {0}
    BY HitTypes, GeometryAssumption DEF MaxHit
  <2>2. h \in 1..MaxHit /\ OnGrid(Align, h)
    BY <2>1, Multiples
  <2>3. h <= look.curr /\ look.curr = look.hit
    BY <2>2 DEF Usable, NoneMissed, KeepsUp, HitInv, Shrinks
  <2> QED
    BY <2>1, <2>2, <2>3, HitTypes
<1> QED
  BY <1>1, <1>2, <1>3, HitSafety, PTL DEF Spec

-----------------------------------------------------------------------------
(* Backing up lands on a state that was kept for it                         *)

(* The usual geometry: hits end at boundaries, and the window and the kpool *)
(* each fit a block.                                                        *)
CoarseHits == Unit = Align /\ WindowTokens <= Align /\ Kpool <= Align

(* Nothing up to the last replay boundary has been lost, and the state one  *)
(* boundary before it was kept.                                             *)
PriorKept ==
  intact > 0 =>
    /\ OnGrid(Align, intact) /\ intact \in states
    /\ intact = Align \/ intact - Align \in states
    /\ \A p \in 1..intact : OnGrid(Align, p) => p \in mla

(* A request that agrees with all of it stays within a boundary of it.      *)
Closes ==
  look.pc # "idle" /\ intact > 0 /\ query.len > intact /\ query.div >= intact
    => look.curr >= intact - Align

PriorInv == PriorKept /\ Closes

(* What PriorInv says of a request that agrees: the boundary before the     *)
(* last is in reach of every group.                                         *)
LEMMA PriorFacts ==
  ASSUME HitInv, PriorKept, intact > 0, query.div >= intact, query.len > intact
  PROVE  /\ intact \in Nat /\ Align \in Nat \ {0} /\ intact - Align \in Nat
         /\ OnGrid(Align, intact) /\ OnGrid(Align, intact - Align)
         /\ intact - Align = 0 \/ intact - Align \in FullHits
         /\ intact - Align = 0 \/ StateAt(intact - Align)
         /\ Candidate(query.len) \in Nat
         /\ intact - Align <= Candidate(query.len) \/ Kpool > Align
<1>1. /\ intact \in Nat /\ Align \in Nat \ {0} /\ Kpool \in Nat
      /\ query.len \in Nat \ {0} /\ query.div \in Nat /\ OnGrid(Align, 0)
  BY HitTypes, GeometryAssumption DEF HitInv, TypeOK, OnGrid
<1>2. /\ OnGrid(Align, intact) /\ intact \in states
      /\ intact = Align \/ intact - Align \in states
      /\ \A p \in 1..intact : OnGrid(Align, p) => p \in mla
  BY DEF PriorKept
<1>3. Align <= intact
  BY <1>1, <1>2, GridApart
<1>4. PICK a \in Nat : a = intact - Align
  BY <1>1, <1>3
<1>5. OnGrid(Align, Align)
  BY <1>1 DEF OnGrid
<1>6. OnGrid(Align, a)
  BY <1>1, <1>2, <1>3, <1>4, <1>5, GridSums
<1>7. a = 0 \/ a \in FullHits
  <2> SUFFICES ASSUME a # 0 PROVE a \in FullHits
    OBVIOUS
  <2>1. a \in mla /\ a <= query.div
    BY <1>1, <1>2, <1>4, <1>6
  <2>2. ASSUME NEW k \in 1..(a \div Align) PROVE k * Align \in mla
    <3>1. PICK p : p = k * Align
      OBVIOUS
    <3>2. p \in {j * Align : j \in 1..(a \div Align)}
      BY <3>1
    <3>3. p \in 1..a /\ OnGrid(Align, p)
      BY <1>1, <3>2, Multiples
    <3> QED
      BY <1>1, <1>2, <1>4, <3>1, <3>3
  <2> QED
    BY <2>1, <2>2 DEF FullHits
<1>8. a = 0 \/ StateAt(a)
  BY <1>1, <1>2, <1>4 DEF StateAt
<1>9. /\ Candidate(query.len) \in Nat
      /\ a <= Candidate(query.len) \/ Kpool > Align
  BY <1>1, <1>4, CandidateFacts
<1> QED
  BY <1>1, <1>2, <1>4, <1>6, <1>7, <1>8, <1>9

LEMMA PriorFrame ==
  ASSUME PriorKept, UNCHANGED <<mla, states, intact>>
  PROVE  PriorKept'
BY DEF PriorKept

LEMMA ArriveCloses ==
  ASSUME HitInv, PriorInv, Arrive, CoarseHits
  PROVE  PriorInv'
<1>1. HitInv' /\ PriorKept'
  BY ArriveKeeps, PriorFrame DEF Arrive, PriorInv
<1>2. look'.curr = Candidate(query'.len)
  BY DEF Arrive, NoLook
<1>3. Kpool \in Nat /\ Align \in Nat
  BY GeometryAssumption
<1>4. (HitInv /\ PriorKept /\ intact > 0 /\ query.div >= intact /\ query.len > intact
        => /\ intact - Align \in Nat /\ Candidate(query.len) \in Nat
           /\ intact - Align <= Candidate(query.len) \/ Kpool > Align)'
  BY PriorFacts, PTL
<1>5. Closes'
  BY <1>1, <1>2, <1>3, <1>4 DEF CoarseHits, Closes
<1> QED
  BY <1>1, <1>5 DEF PriorInv

LEMMA LookupCloses ==
  ASSUME HitInv, PriorInv, CoarseHits, FullLookup \/ MambaLookup \/ DraftLookup
  PROVE  PriorInv'
<1>1. UNCHANGED <<mla, states, draft, query, intact>> /\ look.pc # "idle"
  BY DEF FullLookup, MambaLookup, DraftLookup
<1>2. PriorKept'
  BY <1>1, PriorFrame DEF PriorInv
<1>3. look.curr \in Nat /\ Unit \in Nat \ {0} /\ Cached
  BY HitTypes, GeometryAssumption
<1>4. ASSUME intact > 0, query.len > intact, query.div >= intact
      PROVE  look'.curr >= intact - Align
  <2>1. PICK a \in Nat : a = intact - Align
    BY <1>4, PriorFacts DEF PriorInv
  <2>2. /\ OnGrid(Unit, a) /\ (a = 0 \/ a \in FullHits) /\ (a = 0 \/ StateAt(a))
        /\ a <= look.curr
    BY <1>1, <1>4, <2>1, PriorFacts DEF PriorInv, CoarseHits, Closes
  <2>3. CASE FullLookup
    <3>1. look'.curr = IF look.full THEN Down(look.curr, Unit) ELSE FullEnd(look.curr)
      BY <2>3, HitTypes DEF FullLookup
    <3>2. a <= Down(look.curr, Unit) /\ Down(look.curr, Unit) \in Nat
      BY <1>3, <2>2, DownIsLast
    <3>3. a <= FullEnd(look.curr) /\ FullEnd(look.curr) \in Nat
      BY <1>3, <2>2, FullEndFacts
    <3> QED
      BY <2>1, <3>1, <3>2, <3>3
  <2>4. CASE MambaLookup
    <3>1. look'.curr = StateEnd(look.curr)
      BY <2>4, HitTypes DEF MambaLookup
    <3>2. a <= StateEnd(look.curr) /\ StateEnd(look.curr) \in Nat
      BY <1>3, <2>2, StateEndFacts DEF StateAt
    <3> QED
      BY <2>1, <3>1, <3>2
  <2>5. CASE DraftLookup
    <3>1. look'.curr = look.curr
      BY <2>5, HitTypes DEF DraftLookup
    <3> QED
      BY <1>3, <2>1, <2>2, <3>1
  <2> QED
    BY <2>3, <2>4, <2>5
<1> QED
  BY <1>1, <1>2, <1>4 DEF PriorInv, Closes

(* A hit at the boundary before the last is not backed up any more, and a   *)
(* longer one is backed up by one boundary.                                 *)
LEMMA ConvergeCloses ==
  ASSUME HitInv, PriorInv, CoarseHits, Converge
  PROVE  PriorInv'
<1> DEFINE b == BackedUp(look.curr)
<1>1. /\ look.pc = "converge" /\ UNCHANGED <<mla, states, draft, query, intact>>
      /\ look'.curr = look.curr \/ (look'.curr = b /\ b < look.curr)
  BY HitTypes DEF Converge, Retry
<1>2. PriorKept'
  BY <1>1, PriorFrame DEF PriorInv
<1>3. /\ look.curr \in Nat /\ query.len \in Nat /\ look.curr < query.len
      /\ OnGrid(Unit, look.curr) /\ OnGrid(Align, look.curr)
  BY <1>1, HitTypes DEF HitInv, Covered, Shrinks, CoarseHits
<1>4. ASSUME intact > 0, query.len > intact, query.div >= intact
      PROVE  look'.curr >= intact - Align
  <2>1. PICK a \in Nat : a = intact - Align
    BY <1>4, PriorFacts DEF PriorInv
  <2>2. /\ OnGrid(Align, a) /\ Align \in Nat \ {0} /\ a <= look.curr /\ intact \in Nat
        /\ WindowTokens \in Nat /\ WindowTokens <= Align
    BY <1>1, <1>4, <2>1, PriorFacts, GeometryAssumption DEF PriorInv, CoarseHits, Closes
  <2>3. b = SafeHit(look.curr)
    BY <1>3, BackedUpFacts
  <2>4. /\ b \in Nat /\ b >= look.curr - Align
        /\ Fresh(look.curr) >= WindowTokens => b = look.curr
    BY <1>3, <2>2, <2>3, SafeHitFacts
  <2>5. CASE look.curr = a
    <3>1. Fresh(look.curr) >= WindowTokens
      BY <1>3, <1>4, <2>1, <2>2, <2>5 DEF Fresh
    <3> QED
      BY <1>1, <1>3, <2>1, <2>4, <2>5, <3>1
  <2>6. CASE look.curr # a
    <3>1. a + Align <= look.curr
      BY <1>3, <2>2, <2>6, GridApart
    <3> QED
      BY <1>1, <1>3, <2>1, <2>2, <2>4, <3>1
  <2> QED
    BY <2>5, <2>6
<1> QED
  BY <1>1, <1>2, <1>4 DEF PriorInv, Closes

(* What is computed up to a new replay boundary joins what the hit covered. *)
LEMMA CompleteKeepsPrior ==
  ASSUME HitInv, PriorInv, CoarseHits, Complete
  PROVE  PriorInv'
<1> DEFINE n == query.len
           h == look.hit
           r == ReplayBoundary(n)
<1>1. PICK junction \in {0, look.longest} : Left(junction)
  BY CompleteLeaves
<1>2. look'.pc = "idle" /\ look.pc = "done"
  BY DEF Complete, NoLook
<1>3. /\ n \in Nat \ {0} /\ h \in Nat /\ query.div \in Nat
      /\ Align \in Nat \ {0} /\ intact \in Nat /\ Cached /\ OnGrid(Align, 0)
  BY HitTypes, GeometryAssumption DEF HitInv, TypeOK, OnGrid
<1>4. r \in 0..(n - 1) /\ OnGrid(Align, r)
  BY <1>3, ReplayFacts
<1>5. mla \subseteq mla' /\ states \subseteq states'
  BY <1>1 DEF Left
<1>6. /\ OnGrid(Align, h) /\ FullCovers(h) /\ (h = 0 \/ h \in states)
      /\ h \in Nat
  BY <1>2, <1>3, HitTypes DEF HitInv, Shrinks, Covered, Resumes, StateAt, CoarseHits
<1> HIDE DEF n, h, r
<1>7. CASE intact' = intact
  <2>1. PriorKept'
    BY <1>5, <1>7 DEF PriorInv, PriorKept
  <2> QED
    BY <1>2, <2>1 DEF PriorInv, Closes
<1>8. CASE intact' # intact
  <2>1. h < r /\ r <= query.div /\ intact' = r
    <3>1. h < r /\ r <= query.div /\ intact' = Largest({intact, r})
      BY <1>1, <1>8 DEF Left, n, h, r
    <3>2. PICK m \in Nat : intact <= m /\ r <= m
      BY <1>3, <1>4
    <3>3. {intact, r} \in SUBSET (0..m)
      BY <1>3, <1>4, <3>2
    <3>4. intact' = 0 \/ intact' \in {intact, r}
      BY <3>1, <3>2, <3>3, LargestFacts
    <3>5. intact <= intact' /\ intact' \in Nat
      BY <3>1, <3>2, <3>3, LargestFacts
    <3> QED
      BY <1>3, <1>8, <3>1, <3>4, <3>5
  <2>2. ASSUME NEW p \in 1..r, OnGrid(Align, p), p > h
        PROVE  /\ p \in {k * Align : k \in 1..(n \div Align)} /\ p \in Shared
    <3>1. p \in 1..n /\ p <= query.div
      BY <1>3, <1>4, <2>1, <2>2
    <3> QED
      BY <1>3, <2>2, <3>1, Multiples DEF Shared, n
  <2>3. ASSUME NEW p \in 1..r, OnGrid(Align, p) PROVE p \in mla'
    <3>1. CASE p > h
      <4>1. p \in Ends /\ p \in Shared
        BY <2>2, <2>3, <3>1 DEF Ends, n
      <4> QED
        BY <1>1, <3>1, <4>1 DEF Left, h
    <3>2. CASE ~(p > h)
      <4>1. p \in Nat \ {0} /\ p <= h
        BY <1>4, <1>6, <3>2
      <4>2. FullCovers(p)
        BY <1>3, <1>6, <4>1, CoversLess
      <4>3. p \in FullHits
        BY <1>3, <2>3, <4>1, <4>2, CoveredBoundary
      <4> QED
        BY <1>5, <4>3 DEF FullHits
    <3> QED
      BY <3>1, <3>2
  <2>4. ASSUME NEW p \in {r, r - Align}, p > h PROVE p \in states'
    <3>1. OnGrid(Align, p)
      <4>1. CASE p = r
        BY <1>4, <4>1
      <4>2. CASE p = r - Align
        <5>1. OnGrid(Align, Align) /\ r \in Nat /\ Align <= r
          BY <1>3, <1>4, <1>6, <2>4, <4>2 DEF OnGrid
        <5> QED
          BY <1>3, <1>4, <4>2, <5>1, GridSums
      <4> QED
        BY <4>1, <4>2
    <3>2. p \in 1..r
      BY <1>3, <1>4, <1>6, <2>4
    <3>3. p \in {k * Align : k \in 1..(n \div Align)} /\ p \in Shared
      BY <2>2, <2>4, <3>1, <3>2
    <3>4. p \in Kept(n, junction)
      BY DEF Kept, r
    <3>5. p \in States(junction)
      BY <2>4, <3>3, <3>4 DEF States, NewStates, n, h
    <3> QED
      BY <1>1, <3>3, <3>5 DEF Left
  <2>5. r \in states'
    BY <2>1, <2>4
  <2>6. r = Align \/ r - Align \in states'
    <3>1. h + Align <= r
      BY <1>3, <1>4, <1>6, <2>1, GridApart
    <3>2. CASE h = r - Align
      BY <1>3, <1>4, <1>5, <1>6, <3>2
    <3>3. CASE h # r - Align
      BY <1>3, <1>4, <1>6, <2>4, <3>1, <3>3
    <3> QED
      BY <3>2, <3>3
  <2>7. PriorKept'
    BY <1>4, <2>1, <2>3, <2>5, <2>6 DEF PriorKept
  <2> QED
    BY <1>2, <2>7 DEF PriorInv, Closes
<1> QED
  BY <1>7, <1>8

(* Sparse as the Mamba states may be, a follow-up that agrees with all that *)
(* was computed up to the last replay boundary resumes at most one boundary *)
(* before it.                                                               *)
THEOREM PriorIsReachable == CoarseHits => (Spec => []PriorReachable)
<1> SUFFICES ASSUME CoarseHits PROVE Spec => []PriorReachable
  OBVIOUS
<1>1. Init => PriorInv
  BY DEF Init, NoLook, PriorInv, PriorKept, Closes
<1>2. HitInv /\ PriorInv /\ [Next]_vars => PriorInv'
  <2> SUFFICES ASSUME HitInv, PriorInv, [Next]_vars PROVE PriorInv'
    OBVIOUS
  <2>1. CASE Arrive
    BY <2>1, ArriveCloses
  <2>2. CASE FullLookup \/ MambaLookup \/ DraftLookup
    BY <2>2, LookupCloses
  <2>3. CASE Converge
    BY <2>3, ConvergeCloses
  <2>4. CASE Complete
    BY <2>4, CompleteKeepsPrior
  <2>5. CASE Evict
    BY <2>5 DEF Evict, PriorInv, PriorKept, Closes
  <2>6. CASE UNCHANGED vars
    BY <2>6 DEF vars, PriorInv, PriorKept, Closes
  <2> QED
    BY <2>1, <2>2, <2>3, <2>4, <2>5, <2>6 DEF Next, Lookup
<1>3. HitInv /\ PriorInv => PriorReachable
  BY DEF HitInv, Shrinks, PriorInv, Closes, PriorReachable
<1> QED
  BY <1>1, <1>2, <1>3, HitSafety, PTL DEF Spec
=============================================================================
