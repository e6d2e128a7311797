---------------------------- MODULE AdaptiveProofs -----------------------------
(****************************************************************************)
(* Proofs about speculative decoding: the length of a verification, for any *)
(* number of requests, captured lengths and files of overrides; and the     *)
(* matcher under a grammar, for any grammar and any number of drafts.       *)
(****************************************************************************)
EXTENDS ServingProofs

(****************************************************************************)
(* The adaptive verification length                                         *)
(****************************************************************************)

(* How far an average may be behind, with the weight "alpha".               *)
Short(alpha) ==
  CHOOSE short \in [0..AdaptiveClimb -> 0..(AdaptiveFull * AdaptiveUnit)] :
    AK!Shrinks(short, alpha)

Top == AK!AKMax * AdaptiveUnit

(* What may be in force.                                                    *)
Selections == {S \in SUBSET bootSet : S # {}}
Saturations == {"max", "n"} \cup AK!Said("saturate")
Knobs(k) ==
  /\ k.enabled \in BOOLEAN /\ k.alpha \in AK!Alphas /\ k.margin \in AK!Margins
  /\ k.min \in Int /\ k.saturate \in Saturations /\ k.set \in Selections

(* What the file and the observations keep.                                 *)
AKTypeOK ==
  /\ bootSet \in AdaptiveBootSets
  /\ Knobs(knobs)
  /\ DOMAIN average \subseteq AdaptiveReqs
  /\ \A r \in DOMAIN average : average[r].ema \in Nat /\ average[r].seen \in Nat
  /\ DOMAIN live \subseteq AdaptiveReqs
  /\ since \in [AdaptiveReqs -> Nat]
  /\ streak \in [AdaptiveReqs -> 0..AdaptiveClimb]

(* An average counts no step that came before the file in force.            *)
SeenSince == \A r \in DOMAIN average : average[r].seen <= since[r]

(* The more steps in a row were accepted, the less an average is behind.    *)
NotFarBehind ==
  knobs.saturate # "n" =>
    \A r \in DOMAIN average : average[r].ema + Short(knobs.alpha)[streak[r]] >= Top

AdaptiveInv ==
  AKTypeOK /\ SeenSince /\ NotFarBehind /\ AK!CapturedLength /\ AK!HeldBatchWhole

LEMMA AdaptiveConstants ==
  /\ AdaptiveFull \in Nat \ {0} /\ AdaptiveUnit \in Nat \ {0} /\ AdaptiveSeen \in Nat \ {0}
  /\ \A S \in AdaptiveBootSets : S # {} /\ S \subseteq 1..AdaptiveFull
  /\ AK!Said("mode") \subseteq BOOLEAN /\ AK!Said("min") \subseteq Int
  /\ AK!Alphas \subseteq 0..AdaptiveUnit /\ AK!Margins \subseteq Int
  /\ AdaptiveClimb \in Nat
  /\ \A alpha \in AK!Alphas :
       \E short \in [0..AdaptiveClimb -> 0..(AdaptiveFull * AdaptiveUnit)] :
         AK!Shrinks(short, alpha)
BY ServingAssumption DEF AK!AKAssumption

LEMMA ShortIs ==
  ASSUME NEW alpha \in AK!Alphas
  PROVE  /\ Short(alpha) \in [0..AdaptiveClimb -> 0..(AdaptiveFull * AdaptiveUnit)]
         /\ AK!Shrinks(Short(alpha), alpha)
BY AdaptiveConstants DEF Short

LEMMA LeastVote ==
  ASSUME NEW S \in SUBSET Nat, S # {}
  PROVE  AK!Min(S) \in S /\ \A x \in S : AK!Min(S) <= x
<1>1. \E n \in S : \A m \in S : n <= m
  BY Lowest
<1> QED
  BY <1>1 DEF AK!Min

LEMMA GreatestLength ==
  ASSUME NEW n \in Nat, NEW S \in SUBSET (0..n), S # {}
  PROVE  AK!Max(S) \in S /\ \A x \in S : AK!Max(S) >= x
<1>1. \E x \in S : \A y \in S : x >= y
  BY Highest
<1> QED
  BY <1>1 DEF AK!Max

LEMMA SetIs ==
  ASSUME AKTypeOK
  PROVE  /\ bootSet \subseteq 1..AdaptiveFull /\ bootSet # {}
         /\ knobs.set \subseteq bootSet /\ knobs.set # {}
         /\ AK!AKMax \in bootSet /\ \A k \in bootSet : k <= AK!AKMax
         /\ AK!AKMax \in 1..AdaptiveFull
<1>1. bootSet \subseteq 1..AdaptiveFull /\ bootSet # {} /\ AdaptiveFull \in Nat
  BY AdaptiveConstants DEF AKTypeOK
<1>2. knobs.set \subseteq bootSet /\ knobs.set # {}
  BY DEF AKTypeOK, Knobs, Selections
<1>3. bootSet \in SUBSET (0..AdaptiveFull)
  BY <1>1
<1>4. AK!AKMax \in bootSet /\ \A k \in bootSet : AK!AKMax >= k
  BY <1>1, <1>3, GreatestLength DEF AK!AKMax
<1> QED
  BY <1>1, <1>2, <1>4

(* A product of numbers grows with both.                                    *)
LEMMA Product ==
  ASSUME NEW a \in Int, NEW b \in Int, NEW s \in Nat, a <= b
  PROVE  a * s <= b * s /\ a * s \in Int /\ b * s \in Int
<1>1. a * s \in Int /\ b * s \in Int /\ (b - a) * s \in Nat
  OBVIOUS
<1>2. (b - a) * s = b * s - a * s
  OBVIOUS
<1> QED
  BY <1>1, <1>2

(* Rounded either way, a quotient is at least what the dividend covers.     *)
LEMMA Covers ==
  ASSUME NEW u \in Nat \ {0}, NEW x \in Int, NEW k \in Int, x >= k * u
  PROVE  x \div u >= k
<1> PICK q, m : q = x \div u /\ m = x % u
  OBVIOUS
<1>1. q \in Int /\ m \in 0..(u - 1) /\ x = q * u + m /\ q * u \in Int
  <2>1. q \in Int /\ m \in 0..(u - 1) /\ x = q * u + m
    BY Divided
  <2> QED
    BY <2>1
<1> SUFFICES ASSUME q < k PROVE FALSE
  BY <1>1
<1>2. q * u + u <= k * u
  BY <1>1, Grows
<1>3. k * u \in Int
  OBVIOUS
<1> QED
  BY <1>1, <1>2, <1>3

Mixed(o, e, a, u) == o * u * a + e * (u - a)
Blended(n, o, e, a, u) ==
  n \in {Mixed(o, e, a, u) \div u, (Mixed(o, e, a, u) + u - 1) \div u}
Within(e, d, m, u) == e + d >= m * u
Shorter(d, s, a, u) == d * (u - a) <= s * u

(* A new average is a number, and after a step that counted for the longest *)
(* length it is behind by at most what shrinking leaves.                    *)
LEMMA BlendIs ==
  ASSUME NEW u \in Nat \ {0}, NEW a \in 0..u, NEW o \in Nat, NEW e \in Nat, NEW n,
         Blended(n, o, e, a, u)
  PROVE  /\ n \in Nat
         /\ \A m, d, s \in Nat :
              o >= m /\ Within(e, d, m, u) /\ Shorter(d, s, a, u) => Within(n, s, m, u)
<1> PICK x : x = Mixed(o, e, a, u)
  OBVIOUS
<1> USE DEF Mixed
<1> PICK b : b = u - a
  OBVIOUS
<1>0. b \in Nat /\ a \in Nat /\ u \in Nat /\ a + b = u
  OBVIOUS
<1>1. x \in Nat
  <2>1. o * u \in Nat
    BY <1>0
  <2>2. (o * u) * a \in Nat /\ e * b \in Nat
    BY <1>0, <2>1
  <2> QED
    BY <2>2
<1>2. n = x \div u \/ n = (x + u - 1) \div u
  BY DEF Blended
<1>3. \A k \in Int : x >= k * u => n >= k
  <2> SUFFICES ASSUME NEW k \in Int, x >= k * u PROVE n >= k
    OBVIOUS
  <2>1. k * u \in Int
    BY <1>0
  <2>2. x + u - 1 >= k * u /\ x + u - 1 \in Int
    BY <1>0, <1>1, <2>1
  <2>3. x \div u >= k
    BY <1>1, Covers
  <2>4. (x + u - 1) \div u >= k
    BY <2>2, Covers
  <2> QED
    BY <1>2, <2>3, <2>4
<1>4. n \in Nat
  <2>1. n \in Int
    BY <1>0, <1>1, <1>2
  <2>2. x >= 0 * u
    BY <1>0, <1>1
  <2> QED
    BY <1>3, <2>1, <2>2
<1>5. ASSUME NEW m \in Nat, NEW d \in Nat, NEW s \in Nat,
             o >= m, e + d >= m * u, d * (u - a) <= s * u
      PROVE  n + s >= m * u
  <2>1. m * u \in Nat /\ s * u \in Nat /\ d * b \in Nat
    BY <1>0
  <2> PICK t : t = m * u
    OBVIOUS
  <2>2. t \in Nat /\ t - s \in Int /\ t - d \in Int
    BY <2>1
  <2>3. t * a <= (o * u) * a /\ t * a \in Int /\ (o * u) * a \in Int
    <3>1. t <= o * u
      BY <1>0, <1>5, Product
    <3>2. o * u \in Int
      BY <1>0
    <3> QED
      BY <1>0, <2>2, <3>1, <3>2, Product
  <2>4. (t - d) * b <= e * b /\ (t - d) * b \in Int /\ e * b \in Int
    <3>1. t - d <= e
      BY <1>5, <2>1, <2>2
    <3> QED
      BY <1>0, <2>2, <3>1, Product
  <2>5. (t - d) * b = t * b - d * b /\ t * b \in Int
    BY <1>0, <2>2
  <2>6. t * a + t * b = t * u
    <3>1. t * a + t * b = t * (a + b)
      BY <1>0, <2>2
    <3> QED
      BY <1>0, <3>1
  <2>7. (t - s) * u = t * u - s * u /\ t * u \in Int
    BY <1>0, <2>2
  <2>8. d * b <= s * u
    BY <1>5
  <2>9. x = (o * u) * a + e * b
    OBVIOUS
  <2>10. x >= (t - s) * u
    BY <2>1, <2>3, <2>4, <2>5, <2>6, <2>7, <2>8, <2>9
  <2>11. n >= t - s
    BY <1>3, <2>2, <2>10
  <2> QED
    BY <1>4, <2>2, <2>11
<1> QED
  BY <1>4, <1>5 DEF Within, Shorter

(* ------------------------------------------------- files and steps ---- *)

LEMMA AKInitInv == AK!AKInit => AdaptiveInv
<1> SUFFICES ASSUME AK!AKInit PROVE AdaptiveInv
  OBVIOUS
<1> USE DEF AK!AKInit
<1>1. bootSet \in AdaptiveBootSets /\ bootSet # {} /\ bootSet \subseteq 1..AdaptiveFull
  BY AdaptiveConstants
<1>2. AdaptiveUnit \div 2 \in AK!Alphas /\ AdaptiveUnit \in AK!Margins
  BY DEF AK!Alphas, AK!Margins
<1>3. average = <<>> /\ DOMAIN average = {}
  OBVIOUS
<1>4. AKTypeOK
  <2>1. since \in [AdaptiveReqs -> Nat] /\ streak \in [AdaptiveReqs -> 0..AdaptiveClimb]
    BY AdaptiveConstants
  <2>2. live = <<>> /\ DOMAIN live = {}
    OBVIOUS
  <2>3. Knobs(knobs)
    <3>1. PICK sat \in {"max", "n"} :
            knobs = [enabled |-> TRUE, alpha |-> AdaptiveUnit \div 2, margin |-> AdaptiveUnit,
                     saturate |-> sat, min |-> 1, set |-> bootSet]
      OBVIOUS
    <3> HIDE DEF AK!AKInit
    <3>2. sat \in Saturations
      BY <3>1 DEF Saturations
    <3>3. bootSet \in Selections
      BY <1>1 DEF Selections
    <3> QED
      BY <1>2, <3>1, <3>2, <3>3 DEF Knobs
  <2> QED
    BY <1>1, <1>3, <2>1, <2>2, <2>3 DEF AKTypeOK
<1>5. SeenSince /\ NotFarBehind
  BY <1>3 DEF SeenSince, NotFarBehind
<1>6. AK!CapturedLength /\ AK!HeldBatchWhole
  BY DEF AK!CapturedLength, AK!HeldBatchWhole
<1> QED
  BY <1>4, <1>5, <1>6 DEF AdaptiveInv

(* Whatever a file says, and wherever it stops parsing, what is in force    *)
(* stays within what was captured at boot.                                  *)
LEMMA ReloadedIs ==
  ASSUME AKTypeOK, NEW f \in AdaptiveOverrides
  PROVE  Knobs(AK!Reloaded(f))
<1>1. \A key : key \in DOMAIN f.keys => f.keys[key] \in AK!Said(key)
  BY DEF AK!Said
<1>2. /\ knobs.enabled \in BOOLEAN /\ knobs.alpha \in AK!Alphas
      /\ knobs.margin \in AK!Margins /\ knobs.min \in Int
      /\ knobs.saturate \in Saturations
      /\ knobs.set \in Selections
  BY DEF AKTypeOK, Knobs
<1>3. AK!Clamped(f.keys["set"]) \in Selections
  <2>1. bootSet # {}
    BY SetIs
  <2> QED
    BY <2>1 DEF AK!Clamped, Selections
<1> DEFINE Parsed(key) == AK!Order(key) < AK!Order(f.bad)
           Taken(key, value) ==
             IF Parsed(key) /\ key \in DOMAIN f.keys THEN f.keys[key] ELSE value
<1>4. AK!Reloaded(f) =
        [enabled  |-> IF Parsed("mode") THEN Taken("mode", TRUE) ELSE knobs.enabled,
         alpha    |-> Taken("alpha", knobs.alpha),
         margin   |-> Taken("margin", knobs.margin),
         min      |-> Taken("min", knobs.min),
         saturate |-> Taken("saturate", knobs.saturate),
         set      |-> IF Parsed("set") /\ "set" \in DOMAIN f.keys
                      THEN AK!Clamped(f.keys["set"]) ELSE knobs.set]
  BY DEF AK!Reloaded
<1>5. \A key, value : Taken(key, value) = value \/ Taken(key, value) \in AK!Said(key)
  BY <1>1
<1> HIDE DEF Taken
<1>6. Taken("mode", TRUE) \in BOOLEAN
  BY <1>5, AdaptiveConstants
<1>7. Taken("alpha", knobs.alpha) \in AK!Alphas
  BY <1>2, <1>5 DEF AK!Alphas
<1>8. Taken("margin", knobs.margin) \in AK!Margins
  BY <1>2, <1>5 DEF AK!Margins
<1>9. Taken("min", knobs.min) \in Int
  BY <1>2, <1>5, AdaptiveConstants
<1>10. Taken("saturate", knobs.saturate) \in Saturations
  BY <1>2, <1>5 DEF Saturations
<1>11. (IF Parsed("mode") THEN Taken("mode", TRUE) ELSE knobs.enabled) \in BOOLEAN
  BY <1>2, <1>6, Zenon
<1>12. (IF Parsed("set") /\ "set" \in DOMAIN f.keys
        THEN AK!Clamped(f.keys["set"]) ELSE knobs.set) \in Selections
  BY <1>2, <1>3, Zenon
<1> HIDE DEF Parsed
<1> QED
  <2> PICK e, a, b, c, d, g :
        /\ e = IF Parsed("mode") THEN Taken("mode", TRUE) ELSE knobs.enabled
        /\ a = Taken("alpha", knobs.alpha)
        /\ b = Taken("margin", knobs.margin)
        /\ c = Taken("saturate", knobs.saturate)
        /\ d = Taken("min", knobs.min)
        /\ g = IF Parsed("set") /\ "set" \in DOMAIN f.keys
               THEN AK!Clamped(f.keys["set"]) ELSE knobs.set
    OBVIOUS
  <2>1. AK!Reloaded(f) = [enabled |-> e, alpha |-> a, margin |-> b, min |-> d,
                          saturate |-> c, set |-> g]
    BY <1>4, Zenon
  <2>2. /\ e \in BOOLEAN /\ a \in AK!Alphas /\ b \in AK!Margins
        /\ c \in Saturations /\ d \in Int
        /\ g \in Selections
    BY <1>7, <1>8, <1>9, <1>10, <1>11, <1>12, Zenon
  <2> PICK k : k = AK!Reloaded(f)
    OBVIOUS
  <2>3. /\ k.enabled = e /\ k.alpha = a /\ k.margin = b /\ k.min = d
        /\ k.saturate = c /\ k.set = g
    BY <2>1
  <2> QED
    BY <2>2, <2>3, Zenon DEF Knobs

LEMMA AKReloadInv ==
  ASSUME AdaptiveInv, NEW f \in AdaptiveOverrides, AK!Reload(f)
  PROVE  AdaptiveInv'
<1> USE DEF AK!Reload
<1>1. AKTypeOK
  BY DEF AdaptiveInv
<1>2. knobs' = AK!Reloaded(f) /\ bootSet' = bootSet /\ live' = live /\ picked' = picked
  OBVIOUS
<1>3. streak' = [r \in AdaptiveReqs |-> 0]
  OBVIOUS
<1>4. \/ average' = <<>> /\ since' = [r \in AdaptiveReqs |-> 0]
      \/ average' = average /\ since' = since
  BY DEF AK!Kept, AK!Accepted
<1>5. /\ DOMAIN average' \subseteq DOMAIN average
      /\ \A r \in DOMAIN average' : average'[r] = average[r] /\ since'[r] = since[r]
      /\ since' \in [AdaptiveReqs -> Nat]
  BY <1>1, <1>4 DEF AKTypeOK
<1>6. AKTypeOK'
  <2>1. streak' \in [AdaptiveReqs -> 0..AdaptiveClimb]
    BY <1>3, AdaptiveConstants
  <2>2. Knobs(AK!Reloaded(f))
    BY <1>1, <1>2, ReloadedIs
  <2> HIDE DEF AK!Reload
  <2>3. Knobs(knobs)'
    BY <1>2, <2>2 DEF Knobs, Selections, Saturations
  <2> QED
    BY <1>1, <1>2, <1>5, <2>1, <2>3 DEF AKTypeOK
<1>7. SeenSince'
  BY <1>5 DEF AdaptiveInv, SeenSince
<1>8. NotFarBehind'
  <2> SUFFICES ASSUME NEW r \in DOMAIN average'
               PROVE  (average[r].ema + Short(knobs'.alpha)[0] >= AK!AKMax * AdaptiveUnit)
    <3>1. Top' = AK!AKMax * AdaptiveUnit
      BY <1>2 DEF Top, AK!AKMax
    <3>2. \A r \in DOMAIN average' : r \in AdaptiveReqs /\ streak'[r] = 0 /\ average'[r] = average[r]
      BY <1>1, <1>3, <1>5 DEF AKTypeOK
    <3> HIDE DEF AK!Reload
    <3> QED
      BY <3>1, <3>2 DEF NotFarBehind
  <2>1. knobs'.alpha \in AK!Alphas
    BY <1>6 DEF AKTypeOK, Knobs
  <2>2. Short(knobs'.alpha)[0] = AdaptiveFull * AdaptiveUnit
    BY <2>1, ShortIs DEF AK!Shrinks
  <2>3. average[r].ema \in Nat
    BY <1>1, <1>5 DEF AKTypeOK
  <2>4. AK!AKMax \in Nat /\ AK!AKMax <= AdaptiveFull
    BY <1>1, SetIs, AdaptiveConstants
  <2>5. /\ AK!AKMax * AdaptiveUnit <= AdaptiveFull * AdaptiveUnit
        /\ AK!AKMax * AdaptiveUnit \in Int /\ AdaptiveFull * AdaptiveUnit \in Int
    BY <2>4, Product, AdaptiveConstants
  <2> QED
    BY <2>2, <2>3, <2>5
<1>9. (AK!CapturedLength /\ AK!HeldBatchWhole)'
  BY <1>2 DEF AdaptiveInv, AK!CapturedLength, AK!HeldBatchWhole
<1> QED
  BY <1>6, <1>7, <1>8, <1>9 DEF AdaptiveInv

LEMMA ObservationIs ==
  ASSUME AKTypeOK, NEW drafted \in 1..AdaptiveFull, NEW accepted \in 0..drafted
  PROVE  /\ AK!Observation(drafted, accepted) \in Nat
         /\ knobs.saturate # "n" /\ accepted = drafted =>
              AK!Observation(drafted, accepted) >= AK!AKMax
<1>1. AK!AKMax \in Nat /\ drafted \in Nat /\ accepted \in Nat
  BY SetIs, AdaptiveConstants
<1> QED
  BY <1>1 DEF AK!Observation

LEMMA AKObserveInv ==
  ASSUME AdaptiveInv, NEW r \in AdaptiveReqs, AK!Observe(r)
  PROVE  AdaptiveInv'
<1>1. AKTypeOK /\ SeenSince /\ NotFarBehind
  BY DEF AdaptiveInv
<1> DEFINE old == IF r \in DOMAIN average THEN average[r]
                  ELSE [ema |-> AK!AKMax * AdaptiveUnit, seen |-> 0]
<1>2. PICK drafted \in 1..AdaptiveFull : \E accepted \in 0..drafted :
        /\ \E ema \in AK!Blends(AK!Observation(drafted, accepted), old.ema) :
              average' = [q \in DOMAIN average \cup {r} |->
                  IF q = r THEN [ema |-> ema, seen |-> AK!CapSeen(old.seen + 1)]
                  ELSE average[q]]
        /\ streak' = [streak EXCEPT ![r] =
              IF accepted < drafted THEN 0
              ELSE IF @ < AdaptiveClimb THEN @ + 1 ELSE @]
        /\ since' = [since EXCEPT ![r] = AK!CapSeen(@ + 1)]
  BY Zenon DEF AK!Observe
<1>3. PICK accepted \in 0..drafted :
        /\ \E ema \in AK!Blends(AK!Observation(drafted, accepted), old.ema) :
              average' = [q \in DOMAIN average \cup {r} |->
                  IF q = r THEN [ema |-> ema, seen |-> AK!CapSeen(old.seen + 1)]
                  ELSE average[q]]
        /\ streak' = [streak EXCEPT ![r] =
              IF accepted < drafted THEN 0
              ELSE IF @ < AdaptiveClimb THEN @ + 1 ELSE @]
        /\ since' = [since EXCEPT ![r] = AK!CapSeen(@ + 1)]
  BY <1>2
<1>4. PICK ema \in AK!Blends(AK!Observation(drafted, accepted), old.ema) :
        average' = [q \in DOMAIN average \cup {r} |->
            IF q = r THEN [ema |-> ema, seen |-> AK!CapSeen(old.seen + 1)]
            ELSE average[q]]
  BY <1>3
<1>5. /\ UNCHANGED <<bootSet, knobs, live, picked>>
      /\ knobs.enabled
  BY DEF AK!Observe
<1>old. /\ r \in DOMAIN average => old = average[r]
        /\ r \notin DOMAIN average => old.ema = AK!AKMax * AdaptiveUnit /\ old.seen = 0
  OBVIOUS
<1> HIDE DEF old
<1>6. old.ema \in Nat /\ old.seen \in Nat /\ old.seen <= since[r] /\ since[r] \in Nat
  <2>1. AK!AKMax * AdaptiveUnit \in Nat
    BY <1>1, SetIs, AdaptiveConstants
  <2>2. since[r] \in Nat
    BY <1>1 DEF AKTypeOK
  <2> QED
    BY <1>1, <1>old, <2>1, <2>2 DEF AKTypeOK, SeenSince
<1>7. streak[r] \in 0..AdaptiveClimb /\ AdaptiveClimb \in Nat
  BY <1>1, AdaptiveConstants DEF AKTypeOK
<1> PICK s : s = IF accepted < drafted THEN 0
                 ELSE IF streak[r] < AdaptiveClimb THEN streak[r] + 1 ELSE streak[r]
  OBVIOUS
<1>8. s \in 0..AdaptiveClimb
  BY <1>7
<1>9. streak' = [streak EXCEPT ![r] = s]
  BY <1>3
<1>10. /\ DOMAIN average' = DOMAIN average \cup {r}
       /\ \A q \in DOMAIN average \ {r} : average'[q] = average[q] /\ q \in AdaptiveReqs
       /\ average'[r].ema = ema /\ average'[r].seen = AK!CapSeen(old.seen + 1)
  BY <1>1, <1>4 DEF AKTypeOK
<1>11. \A n \in Nat : AK!CapSeen(n) \in Nat
  BY AdaptiveConstants DEF AK!CapSeen
<1>12. AK!CapSeen(old.seen + 1) <= AK!CapSeen(since[r] + 1)
  BY <1>6, AdaptiveConstants DEF AK!CapSeen
<1>13. /\ since' \in [AdaptiveReqs -> Nat] /\ since'[r] = AK!CapSeen(since[r] + 1)
       /\ \A q \in AdaptiveReqs \ {r} : since'[q] = since[q]
  <2>1. AK!CapSeen(since[r] + 1) \in Nat
    BY <1>6, <1>11
  <2> QED
    BY <1>1, <1>3, <2>1 DEF AKTypeOK
<1>14. /\ streak' \in [AdaptiveReqs -> 0..AdaptiveClimb] /\ streak'[r] = s
       /\ \A q \in AdaptiveReqs \ {r} : streak'[q] = streak[q]
  BY <1>1, <1>8, <1>9 DEF AKTypeOK
<1>15. knobs.alpha \in AK!Alphas
  BY <1>1 DEF AKTypeOK, Knobs
<1> PICK o, d, e : /\ o = AK!Observation(drafted, accepted)
                   /\ d = Short(knobs.alpha)[streak[r]]
                   /\ e = Short(knobs.alpha)[s]
  OBVIOUS
<1>16. /\ AdaptiveUnit \in Nat \ {0} /\ knobs.alpha \in 0..AdaptiveUnit
       /\ o \in Nat /\ AK!AKMax \in Nat /\ d \in Nat /\ e \in Nat
  <2>1. AdaptiveUnit \in Nat \ {0} /\ knobs.alpha \in 0..AdaptiveUnit
    BY <1>15, AdaptiveConstants
  <2>2. d \in Nat /\ e \in Nat
    <3>1. AdaptiveFull * AdaptiveUnit \in Nat
      BY AdaptiveConstants
    <3> QED
      BY <1>7, <1>8, <1>15, <3>1, ShortIs
  <2>3. o \in Nat /\ AK!AKMax \in Nat
    BY <1>1, ObservationIs, SetIs, AdaptiveConstants
  <2> QED
    BY <2>1, <2>2, <2>3
<1>17. ema \in {(o * AdaptiveUnit * knobs.alpha + old.ema * (AdaptiveUnit - knobs.alpha))
                  \div AdaptiveUnit,
                (o * AdaptiveUnit * knobs.alpha + old.ema * (AdaptiveUnit - knobs.alpha)
                  + AdaptiveUnit - 1) \div AdaptiveUnit}
  BY <1>4 DEF AK!Blends
<1>18. /\ ema \in Nat
       /\ /\ o >= AK!AKMax /\ old.ema + d >= AK!AKMax * AdaptiveUnit
          /\ d * (AdaptiveUnit - knobs.alpha) <= e * AdaptiveUnit
          => ema + e >= AK!AKMax * AdaptiveUnit
  <2> PICK u, a, was, m : /\ u = AdaptiveUnit /\ a = knobs.alpha /\ was = old.ema
                          /\ m = AK!AKMax
    OBVIOUS
  <2>1. /\ u \in Nat \ {0} /\ a \in 0..u /\ o \in Nat /\ was \in Nat /\ m \in Nat
        /\ d \in Nat /\ e \in Nat
    BY <1>6, <1>16
  <2>2. Blended(ema, o, was, a, u)
    BY <1>17 DEF Blended, Mixed
  <2>3. /\ ema \in Nat
        /\ o >= m /\ Within(was, d, m, u) /\ Shorter(d, e, a, u) => Within(ema, e, m, u)
    <3>1. /\ ema \in Nat
          /\ \A j, k, l \in Nat :
               o >= j /\ Within(was, k, j, u) /\ Shorter(k, l, a, u) => Within(ema, l, j, u)
      <4>1. u \in Nat \ {0} /\ a \in 0..u /\ o \in Nat /\ was \in Nat
        BY <2>1
      <4> QED
        BY <4>1, <2>2, BlendIs, Zenon
    <3>2. m \in Nat /\ d \in Nat /\ e \in Nat
      BY <2>1
    <3> QED
      BY <3>1, <3>2, Zenon
  <2> QED
    BY <2>3 DEF Within, Shorter
<1>19. AKTypeOK'
  <2>1. (bootSet \in AdaptiveBootSets /\ Knobs(knobs) /\ DOMAIN live \subseteq AdaptiveReqs)'
    BY <1>1, <1>5 DEF AKTypeOK, Knobs, Selections, Saturations
  <2>2. DOMAIN average' \subseteq AdaptiveReqs
    BY <1>10
  <2>3. \A q \in DOMAIN average' : average'[q].ema \in Nat /\ average'[q].seen \in Nat
    <3>1. AK!CapSeen(old.seen + 1) \in Nat
      BY <1>6, <1>11
    <3> QED
      BY <1>1, <1>10, <1>18, <3>1 DEF AKTypeOK
  <2> QED
    BY <1>13, <1>14, <2>1, <2>2, <2>3 DEF AKTypeOK
<1>20. SeenSince'
  <2> SUFFICES ASSUME NEW q \in DOMAIN average' PROVE average'[q].seen <= since'[q]
    BY DEF SeenSince
  <2>1. CASE q = r
    BY <1>10, <1>12, <1>13, <2>1
  <2>2. CASE q # r
    BY <1>1, <1>10, <1>13, <2>2 DEF SeenSince
  <2> QED
    BY <2>1, <2>2
<1>21. NotFarBehind'
  <2>1. Top' = Top /\ knobs' = knobs
    BY <1>5 DEF Top, AK!AKMax
  <2> SUFFICES ASSUME knobs.saturate # "n", NEW q \in DOMAIN average'
               PROVE  average'[q].ema + Short(knobs.alpha)[streak'[q]] >= Top
    BY <2>1 DEF NotFarBehind
  <2>2. CASE q # r
    <3>1. q \in DOMAIN average /\ average'[q] = average[q] /\ streak'[q] = streak[q]
      BY <1>10, <1>14, <2>2
    <3> QED
      BY <1>1, <3>1 DEF NotFarBehind
  <2>3. CASE q = r
    <3>1. SUFFICES ema + e >= Top
      BY <1>10, <1>14, <2>3
    <3>2. Top = AK!AKMax * AdaptiveUnit /\ Top \in Nat
      <4>1. AK!AKMax * AdaptiveUnit \in Nat
        BY <1>16
      <4> QED
        BY <4>1 DEF Top
    <3>3. CASE accepted < drafted
      <4>1. e = AdaptiveFull * AdaptiveUnit
        BY <1>15, <3>3, ShortIs DEF AK!Shrinks
      <4>2. AK!AKMax <= AdaptiveFull
        BY <1>1, SetIs, AdaptiveConstants
      <4>3. AK!AKMax * AdaptiveUnit <= AdaptiveFull * AdaptiveUnit
        BY <1>16, <4>2, Product, AdaptiveConstants
      <4> QED
        BY <1>16, <1>18, <3>2, <4>1, <4>3
    <3>4. CASE ~(accepted < drafted)
      <4>1. o >= AK!AKMax
        <5>1. accepted = drafted
          BY <3>4
        <5> QED
          BY <1>1, <5>1, ObservationIs
      <4>2. old.ema + d >= AK!AKMax * AdaptiveUnit
        <5>1. CASE r \in DOMAIN average
          BY <1>1, <1>old, <3>2, <5>1 DEF NotFarBehind
        <5>2. CASE r \notin DOMAIN average
          <6>1. old.ema = Top
            BY <1>old, <3>2, <5>2
          <6> QED
            BY <1>16, <3>2, <6>1
        <5> QED
          BY <5>1, <5>2
      <4>3. d * (AdaptiveUnit - knobs.alpha) <= e * AdaptiveUnit
        <5>1. CASE streak[r] < AdaptiveClimb
          <6>1. s = streak[r] + 1 /\ s \in 1..AdaptiveClimb /\ s - 1 = streak[r]
            BY <1>7, <3>4, <5>1
          <6>2. Short(knobs.alpha)[s - 1] * (AdaptiveUnit - knobs.alpha)
                  <= Short(knobs.alpha)[s] * AdaptiveUnit
            BY <1>15, <6>1, ShortIs DEF AK!Shrinks
          <6> QED
            BY <6>1, <6>2
        <5>2. CASE ~(streak[r] < AdaptiveClimb)
          <6>1. e = d
            BY <3>4, <5>2
          <6> PICK b : b = AdaptiveUnit - knobs.alpha
            OBVIOUS
          <6>2. b \in Int /\ b <= AdaptiveUnit
            BY <1>16
          <6>3. b * d <= AdaptiveUnit * d /\ b * d = d * b /\ AdaptiveUnit * d = d * AdaptiveUnit
            BY <1>16, <6>2, Product
          <6> QED
            BY <6>1, <6>3
        <5> QED
          BY <5>1, <5>2
      <4> QED
        BY <1>18, <3>2, <4>1, <4>2, <4>3
    <3> QED
      BY <3>3, <3>4
  <2> QED
    BY <2>2, <2>3
<1>22. (AK!CapturedLength /\ AK!HeldBatchWhole)'
  BY <1>5 DEF AdaptiveInv, AK!CapturedLength, AK!HeldBatchWhole
<1> QED
  BY <1>19, <1>20, <1>21, <1>22 DEF AdaptiveInv

(* ------------------------------------------------- the length of a batch ---- *)

LEMMA ClipIs ==
  ASSUME NEW n \in Int, NEW k \in Int
  PROVE  /\ AK!Clip(n, k) \in Int /\ AK!Clip(n, k) <= n /\ AK!Clip(n, k) <= k
         /\ n <= k => AK!Clip(n, k) = n
         /\ AK!Clip(n, k) = n \/ AK!Clip(n, k) = k
BY DEF AK!Clip

(* The moving average asks for at most so many drafts.                      *)
Target(r) == (average[r].ema + knobs.margin + AdaptiveUnit - 1) \div AdaptiveUnit

LEMMA TargetIs ==
  ASSUME AKTypeOK, NEW r \in DOMAIN average
  PROVE  Target(r) \in Int
<1>1. /\ average[r].ema \in Nat /\ knobs.margin \in Int /\ AdaptiveUnit \in Nat \ {0}
  BY AdaptiveConstants DEF AKTypeOK, Knobs
<1> QED
  BY <1>1 DEF Target

(* A vote is none, or a captured length that the drafts allow.              *)
LEMMA ChooseIs ==
  ASSUME AKTypeOK, NEW r, NEW k \in 1..AdaptiveFull, NEW structured
  PROVE  /\ AK!Choose(r, k, structured) \in 0..k
         /\ k = AdaptiveFull =>
              AK!Choose(r, k, structured) = 0 \/ AK!Choose(r, k, structured) \in bootSet
<1>1. k \in Nat /\ k >= 1 /\ k <= AdaptiveFull /\ AdaptiveFull \in Nat
  BY AdaptiveConstants
<1>2. CASE ~knobs.enabled \/ structured \/ k <= 0 \/ r \notin DOMAIN average
  BY <1>1, <1>2 DEF AK!Choose, AK!None
<1>3. CASE ~(~knobs.enabled \/ structured \/ k <= 0 \/ r \notin DOMAIN average)
  <2>0. CASE average[r].seen < knobs.min
    BY <1>1, <1>3, <2>0 DEF AK!Choose, AK!None
  <2>1. CASE ~(average[r].seen < knobs.min)
    <3> DEFINE cands == {v \in knobs.set : v <= AK!Clip(Target(r), k)}
               n == IF cands # {} THEN AK!Max(cands) ELSE AK!Min(knobs.set)
    <3>1. AK!Choose(r, k, structured) = IF AK!Clip(n, k) < 1 THEN 1 ELSE AK!Clip(n, k)
      BY <1>3, <2>1 DEF AK!Choose, Target
    <3>2. knobs.set \subseteq 1..AdaptiveFull /\ knobs.set # {} /\ knobs.set \subseteq bootSet
      BY SetIs
    <3>3. n \in knobs.set
      <4>1. CASE cands # {}
        <5>1. cands \in SUBSET (0..AdaptiveFull)
          BY <1>1, <3>2
        <5> HIDE DEF cands
        <5>2. AK!Max(cands) \in cands
          BY <1>1, <4>1, <5>1, GreatestLength
        <5>3. cands \subseteq knobs.set
          BY DEF cands
        <5> QED
          BY <4>1, <5>2, <5>3
      <4>2. CASE cands = {}
        <5>1. knobs.set \in SUBSET Nat
          BY <1>1, <3>2
        <5>2. AK!Min(knobs.set) \in knobs.set
          BY <3>2, <5>1, LeastVote
        <5> HIDE DEF cands
        <5> QED
          BY <4>2, <5>2
      <4> QED
        BY <4>1, <4>2
    <3> HIDE DEF n
    <3>4. n \in Nat /\ n >= 1 /\ n <= AdaptiveFull /\ n \in bootSet
      BY <1>1, <3>2, <3>3
    <3> PICK m : m = AK!Clip(n, k)
      OBVIOUS
    <3>5. m \in Int /\ (m = n \/ m = k) /\ m <= k /\ (n <= k => m = n)
      <4>1. n \in Int /\ k \in Int
        BY <1>1, <3>4
      <4> QED
        BY <4>1, ClipIs, Zenon
    <3>6. m >= 1
      BY <1>1, <3>4, <3>5
    <3>7. AK!Choose(r, k, structured) = m
      BY <3>1, <3>5, <3>6
    <3> QED
      BY <1>1, <3>4, <3>5, <3>6, <3>7
  <2> QED
    BY <2>0, <2>1
<1> QED
  BY <1>2, <1>3

(* A request under a grammar, or not observed for long enough since the     *)
(* file in force was read, has no vote.                                     *)
LEMMA HeldHasNoVote ==
  ASSUME AKTypeOK, SeenSince, NEW r \in AdaptiveReqs, NEW k,
         AK!Structured(r) \/ since[r] < knobs.min
  PROVE  AK!Choose(r, k, AK!Structured(r)) = 0
<1>1. CASE AK!Structured(r) \/ ~knobs.enabled \/ k <= 0 \/ r \notin DOMAIN average
  BY <1>1 DEF AK!Choose, AK!None
<1>2. CASE ~AK!Structured(r) /\ knobs.enabled /\ ~(k <= 0) /\ r \in DOMAIN average
  <2>1. since[r] \in Nat /\ knobs.min \in Int /\ average[r].seen \in Nat
    BY <1>2 DEF AKTypeOK, Knobs
  <2>2. average[r].seen <= since[r] /\ since[r] < knobs.min
    BY <1>2 DEF SeenSince
  <2>3. average[r].seen < knobs.min
    BY <2>1, <2>2
  <2> QED
    BY <1>2, <2>3 DEF AK!Choose, AK!None
<1> QED
  BY <1>1, <1>2

SameLength == \A S : AK!Cardinality(S) = Cardinality(S)
LEMMA SameLengths == SameLength
BY DEF SameLength, AK!Cardinality, Cardinality

NoGrammar(batched) == \A r \in batched : ~AK!Structured(r)

Uneven(batched, given, n) == AK!Cardinality({AK!Clip(given[r], n) : r \in batched}) > 1
Robbing(batched, given, n) ==
    knobs.enabled /\ AK!Held(batched) /\ \E r \in batched : given[r] > n
HasFields(f, batched, given, n) ==
    /\ NoGrammar(batched) => f.n = n
    /\ ~NoGrammar(batched) => f.n = AdaptiveFull
    /\ f.uneven => NoGrammar(batched) /\ Uneven(batched, given, n)
    /\ f.robbed => Robbing(batched, given, n)
LEMMA PickedFields ==
  ASSUME NEW n, NEW batched, NEW given
  PROVE  HasFields(AK!Picked(n, batched, given), batched, given, n)
BY DEF AK!Picked, NoGrammar, HasFields, Uneven, Robbing

Proper(f) == f.n \in bootSet \cup {AdaptiveFull} /\ ~f.uneven /\ ~f.robbed
Asked(chosen, most) == IF knobs.enabled THEN AK!BatchLength(chosen, most) ELSE AdaptiveFull
(* What is decided for a batch of which the drafts are given.               *)
Decided(n, batched, given, most) ==
    n = IF knobs.enabled
        THEN AK!BatchLength({AK!Choose(r, given[r], AK!Structured(r)) : r \in batched}, most)
        ELSE AdaptiveFull
Drafts(batched, given, most) ==
    /\ batched \in SUBSET AdaptiveReqs
    /\ given \in [batched -> 1..AdaptiveFull]
    /\ most \in 1..AdaptiveFull
    /\ \A r \in batched : given[r] <= most
    /\ NoGrammar(batched) => most = AdaptiveFull /\ \A r \in batched : given[r] = AdaptiveFull

(* Whatever a batch consists of, what is picked for it is a captured length *)
(* or the full one, the same for all, and takes no draft from a request     *)
(* that has no vote.                                                        *)
LEMMA PickedIs ==
  ASSUME AKTypeOK, SeenSince, NEW batched, NEW given, NEW most, NEW n,
         Drafts(batched, given, most), Decided(n, batched, given, most)
  PROVE  Proper(AK!Picked(n, batched, given))
<1>1. /\ batched \in SUBSET AdaptiveReqs
      /\ given \in [batched -> 1..AdaptiveFull]
      /\ most \in 1..AdaptiveFull
      /\ \A r \in batched : given[r] <= most
      /\ NoGrammar(batched) =>
           most = AdaptiveFull /\ \A r \in batched : given[r] = AdaptiveFull
      /\ n = IF knobs.enabled
             THEN AK!BatchLength({AK!Choose(r, given[r], AK!Structured(r)) : r \in batched}, most)
             ELSE AdaptiveFull
  BY DEF Drafts, Decided
<1> USE <1>1
<1> DEFINE votes == {AK!Choose(r, given[r], AK!Structured(r)) : r \in batched}
<1>2. \A v \in votes : \E r \in batched : v = AK!Choose(r, given[r], AK!Structured(r))
  OBVIOUS
<1>3. votes \in SUBSET Nat
  <2>1. \A r \in batched : r \in AdaptiveReqs /\ given[r] \in 1..AdaptiveFull
    BY <1>1
  <2> QED
    BY <2>1, ChooseIs
<1>4. ASSUME knobs.enabled PROVE n = most \/ (n \in votes /\ 0 \notin votes)
  <2>1. n = IF votes = {} \/ 0 \in votes THEN most ELSE AK!Min(votes)
    BY <1>4 DEF AK!BatchLength, AK!None
  <2> HIDE DEF votes
  <2>2. votes # {} => AK!Min(votes) \in votes
    BY <1>3, LeastVote
  <2> QED
    BY <2>1, <2>2
<1> HIDE DEF votes
<1>5. ASSUME NoGrammar(batched) PROVE n \in bootSet \cup {AdaptiveFull}
  <2>1. CASE ~knobs.enabled
    BY <2>1
  <2>2. CASE knobs.enabled /\ n = most
    BY <1>5, <2>2
  <2>3. CASE knobs.enabled /\ n \in votes /\ 0 \notin votes
    <3>1. PICK r \in batched : n = AK!Choose(r, given[r], AK!Structured(r))
      BY <1>2, <2>3
    <3>2. given[r] = AdaptiveFull /\ given[r] \in 1..AdaptiveFull
      BY <1>5, <3>1
    <3> QED
      BY <2>3, <3>1, <3>2, ChooseIs
  <2> QED
    BY <1>4, <2>1, <2>2, <2>3
<1>6. ~(NoGrammar(batched) /\ AK!Cardinality({AK!Clip(given[r], n) : r \in batched}) > 1)
  <2> SUFFICES ASSUME NoGrammar(batched)
               PROVE  ~(AK!Cardinality({AK!Clip(given[r], n) : r \in batched}) > 1)
    OBVIOUS
  <2> DEFINE lengths == {AK!Clip(given[r], n) : r \in batched}
             all == AK!Clip(AdaptiveFull, n)
  <2>1. lengths = {} \/ lengths = {all}
    <3>1. \A r \in batched : given[r] = AdaptiveFull
      OBVIOUS
    <3> QED
      BY <3>1
  <2>2. Cardinality({}) = 0 /\ Cardinality({all}) = 1
    BY FS_EmptySet, FS_Singleton
  <2> HIDE DEF lengths, all
  <2>3. AK!Cardinality(lengths) = 0 \/ AK!Cardinality(lengths) = 1
    BY <2>1, <2>2, SameLengths, Zenon DEF SameLength
  <2>4. ~(AK!Cardinality(lengths) > 1)
    BY <2>3
  <2> QED
    BY <2>4 DEF lengths
<1>7. ~(knobs.enabled /\ AK!Held(batched) /\ \E r \in batched : given[r] > n)
  <2> SUFFICES ASSUME knobs.enabled, AK!Held(batched), NEW r \in batched, given[r] > n
               PROVE  FALSE
    OBVIOUS
  <2>1. PICK h \in batched : AK!Structured(h) \/ since[h] < knobs.min
    BY DEF AK!Held
  <2>2. AK!Choose(h, given[h], AK!Structured(h)) = 0
    BY <2>1, HeldHasNoVote
  <2>3. 0 \in votes
    BY <2>2 DEF votes
  <2>4. n = most
    BY <1>4, <2>3
  <2>5. given[r] <= n /\ given[r] \in Nat /\ n \in Nat
    BY <2>4, AdaptiveConstants
  <2> QED
    BY <2>5
<1>8. ~(NoGrammar(batched) /\ Uneven(batched, given, n))
  BY <1>6 DEF Uneven
<1>9. ~Robbing(batched, given, n)
  BY <1>7 DEF Robbing
<1> PICK f : f = AK!Picked(n, batched, given)
  OBVIOUS
<1>10. HasFields(f, batched, given, n)
  BY PickedFields, Zenon
<1>11. ~f.uneven /\ ~f.robbed
  BY <1>8, <1>9, <1>10, Zenon DEF HasFields
<1>12. f.n \in bootSet \cup {AdaptiveFull}
  <2>1. CASE NoGrammar(batched)
    <3>1. f.n = n
      BY <1>10, <2>1, Zenon DEF HasFields
    <3>2. n \in bootSet \cup {AdaptiveFull}
      BY <1>5, <2>1, Zenon
    <3> QED
      BY <3>1, <3>2, Zenon
  <2>2. CASE ~NoGrammar(batched)
    <3>1. f.n = AdaptiveFull
      BY <1>10, <2>2, Zenon DEF HasFields
    <3> QED
      BY <3>1
  <2> QED
    BY <2>1, <2>2
<1>13. Proper(f)
  BY <1>11, <1>12, Zenon DEF Proper
<1> QED
  BY <1>13, Zenon

(* A step that at most forgets averages, and picks a length as it must.     *)
LEMMA ForgettingKeeps ==
  ASSUME AdaptiveInv, UNCHANGED <<bootSet, knobs, since, streak>>,
         DOMAIN live' \subseteq AdaptiveReqs,
         DOMAIN average' \subseteq DOMAIN average,
         \A r \in DOMAIN average' : average'[r] = average[r],
         AK!CapturedLength', AK!HeldBatchWhole'
  PROVE  AdaptiveInv'
<1>1. AKTypeOK /\ SeenSince /\ NotFarBehind
  BY DEF AdaptiveInv
<1>2. bootSet' = bootSet /\ knobs' = knobs /\ since' = since /\ streak' = streak
  OBVIOUS
<1>3. AKTypeOK'
  <2>1. (bootSet \in AdaptiveBootSets /\ Knobs(knobs))'
    BY <1>1, <1>2 DEF AKTypeOK, Knobs, Selections, Saturations
  <2>2. /\ DOMAIN average' \subseteq AdaptiveReqs
        /\ \A r \in DOMAIN average' : average'[r].ema \in Nat /\ average'[r].seen \in Nat
    BY <1>1 DEF AKTypeOK
  <2>3. since' \in [AdaptiveReqs -> Nat] /\ streak' \in [AdaptiveReqs -> 0..AdaptiveClimb]
    BY <1>1, <1>2 DEF AKTypeOK
  <2> QED
    BY <2>1, <2>2, <2>3 DEF AKTypeOK
<1>4. SeenSince'
  BY <1>1, <1>2 DEF SeenSince
<1>5. NotFarBehind'
  <2>1. Top' = Top
    BY <1>2 DEF Top, AK!AKMax
  <2> QED
    BY <1>1, <1>2, <2>1 DEF NotFarBehind
<1> QED
  BY <1>3, <1>4, <1>5 DEF AdaptiveInv

LEMMA CountForgets ==
  ASSUME (IF knobs.enabled THEN AK!Count ELSE UNCHANGED average)
  PROVE  /\ DOMAIN average' \subseteq DOMAIN average
         /\ \A r \in DOMAIN average' : average'[r] = average[r]
BY DEF AK!Count

LEMMA AKBatchInv ==
  ASSUME AdaptiveInv, AK!BatchK
  PROVE  AdaptiveInv'
<1>1. AKTypeOK /\ SeenSince
  BY DEF AdaptiveInv
<1>2. PICK scheduled \in SUBSET DOMAIN live :
        picked' = AK!Picked(IF knobs.enabled
                            THEN AK!BatchLength(AK!Votes(AK!Deciding(scheduled), AdaptiveFull),
                                                AdaptiveFull)
                            ELSE AdaptiveFull,
                            AK!Deciding(scheduled),
                            [r \in AK!Deciding(scheduled) |-> AdaptiveFull])
  BY DEF AK!BatchK
<1>3. /\ UNCHANGED <<bootSet, knobs, live, since, streak>>
      /\ IF knobs.enabled THEN AK!Count ELSE UNCHANGED average
  BY DEF AK!BatchK
<1> PICK batched : batched = AK!Deciding(scheduled)
  OBVIOUS
<1> PICK given : given = [r \in batched |-> AdaptiveFull]
  OBVIOUS
<1> PICK n : n = IF knobs.enabled
                 THEN AK!BatchLength(AK!Votes(batched, AdaptiveFull), AdaptiveFull)
                 ELSE AdaptiveFull
  OBVIOUS
<1>4. picked' = AK!Picked(n, batched, given)
  BY <1>2, Zenon
<1>5. batched \in SUBSET AdaptiveReqs
  BY <1>1 DEF AKTypeOK, AK!Deciding
<1>6. /\ AdaptiveFull \in 1..AdaptiveFull /\ AdaptiveFull \in Nat
      /\ given \in [batched -> 1..AdaptiveFull]
      /\ \A r \in batched : given[r] = AdaptiveFull
  BY AdaptiveConstants
<1>7. AK!Votes(batched, AdaptiveFull)
        = {AK!Choose(r, given[r], AK!Structured(r)) : r \in batched}
  BY <1>6 DEF AK!Votes
<1>8. Decided(n, batched, given, AdaptiveFull)
  BY <1>7, Zenon DEF Decided
<1>9. Proper(picked')
  <2>1. Drafts(batched, given, AdaptiveFull)
    BY <1>5, <1>6 DEF Drafts
  <2>2. Proper(AK!Picked(n, batched, given))
    BY <1>1, <1>8, <2>1, PickedIs, Zenon
  <2> QED
    BY <1>4, <2>2, Zenon
<1>10. AK!CapturedLength' /\ AK!HeldBatchWhole'
  BY <1>3, <1>9 DEF AK!CapturedLength, AK!HeldBatchWhole, Proper
<1>11. DOMAIN live' \subseteq AdaptiveReqs
  BY <1>1, <1>3 DEF AKTypeOK
<1> QED
  BY <1>3, <1>10, <1>11, CountForgets, ForgettingKeeps

LEMMA AKApplyInv ==
  ASSUME AdaptiveInv, AK!Apply
  PROVE  AdaptiveInv'
<1>1. AKTypeOK /\ SeenSince
  BY DEF AdaptiveInv
<1>2. PICK batched \in (SUBSET AK!Deciding(DOMAIN live)) \ {{}} :
        \E given \in [batched -> 1..AdaptiveFull] :
          /\ \A r \in batched : given[r] \in AK!Drafted(r)
          /\ picked' = AK!Picked(
               IF knobs.enabled
               THEN AK!BatchLength({AK!Choose(r, given[r], AK!Structured(r)) : r \in batched},
                                   AK!Max({given[r] : r \in batched}))
               ELSE AdaptiveFull, batched, given)
  BY DEF AK!Apply
<1>3. PICK given \in [batched -> 1..AdaptiveFull] :
        /\ \A r \in batched : given[r] \in AK!Drafted(r)
        /\ picked' = AK!Picked(
             IF knobs.enabled
             THEN AK!BatchLength({AK!Choose(r, given[r], AK!Structured(r)) : r \in batched},
                                 AK!Max({given[r] : r \in batched}))
             ELSE AdaptiveFull, batched, given)
  BY <1>2, Zenon
<1>4. /\ UNCHANGED <<bootSet, knobs, live, since, streak>>
      /\ IF knobs.enabled THEN AK!Count ELSE UNCHANGED average
  BY DEF AK!Apply
<1> DEFINE lengths == {given[r] : r \in batched}
<1> PICK most : most = AK!Max(lengths)
  OBVIOUS
<1>5. PICK n : n = IF knobs.enabled
                 THEN AK!BatchLength({AK!Choose(r, given[r], AK!Structured(r)) : r \in batched},
                                     most)
                 ELSE AdaptiveFull
  OBVIOUS
<1> PICK chosen : chosen = {AK!Choose(r, given[r], AK!Structured(r)) : r \in batched}
  OBVIOUS
<1>6. picked' = AK!Picked(Asked(chosen, most), batched, given)
  BY <1>3, Zenon DEF lengths, Asked
<1>7. n = Asked(chosen, most)
  BY <1>5 DEF Asked
<1>8. picked' = AK!Picked(n, batched, given)
  BY <1>6, <1>7, Zenon
<1>9. batched \in SUBSET AdaptiveReqs /\ batched # {}
  BY <1>1, <1>2 DEF AKTypeOK, AK!Deciding
<1>10. /\ lengths \in SUBSET (0..AdaptiveFull) /\ lengths # {} /\ lengths \subseteq 1..AdaptiveFull
      /\ \A r \in batched : given[r] \in lengths
      /\ \A x \in lengths : \E q \in batched : x = given[q]
  BY <1>9, AdaptiveConstants
<1> HIDE DEF lengths
<1>11. most \in lengths /\ \A x \in lengths : x <= most
  <2>1. AdaptiveFull \in Nat
    BY AdaptiveConstants
  <2>2. most \in lengths /\ \A x \in lengths : most >= x
    BY <1>10, <2>1, GreatestLength
  <2>3. \A x \in lengths : x \in Nat
    BY <1>10
  <2> QED
    BY <2>2, <2>3
<1>12. NoGrammar(batched) => most = AdaptiveFull /\ \A r \in batched : given[r] = AdaptiveFull
  <2>1. NoGrammar(batched) => \A r \in batched : given[r] = AdaptiveFull
    BY <1>3 DEF NoGrammar, AK!Drafted
  <2> QED
    BY <1>10, <1>11, <2>1
<1>13. Proper(picked')
  <2>1. most \in 1..AdaptiveFull
    BY <1>10, <1>11
  <2>2. \A r \in batched : given[r] <= most
    BY <1>10, <1>11
  <2>3. Drafts(batched, given, most)
    BY <1>9, <1>12, <2>1, <2>2 DEF Drafts
  <2>4. Decided(n, batched, given, most)
    BY <1>5, Zenon DEF Decided
  <2>5. Proper(AK!Picked(n, batched, given))
    BY <1>1, <2>3, <2>4, PickedIs, Zenon
  <2> QED
    BY <1>8, <2>5, Zenon
<1>14. AK!CapturedLength' /\ AK!HeldBatchWhole'
  BY <1>4, <1>13 DEF AK!CapturedLength, AK!HeldBatchWhole, Proper
<1>15. DOMAIN live' \subseteq AdaptiveReqs
  BY <1>1, <1>4 DEF AKTypeOK
<1> QED
  BY <1>4, <1>14, <1>15, CountForgets, ForgettingKeeps

LEMMA AKComingInv ==
  ASSUME AdaptiveInv, NEW r \in AdaptiveReqs,
         AK!Come(r) \/ AK!Prefilled(r) \/ AK!Go(r)
  PROVE  AdaptiveInv'
<1>1. UNCHANGED <<bootSet, knobs, average, picked, since, streak>>
  BY DEF AK!Come, AK!Prefilled, AK!Go
<1>2. DOMAIN live' \subseteq DOMAIN live \cup {r}
  BY DEF AK!Come, AK!Prefilled, AK!Go
<1>3. DOMAIN live' \subseteq AdaptiveReqs
  BY <1>2 DEF AdaptiveInv, AKTypeOK
<1>4. AK!CapturedLength' /\ AK!HeldBatchWhole'
  BY <1>1 DEF AdaptiveInv, AK!CapturedLength, AK!HeldBatchWhole
<1> QED
  BY <1>1, <1>3, <1>4, ForgettingKeeps

LEMMA AKNextInv ==
  ASSUME AdaptiveInv, [AK!AKNext]_(AK!akvars)
  PROVE  AdaptiveInv'
<1>1. CASE AK!BatchK
  BY <1>1, AKBatchInv
<1>2. CASE AK!Apply
  BY <1>2, AKApplyInv
<1>3. CASE \E f \in AdaptiveOverrides : AK!Reload(f)
  BY <1>3, AKReloadInv
<1>4. CASE \E r \in AdaptiveReqs :
             AK!Observe(r) \/ AK!Come(r) \/ AK!Prefilled(r) \/ AK!Go(r)
  BY <1>4, AKObserveInv, AKComingInv
<1>5. CASE UNCHANGED AK!akvars
  <2>1. UNCHANGED <<bootSet, knobs, average, live, picked, since, streak>>
    BY <1>5 DEF AK!akvars
  <2>2. DOMAIN live' \subseteq AdaptiveReqs
    BY <2>1 DEF AdaptiveInv, AKTypeOK
  <2>3. AK!CapturedLength' /\ AK!HeldBatchWhole'
    BY <2>1 DEF AdaptiveInv, AK!CapturedLength, AK!HeldBatchWhole
  <2> QED
    BY <2>1, <2>2, <2>3, ForgettingKeeps
<1> QED
  BY <1>1, <1>2, <1>3, <1>4, <1>5 DEF AK!AKNext

(* An average that is behind by less than the margin and a unit asks for    *)
(* the longest length.                                                      *)
LEMMA AveragesClimb == AdaptiveInv => AK!ClimbsBack
<1> SUFFICES ASSUME AdaptiveInv, NEW r \in DOMAIN average,
                    streak[r] >= AdaptiveClimb, knobs.enabled, knobs.saturate = "max"
             PROVE  AK!Choose(r, AdaptiveFull, FALSE) \in {0, AK!Max(knobs.set)}
  BY DEF AK!ClimbsBack, AK!None
<1>1. AKTypeOK /\ NotFarBehind
  BY DEF AdaptiveInv
<1>2. knobs.alpha \in AK!Alphas /\ knobs.margin \in AK!Margins /\ knobs.margin \in Int
  BY <1>1, AdaptiveConstants DEF AKTypeOK, Knobs
<1>3. streak[r] = AdaptiveClimb /\ AdaptiveClimb \in Nat
  BY <1>1, AdaptiveConstants DEF AKTypeOK
<1> PICK d : d = Short(knobs.alpha)[AdaptiveClimb]
  OBVIOUS
<1>4. d < knobs.margin + AdaptiveUnit
  BY <1>2, ShortIs DEF AK!Shrinks
<1>5. d \in Nat
  <2>1. AdaptiveFull * AdaptiveUnit \in Nat
    BY AdaptiveConstants
  <2> QED
    BY <1>2, <1>3, <2>1, ShortIs
<1>6. average[r].ema \in Nat /\ average[r].ema + d >= Top
  BY <1>1, <1>3 DEF AKTypeOK, NotFarBehind
<1>7. AdaptiveUnit \in Nat \ {0} /\ AK!AKMax \in Nat /\ AK!AKMax <= AdaptiveFull
      /\ AdaptiveFull \in Nat \ {0}
  BY <1>1, SetIs, AdaptiveConstants
<1>8. Target(r) >= AK!AKMax /\ Target(r) \in Int
  <2>1. Top \in Int /\ Top = AK!AKMax * AdaptiveUnit
    <3>1. AK!AKMax * AdaptiveUnit \in Int
      BY <1>7
    <3> QED
      BY <3>1 DEF Top
  <2> PICK x : x = average[r].ema + knobs.margin + AdaptiveUnit - 1
    OBVIOUS
  <2>2. x \in Int /\ x >= AK!AKMax * AdaptiveUnit
    BY <1>2, <1>4, <1>5, <1>6, <1>7, <2>1
  <2>3. x \div AdaptiveUnit >= AK!AKMax
    BY <1>7, <2>2, Covers
  <2> QED
    BY <1>1, <2>3, TargetIs DEF Target
<1> PICK k : k = AK!Clip(Target(r), AdaptiveFull)
  OBVIOUS
<1>9. k \in Int /\ k >= AK!AKMax
  BY <1>7, <1>8 DEF AK!Clip
<1>10. {v \in knobs.set : v <= k} = knobs.set
  <2>1. \A v \in knobs.set : v <= AK!AKMax /\ v \in Nat
    BY <1>1, SetIs, AdaptiveConstants
  <2> QED
    BY <1>7, <1>9, <2>1
<1> PICK n : n = AK!Max(knobs.set)
  OBVIOUS
<1>11. n \in 1..AdaptiveFull /\ knobs.set # {}
  <2>1. knobs.set \subseteq 1..AdaptiveFull /\ knobs.set # {}
    BY <1>1, SetIs
  <2>2. knobs.set \in SUBSET (0..AdaptiveFull)
    BY <1>7, <2>1
  <2> QED
    BY <1>7, <2>1, <2>2, GreatestLength
<1>12. AK!Clip(n, AdaptiveFull) = n
  BY <1>7, <1>11 DEF AK!Clip
<1>13. CASE average[r].seen < knobs.min
  BY <1>7, <1>13 DEF AK!Choose, AK!None
<1>14. CASE ~(average[r].seen < knobs.min)
  <2>1. AK!Choose(r, AdaptiveFull, FALSE)
          = IF AK!Clip(n, AdaptiveFull) < 1 THEN 1 ELSE AK!Clip(n, AdaptiveFull)
    <3>1. ~(AdaptiveFull <= 0)
      BY <1>7
    <3> QED
      BY <1>10, <1>11, <1>14, <3>1 DEF AK!Choose, Target
  <2>2. ~(n < 1)
    BY <1>7, <1>11
  <2>3. AK!Choose(r, AdaptiveFull, FALSE) = n
    BY <1>12, <2>1, <2>2, Zenon
  <2> QED
    BY <2>3
<1> QED
  BY <1>13, <1>14

LEMMA AdaptiveInvHonours == AdaptiveInv => AK!LengthsHonoured
BY AveragesClimb DEF AdaptiveInv, AK!LengthsHonoured

(* Whatever the file of overrides says and wherever it stops parsing, for   *)
(* any captured lengths and any number of requests: a batch without a       *)
(* grammar is verified at the full length or at a captured one, and all of  *)
(* it at that; no draft is taken from a batch with a request under a        *)
(* grammar or too new for the file in force; and a request whose steps were *)
(* accepted Climb times in a row votes for the longest length               *)
(* (patch_adaptive_k.py).                                                   *)
THEOREM LengthsStayHonoured == MCSpec => []LengthsHonoured
<1> DEFINE Inv == part = "adaptive" => AdaptiveInv
<1>1. MCInit => Inv
  BY AKInitInv DEF MCInit, AdaptivePart
<1>2. Inv /\ [MCNext]_<<part, vars, shardvars, densevars, moevars, akvars, coopvars,
                        gbvars, mavars, kpvars>> => Inv'
  <2> SUFFICES ASSUME Inv, part' = "adaptive",
                      [MCNext]_<<part, vars, shardvars, densevars, moevars, akvars, coopvars,
                                 gbvars, mavars, kpvars>>
               PROVE  AdaptiveInv'
    OBVIOUS
  <2>1. part = "adaptive" /\ [AK!AKNext]_akvars
    BY OnlyItsPart
  <2>2. [AK!AKNext]_(AK!akvars)
    BY <2>1 DEF akvars, AK!akvars
  <2> QED
    BY <2>1, <2>2, AKNextInv
<1>3. Inv => LengthsHonoured
  BY AdaptiveInvHonours DEF LengthsHonoured
<1> QED
  BY <1>1, <1>2, <1>3, PTL DEF MCSpec


(****************************************************************************)
(* Folds                                                                    *)
(****************************************************************************)

(* What holds at the start and is handed on holds all along.                *)
LEMMA Along ==
  ASSUME NEW n \in Nat, NEW S, 0 \in S,
         \A k \in 0..n : k < n /\ k \in S => k + 1 \in S
  PROVE  0..n \subseteq S
<1> DEFINE Bad == (0..n) \ S
<1> SUFFICES ASSUME Bad # {} PROVE FALSE
  OBVIOUS
<1>1. PICK m \in Bad : \A x \in Bad : m <= x
  <2>1. Bad \in SUBSET Nat
    OBVIOUS
  <2> HIDE DEF Bad
  <2> QED
    BY <2>1, Lowest
<1>2. m \in 0..n /\ m # 0 /\ m \notin S
  OBVIOUS
<1>3. m - 1 \in 0..n /\ m - 1 < n /\ m - 1 \notin Bad /\ (m - 1) + 1 = m
  BY <1>1, <1>2
<1> QED
  BY <1>2, <1>3

(* What a fold of the numbers in 1..n does at one set of them.              *)
Folded(base, step, h, s) ==
  IF s = {} THEN base ELSE step[<<h[s \ {GB!Max(s)}], GB!Max(s)>>]

HasFold(X, base, n, step) ==
  \E h \in [SUBSET (1..n) -> X] :
    \A s \in SUBSET (1..n) : h[s] = Folded(base, step, h, s)

(* The largest member of a set of numbers is one of them.                   *)
LEMMA MaxIs ==
  ASSUME NEW n \in Nat, NEW s \in SUBSET (1..n), s # {}
  PROVE  GB!Max(s) \in s /\ \A x \in s : GB!Max(s) >= x
<1>1. \E x \in s : \A y \in s : x >= y
  <2>1. s \in SUBSET (0..n)
    OBVIOUS
  <2> QED
    BY <2>1, Highest
<1> QED
  BY <1>1 DEF GB!Max

(* The fold exists: it is built up by the size of the sets.                 *)
LEMMA FoldExists ==
  ASSUME NEW X, NEW base \in X, NEW n \in Nat, NEW step \in [X \X (1..n) -> X]
  PROVE  HasFold(X, base, n, step)
<1> DEFINE Upto(k) ==
      \E h \in [SUBSET (1..n) -> X] :
        \A s \in SUBSET (0..k) : s \in SUBSET (1..n) => h[s] = Folded(base, step, h, s)
<1>1. Upto(0)
  <2> DEFINE h == [s \in SUBSET (1..n) |-> base]
  <2>1. h \in [SUBSET (1..n) -> X]
    OBVIOUS
  <2>2. ASSUME NEW s \in SUBSET (0..0), s \in SUBSET (1..n)
        PROVE  h[s] = Folded(base, step, h, s)
    <3>1. s = {}
      BY <2>2
    <3> QED
      BY <3>1 DEF Folded
  <2> HIDE DEF h
  <2> QED
    BY <2>1, <2>2
<1>2. ASSUME NEW k \in 0..n, k < n, Upto(k)
      PROVE  Upto(k + 1)
  <2>1. PICK h \in [SUBSET (1..n) -> X] :
          \A s \in SUBSET (0..k) : s \in SUBSET (1..n) => h[s] = Folded(base, step, h, s)
    BY <1>2
  <2> DEFINE j == [s \in SUBSET (1..n) |-> Folded(base, step, h, s)]
  <2>2. ASSUME NEW s \in SUBSET (1..n)
        PROVE  Folded(base, step, h, s) \in X
    <3>1. CASE s = {}
      BY <3>1 DEF Folded
    <3>2. CASE s # {}
      <4>1. GB!Max(s) \in 1..n /\ s \ {GB!Max(s)} \in SUBSET (1..n)
        BY <3>2, MaxIs
      <4>2. h[s \ {GB!Max(s)}] \in X
        BY <4>1
      <4>3. step[<<h[s \ {GB!Max(s)}], GB!Max(s)>>] \in X
        BY <4>1, <4>2
      <4> QED
        BY <4>3, <3>2 DEF Folded
    <3> QED
      BY <3>1, <3>2
  <2>3. j \in [SUBSET (1..n) -> X]
    BY <2>2
  <2>4. \A s \in SUBSET (1..n) : j[s] = Folded(base, step, h, s)
    OBVIOUS
  <2> HIDE DEF j
  <2>5. ASSUME NEW s \in SUBSET (0..k), s \in SUBSET (1..n)
        PROVE  j[s] = h[s]
    BY <2>1, <2>4, <2>5
  <2>6. ASSUME NEW s \in SUBSET (0..(k + 1)), s \in SUBSET (1..n)
        PROVE  j[s] = Folded(base, step, j, s)
    <3>1. CASE s = {}
      BY <3>1, <2>4 DEF Folded
    <3>2. CASE s # {}
      <4>1. GB!Max(s) \in s /\ \A x \in s : GB!Max(s) >= x
        BY <3>2, <2>6, MaxIs
      <4> DEFINE t == s \ {GB!Max(s)}
      <4>2. t \in SUBSET (0..k) /\ t \in SUBSET (1..n)
        <5>1. ASSUME NEW x \in t PROVE x \in 0..k
          <6>1. x \in s /\ x # GB!Max(s) /\ GB!Max(s) \in 0..(k + 1) /\ x \in 0..(k + 1)
                /\ GB!Max(s) >= x
            BY <4>1, <2>6
          <6> QED
            BY <6>1
        <5> QED
          BY <5>1, <2>6
      <4>3. j[t] = h[t]
        BY <4>2, <2>5
      <4>4. /\ Folded(base, step, j, s) = step[<<j[t], GB!Max(s)>>]
            /\ Folded(base, step, h, s) = step[<<h[t], GB!Max(s)>>]
        BY <3>2 DEF Folded
      <4> QED
        BY <4>3, <4>4, <2>4, <2>6
    <3> QED
      BY <3>1, <3>2
  <2> QED
    BY <2>3, <2>6
<1> HIDE DEF Upto
<1>3. Upto(n)
  <2> DEFINE S == {k \in 0..n : Upto(k)}
  <2>1. 0 \in S
    BY <1>1
  <2>2. \A k \in 0..n : k < n /\ k \in S => k + 1 \in S
    BY <1>2
  <2> HIDE DEF S
  <2>3. 0..n \subseteq S
    BY <2>1, <2>2, Along
  <2> QED
    BY <2>3 DEF S
<1>4. PICK h \in [SUBSET (1..n) -> X] :
        \A s \in SUBSET (0..n) : s \in SUBSET (1..n) => h[s] = Folded(base, step, h, s)
  BY <1>3 DEF Upto
<1>5. SUBSET (1..n) \subseteq SUBSET (0..n)
  OBVIOUS
<1> QED
  BY <1>4, <1>5 DEF HasFold

(* The first k numbers are the largest one and the ones before it.          *)
LEMMA FirstNumbers ==
  ASSUME NEW n \in Nat, NEW k \in 1..n
  PROVE  /\ 1..k \in SUBSET (1..n) /\ 1..k # {}
         /\ GB!Max(1..k) = k /\ (1..k) \ {k} = 1..(k - 1)
<1>1. 1..k \in SUBSET (1..n) /\ 1..k # {} /\ (1..k) \ {k} = 1..(k - 1)
  OBVIOUS
<1>2. GB!Max(1..k) \in 1..k /\ \A x \in 1..k : GB!Max(1..k) >= x
  BY <1>1, MaxIs
<1>3. k \in 1..k
  OBVIOUS
<1> QED
  BY <1>1, <1>2, <1>3

(****************************************************************************)
(* The grammar of one request                                               *)
(****************************************************************************)

States == DOMAIN GrammarDelta \cup {GrammarEnd}
Paths == Seq(States) \ {<<>>}
Matchers == [path : Paths, flag : BOOLEAN, count : Int, ok : BOOLEAN]

(* What the parameters satisfy, in these words.                             *)
LEMMA GrammarFacts ==
  /\ GrammarStart \in DOMAIN GrammarDelta /\ GrammarEnd \notin DOMAIN GrammarDelta
  /\ \A q \in DOMAIN GrammarDelta :
        /\ DOMAIN GrammarDelta[q] \subseteq GrammarTokens
        /\ \A t \in DOMAIN GrammarDelta[q] : GrammarDelta[q][t] \in States
  /\ GrammarDrafts \in Nat /\ GrammarLength \in Nat
BY ServingAssumption DEF GB!GrammarAssumption, States

(* A step along the grammar leads to one of its states.                     *)
LEMMA StepType ==
  ASSUME NEW p \in Paths, NEW t \in GB!Legal(p)
  PROVE  /\ GB!Step(p, t) \in Paths /\ Len(GB!Step(p, t)) = Len(p) + 1
         /\ SubSeq(GB!Step(p, t), 1, Len(p)) = p
         /\ t \in GrammarTokens /\ ~GB!Over(p)
<1>1. p \in Seq(States) /\ Len(p) \in Nat \ {0}
  BY DEF Paths
<1>2. GB!Last(p) \in States
  BY <1>1 DEF GB!Last
<1>3. ~GB!Over(p) /\ t \in DOMAIN GrammarDelta[GB!Last(p)]
  BY DEF GB!Legal
<1>4. GB!Last(p) \in DOMAIN GrammarDelta
  BY <1>2, <1>3 DEF GB!Over, States
<1>5. GrammarDelta[GB!Last(p)][t] \in States /\ t \in GrammarTokens
  BY <1>3, <1>4, GrammarFacts
<1>6. GB!Step(p, t) = Append(p, GrammarDelta[GB!Last(p)][t])
  BY DEF GB!Step
<1> HIDE DEF States
<1> DEFINE a == GrammarDelta[GB!Last(p)][t]
<1>7. a \in States /\ GB!Step(p, t) = Append(p, a)
  BY <1>5, <1>6
<1> HIDE DEF a
<1>8. Append(p, a) \in Seq(States) /\ Len(Append(p, a)) = Len(p) + 1
      /\ Append(p, a) # <<>>
  BY <1>1, <1>7
<1>9. SubSeq(Append(p, a), 1, Len(p)) = p
  BY <1>1, <1>7
<1> QED
  BY <1>3, <1>5, <1>7, <1>8, <1>9 DEF Paths

(* What is legal is a token.                                                *)
LEMMA LegalType ==
  ASSUME NEW p \in Paths
  PROVE  GB!Legal(p) \subseteq GrammarTokens
BY StepType

(* One token accepted.                                                      *)
LEMMA AcceptOneType ==
  ASSUME NEW g \in Matchers, NEW t
  PROVE  GB!AcceptOne(g, t) \in Matchers
<1>1. g.path \in Paths /\ g.count \in Int
  BY DEF Matchers
<1>2. CASE ~g.ok \/ g.flag
  BY <1>2 DEF GB!AcceptOne
<1>3. CASE g.ok /\ ~g.flag /\ t \notin GB!Legal(g.path)
  <2>1. GB!AcceptOne(g, t) = [g EXCEPT !.ok = FALSE]
    BY <1>3 DEF GB!AcceptOne
  <2> QED
    BY <2>1 DEF Matchers
<1>4. CASE g.ok /\ ~g.flag /\ t \in GB!Legal(g.path)
  <2> DEFINE p == GB!Step(g.path, t)
  <2>1. p \in Paths
    BY <1>1, <1>4, StepType
  <2>2. GB!AcceptOne(g, t) = [path |-> p, flag |-> GB!Over(p), count |-> g.count + 1, ok |-> TRUE]
    BY <1>4 DEF GB!AcceptOne, GB!Grammar
  <2>3. GB!Over(p) \in BOOLEAN
    BY DEF GB!Over
  <2> HIDE DEF p
  <2> QED
    BY <2>1, <2>2, <2>3, <1>1 DEF Matchers
<1> QED
  BY <1>2, <1>3, <1>4, <1>1 DEF Matchers

(* Accepting tokens goes through the matchers one by one.                   *)
Accepts(g, tokens, r) ==
  /\ r[0] = g
  /\ \A k \in 1..Len(tokens) : r[k] = GB!AcceptOne(r[k - 1], tokens[k])
  /\ GB!AcceptTokens(g, tokens) = r[Len(tokens)]

(* So the fold of accept_tokens is the last of them.                        *)
LEMMA AcceptRuns ==
  ASSUME NEW g \in Matchers, NEW tokens \in Seq(GrammarTokens)
  PROVE  \E r : Accepts(g, tokens, r)
<1> DEFINE n == Len(tokens)
           step == [x \in Matchers \X (1..n) |-> GB!AcceptOne(x[1], tokens[x[2]])]
           Is(h) == h = [s \in SUBSET DOMAIN tokens |->
                           IF s = {} THEN g
                           ELSE GB!AcceptOne(h[s \ {GB!Max(s)}], tokens[GB!Max(s)])]
           it == CHOOSE h : Is(h)
<1>0. n \in Nat /\ DOMAIN tokens = 1..n
  OBVIOUS
<1>1. step \in [Matchers \X (1..n) -> Matchers]
  BY AcceptOneType
<1>2. PICK h \in [SUBSET (1..n) -> Matchers] :
        \A s \in SUBSET (1..n) : h[s] = Folded(g, step, h, s)
  <2> HIDE DEF step, n
  <2>1. HasFold(Matchers, g, n, step)
    BY <1>0, <1>1, FoldExists, Zenon
  <2> QED
    BY <2>1 DEF HasFold
<1>3. Is(h)
  <2>1. ASSUME NEW s \in SUBSET (1..n)
        PROVE  h[s] = IF s = {} THEN g
                      ELSE GB!AcceptOne(h[s \ {GB!Max(s)}], tokens[GB!Max(s)])
    <3>1. CASE s = {}
      BY <1>2, <3>1 DEF Folded
    <3>2. CASE s # {}
      <4> DEFINE m == GB!Max(s)
      <4>1. m \in 1..n /\ s \ {m} \in SUBSET (1..n)
        BY <1>0, <3>2, MaxIs
      <4>2. h[s] = step[<<h[s \ {m}], m>>]
        BY <1>2, <3>2 DEF Folded
      <4>3. h[s \ {m}] \in Matchers
        BY <4>1, <1>2
      <4> HIDE DEF m
      <4>4. step[<<h[s \ {m}], m>>] = GB!AcceptOne(h[s \ {m}], tokens[m])
        BY <4>1, <4>3
      <4>5. h[s] = GB!AcceptOne(h[s \ {m}], tokens[m])
        BY <4>2, <4>4
      <4> QED
        BY <4>5, <3>2 DEF m
    <3> QED
      BY <3>1, <3>2
  <2>2. h = [s \in SUBSET (1..n) |-> h[s]]
    BY <1>2
  <2> QED
    BY <2>1, <2>2, <1>0
<1>4. Is(it)
  <2> HIDE DEF Is
  <2> QED
    BY <1>3
<1>5. GB!AcceptTokens(g, tokens) = it[1..n]
  BY <1>0 DEF GB!AcceptTokens, GB!FoldLeft, GB!MapThenFoldSet
<1> DEFINE r == [k \in 0..n |-> it[1..k]]
<1>6. it[1..0] = g
  <2>1. 1..0 = {} /\ 1..0 \in SUBSET DOMAIN tokens
    OBVIOUS
  <2> HIDE DEF it
  <2> QED
    BY <1>4, <2>1
<1>7. ASSUME NEW k \in 1..n
      PROVE  it[1..k] = GB!AcceptOne(it[1..(k - 1)], tokens[k])
  <2> HIDE DEF it, n
  <2>1. /\ 1..k \in SUBSET (1..n) /\ 1..k # {}
        /\ GB!Max(1..k) = k /\ (1..k) \ {k} = 1..(k - 1)
    BY <1>0, FirstNumbers
  <2>2. it[1..k] = GB!AcceptOne(it[(1..k) \ {GB!Max(1..k)}], tokens[GB!Max(1..k)])
    BY <1>0, <1>4, <2>1
  <2> QED
    BY <2>1, <2>2
<1>8. Accepts(g, tokens, r)
  <2> HIDE DEF it
  <2>1. r[0] = g
    BY <1>0, <1>6
  <2>2. \A k \in 1..n : r[k] = GB!AcceptOne(r[k - 1], tokens[k])
    BY <1>0, <1>7
  <2>3. r[n] = it[1..n]
    BY <1>0
  <2> HIDE DEF r
  <2> QED
    BY <2>1, <2>2, <2>3, <1>5 DEF Accepts
<1> QED
  BY <1>8

(* One token validated, from the matcher "g".                               *)
Trials == [path : Paths, taken : Seq(GrammarTokens), refused : BOOLEAN]
FirstTry(g) == [path |-> g.path, taken |-> <<>>, refused |-> FALSE]

(* Trying a token keeps the shape.                                          *)
LEMMA TryType ==
  ASSUME NEW v \in Trials, NEW t \in GrammarTokens
  PROVE  GB!Try(v, t) \in Trials
<1>1. v.path \in Paths /\ v.taken \in Seq(GrammarTokens)
  BY DEF Trials
<1>2. CASE v.refused \/ t \notin GB!Legal(v.path)
  <2>1. GB!Try(v, t) = [v EXCEPT !.refused = TRUE]
    BY <1>2 DEF GB!Try
  <2> QED
    BY <2>1 DEF Trials
<1>3. CASE ~(v.refused \/ t \notin GB!Legal(v.path))
  <2> DEFINE p == GB!Step(v.path, t)
  <2>1. p \in Paths /\ Append(v.taken, t) \in Seq(GrammarTokens)
    BY <1>1, <1>3, StepType
  <2>2. GB!Try(v, t) = [v EXCEPT !.path = p, !.taken = Append(v.taken, t)]
    BY <1>3 DEF GB!Try
  <2> HIDE DEF p
  <2> QED
    BY <2>1, <2>2 DEF Trials
<1> QED
  BY <1>2, <1>3

Tries(g, tokens, r) ==
  /\ r[0] = FirstTry(g)
  /\ \A k \in 1..Len(tokens) : r[k] = GB!Try(r[k - 1], tokens[k])
  /\ GB!ValidateTokens(g, tokens) = IF g.flag THEN <<>> ELSE r[Len(tokens)].taken

(* Validating tokens tries one after the other.                             *)
LEMMA TryRuns ==
  ASSUME NEW g \in Matchers, NEW tokens \in Seq(GrammarTokens)
  PROVE  \E r : Tries(g, tokens, r)
<1> DEFINE n == Len(tokens)
           step == [x \in Trials \X (1..n) |-> GB!Try(x[1], tokens[x[2]])]
           Is(h) == h = [s \in SUBSET DOMAIN tokens |->
                           IF s = {} THEN FirstTry(g)
                           ELSE GB!Try(h[s \ {GB!Max(s)}], tokens[GB!Max(s)])]
           it == CHOOSE h : Is(h)
<1>0. /\ n \in Nat /\ DOMAIN tokens = 1..n
      /\ \A k \in 1..n : tokens[k] \in GrammarTokens
  OBVIOUS
<1>a. FirstTry(g) \in Trials
  BY DEF Matchers, Trials, FirstTry
<1>1. step \in [Trials \X (1..n) -> Trials]
  BY <1>0, TryType
<1>2. PICK h \in [SUBSET (1..n) -> Trials] :
        \A s \in SUBSET (1..n) : h[s] = Folded(FirstTry(g), step, h, s)
  <2> HIDE DEF step, n
  <2>1. HasFold(Trials, FirstTry(g), n, step)
    BY <1>0, <1>a, <1>1, FoldExists, Zenon
  <2> QED
    BY <2>1 DEF HasFold
<1>3. Is(h)
  <2>1. ASSUME NEW s \in SUBSET (1..n)
        PROVE  h[s] = IF s = {} THEN FirstTry(g)
                      ELSE GB!Try(h[s \ {GB!Max(s)}], tokens[GB!Max(s)])
    <3>1. CASE s = {}
      BY <1>2, <3>1 DEF Folded
    <3>2. CASE s # {}
      <4> DEFINE m == GB!Max(s)
      <4>1. m \in 1..n /\ s \ {m} \in SUBSET (1..n)
        BY <1>0, <3>2, MaxIs
      <4>2. h[s] = step[<<h[s \ {m}], m>>]
        BY <1>2, <3>2 DEF Folded
      <4>3. h[s \ {m}] \in Trials
        BY <4>1, <1>2
      <4> HIDE DEF m
      <4>4. step[<<h[s \ {m}], m>>] = GB!Try(h[s \ {m}], tokens[m])
        BY <4>1, <4>3
      <4>5. h[s] = GB!Try(h[s \ {m}], tokens[m])
        BY <4>2, <4>4
      <4> QED
        BY <4>5, <3>2 DEF m
    <3> QED
      BY <3>1, <3>2
  <2>2. h = [s \in SUBSET (1..n) |-> h[s]]
    BY <1>2
  <2> QED
    BY <2>1, <2>2, <1>0
<1>4. Is(it)
  <2> HIDE DEF Is
  <2> QED
    BY <1>3
<1>5. GB!ValidateTokens(g, tokens) = IF g.flag THEN <<>> ELSE it[1..n].taken
  BY <1>0 DEF FirstTry, GB!ValidateTokens, GB!FoldLeft, GB!MapThenFoldSet
<1> DEFINE r == [k \in 0..n |-> it[1..k]]
<1>6. it[1..0] = FirstTry(g)
  <2>1. 1..0 = {} /\ 1..0 \in SUBSET DOMAIN tokens
    OBVIOUS
  <2> HIDE DEF it
  <2> QED
    BY <1>4, <2>1
<1>7. ASSUME NEW k \in 1..n
      PROVE  it[1..k] = GB!Try(it[1..(k - 1)], tokens[k])
  <2> HIDE DEF it, n
  <2>1. /\ 1..k \in SUBSET (1..n) /\ 1..k # {}
        /\ GB!Max(1..k) = k /\ (1..k) \ {k} = 1..(k - 1)
    BY <1>0, FirstNumbers
  <2>2. it[1..k] = GB!Try(it[(1..k) \ {GB!Max(1..k)}], tokens[GB!Max(1..k)])
    BY <1>0, <1>4, <2>1
  <2> QED
    BY <2>1, <2>2
<1>8. Tries(g, tokens, r)
  <2> HIDE DEF it
  <2>1. r[0] = FirstTry(g)
    BY <1>0, <1>6
  <2>2. \A k \in 1..n : r[k] = GB!Try(r[k - 1], tokens[k])
    BY <1>0, <1>7
  <2>3. r[n] = it[1..n]
    BY <1>0
  <2> HIDE DEF r
  <2> QED
    BY <2>1, <2>2, <2>3, <1>5 DEF Tries
<1> QED
  BY <1>8

(* A single token.                                                          *)
LEMMA SingleToken ==
  ASSUME NEW g \in Matchers, NEW t \in GrammarTokens
  PROVE  /\ GB!AcceptTokens(g, <<t>>) = GB!AcceptOne(g, t)
         /\ ~g.flag => (GB!ValidateTokens(g, <<t>>) = <<>> <=> t \notin GB!Legal(g.path))
<1>1. <<t>> \in Seq(GrammarTokens) /\ Len(<<t>>) = 1 /\ <<t>>[1] = t
  OBVIOUS
<1>2. PICK r : Accepts(g, <<t>>, r)
  BY <1>1, AcceptRuns
<1>3. GB!AcceptTokens(g, <<t>>) = GB!AcceptOne(g, t)
  <2>1. r[0] = g /\ GB!AcceptTokens(g, <<t>>) = r[1]
    BY <1>1, <1>2 DEF Accepts
  <2>2. r[1] = GB!AcceptOne(r[1 - 1], <<t>>[1])
    BY <1>1, <1>2 DEF Accepts
  <2> QED
    BY <1>1, <2>1, <2>2
<1>4. PICK v : Tries(g, <<t>>, v)
  BY <1>1, TryRuns
<1>5. v[1] = GB!Try(FirstTry(g), t)
  <2>1. v[0] = FirstTry(g)
    BY <1>4 DEF Tries
  <2>2. v[1] = GB!Try(v[1 - 1], <<t>>[1])
    BY <1>1, <1>4 DEF Tries
  <2> QED
    BY <1>1, <2>1, <2>2
<1>6. ASSUME ~g.flag
      PROVE  GB!ValidateTokens(g, <<t>>) = GB!Try(FirstTry(g), t).taken
  <2>1. GB!ValidateTokens(g, <<t>>) = v[1].taken
    BY <1>1, <1>4, <1>6 DEF Tries
  <2> QED
    BY <1>5, <2>1
<1>7. GB!Try(FirstTry(g), t).taken = <<>> <=> t \notin GB!Legal(g.path)
  <2>1. CASE t \notin GB!Legal(g.path)
    BY <2>1 DEF GB!Try, FirstTry
  <2>2. CASE t \in GB!Legal(g.path)
    <3>1. GB!Try(FirstTry(g), t).taken = Append(<<>>, t)
      BY <2>2 DEF GB!Try, FirstTry
    <3> QED
      BY <2>2, <3>1
  <2> QED
    BY <2>1, <2>2
<1> QED
  BY <1>3, <1>6, <1>7

(* The matcher after one more token of a window.                            *)
Walk(g, t) ==
  IF t \in GB!Legal(g.path)
    THEN GB!Grammar(GB!Step(g.path, t), GB!Over(GB!Step(g.path, t)), g.count + 1, TRUE)
    ELSE [g EXCEPT !.ok = TRUE]

Mask(w) == IF w.active /\ ~w.grammar.flag THEN GB!Legal(w.grammar.path) ELSE GrammarTokens

Windows == [grammar : {g \in Matchers : g.ok}, active : BOOLEAN, late : BOOLEAN,
            masks : Seq(SUBSET GrammarTokens), advanced : Int, failed : BOOLEAN]

(* What filling one mask does, whoever proposed the draft.                  *)
Filled(w, t, v) ==
  /\ v.masks = Append(w.masks, Mask(w))
  /\ v.active <=> (w.active \/ t = GrammarThought)
  /\ ~w.active \/ w.grammar.flag =>
       /\ v.grammar = w.grammar /\ v.advanced = w.advanced
       /\ v.failed = w.failed
       /\ v.late <=> v.active /\ (w.late \/ ~w.active)
  /\ w.active /\ ~w.grammar.flag =>
       /\ v.grammar = Walk(w.grammar, t) /\ (v.late <=> w.late)
       /\ v.advanced = w.advanced + (IF t \in GB!Legal(w.grammar.path) THEN 1 ELSE 0)
       /\ v.failed <=> w.failed \/ (t \notin GB!Legal(w.grammar.path) /\ ~w.late)

(* Setting what is set already changes nothing.                             *)
LEMMA StaysOk ==
  ASSUME NEW g \in Matchers, g.ok
  PROVE  [g EXCEPT !.ok = TRUE] = g
BY DEF Matchers

(* Filling one mask does that.                                              *)
LEMMA FillOneIs ==
  ASSUME NEW w \in Windows, NEW t \in GrammarTokens
  PROVE  Filled(w, t, GB!FillOne(w, t)) /\ GB!FillOne(w, t) \in Windows
<1> DEFINE g == w.grammar
           active == w.active \/ t = GrammarThought
           taken == IF w.late /\ GB!ValidateTokens(g, <<t>>) = <<>>
                      THEN [g EXCEPT !.ok = FALSE] ELSE GB!AcceptTokens(g, <<t>>)
<1>1. /\ g \in Matchers /\ g.path \in Paths /\ w.active \in BOOLEAN /\ w.late \in BOOLEAN
      /\ w.failed \in BOOLEAN /\ g.flag \in BOOLEAN /\ g.ok /\ w.advanced \in Int
      /\ w.masks \in Seq(SUBSET GrammarTokens)
  BY DEF Windows, Matchers
<1>a. Append(w.masks, Mask(w)) \in Seq(SUBSET GrammarTokens)
  <2>1. Mask(w) \in SUBSET GrammarTokens
    BY <1>1, LegalType DEF Mask
  <2> QED
    BY <1>1, <2>1
<1>2. CASE ~w.active \/ g.flag
  <2>1. GB!FillOne(w, t) =
          [w EXCEPT !.masks = Append(w.masks, Mask(w)), !.active = active,
                    !.late = active /\ (w.late \/ ~w.active)]
    BY <1>2 DEF GB!FillOne, Mask
  <2>2. GB!FillOne(w, t) \in Windows
    BY <1>1, <1>a, <2>1 DEF Windows
  <2>3. Filled(w, t, GB!FillOne(w, t))
    BY <1>1, <1>2, <2>1 DEF Filled, Windows
  <2> QED
    BY <2>2, <2>3
<1>3. CASE w.active /\ ~g.flag
  <2>1. taken = IF t \in GB!Legal(g.path) THEN Walk(g, t) ELSE [g EXCEPT !.ok = FALSE]
    <3>1. GB!AcceptTokens(g, <<t>>) = GB!AcceptOne(g, t)
          /\ (GB!ValidateTokens(g, <<t>>) = <<>> <=> t \notin GB!Legal(g.path))
      BY <1>1, <1>3, SingleToken
    <3>2. GB!AcceptOne(g, t)
            = IF t \in GB!Legal(g.path) THEN Walk(g, t) ELSE [g EXCEPT !.ok = FALSE]
      BY <1>1, <1>3 DEF GB!AcceptOne, Walk
    <3> QED
      BY <3>1, <3>2
  <2>2. /\ taken.ok <=> t \in GB!Legal(g.path)
        /\ [taken EXCEPT !.ok = TRUE] = Walk(g, t)
    <3>1. CASE t \in GB!Legal(g.path)
      <4>1. taken = Walk(g, t)
        BY <2>1, <3>1
      <4>2. taken.ok
        BY <3>1, <4>1 DEF Walk, GB!Grammar
      <4>3. taken \in Matchers
        <5>1. Walk(g, t) = GB!AcceptOne(g, t)
          BY <1>1, <1>3, <3>1 DEF GB!AcceptOne, Walk
        <5> QED
          BY <1>1, <4>1, <5>1, AcceptOneType
      <4> HIDE DEF taken
      <4>4. [taken EXCEPT !.ok = TRUE] = taken
        BY <4>2, <4>3, StaysOk
      <4> QED
        BY <3>1, <4>1, <4>2, <4>4
    <3>2. CASE t \notin GB!Legal(g.path)
      BY <1>1, <2>1, <3>2 DEF Walk, Matchers
    <3> QED
      BY <3>1, <3>2
  <2>3. GB!FillOne(w, t) =
          [w EXCEPT !.masks = Append(w.masks, Mask(w)),
                    !.grammar = [taken EXCEPT !.ok = TRUE],
                    !.advanced = w.advanced + (IF taken.ok THEN 1 ELSE 0),
                    !.failed = w.failed \/ (~taken.ok /\ ~w.late)]
    BY <1>3 DEF GB!FillOne, Mask
  <2>4. Walk(g, t) \in Matchers /\ Walk(g, t).ok
    <3>1. CASE t \in GB!Legal(g.path)
      <4>1. Walk(g, t) = GB!AcceptOne(g, t)
        BY <1>1, <1>3, <3>1 DEF GB!AcceptOne, Walk
      <4>2. Walk(g, t).ok
        BY <3>1 DEF Walk, GB!Grammar
      <4> QED
        BY <1>1, <4>1, <4>2, AcceptOneType
    <3>2. CASE t \notin GB!Legal(g.path)
      <4>1. Walk(g, t) = g
        BY <1>1, <3>2, StaysOk DEF Walk
      <4> QED
        BY <1>1, <4>1
    <3> QED
      BY <3>1, <3>2
  <2> HIDE DEF taken
  <2>5. GB!FillOne(w, t) \in Windows
    <3> DEFINE n == w.advanced + (IF taken.ok THEN 1 ELSE 0)
               bad == w.failed \/ (~taken.ok /\ ~w.late)
               masks == Append(w.masks, Mask(w))
               walked == [taken EXCEPT !.ok = TRUE]
    <3>1. GB!FillOne(w, t) = [w EXCEPT !.masks = masks, !.grammar = walked,
                                       !.advanced = n, !.failed = bad]
      BY <2>3
    <3>2. /\ n \in Int /\ bad \in BOOLEAN /\ masks \in Seq(SUBSET GrammarTokens)
          /\ walked \in {m \in Matchers : m.ok}
      BY <1>1, <1>a, <2>2, <2>4
    <3> HIDE DEF n, bad, masks, walked
    <3> QED
      BY <3>1, <3>2 DEF Windows
  <2>6. Filled(w, t, GB!FillOne(w, t))
    BY <1>1, <1>3, <2>2, <2>3 DEF Filled, Windows
  <2> QED
    BY <2>5, <2>6
<1> QED
  BY <1>1, <1>2, <1>3

(* The masks of a step are filled one after the other.                      *)
FirstMask(g, thinks) ==
  [grammar |-> g, active |-> ~thinks, late |-> FALSE, masks |-> <<>>,
   advanced |-> 0, failed |-> FALSE]

Fills(g, thinks, d, r) ==
  /\ r[0] = FirstMask(g, thinks)
  /\ \A k \in 1..Len(d) : r[k] = GB!FillOne(r[k - 1], d[k])

WindowIs(r) == Fills(GB!Now, thinking, drafts, r) /\ GB!Window = r[Len(drafts)]

(* So the window goes through every draft.                                  *)
LEMMA WindowRuns ==
  ASSUME GB!Now \in {g \in Matchers : g.ok}, thinking \in BOOLEAN,
         drafts \in Seq(GrammarTokens)
  PROVE  \E r : WindowIs(r)
<1> DEFINE n == Len(drafts)
           step == [x \in Windows \X (1..n) |-> GB!FillOne(x[1], drafts[x[2]])]
           Is(h) == h = [s \in SUBSET DOMAIN drafts |->
                           IF s = {} THEN FirstMask(GB!Now, thinking)
                           ELSE GB!FillOne(h[s \ {GB!Max(s)}], drafts[GB!Max(s)])]
           it == CHOOSE h : Is(h)
<1>0. /\ n \in Nat /\ DOMAIN drafts = 1..n
      /\ \A k \in 1..n : drafts[k] \in GrammarTokens
  OBVIOUS
<1>a. FirstMask(GB!Now, thinking) \in Windows
  BY DEF Windows, FirstMask
<1>1. step \in [Windows \X (1..n) -> Windows]
  BY <1>0, FillOneIs
<1>2. PICK h \in [SUBSET (1..n) -> Windows] :
        \A s \in SUBSET (1..n) : h[s] = Folded(FirstMask(GB!Now, thinking), step, h, s)
  <2> HIDE DEF step, n
  <2>1. HasFold(Windows, FirstMask(GB!Now, thinking), n, step)
    BY <1>0, <1>a, <1>1, FoldExists, Zenon
  <2> QED
    BY <2>1 DEF HasFold
<1>3. Is(h)
  <2>1. ASSUME NEW s \in SUBSET (1..n)
        PROVE  h[s] = IF s = {} THEN FirstMask(GB!Now, thinking)
                      ELSE GB!FillOne(h[s \ {GB!Max(s)}], drafts[GB!Max(s)])
    <3>1. CASE s = {}
      BY <1>2, <3>1 DEF Folded
    <3>2. CASE s # {}
      <4> DEFINE m == GB!Max(s)
      <4>1. m \in 1..n /\ s \ {m} \in SUBSET (1..n)
        BY <1>0, <3>2, MaxIs
      <4>2. h[s] = step[<<h[s \ {m}], m>>]
        BY <1>2, <3>2 DEF Folded
      <4>3. h[s \ {m}] \in Windows
        BY <4>1, <1>2
      <4> HIDE DEF m
      <4>4. step[<<h[s \ {m}], m>>] = GB!FillOne(h[s \ {m}], drafts[m])
        BY <4>1, <4>3
      <4>5. h[s] = GB!FillOne(h[s \ {m}], drafts[m])
        BY <4>2, <4>4
      <4> QED
        BY <4>5, <3>2 DEF m
    <3> QED
      BY <3>1, <3>2
  <2>2. h = [s \in SUBSET (1..n) |-> h[s]]
    BY <1>2
  <2> QED
    BY <2>1, <2>2, <1>0
<1>4. Is(it)
  <2> HIDE DEF Is
  <2> QED
    BY <1>3
<1>5. GB!Window = it[1..n]
  BY <1>0 DEF FirstMask, GB!Window, GB!FoldLeft, GB!MapThenFoldSet
<1> DEFINE r == [k \in 0..n |-> it[1..k]]
<1>6. it[1..0] = FirstMask(GB!Now, thinking)
  <2>1. 1..0 = {} /\ 1..0 \in SUBSET DOMAIN drafts
    OBVIOUS
  <2> HIDE DEF it
  <2> QED
    BY <1>4, <2>1
<1>7. ASSUME NEW k \in 1..n
      PROVE  it[1..k] = GB!FillOne(it[1..(k - 1)], drafts[k])
  <2> HIDE DEF it, n
  <2>1. /\ 1..k \in SUBSET (1..n) /\ 1..k # {}
        /\ GB!Max(1..k) = k /\ (1..k) \ {k} = 1..(k - 1)
    BY <1>0, FirstNumbers
  <2>2. it[1..k] = GB!FillOne(it[(1..k) \ {GB!Max(1..k)}], drafts[GB!Max(1..k)])
    BY <1>0, <1>4, <2>1
  <2> QED
    BY <2>1, <2>2
<1>8. WindowIs(r)
  <2> HIDE DEF it
  <2>1. r[0] = FirstMask(GB!Now, thinking)
    BY <1>0, <1>6
  <2>2. \A k \in 1..n : r[k] = GB!FillOne(r[k - 1], drafts[k])
    BY <1>0, <1>7
  <2>3. r[n] = it[1..n]
    BY <1>0
  <2> HIDE DEF r
  <2> QED
    BY <2>1, <2>2, <2>3, <1>5 DEF WindowIs, Fills
<1> QED
  BY <1>8

(* A matcher is in step with its flag and its count, and was advanced from  *)
(* the path "p".                                                            *)
InStep(g) == (g.flag <=> GB!Over(g.path)) /\ g.count = Len(g.path) - 1
Advanced(w, p) ==
  /\ InStep(w.grammar)
  /\ w.advanced \in Nat /\ Len(w.grammar.path) = Len(p) + w.advanced
  /\ SubSeq(w.grammar.path, 1, Len(p)) = p

(* Sequences with the same elements are the same.                           *)
LEMMA SeqEqualParts ==
  ASSUME NEW X, NEW a \in Seq(X), NEW b \in Seq(X), Len(a) = Len(b),
         \A i \in 1..Len(b) : a[i] = b[i]
  PROVE  a = b
OBVIOUS

(* One more legal token.                                                    *)
LEMMA WalkAdvances ==
  ASSUME NEW g \in Matchers, InStep(g), NEW p \in Paths, NEW a \in Nat,
         Len(g.path) = Len(p) + a, SubSeq(g.path, 1, Len(p)) = p,
         NEW t \in GB!Legal(g.path)
  PROVE  /\ InStep(Walk(g, t)) /\ Len(Walk(g, t).path) = Len(p) + (a + 1)
         /\ SubSeq(Walk(g, t).path, 1, Len(p)) = p
<1> DEFINE q == GB!Step(g.path, t)
<1>1. g.path \in Paths /\ g.count \in Int
  BY DEF Matchers
<1>2. q \in Paths /\ Len(q) = Len(g.path) + 1 /\ SubSeq(q, 1, Len(g.path)) = g.path
  BY <1>1, StepType
<1>3. Walk(g, t) = [path |-> q, flag |-> GB!Over(q), count |-> g.count + 1, ok |-> TRUE]
  BY DEF Walk, GB!Grammar
<1> HIDE DEF q
<1>4. InStep(Walk(g, t)) /\ Walk(g, t).path = q
  <2>1. Len(g.path) \in Nat /\ g.count = Len(g.path) - 1
    BY <1>1 DEF InStep, Paths
  <2>2. g.count + 1 = Len(q) - 1
    BY <1>2, <2>1
  <2> DEFINE f == GB!Over(q)
             c == g.count + 1
  <2>3. Walk(g, t) = [path |-> q, flag |-> f, count |-> c, ok |-> TRUE]
    BY <1>3
  <2> HIDE DEF f, c
  <2>4. Walk(g, t).path = q /\ (Walk(g, t).flag <=> f) /\ Walk(g, t).count = c
    BY <2>3
  <2> QED
    BY <2>2, <2>4 DEF InStep, f, c
<1>5. Len(q) = Len(p) + (a + 1)
  BY <1>1, <1>2 DEF Paths
<1>6. SubSeq(q, 1, Len(p)) = p
  <2>1. /\ p \in Seq(States) /\ q \in Seq(States) /\ g.path \in Seq(States)
        /\ Len(p) <= Len(g.path)
    BY <1>1, <1>2 DEF Paths
  <2>2. \A i \in 1..Len(g.path) : q[i] = g.path[i]
    <3>1. \A i \in 1..Len(g.path) : SubSeq(q, 1, Len(g.path))[i] = q[i]
      BY <1>2, <2>1
    <3> QED
      BY <1>2, <3>1
  <2>3. \A i \in 1..Len(p) : g.path[i] = p[i]
    <3>1. \A i \in 1..Len(p) : SubSeq(g.path, 1, Len(p))[i] = g.path[i]
      BY <2>1
    <3> QED
      BY <3>1
  <2>4. Len(SubSeq(q, 1, Len(p))) = Len(p)
        /\ \A i \in 1..Len(p) : SubSeq(q, 1, Len(p))[i] = q[i]
    BY <1>2, <2>1
  <2>5. SubSeq(q, 1, Len(p)) \in Seq(States)
    BY <1>2, <2>1
  <2>6. \A i \in 1..Len(p) : SubSeq(q, 1, Len(p))[i] = p[i]
    BY <2>1, <2>2, <2>3, <2>4
  <2> QED
    BY <2>1, <2>4, <2>5, <2>6, SeqEqualParts
<1> QED
  BY <1>4, <1>5, <1>6

(* Filling a mask leaves the matcher in step.                               *)
LEMMA FilledAdvances ==
  ASSUME NEW w \in Windows, NEW p \in Paths, Advanced(w, p), NEW t, NEW v,
         Filled(w, t, v)
  PROVE  Advanced(v, p)
<1>1. w.grammar \in Matchers /\ w.grammar.ok /\ w.active \in BOOLEAN
      /\ w.grammar.flag \in BOOLEAN
  BY DEF Windows, Matchers
<1>2. CASE ~w.active \/ w.grammar.flag
  BY <1>2 DEF Filled, Advanced
<1>3. CASE w.active /\ ~w.grammar.flag /\ t \in GB!Legal(w.grammar.path)
  <2>1. v.grammar = Walk(w.grammar, t) /\ v.advanced = w.advanced + 1
    BY <1>3 DEF Filled
  <2>2. /\ InStep(v.grammar) /\ Len(v.grammar.path) = Len(p) + (w.advanced + 1)
        /\ SubSeq(v.grammar.path, 1, Len(p)) = p
    <3> DEFINE g == w.grammar
    <3>1. /\ g \in Matchers /\ InStep(g) /\ w.advanced \in Nat
          /\ Len(g.path) = Len(p) + w.advanced /\ SubSeq(g.path, 1, Len(p)) = p
          /\ t \in GB!Legal(g.path)
      BY <1>1, <1>3 DEF Advanced
    <3> HIDE DEF g
    <3>2. /\ InStep(Walk(g, t)) /\ Len(Walk(g, t).path) = Len(p) + (w.advanced + 1)
          /\ SubSeq(Walk(g, t).path, 1, Len(p)) = p
      BY <3>1, WalkAdvances
    <3>3. v.grammar = Walk(g, t)
      BY <2>1 DEF g
    <3> QED
      BY <3>2, <3>3
  <2> QED
    BY <2>1, <2>2 DEF Advanced
<1>4. CASE w.active /\ ~w.grammar.flag /\ t \notin GB!Legal(w.grammar.path)
  <2>1. v.grammar = w.grammar
    <3>1. v.grammar = [w.grammar EXCEPT !.ok = TRUE]
      BY <1>4 DEF Filled, Walk
    <3> QED
      BY <1>1, <3>1, StaysOk
  <2>2. v.advanced = w.advanced + 0
    BY <1>4 DEF Filled
  <2> QED
    BY <2>1, <2>2 DEF Advanced
<1> QED
  BY <1>1, <1>2, <1>3, <1>4

(* How a window begins.                                                     *)
LEMMA FirstMaskIs ==
  ASSUME NEW g, NEW thinks \in BOOLEAN
  PROVE  /\ FirstMask(g, thinks).grammar = g
         /\ ~FirstMask(g, thinks).failed
         /\ FirstMask(g, thinks).active <=> ~thinks
BY DEF FirstMask

(* What holds at every mask of a window: each is filled from the one before *)
(* it, and the matcher stays in step.                                       *)
WindowKept(g, thinks, d, r) ==
  /\ r[0] = FirstMask(g, thinks)
  /\ \A k \in 0..Len(d) : /\ r[k] \in Windows /\ Advanced(r[k], g.path)
                          /\ Len(r[k].masks) = k
                          /\ \A i \in 1..k : r[k].masks[i] = Mask(r[i - 1])
  /\ \A k \in 1..Len(d) : Filled(r[k - 1], d[k], r[k])

(* Every window is kept so.                                                 *)
LEMMA WindowAlong ==
  ASSUME NEW g \in Matchers, g.ok, InStep(g), NEW thinks \in BOOLEAN,
         NEW d \in Seq(GrammarTokens), NEW r, Fills(g, thinks, d, r)
  PROVE  WindowKept(g, thinks, d, r)
<1> DEFINE n == Len(d)
           Good(k) == /\ r[k] \in Windows /\ Advanced(r[k], g.path)
                      /\ Len(r[k].masks) = k
                      /\ \A i \in 1..k : r[k].masks[i] = Mask(r[i - 1])
<1>1. /\ n \in Nat /\ \A k \in 1..n : d[k] \in GrammarTokens
      /\ r[0] = FirstMask(g, thinks) /\ \A k \in 1..n : r[k] = GB!FillOne(r[k - 1], d[k])
  BY DEF Fills
<1>2. g.path \in Paths
  BY DEF Matchers
<1>3. Good(0)
  <2>1. r[0] \in Windows
    BY <1>1 DEF FirstMask, Windows
  <2>2. /\ r[0].grammar = g /\ r[0].advanced = 0 /\ r[0].masks = <<>>
    BY <1>1 DEF FirstMask
  <2>3. SubSeq(g.path, 1, Len(g.path)) = g.path /\ Len(g.path) = Len(g.path) + 0
    <3>1. g.path \in Seq(States)
      BY <1>2 DEF Paths
    <3>2. Len(SubSeq(g.path, 1, Len(g.path))) = Len(g.path)
          /\ SubSeq(g.path, 1, Len(g.path)) \in Seq(States)
          /\ \A i \in 1..Len(g.path) : SubSeq(g.path, 1, Len(g.path))[i] = g.path[i]
      BY <3>1
    <3>3. SubSeq(g.path, 1, Len(g.path)) = g.path
      BY <3>1, <3>2, SeqEqualParts
    <3> QED
      BY <3>1, <3>3
  <2>4. Advanced(r[0], g.path)
    BY <2>2, <2>3 DEF Advanced
  <2>5. Len(r[0].masks) = 0 /\ 1..0 = {}
    BY <2>2
  <2> QED
    BY <2>1, <2>4, <2>5
<1>4. ASSUME NEW k \in 0..n, k < n, r[k] \in Windows
      PROVE  /\ k + 1 \in 1..n /\ (k + 1) - 1 = k
             /\ Filled(r[k], d[k + 1], r[k + 1]) /\ r[k + 1] \in Windows
  <2>1. k + 1 \in 1..n /\ (k + 1) - 1 = k
    BY <1>1, <1>4
  <2>2. r[k + 1] = GB!FillOne(r[k], d[k + 1]) /\ d[k + 1] \in GrammarTokens
    BY <1>1, <2>1
  <2> QED
    BY <2>1, <2>2, <1>4, FillOneIs
<1>5. ASSUME NEW k \in 0..n, k < n, Good(k)
      PROVE  Good(k + 1)
  <2>1. Filled(r[k], d[k + 1], r[k + 1]) /\ r[k + 1] \in Windows
    BY <1>4, <1>5
  <2>2. Advanced(r[k + 1], g.path)
    BY <1>2, <1>5, <2>1, FilledAdvances
  <2> DEFINE ms == r[k].masks
             m == Mask(r[k])
  <2>3. r[k + 1].masks = Append(ms, m)
    BY <2>1 DEF Filled
  <2>4. ms \in Seq(SUBSET GrammarTokens) /\ Len(ms) = k
        /\ \A i \in 1..k : ms[i] = Mask(r[i - 1])
    BY <1>5 DEF Windows
  <2>5. m \in SUBSET GrammarTokens
    <3>1. r[k].grammar.path \in Paths
      BY <1>5 DEF Windows, Matchers
    <3> QED
      BY <3>1, LegalType DEF Mask
  <2>6. m = Mask(r[(k + 1) - 1]) /\ k \in Nat
    BY <1>1, <1>4, <1>5
  <2> HIDE DEF ms, m
  <2>7. /\ Len(Append(ms, m)) = k + 1 /\ Append(ms, m)[k + 1] = m
        /\ \A i \in 1..k : Append(ms, m)[i] = ms[i]
    BY <2>4, <2>5
  <2>8. \A i \in 1..(k + 1) : Append(ms, m)[i] = Mask(r[i - 1])
    <3>1. \A i \in 1..(k + 1) : i \in 1..k \/ i = k + 1
      BY <2>6
    <3> QED
      BY <3>1, <2>4, <2>6, <2>7
  <2> QED
    BY <2>1, <2>2, <2>3, <2>7, <2>8
<1>6. \A k \in 0..n : Good(k)
  <2> DEFINE S == {k \in 0..n : Good(k)}
  <2> HIDE DEF Good
  <2>1. 0 \in S
    BY <1>1, <1>3
  <2>2. \A k \in 0..n : k < n /\ k \in S => k + 1 \in S
    <3>1. ASSUME NEW k \in 0..n, k < n, k \in S PROVE k + 1 \in S
      <4>1. Good(k + 1)
        BY <1>5, <3>1
      <4>2. k + 1 \in 0..n
        BY <1>1, <3>1
      <4> QED
        BY <4>1, <4>2
    <3> QED
      BY <3>1
  <2> HIDE DEF S
  <2>3. 0..n \subseteq S
    BY <1>1, <2>1, <2>2, Along
  <2> QED
    BY <2>3 DEF S
<1>7. ASSUME NEW k \in 1..n
      PROVE  Filled(r[k - 1], d[k], r[k])
  <2>1. k - 1 \in 0..n /\ k - 1 < n /\ (k - 1) + 1 = k
    BY <1>1
  <2>2. r[k - 1] \in Windows
    BY <1>6, <2>1
  <2> QED
    BY <1>4, <2>1, <2>2
<1> QED
  BY <1>1, <1>6, <1>7 DEF WindowKept

(* Drafts every one of which is legal after the ones before it.             *)
LegalRun(p, d) ==
  \E q : q[0] = p /\ \A k \in 1..Len(d) : /\ d[k] \in GB!Legal(q[k - 1])
                                          /\ q[k] = GB!Step(q[k - 1], d[k])

(* A window in which the reasoning ends counts no refusal: everything after *)
(* the end is tried first.                                                  *)
LEMMA LateNeverFails ==
  ASSUME NEW g, NEW d \in Seq(GrammarTokens), NEW r, WindowKept(g, TRUE, d, r)
  PROVE  ~r[Len(d)].failed
<1> DEFINE n == Len(d)
           S == {k \in 0..n : ~r[k].failed /\ (r[k].active => r[k].late)}
<1>1. n \in Nat
  OBVIOUS
<1>2. 0 \in S
  <2>0. r[0] = FirstMask(g, TRUE)
    BY DEF WindowKept
  <2>1. ~r[0].failed /\ ~r[0].active
    <3>1. ~FirstMask(g, TRUE).failed /\ ~FirstMask(g, TRUE).active
      BY FirstMaskIs
    <3> QED
      BY <2>0, <3>1
  <2> QED
    BY <1>1, <2>1
<1>3. ASSUME NEW k \in 0..n, k < n, k \in S
      PROVE  k + 1 \in S
  <2>1. k + 1 \in 1..n /\ (k + 1) - 1 = k /\ k + 1 \in 0..n
    BY <1>1, <1>3
  <2>2. Filled(r[k], d[k + 1], r[k + 1]) /\ r[k] \in Windows
    BY <2>1 DEF WindowKept
  <2>3. ~r[k].failed /\ (r[k].active => r[k].late)
    BY <1>3
  <2>4. ~r[k + 1].failed /\ (r[k + 1].active => r[k + 1].late)
    BY <2>2, <2>3 DEF Filled
  <2> QED
    BY <2>1, <2>4
<1>4. 0..n \subseteq S
  <2> HIDE DEF S, n
  <2> QED
    BY <1>1, <1>2, <1>3, Along
<1>5. n \in 0..n
  BY <1>1
<1> QED
  BY <1>4, <1>5

(* Validated drafts are all taken.                                          *)
LEMMA ValidNeverFails ==
  ASSUME NEW g, NEW d \in Seq(GrammarTokens), NEW r, WindowKept(g, FALSE, d, r),
         LegalRun(g.path, d)
  PROVE  ~r[Len(d)].failed
<1>0. PICK q : q[0] = g.path /\ \A k \in 1..Len(d) : /\ d[k] \in GB!Legal(q[k - 1])
                                                   /\ q[k] = GB!Step(q[k - 1], d[k])
  BY DEF LegalRun
<1> DEFINE n == Len(d)
           S == {k \in 0..n : ~r[k].failed /\ r[k].active /\ r[k].grammar.path = q[k]}
<1>1. n \in Nat
  OBVIOUS
<1>2. 0 \in S
  <2>1. ~r[0].failed /\ r[0].active /\ r[0].grammar.path = q[0]
    <3>1. r[0] = FirstMask(g, FALSE)
      BY DEF WindowKept
    <3>2. r[0].grammar = g /\ ~r[0].failed /\ r[0].active
      <4>1. /\ FirstMask(g, FALSE).grammar = g /\ ~FirstMask(g, FALSE).failed
            /\ FirstMask(g, FALSE).active
        BY FirstMaskIs
      <4> QED
        BY <3>1, <4>1
    <3> QED
      BY <1>0, <3>2
  <2> QED
    BY <1>1, <2>1
<1>3. ASSUME NEW k \in 0..n, k < n, k \in S
      PROVE  k + 1 \in S
  <2>1. k + 1 \in 1..n /\ (k + 1) - 1 = k /\ k + 1 \in 0..n
    BY <1>1, <1>3
  <2>2. Filled(r[k], d[k + 1], r[k + 1]) /\ InStep(r[k].grammar)
    BY <2>1 DEF WindowKept, Advanced
  <2>3. ~r[k].failed /\ r[k].active /\ r[k].grammar.path = q[k]
    BY <1>3
  <2>4. d[k + 1] \in GB!Legal(q[k]) /\ q[k + 1] = GB!Step(q[k], d[k + 1])
    BY <1>0, <2>1
  <2>5. ~r[k].grammar.flag
    BY <2>2, <2>3, <2>4 DEF InStep, GB!Legal
  <2>6. ~r[k + 1].failed /\ r[k + 1].active
    BY <2>2, <2>3, <2>4, <2>5 DEF Filled
  <2>7. r[k + 1].grammar.path = q[k + 1]
    <3>1. r[k + 1].grammar = Walk(r[k].grammar, d[k + 1])
      BY <2>2, <2>3, <2>5 DEF Filled
    <3>2. Walk(r[k].grammar, d[k + 1]).path = GB!Step(q[k], d[k + 1])
      BY <2>3, <2>4 DEF Walk, GB!Grammar
    <3> QED
      BY <3>1, <3>2, <2>4
  <2> QED
    BY <2>1, <2>6, <2>7
<1>4. 0..n \subseteq S
  <2> HIDE DEF S, n
  <2> QED
    BY <1>1, <1>2, <1>3, Along
<1>5. n \in 0..n
  BY <1>1
<1> QED
  BY <1>4, <1>5

(* A token of the mask is accepted the way the window walked over it.       *)
LEMMA OneFollows ==
  ASSUME NEW w \in Windows, w.active, NEW t \in Mask(w), NEW v, Filled(w, t, v)
  PROVE  GB!AcceptOne(w.grammar, t) = v.grammar /\ v.active
<1>1. w.grammar \in Matchers /\ w.grammar.ok
  BY DEF Windows
<1>2. v.active
  BY DEF Filled
<1>3. CASE w.grammar.flag
  BY <1>2, <1>3 DEF Filled, GB!AcceptOne
<1>4. CASE ~w.grammar.flag
  <2>1. t \in GB!Legal(w.grammar.path)
    BY <1>4 DEF Mask
  <2>2. v.grammar = Walk(w.grammar, t)
    BY <1>4 DEF Filled
  <2>3. GB!AcceptOne(w.grammar, t) = Walk(w.grammar, t)
    BY <1>1, <1>4, <2>1 DEF GB!AcceptOne, Walk
  <2> QED
    BY <1>2, <2>2, <2>3
<1> QED
  BY <1>3, <1>4

(* What a step may tell the grammar leaves it in step, with nothing refused.*)
Told(g, tokens) ==
  /\ GB!AcceptTokens(g, tokens) \in Matchers
  /\ GB!AcceptTokens(g, tokens).ok
  /\ InStep(GB!AcceptTokens(g, tokens))

(* Nothing told changes nothing.                                            *)
LEMMA ToldNothing ==
  ASSUME NEW g \in Matchers, g.ok, InStep(g)
  PROVE  Told(g, <<>>)
<1>1. <<>> \in Seq(GrammarTokens) /\ Len(<<>>) = 0
  OBVIOUS
<1>2. PICK a : Accepts(g, <<>>, a)
  BY <1>1, AcceptRuns
<1>3. GB!AcceptTokens(g, <<>>) = g
  BY <1>1, <1>2 DEF Accepts
<1> QED
  BY <1>3 DEF Told

(* From the mask "e" on the drafts sampled and the last token follow the    *)
(* window.                                                                  *)
Heard(g, d, r, n, e, told) ==
  /\ r[e].active /\ r[e].grammar = g
  /\ told \in Seq(GrammarTokens) /\ Len(told) = (n - e) + 1
  /\ \A j \in 1..(n - e) : told[j] = d[e + j]
  /\ \A j \in 1..((n - e) + 1) : told[j] \in Mask(r[(e + j) - 1])

(* Then it is told nothing that it refuses.                                 *)
LEMMA Follows ==
  ASSUME NEW g \in Matchers, g.ok, NEW thinks, NEW d \in Seq(GrammarTokens),
         NEW r, WindowKept(g, thinks, d, r),
         NEW n \in 0..Len(d), NEW e \in 0..n, NEW told, Heard(g, d, r, n, e, told)
  PROVE  Told(g, told)
<1> USE DEF Heard
<1> DEFINE m == n - e
<1>0. Len(d) \in Nat /\ n \in Nat /\ e \in Nat /\ m \in Nat /\ Len(told) = m + 1
  OBVIOUS
<1>1. PICK a : Accepts(g, told, a)
  BY AcceptRuns
<1> DEFINE S == {j \in 0..m : a[j] = r[e + j].grammar /\ r[e + j].active}
<1>2. 0 \in S
  <2>1. a[0] = g
    BY <1>1 DEF Accepts
  <2> QED
    BY <1>0, <2>1
<1>3. ASSUME NEW j \in 0..m, j < m, j \in S
      PROVE  j + 1 \in S
  <2> DEFINE k == e + j
  <2>1. /\ j + 1 \in 1..m /\ j + 1 \in 1..(m + 1) /\ (j + 1) - 1 = j /\ j + 1 \in 0..m
        /\ k \in 0..Len(d) /\ k + 1 \in 1..Len(d) /\ (k + 1) - 1 = k
        /\ e + (j + 1) = k + 1 /\ (e + (j + 1)) - 1 = k
    BY <1>0, <1>3
  <2> HIDE DEF k
  <2>2. r[k] \in Windows /\ Filled(r[k], d[k + 1], r[k + 1])
    BY <2>1 DEF WindowKept
  <2>3. told[j + 1] = d[k + 1] /\ told[j + 1] \in Mask(r[k])
    BY <2>1
  <2>4. a[j + 1] = GB!AcceptOne(a[j], told[j + 1])
    BY <1>0, <1>1, <2>1 DEF Accepts
  <2>5. a[j] = r[k].grammar /\ r[k].active
    BY <1>3 DEF k
  <2>6. GB!AcceptOne(r[k].grammar, d[k + 1]) = r[k + 1].grammar /\ r[k + 1].active
    BY <2>2, <2>3, <2>5, OneFollows
  <2>7. a[j + 1] = r[e + (j + 1)].grammar /\ r[e + (j + 1)].active
    BY <2>1, <2>3, <2>4, <2>5, <2>6
  <2> QED
    BY <2>1, <2>7
<1>4. 0..m \subseteq S
  <2> HIDE DEF S, m
  <2> QED
    BY <1>0, <1>2, <1>3, Along
<1>5. a[m] = r[n].grammar /\ r[n].active
  <2>1. m \in 0..m /\ e + m = n
    BY <1>0
  <2> QED
    BY <1>4, <2>1
<1>6. GB!AcceptTokens(g, told) = GB!AcceptOne(r[n].grammar, told[m + 1])
  <2>1. m + 1 \in 1..(m + 1) /\ (m + 1) - 1 = m
    BY <1>0
  <2>2. a[m + 1] = GB!AcceptOne(a[m], told[m + 1])
    BY <1>0, <1>1, <2>1 DEF Accepts
  <2>3. GB!AcceptTokens(g, told) = a[m + 1]
    BY <1>0, <1>1 DEF Accepts
  <2> QED
    BY <1>5, <2>2, <2>3
<1> DEFINE t == told[m + 1]
           v == GB!FillOne(r[n], t)
<1>7. t \in GrammarTokens /\ t \in Mask(r[n])
  <2>1. m + 1 \in 1..(m + 1) /\ (e + (m + 1)) - 1 = n /\ m + 1 \in 1..Len(told)
    BY <1>0
  <2> QED
    BY <2>1
<1>8. r[n] \in Windows /\ Advanced(r[n], g.path)
  BY <1>0 DEF WindowKept
<1> HIDE DEF t, m
<1>9. Filled(r[n], t, v) /\ v \in Windows
  BY <1>7, <1>8, FillOneIs
<1> HIDE DEF v
<1>10. GB!AcceptOne(r[n].grammar, t) = v.grammar
  BY <1>5, <1>7, <1>8, <1>9, OneFollows
<1>11. g.path \in Paths
  BY DEF Matchers
<1>12. InStep(v.grammar)
  <2>1. Advanced(v, g.path)
    BY <1>8, <1>9, <1>11, FilledAdvances
  <2> QED
    BY <2>1 DEF Advanced
<1>13. v.grammar \in Matchers /\ v.grammar.ok
  BY <1>9 DEF Windows
<1>14. GB!AcceptTokens(g, told) = v.grammar
  BY <1>6, <1>10 DEF t
<1> QED
  BY <1>12, <1>13, <1>14 DEF Told

(* The invariant: the masks of a step are those of a window over its        *)
(* drafts, and drafts proposed when the grammar is active are legal.        *)
GrammarTypeOK ==
  /\ path \in Paths /\ flag \in BOOLEAN /\ processed \in Int
  /\ thinking \in BOOLEAN /\ drafts \in Seq(GrammarTokens)

MasksFit(r) ==
  /\ Fills(GB!Now, thinking, drafts, r)
  /\ \A i \in 1..(Len(drafts) + 1) : allowed[i] = Mask(r[i - 1])

GrammarInv ==
  /\ GrammarTypeOK /\ GB!MatcherInStep
  /\ stage = "fill" /\ ~thinking => LegalRun(path, drafts)
  /\ stage = "sample" => \E r : MasksFit(r)

(* The grammar of the request as one matcher.                               *)
LEMMA NowIs ==
  ASSUME GrammarTypeOK, GB!FlagIsMatchers
  PROVE  /\ GB!Now \in Matchers /\ GB!Now.ok /\ InStep(GB!Now)
         /\ GB!Now.path = path /\ (GB!Now.flag <=> flag) /\ GB!Now.count = processed
<1>1. GB!Now = [path |-> path, flag |-> flag, count |-> processed, ok |-> TRUE]
  BY DEF GB!Now, GB!Grammar
<1>2. GB!Now \in Matchers /\ GB!Now.ok
  BY <1>1 DEF GrammarTypeOK, Matchers
<1>3. GB!Now.path = path /\ (GB!Now.flag <=> flag) /\ GB!Now.count = processed
  BY <1>1 DEF GrammarTypeOK
<1> QED
  BY <1>2, <1>3 DEF InStep, GB!FlagIsMatchers

(* The grammar begins at its start, and the matcher in step with it.        *)
LEMMA GrammarInitInv == GB!GBInit => GrammarInv
<1> SUFFICES ASSUME GB!GBInit PROVE GrammarInv
  OBVIOUS
<1>1. /\ path = <<GrammarStart>> /\ flag = FALSE /\ processed = 0 /\ thinking \in BOOLEAN
      /\ drafts = <<>> /\ stage = "draft" /\ error = FALSE
  BY DEF GB!GBInit
<1>2. GrammarStart \in States /\ GrammarStart # GrammarEnd
  BY GrammarFacts DEF States
<1>3. path \in Paths /\ Len(path) = 1 /\ ~GB!Over(path)
  <2>1. <<GrammarStart>> \in Seq(States) /\ Len(<<GrammarStart>>) = 1
        /\ <<GrammarStart>> # <<>> /\ <<GrammarStart>>[1] = GrammarStart
    BY <1>2
  <2> QED
    BY <1>1, <1>2, <2>1 DEF Paths, GB!Over, GB!Last
<1>a. flag \in BOOLEAN /\ ~flag /\ ~error
  BY <1>1
<1>b. flag = GB!Over(path)
  <2>1. GB!Over(path) = FALSE
    BY <1>3 DEF GB!Over
  <2> QED
    BY <1>1, <2>1
<1>c. processed = Len(path) - 1 /\ processed \in Int
  BY <1>1, <1>3
<1>d. drafts \in Seq(GrammarTokens)
  BY <1>1
<1>4. GrammarTypeOK
  BY <1>1, <1>3, <1>a, <1>c, <1>d DEF GrammarTypeOK
<1>5. GB!MatcherInStep
  BY <1>a, <1>b, <1>c DEF GB!MatcherInStep, GB!FlagIsMatchers, GB!NeverRefused
<1> QED
  BY <1>1, <1>4, <1>5 DEF GrammarInv

(* The drafts that validation keeps are legal one after the other.          *)
LegalTo(p, d, reached) ==
  \E q : /\ q[0] = p /\ q[Len(d)] = reached
         /\ \A k \in 1..Len(d) : /\ d[k] \in GB!Legal(q[k - 1])
                                  /\ q[k] = GB!Step(q[k - 1], d[k])

(* One more draft that is legal after them.                                 *)
LEMMA LegalGrows ==
  ASSUME NEW p, NEW d \in Seq(GrammarTokens), NEW p2, LegalTo(p, d, p2),
         NEW t \in GrammarTokens, t \in GB!Legal(p2)
  PROVE  LegalTo(p, Append(d, t), GB!Step(p2, t))
<1>1. PICK q : /\ q[0] = p /\ q[Len(d)] = p2
               /\ \A k \in 1..Len(d) : /\ d[k] \in GB!Legal(q[k - 1])
                                        /\ q[k] = GB!Step(q[k - 1], d[k])
  BY DEF LegalTo
<1> DEFINE n == Len(d)
           d2 == Append(d, t)
           q2 == [k \in 0..(n + 1) |-> IF k <= n THEN q[k] ELSE GB!Step(p2, t)]
<1>2. /\ n \in Nat /\ Len(d2) = n + 1 /\ d2[n + 1] = t
      /\ \A k \in 1..n : d2[k] = d[k]
  OBVIOUS
<1>3. /\ q2[0] = p /\ q2[n + 1] = GB!Step(p2, t)
      /\ \A k \in 0..n : q2[k] = q[k]
  BY <1>1, <1>2
<1> HIDE DEF q2, d2
<1>4. ASSUME NEW k \in 1..(n + 1)
      PROVE  d2[k] \in GB!Legal(q2[k - 1]) /\ q2[k] = GB!Step(q2[k - 1], d2[k])
  <2>1. CASE k \in 1..n
    <3>1. k - 1 \in 0..n /\ k \in 0..n
      BY <1>2, <2>1
    <3>2. q2[k - 1] = q[k - 1] /\ q2[k] = q[k] /\ d2[k] = d[k]
      BY <1>2, <1>3, <2>1, <3>1
    <3> QED
      BY <1>1, <2>1, <3>2
  <2>2. CASE k = n + 1
    <3>1. k - 1 = n /\ n \in 0..n
      BY <1>2, <2>2
    <3>2. q2[k - 1] = p2
      BY <1>1, <1>3, <3>1
    <3> QED
      BY <1>2, <1>3, <2>2, <3>2
  <2> QED
    BY <1>2, <2>1, <2>2
<1> QED
  BY <1>2, <1>3, <1>4 DEF LegalTo, d2

(* So what is left of the drafts after validation is legal.                 *)
LEMMA ValidIsLegal ==
  ASSUME NEW g \in Matchers, NEW d \in Seq(GrammarTokens)
  PROVE  /\ GB!ValidateTokens(g, d) \in Seq(GrammarTokens)
         /\ LegalRun(g.path, GB!ValidateTokens(g, d))
<1>1. PICK v : Tries(g, d, v)
  BY TryRuns
<1> DEFINE n == Len(d)
           S == {k \in 0..n : v[k] \in Trials /\ LegalTo(g.path, v[k].taken, v[k].path)}
<1>2. n \in Nat /\ g.path \in Paths
  BY DEF Matchers
<1>a. LegalTo(g.path, <<>>, g.path)
  <2> DEFINE q == [k \in {0} |-> g.path]
  <2>1. q[0] = g.path /\ Len(<<>>) = 0
    OBVIOUS
  <2> HIDE DEF q
  <2>2. \A k \in 1..Len(<<>>) : /\ <<>>[k] \in GB!Legal(q[k - 1])
                                 /\ q[k] = GB!Step(q[k - 1], <<>>[k])
    BY <2>1
  <2>3. q[Len(<<>>)] = g.path
    BY <2>1
  <2> QED
    BY <2>1, <2>2, <2>3 DEF LegalTo
<1>3. 0 \in S
  <2>1. v[0] = FirstTry(g)
    BY <1>1 DEF Tries
  <2>2. v[0] \in Trials /\ v[0].taken = <<>> /\ v[0].path = g.path
    BY <1>2, <2>1 DEF FirstTry, Trials
  <2> QED
    BY <1>2, <1>a, <2>2
<1>4. ASSUME NEW k \in 0..n, k < n, k \in S
      PROVE  k + 1 \in S
  <2>1. k + 1 \in 1..n /\ (k + 1) - 1 = k /\ k + 1 \in 0..n
    BY <1>2, <1>4
  <2> DEFINE w == v[k]
             t == d[k + 1]
  <2>2. v[k + 1] = GB!Try(w, t) /\ t \in GrammarTokens
    BY <1>1, <2>1 DEF Tries
  <2>3. w \in Trials /\ LegalTo(g.path, w.taken, w.path)
    BY <1>4
  <2> HIDE DEF w, t
  <2>4. GB!Try(w, t) \in Trials
    BY <2>2, <2>3, TryType
  <2>5. CASE w.refused \/ t \notin GB!Legal(w.path)
    <3>1. GB!Try(w, t).path = w.path /\ GB!Try(w, t).taken = w.taken
      BY <2>3, <2>5 DEF GB!Try, Trials
    <3> QED
      BY <2>1, <2>2, <2>3, <2>4, <3>1
  <2>6. CASE ~(w.refused \/ t \notin GB!Legal(w.path))
    <3>1. GB!Try(w, t).path = GB!Step(w.path, t) /\ GB!Try(w, t).taken = Append(w.taken, t)
      BY <2>3, <2>6 DEF GB!Try, Trials
    <3>2. w.taken \in Seq(GrammarTokens)
      BY <2>3 DEF Trials
    <3>3. LegalTo(g.path, Append(w.taken, t), GB!Step(w.path, t))
      BY <2>2, <2>3, <2>6, <3>2, LegalGrows
    <3> QED
      BY <2>1, <2>2, <2>4, <3>1, <3>3
  <2> QED
    BY <2>5, <2>6
<1>5. 0..n \subseteq S
  <2> HIDE DEF S, n
  <2> QED
    BY <1>2, <1>3, <1>4, Along
<1>6. v[n].taken \in Seq(GrammarTokens) /\ LegalTo(g.path, v[n].taken, v[n].path)
  <2>1. n \in 0..n
    BY <1>2
  <2> QED
    BY <1>5, <2>1 DEF Trials
<1>7. GB!ValidateTokens(g, d) = <<>> \/ GB!ValidateTokens(g, d) = v[n].taken
  BY <1>1 DEF Tries
<1>8. \A x, y : LegalTo(g.path, x, y) => LegalRun(g.path, x)
  BY DEF LegalTo, LegalRun
<1>9. <<>> \in Seq(GrammarTokens)
  OBVIOUS
<1> QED
  BY <1>6, <1>7, <1>8, <1>9, <1>a

(****************************************************************************)
(* The steps of the grammar                                                 *)
(****************************************************************************)

(* Drafts proposed with the grammar active are validated first.             *)
LEMMA ProposeInv == GrammarInv /\ GB!Propose => GrammarInv'
<1> SUFFICES ASSUME GrammarInv, GB!Propose PROVE GrammarInv'
  OBVIOUS
<1>1. /\ GrammarTypeOK /\ GB!FlagIsMatchers /\ GB!NeverRefused
  BY DEF GrammarInv, GB!MatcherInStep
<1>2. PICK d \in GB!Sequences(GrammarDrafts) :
        drafts' = IF thinking THEN d ELSE GB!ValidateTokens(GB!Now, d)
  BY DEF GB!Propose
<1>3. stage' = "fill" /\ UNCHANGED <<path, flag, processed, thinking, allowed, error>>
  BY DEF GB!Propose
<1>4. d \in Seq(GrammarTokens)
  <2>1. PICK k \in 0..GrammarDrafts : d \in [1..k -> GrammarTokens]
    BY DEF GB!Sequences
  <2>2. k \in Nat
    BY GrammarFacts
  <2> QED
    BY <2>1, <2>2
<1>5. drafts' \in Seq(GrammarTokens) /\ (~thinking => LegalRun(path, drafts'))
  <2>1. GB!Now \in Matchers /\ GB!Now.path = path
    BY <1>1, NowIs
  <2>2. /\ GB!ValidateTokens(GB!Now, d) \in Seq(GrammarTokens)
        /\ LegalRun(path, GB!ValidateTokens(GB!Now, d))
    <3>1. /\ GB!ValidateTokens(GB!Now, d) \in Seq(GrammarTokens)
          /\ LegalRun(GB!Now.path, GB!ValidateTokens(GB!Now, d))
      BY <1>4, <2>1, ValidIsLegal
    <3> QED
      BY <2>1, <3>1
  <2> QED
    BY <1>2, <1>4, <2>2
<1>6. GrammarTypeOK'
  BY <1>1, <1>3, <1>5 DEF GrammarTypeOK
<1>7. GB!MatcherInStep'
  BY <1>1, <1>3 DEF GB!MatcherInStep, GB!FlagIsMatchers, GB!NeverRefused
<1> QED
  BY <1>3, <1>5, <1>6, <1>7 DEF GrammarInv

(* A reset puts flag and count back with the matcher.                       *)
LEMMA ResetInv == GrammarInv /\ GB!Reset => GrammarInv'
<1> SUFFICES ASSUME GrammarInv, GB!Reset PROVE GrammarInv'
  OBVIOUS
<1>1. /\ GrammarTypeOK /\ GB!NeverRefused
  BY DEF GrammarInv, GB!MatcherInStep
<1>2. /\ stage = "draft" /\ path' = <<GrammarStart>> /\ processed' = 0 /\ flag' = FALSE
      /\ UNCHANGED <<thinking, drafts, stage, allowed, error>>
  BY DEF GB!Reset
<1>3. GrammarStart \in States /\ GrammarStart # GrammarEnd
  BY GrammarFacts DEF States
<1>4. path' \in Paths /\ Len(path') = 1 /\ ~GB!Over(path')
  <2>1. <<GrammarStart>> \in Seq(States) /\ Len(<<GrammarStart>>) = 1
        /\ <<GrammarStart>> # <<>> /\ <<GrammarStart>>[1] = GrammarStart
    BY <1>3
  <2> QED
    BY <1>2, <1>3, <2>1 DEF Paths, GB!Over, GB!Last
<1>a. flag' \in BOOLEAN /\ ~error'
  BY <1>1, <1>2 DEF GB!NeverRefused
<1>b. flag' = GB!Over(path')
  <2>1. GB!Over(path') = FALSE
    BY <1>4 DEF GB!Over
  <2> QED
    BY <1>2, <2>1
<1>c. processed' = Len(path') - 1 /\ processed' \in Int
  BY <1>2, <1>4
<1>5. GrammarTypeOK'
  BY <1>1, <1>2, <1>4, <1>a, <1>c DEF GrammarTypeOK
<1>6. GB!MatcherInStep'
  BY <1>a, <1>b, <1>c DEF GB!MatcherInStep, GB!FlagIsMatchers, GB!NeverRefused
<1> QED
  BY <1>2, <1>5, <1>6 DEF GrammarInv

(* Filling the masks rolls back exactly what it advanced.                   *)
LEMMA FillInv == GrammarInv /\ GB!Fill => GrammarInv'
<1> SUFFICES ASSUME GrammarInv, GB!Fill PROVE GrammarInv'
  OBVIOUS
<1>1. /\ GrammarTypeOK /\ GB!FlagIsMatchers /\ GB!NeverRefused
  BY DEF GrammarInv, GB!MatcherInStep
<1>2. /\ GB!Now \in Matchers /\ GB!Now.ok /\ InStep(GB!Now) /\ GB!Now.path = path
  BY <1>1, NowIs
<1>3. drafts \in Seq(GrammarTokens) /\ thinking \in BOOLEAN
      /\ path \in Paths
  BY <1>1 DEF GrammarTypeOK
<1>4. PICK r : WindowIs(r)
  <2>1. GB!Now \in {g \in Matchers : g.ok}
    BY <1>2
  <2> QED
    BY <1>3, <2>1, WindowRuns
<1> DEFINE n == Len(drafts)
           w == r[n]
           g == GB!RolledBack(w.grammar, w.advanced)
<1>5. Fills(GB!Now, thinking, drafts, r) /\ GB!Window = w
  BY <1>4 DEF WindowIs
<1>6. WindowKept(GB!Now, thinking, drafts, r)
  BY <1>2, <1>3, <1>5, WindowAlong
<1>7. n \in Nat
  BY <1>3
<1>8. /\ w \in Windows /\ Advanced(w, path) /\ Len(w.masks) = n
      /\ \A i \in 1..n : w.masks[i] = Mask(r[i - 1])
  <2>1. n \in 0..n
    BY <1>7
  <2> QED
    BY <1>2, <1>6, <2>1 DEF WindowKept
<1>9. /\ stage = "fill" /\ stage' = "sample" /\ UNCHANGED <<thinking, drafts>>
      /\ path' = g.path /\ flag' = g.flag /\ processed' = g.count
      /\ error' = (error \/ w.failed)
      /\ allowed' = Append(w.masks, Mask(w))
  <2> HIDE DEF w
  <2> QED
    BY <1>5 DEF GB!Fill, g, Mask
<1>10. ~w.failed
  <2>1. CASE thinking
    BY <1>3, <1>6, <2>1, LateNeverFails
  <2>2. CASE ~thinking
    <3>1. LegalRun(GB!Now.path, drafts)
      BY <1>2, <1>9, <2>2 DEF GrammarInv
    <3>2. thinking = FALSE
      BY <1>3, <2>2
    <3> QED
      BY <1>3, <1>6, <3>1, <3>2, ValidNeverFails
  <2> QED
    BY <2>1, <2>2
<1> HIDE DEF w
<1>11. g.path = path /\ (g.flag <=> GB!Over(path)) /\ g.count = Len(path) - 1
  <2> DEFINE h == w.grammar
  <2>1. /\ h.path \in Paths /\ h.count \in Int /\ w.advanced \in Nat
        /\ Len(h.path) = Len(path) + w.advanced /\ SubSeq(h.path, 1, Len(path)) = path
        /\ h.count = Len(h.path) - 1
    BY <1>8 DEF Windows, Matchers, Advanced, InStep
  <2> HIDE DEF h
  <2>2. Len(h.path) - w.advanced = Len(path) /\ Len(path) \in Nat
    BY <1>3, <2>1 DEF Paths
  <2>3. h.count - w.advanced = Len(path) - 1
    BY <2>1, <2>2
  <2> DEFINE f == GB!Over(path)
             c == h.count - w.advanced
  <2>4. g = [path |-> path, flag |-> f, count |-> c, ok |-> TRUE]
    BY <2>1, <2>2 DEF GB!RolledBack, GB!Grammar, h
  <2> HIDE DEF g, f, c
  <2>5. g.path = path /\ (g.flag <=> f) /\ g.count = c
    BY <2>4
  <2> QED
    BY <2>3, <2>5 DEF f, c
<1>12. path' = path /\ flag' = flag /\ processed' = processed /\ ~error'
  <2>1. flag \in BOOLEAN /\ g.flag \in BOOLEAN
    BY <1>1 DEF GrammarTypeOK, GB!RolledBack, GB!Grammar, GB!Over
  <2>2. g.flag = flag
    BY <1>1, <1>11, <2>1 DEF GB!FlagIsMatchers
  <2> QED
    BY <1>1, <1>9, <1>10, <1>11, <2>2 DEF GB!FlagIsMatchers, GB!NeverRefused
<1>13. GrammarTypeOK' /\ GB!MatcherInStep'
  BY <1>1, <1>9, <1>12 DEF GrammarTypeOK, GB!MatcherInStep, GB!FlagIsMatchers, GB!NeverRefused
<1>14. MasksFit(r)'
  <2>1. GB!Now' = GB!Now
    BY <1>12 DEF GB!Now, GB!Grammar
  <2>2. Fills(GB!Now, thinking, drafts, r)'
    BY <1>5, <1>9, <2>1 DEF Fills
  <2>3. ASSUME NEW i \in 1..(n + 1)
        PROVE  allowed'[i] = Mask(r[i - 1])
    <3> DEFINE ms == w.masks
               m == Mask(w)
    <3>1. ms \in Seq(SUBSET GrammarTokens) /\ Len(ms) = n
      BY <1>8 DEF Windows
    <3>2. \A j \in 1..n : ms[j] = Mask(r[j - 1])
      BY <1>8
    <3>3. m = Mask(r[(n + 1) - 1])
      BY <1>7 DEF w
    <3>4. m \in SUBSET GrammarTokens
      <4>1. w.grammar.path \in Paths
        BY <1>8 DEF Windows, Matchers
      <4> QED
        BY <4>1, LegalType DEF Mask
    <3>5. allowed' = Append(ms, m)
      BY <1>9
    <3> HIDE DEF ms, m, n
    <3>6. Append(ms, m)[n + 1] = m /\ \A j \in 1..n : Append(ms, m)[j] = ms[j]
      BY <3>1, <3>4
    <3>7. i \in 1..n \/ i = n + 1
      BY <1>7, <2>3
    <3> QED
      BY <3>2, <3>3, <3>5, <3>6, <3>7
  <2> QED
    BY <1>9, <2>2, <2>3 DEF MasksFit
<1> QED
  BY <1>9, <1>13, <1>14 DEF GrammarInv

(* Until the reasoning ends the window leaves the matcher alone.            *)
LEMMA QuietUntil ==
  ASSUME NEW g, NEW d \in Seq(GrammarTokens), NEW r, WindowKept(g, TRUE, d, r),
         NEW e \in 0..Len(d), \A i \in 1..e : d[i] # GrammarThought
  PROVE  r[e].grammar = g /\ ~r[e].active
<1> DEFINE S == {k \in 0..e : r[k].grammar = g /\ ~r[k].active}
<1>1. e \in Nat /\ Len(d) \in Nat /\ e <= Len(d)
  OBVIOUS
<1>2. 0 \in S
  <2>1. r[0] = FirstMask(g, TRUE)
    BY DEF WindowKept
  <2>2. r[0].grammar = g /\ ~r[0].active
    <3>1. FirstMask(g, TRUE).grammar = g /\ ~FirstMask(g, TRUE).active
      BY FirstMaskIs
    <3> QED
      BY <2>1, <3>1
  <2> QED
    BY <1>1, <2>2
<1>3. ASSUME NEW k \in 0..e, k < e, k \in S
      PROVE  k + 1 \in S
  <2>1. k + 1 \in 1..Len(d) /\ (k + 1) - 1 = k /\ k + 1 \in 0..e /\ k + 1 \in 1..e
    BY <1>1, <1>3
  <2>2. Filled(r[k], d[k + 1], r[k + 1])
    BY <2>1 DEF WindowKept
  <2>3. r[k].grammar = g /\ ~r[k].active /\ d[k + 1] # GrammarThought
    BY <1>3, <2>1
  <2>4. r[k + 1].grammar = g /\ ~r[k + 1].active
    BY <2>2, <2>3 DEF Filled
  <2> QED
    BY <2>1, <2>4
<1>4. 0..e \subseteq S
  <2> HIDE DEF S
  <2> QED
    BY <1>1, <1>2, <1>3, Along
<1>5. e \in 0..e
  BY <1>1
<1> QED
  BY <1>4, <1>5

(* What a step samples: drafts up to one position, and a token, each from   *)
(* the mask of its position.                                                *)
Sampled(d, r, n, made) ==
  /\ made \in Seq(GrammarTokens) /\ Len(made) = n + 1
  /\ \A i \in 1..n : made[i] = d[i]
  /\ \A i \in 1..(n + 1) : made[i] \in Mask(r[i - 1])

(* With the grammar active, everything sampled is told.                     *)
LEMMA ToldAll ==
  ASSUME NEW g \in Matchers, g.ok, NEW d \in Seq(GrammarTokens), NEW r,
         WindowKept(g, FALSE, d, r), NEW n \in 0..Len(d), NEW made, Sampled(d, r, n, made)
  PROVE  Told(g, made)
<1>1. r[0].active /\ r[0].grammar = g
  <2>1. r[0] = FirstMask(g, FALSE)
    BY DEF WindowKept
  <2>2. FirstMask(g, FALSE).grammar = g /\ FirstMask(g, FALSE).active
    BY FirstMaskIs
  <2> QED
    BY <2>1, <2>2
<1>2. n \in Nat /\ 0 \in 0..n /\ n - 0 = n
  OBVIOUS
<1>3. \A j \in 1..(n - 0) : made[j] = d[0 + j]
  BY <1>2 DEF Sampled
<1>4. \A j \in 1..((n - 0) + 1) : made[j] \in Mask(r[(0 + j) - 1])
  BY <1>2 DEF Sampled
<1>5. made \in Seq(GrammarTokens) /\ Len(made) = (n - 0) + 1
  BY <1>2 DEF Sampled
<1>6. Heard(g, d, r, n, 0, made)
  BY <1>1, <1>3, <1>4, <1>5 DEF Heard
<1> QED
  BY <1>2, <1>6, Follows, Zenon

(* With the reasoning ended at "e", what follows it is told.                *)
LEMMA ToldAfter ==
  ASSUME NEW g \in Matchers, g.ok, InStep(g), NEW d \in Seq(GrammarTokens), NEW r,
         WindowKept(g, TRUE, d, r), NEW n \in 0..Len(d), NEW made, Sampled(d, r, n, made),
         NEW e \in 1..(n + 1), made[e] = GrammarThought,
         \A i \in 1..(n + 1) : i < e => made[i] # GrammarThought
  PROVE  Told(g, SubSeq(made, e + 1, n + 1))
<1>1. n \in Nat /\ e \in Nat /\ Len(d) \in Nat /\ n <= Len(d) /\ e >= 1 /\ e <= n + 1
  OBVIOUS
<1>2. CASE e = n + 1
  <2>1. SubSeq(made, e + 1, n + 1) = <<>>
    BY <1>1, <1>2 DEF Sampled
  <2> QED
    BY <2>1, ToldNothing
<1>3. CASE e <= n
  <2> DEFINE told == SubSeq(made, e + 1, n + 1)
             k == e - 1
  <2>1. /\ k \in 0..Len(d) /\ e \in 1..Len(d) /\ e \in 1..n /\ e \in 0..n /\ e \in 1..(n + 1)
        /\ \A i \in 1..k : i \in 1..n /\ i \in 1..(n + 1) /\ i < e
    BY <1>1, <1>3
  <2>2. \A i \in 1..k : d[i] # GrammarThought
    BY <2>1 DEF Sampled
  <2>3. r[k].grammar = g /\ ~r[k].active
    <3> HIDE DEF k
    <3> QED
      BY <2>1, <2>2, QuietUntil
  <2>4. Filled(r[k], d[e], r[e])
    BY <2>1 DEF WindowKept
  <2>5. d[e] = GrammarThought
    BY <2>1 DEF Sampled
  <2>6. r[e].grammar = g /\ r[e].active
    <3> HIDE DEF k
    <3> QED
      BY <2>3, <2>4, <2>5 DEF Filled
  <2>7. told \in Seq(GrammarTokens) /\ Len(told) = (n - e) + 1
        /\ \A j \in 1..((n - e) + 1) : told[j] = made[e + j]
    BY <1>1, <1>3 DEF Sampled
  <2> HIDE DEF told
  <2>8. \A j \in 1..(n - e) : told[j] = d[e + j]
    <3>1. \A j \in 1..(n - e) : e + j \in 1..n /\ j \in 1..((n - e) + 1)
      BY <1>1, <1>3
    <3> QED
      BY <2>7, <3>1 DEF Sampled
  <2>9. \A j \in 1..((n - e) + 1) : told[j] \in Mask(r[(e + j) - 1])
    <3>1. \A j \in 1..((n - e) + 1) : e + j \in 1..(n + 1)
      BY <1>1, <1>3
    <3> QED
      BY <2>7, <3>1 DEF Sampled
  <2>10. Heard(g, d, r, n, e, told)
    BY <2>6, <2>7, <2>8, <2>9 DEF Heard
  <2>11. Told(g, told)
    BY <2>1, <2>10, Follows, Zenon
  <2> QED
    BY <2>11 DEF told
<1> QED
  BY <1>1, <1>2, <1>3

(* A type-correct matcher in step, written back into the request.           *)
LEMMA WrittenBack ==
  ASSUME NEW g \in Matchers, NEW tokens, Told(g, tokens)
  PROVE  /\ GB!AcceptTokens(g, tokens).path \in Paths
         /\ GB!AcceptTokens(g, tokens).flag \in BOOLEAN
         /\ GB!AcceptTokens(g, tokens).count \in Int
         /\ GB!AcceptTokens(g, tokens).flag = GB!Over(GB!AcceptTokens(g, tokens).path)
         /\ GB!AcceptTokens(g, tokens).count = Len(GB!AcceptTokens(g, tokens).path) - 1
         /\ GB!AcceptTokens(g, tokens).ok
<1> DEFINE h == GB!AcceptTokens(g, tokens)
<1>1. h \in Matchers /\ h.ok /\ InStep(h)
  BY DEF Told
<1> HIDE DEF h
<1>2. h.path \in Paths /\ h.flag \in BOOLEAN /\ h.count \in Int
  BY <1>1 DEF Matchers
<1>3. h.flag = GB!Over(h.path)
  <2>1. GB!Over(h.path) \in BOOLEAN
    BY DEF GB!Over
  <2> QED
    BY <1>1, <1>2, <2>1 DEF InStep
<1>4. h.count = Len(h.path) - 1
  BY <1>1 DEF InStep
<1> QED
  BY <1>1, <1>2, <1>3, <1>4 DEF h

(* What is sampled was in the masks, so the grammar takes it.               *)
LEMMA SampleInv == GrammarInv /\ GB!Sample => GrammarInv'
<1> SUFFICES ASSUME GrammarInv, GB!Sample PROVE GrammarInv'
  OBVIOUS
<1>1. /\ GrammarTypeOK /\ GB!FlagIsMatchers /\ GB!NeverRefused
  BY DEF GrammarInv, GB!MatcherInStep
<1>2. /\ GB!Now \in Matchers /\ GB!Now.ok /\ InStep(GB!Now)
  BY <1>1, NowIs
<1>3. drafts \in Seq(GrammarTokens) /\ thinking \in BOOLEAN
  BY <1>1 DEF GrammarTypeOK
<1>4. stage = "sample" /\ drafts' = <<>> /\ stage' = "draft"
  BY DEF GB!Sample
<1>5. PICK r : MasksFit(r)
  BY <1>4 DEF GrammarInv
<1>6. WindowKept(GB!Now, thinking, drafts, r)
  BY <1>2, <1>3, <1>5, WindowAlong DEF MasksFit
<1>7. PICK n \in 0..Len(drafts), bonus \in GrammarTokens :
        LET sampled == Append(SubSeq(drafts, 1, n), bonus)
            h == GB!AcceptTokens(GB!Now, GB!AfterThinking(sampled))
        IN /\ \A i \in 1..Len(sampled) : sampled[i] \in allowed[i]
           /\ path' = h.path /\ flag' = h.flag /\ processed' = h.count
           /\ error' = (error \/ ~h.ok)
           /\ thinking' = (thinking /\ GB!EndsIn(sampled) = {})
  BY DEF GB!Sample
<1> DEFINE made == Append(SubSeq(drafts, 1, n), bonus)
           ends == GB!EndsIn(made)
           told == GB!AfterThinking(made)
<1>8. Sampled(drafts, r, n, made)
  <2> DEFINE a == SubSeq(drafts, 1, n)
  <2>1. n \in Nat /\ n <= Len(drafts) /\ Len(drafts) \in Nat
    BY <1>3
  <2>2. a \in Seq(GrammarTokens) /\ Len(a) = n /\ \A i \in 1..n : a[i] = drafts[i]
    BY <1>3, <2>1
  <2> HIDE DEF a
  <2>3. /\ Append(a, bonus) \in Seq(GrammarTokens) /\ Len(Append(a, bonus)) = n + 1
        /\ \A i \in 1..n : Append(a, bonus)[i] = a[i]
    BY <2>1, <2>2
  <2>4. made = Append(a, bonus)
    BY DEF a
  <2>5. \A i \in 1..(n + 1) : made[i] \in allowed[i]
    <3>1. Len(made) = n + 1
      BY <2>3, <2>4
    <3> QED
      BY <1>7, <3>1
  <2>6. \A i \in 1..(n + 1) : allowed[i] = Mask(r[i - 1])
    <3>1. \A i \in 1..(n + 1) : i \in 1..(Len(drafts) + 1)
      BY <2>1
    <3> QED
      BY <1>5, <3>1 DEF MasksFit
  <2> HIDE DEF made
  <2> QED
    BY <2>2, <2>3, <2>4, <2>5, <2>6 DEF Sampled
<1>9. Told(GB!Now, told)
  <2>1. CASE ~thinking
    <3>1. told = made
      BY <2>1 DEF GB!AfterThinking
    <3>2. WindowKept(GB!Now, FALSE, drafts, r)
      <4>1. thinking = FALSE
        BY <1>3, <2>1
      <4> QED
        BY <1>6, <4>1
    <3> HIDE DEF made, told
    <3> QED
      BY <1>2, <1>3, <1>8, <3>1, <3>2, ToldAll
  <2>2. CASE thinking /\ ends = {}
    <3>1. told = <<>>
      BY <2>2 DEF GB!AfterThinking
    <3> HIDE DEF told
    <3> QED
      BY <1>2, <3>1, ToldNothing
  <2>3. CASE thinking /\ ends # {}
    <3> DEFINE e == CHOOSE i \in ends : \A j \in ends : i <= j
    <3>1. told = SubSeq(made, e + 1, Len(made))
      BY <2>3 DEF GB!AfterThinking
    <3>2. ends = {i \in 1..Len(made) : made[i] = GrammarThought}
      BY DEF GB!EndsIn
    <3>3. Len(made) = n + 1 /\ n \in Nat
      BY <1>8 DEF Sampled
    <3> HIDE DEF made, told, ends
    <3>4. e \in ends /\ \A j \in ends : e <= j
      <4>1. ends \in SUBSET Nat
        BY <3>2, <3>3
      <4>2. \E i \in ends : \A j \in ends : i <= j
        BY <4>1, <2>3, Lowest
      <4> QED
        BY <4>2
    <3> HIDE DEF e
    <3>5. e \in 1..(n + 1) /\ made[e] = GrammarThought
      BY <3>2, <3>3, <3>4
    <3>6. \A i \in 1..(n + 1) : i < e => made[i] # GrammarThought
      BY <3>2, <3>3, <3>4, <3>5
    <3>7. WindowKept(GB!Now, TRUE, drafts, r)
      <4>1. thinking = TRUE
        BY <1>3, <2>3
      <4> QED
        BY <1>6, <4>1
    <3>8. Told(GB!Now, SubSeq(made, e + 1, n + 1))
      BY <1>2, <1>3, <1>8, <3>5, <3>6, <3>7, ToldAfter
    <3> QED
      BY <3>1, <3>3, <3>8
  <2> QED
    BY <1>3, <2>1, <2>2, <2>3
<1>10. /\ path' \in Paths /\ flag' \in BOOLEAN /\ processed' \in Int
       /\ flag' = GB!Over(path') /\ processed' = Len(path') - 1 /\ ~error'
  <2> DEFINE h == GB!AcceptTokens(GB!Now, told)
  <2>1. path' = h.path /\ flag' = h.flag /\ processed' = h.count /\ error' = (error \/ ~h.ok)
    BY <1>7
  <2> HIDE DEF told
  <2>2. /\ h.path \in Paths /\ h.flag \in BOOLEAN /\ h.count \in Int
        /\ h.flag = GB!Over(h.path) /\ h.count = Len(h.path) - 1 /\ h.ok
    BY <1>2, <1>9, WrittenBack
  <2> HIDE DEF h
  <2>3. ~error'
    BY <1>1, <2>1, <2>2 DEF GB!NeverRefused
  <2> QED
    BY <2>1, <2>2, <2>3
<1>11. thinking' \in BOOLEAN
  <2> HIDE DEF ends
  <2>1. thinking' = (thinking /\ ends = {})
    BY <1>7 DEF ends
  <2> QED
    BY <2>1
<1>12. drafts' \in Seq(GrammarTokens)
  BY <1>4
<1>13. GrammarTypeOK'
  BY <1>10, <1>11, <1>12 DEF GrammarTypeOK
<1>14. GB!MatcherInStep'
  BY <1>10 DEF GB!MatcherInStep, GB!FlagIsMatchers, GB!NeverRefused
<1> QED
  BY <1>4, <1>13, <1>14 DEF GrammarInv

(* Every step keeps the invariant.                                          *)
LEMMA GrammarNextInv == GrammarInv /\ [GB!GBNext]_(GB!gbvars) => GrammarInv'
<1> SUFFICES ASSUME GrammarInv, [GB!GBNext]_(GB!gbvars) PROVE GrammarInv'
  OBVIOUS
<1>1. CASE UNCHANGED GB!gbvars
  <2>1. UNCHANGED <<path, flag, processed, thinking, drafts, stage, allowed, error>>
    BY <1>1 DEF GB!gbvars
  <2>2. GrammarTypeOK'
    BY <2>1 DEF GrammarInv, GrammarTypeOK
  <2>3. GB!MatcherInStep'
    BY <2>1 DEF GrammarInv, GB!MatcherInStep, GB!FlagIsMatchers, GB!NeverRefused
  <2>4. (stage = "fill" /\ ~thinking => LegalRun(path, drafts))'
    BY <2>1 DEF GrammarInv
  <2>5. ASSUME stage' = "sample" PROVE \E r : MasksFit(r)'
    <3>1. PICK r : MasksFit(r)
      BY <2>1, <2>5 DEF GrammarInv
    <3>2. GB!Now' = GB!Now
      BY <2>1 DEF GB!Now, GB!Grammar
    <3>3. MasksFit(r)'
      BY <2>1, <3>1, <3>2 DEF MasksFit
    <3> QED
      BY <3>3
  <2> QED
    BY <2>2, <2>3, <2>4, <2>5 DEF GrammarInv
<1> QED
  BY <1>1, ProposeInv, FillInv, SampleInv, ResetInv DEF GB!GBNext

(* Whatever the grammar, the number of drafts and the position at which the *)
(* reasoning ends: the cached flag and the count are the matcher's between  *)
(* any two steps, and the grammar never refuses a token it is told          *)
(* (patch_xgrammar_termination.py).                                         *)
THEOREM MatcherStaysInStep == MCSpec => []MatcherInStep
<1> DEFINE Inv == part = "grammar" => GrammarInv
<1>1. MCInit => Inv
  BY GrammarInitInv DEF MCInit, GrammarPart
<1>2. Inv /\ [MCNext]_<<part, vars, shardvars, densevars, moevars, akvars, coopvars,
                        gbvars, mavars, kpvars>> => Inv'
  <2> SUFFICES ASSUME Inv, part' = "grammar",
                      [MCNext]_<<part, vars, shardvars, densevars, moevars, akvars, coopvars,
                                 gbvars, mavars, kpvars>>
               PROVE  GrammarInv'
    OBVIOUS
  <2>1. part = "grammar" /\ [GB!GBNext]_gbvars
    BY OnlyItsPart
  <2>2. [GB!GBNext]_(GB!gbvars)
    BY <2>1 DEF gbvars, GB!gbvars
  <2> QED
    BY <2>1, <2>2, GrammarNextInv
<1>3. Inv => MatcherInStep
  BY DEF GrammarInv, MatcherInStep
<1> QED
  BY <1>1, <1>2, <1>3, PTL DEF MCSpec
=============================================================================
