------------------------------ MODULE AdaptiveK ------------------------------
(***************************************************************************)
(* The adaptive verification length of patch_adaptive_k.py: a moving       *)
(* average of accepted drafts per request, from which the scheduler picks  *)
(* one draft length for the whole batch, and an override file an operator  *)
(* may replace at any time.  An average is kept in units of 1/Unit and     *)
(* rounded either way; it weighs a new observation by alpha/Unit.          *)
(***************************************************************************)
EXTENDS Integers, Sequences, FiniteSets, FiniteSetsExt

CONSTANTS
    Reqs,           \* requests; an identifier is never used again
    Full,           \* num_spec_tokens: the drafter's block
    Unit,           \* the resolution of an average
    BootSets,       \* GLM53_ADAPTIVE_K_SET at boot: the choices looked at
    Overrides,      \* what the override file may hold when it is read
    MaxSeen,        \* bound: observed steps are counted up to here
    Climb           \* fully accepted steps that must lead back to the top

(* What a file of overrides says of a key, in some file.                   *)
Said(key) == {f.keys[key] : f \in {f \in Overrides : key \in DOMAIN f.keys}}
Alphas == {Unit \div 2} \cup Said("alpha")
Margins == {Unit} \cup Said("margin")

(* How far below the longest length an average may still be, after so many *)
(* fully accepted steps from the bottom: it shrinks by 1 - alpha with each *)
(* of them, and is within the margin after Climb.                          *)
Shrinks(short, alpha) ==
    /\ short[0] = Full * Unit
    /\ \A i \in 1..Climb : short[i - 1] * (Unit - alpha) <= short[i] * Unit
    /\ \A margin \in Margins : short[Climb] < margin + Unit

(* What the parameters must satisfy.                                       *)
AKAssumption ==
    /\ Full \in Nat \ {0} /\ Unit \in Nat \ {0} /\ MaxSeen \in Nat \ {0}
    /\ \A S \in BootSets : S # {} /\ S \subseteq 1..Full
    /\ Said("mode") \subseteq BOOLEAN /\ Said("min") \subseteq Int
    /\ Alphas \subseteq 0..Unit /\ Margins \subseteq Int /\ Climb \in Nat
    /\ \A alpha \in Alphas : \E short \in [0..Climb -> 0..(Full * Unit)] : Shrinks(short, alpha)

None == 0       \* of choose: this request must stay at the full length

VARIABLES
    bootSet,    \* the lengths whose graphs are captured
    knobs,      \* [enabled, alpha, margin, saturate, min, set]
    average,    \* request |-> [ema, seen] of the requests observed
    live,       \* requests the scheduler holds, with their kind
    picked,     \* the last step's length (of a batch without a grammar)
                \* and what became of its drafts (ghosts)
    since,      \* ghost: observations since the last accepted override
    streak      \* ghost: fully accepted observations in a row

akvars == <<bootSet, knobs, average, live, picked, since, streak>>

AKMax == Max(bootSet)
Kinds == {"decode", "structured", "prefill"}

AKInit ==
    /\ bootSet \in BootSets
    /\ \E sat \in {"max", "n"} :
          knobs = [enabled |-> TRUE, alpha |-> Unit \div 2, margin |-> Unit,
                   saturate |-> sat, min |-> 1, set |-> bootSet]
    /\ average = <<>>
    /\ live = <<>>
    /\ picked = [n |-> Full, uneven |-> FALSE, robbed |-> FALSE]
    /\ since = [r \in Reqs |-> 0] /\ streak = [r \in Reqs |-> 0]

(***************************************************************************)
(* _reload: keys are taken over one by one in the order below; one that    *)
(* does not parse ends it, with those before it taken over.                *)
(***************************************************************************)
Keys == <<"json", "mode", "alpha", "margin", "min", "saturate", "set", "none">>
Order(key) == CHOOSE i \in 1..Len(Keys) : Keys[i] = key

Clamped(want) == IF want \cap bootSet = {} THEN bootSet ELSE want \cap bootSet

Reloaded(f) ==
    LET Reached(key) == Order(key) < Order(f.bad)
        Given(key, value) ==
            IF Reached(key) /\ key \in DOMAIN f.keys THEN f.keys[key] ELSE value
    IN [enabled  |-> IF Reached("mode") THEN Given("mode", TRUE) ELSE knobs.enabled,
        alpha    |-> Given("alpha", knobs.alpha),
        margin   |-> Given("margin", knobs.margin),
        min      |-> Given("min", knobs.min),
        saturate |-> Given("saturate", knobs.saturate),
        set      |-> IF Reached("set") /\ "set" \in DOMAIN f.keys
                     THEN Clamped(f.keys["set"]) ELSE knobs.set]

Kept(f) == IF f.bad = "none" THEN <<>> ELSE average
Accepted(f) == f.bad = "none"

(* The file has changed since it was last read, and holds any of them.     *)
Reload(f) ==
    /\ knobs' = Reloaded(f)
    /\ average' = Kept(f)
    /\ since' = IF Accepted(f) THEN [r \in Reqs |-> 0] ELSE since
    /\ streak' = [r \in Reqs |-> 0]
    /\ UNCHANGED <<bootSet, live, picked>>

(***************************************************************************)
(* observe: a step of the request was verified.                            *)
(***************************************************************************)
(* Mutant: a step that accepted all it verified counts for what it was.    *)
Observation_Ratchet(drafts, accepted) == accepted

Observation(drafts, accepted) ==
    IF accepted >= drafts /\ knobs.saturate # "n"
    THEN IF AKMax > drafts THEN AKMax ELSE drafts
    ELSE accepted

Blends(obs, ema) ==
    LET x == obs * Unit * knobs.alpha + ema * (Unit - knobs.alpha)
    IN {x \div Unit, (x + Unit - 1) \div Unit}

CapSeen(n) == IF n < MaxSeen THEN n ELSE MaxSeen

Observe(r) ==
    /\ r \in DOMAIN live /\ live[r] # "prefill"
    /\ knobs.enabled
    /\ \E drafts \in 1..Full : \E accepted \in 0..drafts :
         LET old == IF r \in DOMAIN average THEN average[r]
                    ELSE [ema |-> AKMax * Unit, seen |-> 0]
         IN /\ \E ema \in Blends(Observation(drafts, accepted), old.ema) :
                  average' = [q \in DOMAIN average \cup {r} |->
                      IF q = r THEN [ema |-> ema, seen |-> CapSeen(old.seen + 1)]
                      ELSE average[q]]
            /\ streak' = [streak EXCEPT ![r] =
                  IF accepted < drafts THEN 0 ELSE IF @ < Climb THEN @ + 1 ELSE @]
            /\ since' = [since EXCEPT ![r] = CapSeen(@ + 1)]
    /\ UNCHANGED <<bootSet, knobs, live, picked>>

(***************************************************************************)
(* choose, batch_k and apply.                                              *)
(***************************************************************************)
Clip(n, k) == IF n < k THEN n ELSE k

(* The largest candidate within the average plus the margin, rounded up.   *)
Choose(r, k, structured) ==
    IF ~knobs.enabled \/ structured \/ k <= 0 \/ r \notin DOMAIN average THEN None
    ELSE IF average[r].seen < knobs.min THEN None
    ELSE LET target == (average[r].ema + knobs.margin + Unit - 1) \div Unit
             cands == {v \in knobs.set : v <= Clip(target, k)}
             n == IF cands # {} THEN Max(cands) ELSE Min(knobs.set)
         IN IF Clip(n, k) < 1 THEN 1 ELSE Clip(n, k)

Structured(r) == live[r] = "structured"
Votes(batch, k) == {Choose(r, k, Structured(r)) : r \in batch}

(* A request that must stay at the full length keeps the batch there.      *)
BatchLength(votes, k) == IF votes = {} \/ None \in votes THEN k ELSE Min(votes)

(* The requests of a step that were not in prefill at the step before.     *)
Deciding(scheduled) == {r \in scheduled : live[r] # "prefill"}

(* Statistics are printed, and requests that left forgotten, every so many *)
(* steps.                                                                  *)
Count ==
    \/ average' = average
    \/ average' = [r \in DOMAIN average \cap DOMAIN live |-> average[r]]

(* The length of a batch of drafts, with what the properties ask about it. *)
Held(batch) == \E r \in batch : Structured(r) \/ since[r] < knobs.min
Picked(n, batch, drafts) ==
    LET plain == \A r \in batch : ~Structured(r)
    IN [n |-> IF plain THEN n ELSE Full,
        uneven |-> plain /\ Cardinality({Clip(drafts[r], n) : r \in batch}) > 1,
        robbed |-> knobs.enabled /\ Held(batch) /\ \E r \in batch : drafts[r] > n]

BatchK ==
    /\ \E scheduled \in (SUBSET DOMAIN live) \ {{}} :
         LET batch == Deciding(scheduled)
             n == IF knobs.enabled THEN BatchLength(Votes(batch, Full), Full) ELSE Full
         IN picked' = Picked(n, batch, [r \in batch |-> Full])
    /\ IF knobs.enabled THEN Count ELSE UNCHANGED average
    /\ UNCHANGED <<bootSet, knobs, live, since, streak>>

(* The synchronous path: drafts that exist are cut.  A grammar may already *)
(* have cut those of a structured request.                                 *)
Drafted(r) == IF Structured(r) THEN 1..Full ELSE {Full}

Apply ==
    /\ \E batch \in (SUBSET Deciding(DOMAIN live)) \ {{}} : \E drafts \in [batch -> 1..Full] :
         /\ \A r \in batch : drafts[r] \in Drafted(r)
         /\ LET votes == {Choose(r, drafts[r], Structured(r)) : r \in batch}
                n == IF knobs.enabled
                     THEN BatchLength(votes, Max({drafts[r] : r \in batch})) ELSE Full
            IN picked' = Picked(n, batch, drafts)
    /\ IF knobs.enabled THEN Count ELSE UNCHANGED average
    /\ UNCHANGED <<bootSet, knobs, live, since, streak>>

(***************************************************************************)
(* Requests come, leave their prefill and go.                              *)
(***************************************************************************)
Come(r) ==
    /\ r \notin DOMAIN live /\ since[r] = 0 /\ r \notin DOMAIN average
    /\ \E kind \in {"prefill", "structured"} :
          live' = [q \in DOMAIN live \cup {r} |-> IF q = r THEN kind ELSE live[q]]
    /\ UNCHANGED <<bootSet, knobs, average, picked, since, streak>>

Prefilled(r) ==
    /\ r \in DOMAIN live /\ live[r] = "prefill"
    /\ live' = [live EXCEPT ![r] = "decode"]
    /\ UNCHANGED <<bootSet, knobs, average, picked, since, streak>>

Go(r) ==
    /\ r \in DOMAIN live
    /\ live' = [q \in DOMAIN live \ {r} |-> live[q]]
    /\ UNCHANGED <<bootSet, knobs, average, picked, since, streak>>

AKNext == \/ BatchK \/ Apply \/ \E f \in Overrides : Reload(f)
          \/ \E r \in Reqs : Observe(r) \/ Come(r) \/ Prefilled(r) \/ Go(r)

(***************************************************************************)
(* Properties.                                                             *)
(***************************************************************************)

(* Whatever the override file asks for, a batch without a grammar is       *)
(* verified at the full length or at one whose decode graph was captured   *)
(* at boot, and all of it at that length, as the graph requires.           *)
CapturedLength == picked.n \in bootSet \cup {Full} /\ ~picked.uneven

(* A request under a grammar, or with fewer steps observed than the file   *)
(* in force asks for (those seen before it was read do not count), keeps   *)
(* every draft of its batch.                                               *)
HeldBatchWhole == ~picked.robbed

(* A request cut to a short prefix finds back: when Climb steps in a row   *)
(* had all that was verified accepted, it votes for the longest length,    *)
(* from whatever average it had sunk to and through changes of the file.   *)
ClimbsBack ==
    \A r \in DOMAIN average :
        streak[r] >= Climb /\ knobs.enabled /\ knobs.saturate = "max" =>
            Choose(r, Full, FALSE) \in {None, Max(knobs.set)}

(* What the scheduler may count on in any step (patch_adaptive_k.py,       *)
(* choose, batch_k, apply).                                                *)
LengthsHonoured == CapturedLength /\ HeldBatchWhole /\ ClimbsBack
=============================================================================
