------------------------------ MODULE FairPrefill ------------------------------
(****************************************************************************)
(* The fair mixed-prefill policy, class _Glm53MixedPrefill in               *)
(* overlay/patch_scheduler_decode_floor.py (mode "fair"), together with the *)
(* part of the vLLM V1 scheduler that calls it through the installed hooks. *)
(*                                                                          *)
(* One schedule() call is: BeginStep, one visit per request (decodes first, *)
(* then running prefills, then waiting ones), FinishStep.  Its output is    *)
(* queued at the engine and comes back, in order, as an Observe.  Requests  *)
(* arrive and leave, and the clock advances, only between those calls.      *)
(*                                                                          *)
(* Clock readings are only ever subtracted from each other, so the model    *)
(* keeps the differences: age (since last service, or since arrival), since *)
(* (since an output was submitted) and acct (since busy time was last       *)
(* accounted).  Credit and cost are integers in units of 1/Unit of a tick.  *)
(* Service and rotation stamps are only ever compared, so Compact keeps     *)
(* their order in a finite range.  carry annotates the trace and is left    *)
(* out, as are the trace and the log.                                       *)
(****************************************************************************)
EXTENDS Integers, Sequences, FiniteSets, Functions

CONSTANTS
  Rids,        \* request ids, a finite set of numbers (the last sort key)
  Tier,        \* priority of each id; all 0 under the FCFS policy
  MaxTok,      \* bound: the longest prefill, in token units
  Chunk,       \* GLM53_FAIR_PREFILL_CHUNK, the probe size
  Ladder,      \* the rungs, as token units
  MaxChunks,   \* GLM53_FAIR_PREFILL_MAX_CHUNKS
  MaxStep,     \* GLM53_FAIR_PREFILL_MAX_STEP_MS, in credit units
  Unit,        \* credit units per tick of accounted engine time
  Share,       \* GLM53_FAIR_PREFILL_SHARE of Unit
  Interval,    \* GLM53_FAIR_PREFILL_MAX_INTERVAL_MS, in ticks
  Models,      \* the step-cost estimates the samples may produce
  QueueDepth,  \* bound: outputs the engine keeps in flight
  Addrs,       \* bound: object identities of a request id
  MaxEvents,   \* bound: arrivals, departures, preemptions, exhausted
               \* budgets and failures
  MinDt, MaxDt \* bounds: accounted ticks of one completed step

ASSUME RidsAssumption == Rids \subseteq Nat \ {0} /\ IsFiniteSet(Rids)
ASSUME TierAssumption == Tier \in [Rids -> Nat]
ASSUME SizeAssumption ==
  /\ MaxTok \in Nat \ {0}
  /\ Chunk \in 1..MaxTok
  /\ Ladder \subseteq 1..MaxTok
  /\ \E top \in {Chunk} \cup Ladder : \A n \in {Chunk} \cup Ladder : n <= top
ASSUME LimitAssumption ==
  /\ MaxChunks \in Nat \ {0}
  /\ MaxStep \in Nat \ {0}
  /\ Unit \in Nat \ {0}
  /\ Share \in 0..Unit
  /\ Interval \in Nat \ {0}
  /\ QueueDepth \in Nat \ {0}
  /\ MinDt \in Nat
  /\ MaxDt \in Nat
  /\ Addrs \subseteq Nat \ {0}
  /\ MaxEvents \in Nat

(* An estimate is what _cost_model and _est_dt answer for each size: always *)
(* positive, never decreasing in the size.  fit: two distinct sizes have    *)
(* been sampled, so the fit exists.                                         *)
ModelType == [cost : [1..MaxTok -> Nat \ {0}], fit : BOOLEAN]

ASSUME ModelsAssumption ==
  /\ Models \subseteq ModelType
  /\ \A m \in Models : \A i, j \in 1..MaxTok : i <= j => m.cost[i] <= m.cost[j]
  /\ \E m \in Models : ~m.fit

VARIABLES
  \* the base scheduler and its environment
  reqs,        \* per id: where it is, prefill tokens left, object identity
  newSched,    \* a fresh Scheduler object has not run a step yet
  events,      \* how many of MaxEvents are left
  pc,          \* "idle", or "open" inside schedule()
  cur,         \* the id whose granted chunk is being sized, 0 if none
  todo,        \* ids not yet visited by this schedule() call
  num,         \* num_scheduled_tokens of this schedule() call
  \* clock differences
  age, acct,
  \* policy state that outlives a step
  credit, inContention, inflight, lastService, rrSeq, arrival, incarn,
  refused, refusedPrev, model, mixedSeen, earnedBy,
  \* policy state of the open step
  recOpen, hadDecode, stepMode, candidates, rank, selected, tried, passed,
  deferredTiers, grants, borrowed

envVars  == <<reqs, newSched, events>>
callVars == <<pc, cur, todo, num>>
rankVars == <<lastService, rrSeq, arrival, incarn, earnedBy, age>>
stepVars == <<recOpen, hadDecode, stepMode, candidates, rank, selected, tried,
              passed, deferredTiers, grants, borrowed>>
vars == <<envVars, callVars, rankVars, stepVars, acct, credit, inContention,
          inflight, refused, refusedPrev, model, mixedSeen>>

-----------------------------------------------------------------------------
(* Helpers                                                                  *)

Smaller(a, b) == IF a < b THEN a ELSE b
Larger(a, b) == IF a < b THEN b ELSE a

Gone == [at |-> "out", rem |-> 0, obj |-> 0]
NoGrant == [cap |-> 0, cost |-> 0, borrowed |-> FALSE]
None == [r \in Rids |-> 0]

Live == {r \in Rids : reqs[r].at # "out"}
Running == {r \in Rids : reqs[r].at = "running"}
Prefills == {r \in Live : reqs[r].rem > 0}
Decodes == {r \in Running : reqs[r].rem = 0}
Granted == {r \in Rids : grants[r].cap > 0}

(* What the grants of the record cost together: begin_step and cap_for sum  *)
(* them up each time.  A request without a grant costs nothing.             *)
Reserved == SumFunction([r \in Rids |-> grants[r].cost])

HasPrefill(rec) == \E r \in Rids : rec.prefill[r] > 0
InflightPrefill == \E i \in DOMAIN inflight : HasPrefill(inflight[i])

(* The order of the values of f, packed into 0..Cardinality(Rids); 0 stays  *)
(* 0, the value of an id that has no entry.                                 *)
Compact(f) == [r \in Rids |-> Cardinality({f[s] : s \in Rids} \cap (1..f[r]))]

(* f with the ids of S stamped after everything else, in the order of pos. *)
Stamp(f, S, pos) ==
  Compact([r \in Rids |-> IF r \in S THEN Cardinality(Rids) + 1 + pos[r] ELSE f[r]])

LexLess(a, b) ==
  \E i \in DOMAIN a : a[i] < b[i] /\ \A j \in 1..(i - 1) : a[j] = b[j]

(* The k first elements of S by key (all of them if there are fewer): what  *)
(* a loop over the sorted list picks before it breaks.                      *)
Leading(S, k, key) ==
  {T \in SUBSET S :
     /\ Cardinality(T) = Smaller(k, Cardinality(S))
     /\ \A t \in T, s \in S \ T : LexLess(key[t], key[s])}

(* Mutant: the ranking forgets the priority tier.                           *)
RankKey_NoTier(svc, rr, arr) == [r \in Rids |-> <<svc[r], rr[r], arr[r], r>>]

(* _rank_prefills: tier, completed-service age, rotation, arrival, id.      *)
RankKey(svc, rr, arr) ==
  [r \in Rids |-> <<Tier[r], svc[r], rr[r], arr[r], r>>]

Position(S, key) ==
  [r \in Rids |-> Cardinality({s \in S : LexLess(key[s], key[r])})]

Cost(n) == model.cost[n]

(* _target: the ladder is only used once something has been sampled.        *)
Sizes(remaining) ==
  {Smaller(n, remaining) :
     n \in {Chunk} \cup (IF mixedSeen \/ model.fit THEN Ladder ELSE {})}

(* Mutant: the rung is chosen without looking at the room left.             *)
Fitting_AnyRoom(remaining, room) == Sizes(remaining)

Fitting(remaining, room) == {n \in Sizes(remaining) : Cost(n) <= room}

TopSize == CHOOSE top \in {Chunk} \cup Ladder :
             \A n \in {Chunk} \cup Ladder : n <= top
CreditLimit == Smaller(MaxStep, Cost(TopSize))

(* Mutant: settled credit is not capped.                                    *)
Capped_Never(c) == c

Capped(c) == Smaller(CreditLimit, c)

(* Chunks the step can still select or grant besides those of S.            *)
(* Mutant: a promotion forgets the chunks already held.                     *)
Room_Whole(S) == MaxChunks

Room(S) == MaxChunks - Cardinality(S)

-----------------------------------------------------------------------------
Init ==
  /\ reqs = [r \in Rids |-> Gone]
  /\ newSched = FALSE /\ events = MaxEvents
  /\ pc = "idle" /\ cur = 0 /\ todo = {} /\ num = None
  /\ age = None /\ acct = MaxDt
  /\ credit = 0 /\ inContention = FALSE /\ inflight = <<>>
  /\ lastService = None /\ rrSeq = None /\ arrival = None /\ incarn = None
  /\ earnedBy = None
  /\ refused = {} /\ refusedPrev = {}
  /\ model \in {m \in Models : ~m.fit} /\ mixedSeen = FALSE
  /\ recOpen = FALSE /\ hadDecode = FALSE /\ stepMode = "solo"
  /\ candidates = {} /\ rank = None
  /\ selected = {} /\ tried = {} /\ passed = {} /\ deferredTiers = {}
  /\ grants = [r \in Rids |-> NoGrant]
  /\ borrowed = FALSE

-----------------------------------------------------------------------------
(* The environment: clients, the base scheduler's lists, the clock          *)

(* An address is taken by another object only when nothing remembers it.    *)
Fresh(r, o) ==
  /\ incarn[r] # o /\ reqs[r].obj # o
  /\ \A i \in DOMAIN inflight : inflight[i].incarn[r] # o

(* One of the bounded events of the environment happens.                    *)
Happens == events > 0 /\ events' = events - 1

(* A request is added.  Its prefill length already excludes a prefix hit.   *)
Arrive(r) ==
  /\ pc = "idle" /\ reqs[r].at = "out" /\ Happens
  /\ \E n \in 1..MaxTok, o \in Addrs :
       /\ Fresh(r, o)
       /\ reqs' = [reqs EXCEPT ![r] = [at |-> "waiting", rem |-> n, obj |-> o]]
  /\ UNCHANGED <<newSched, callVars, rankVars, stepVars, acct, credit,
                 inContention, inflight, refused, refusedPrev, model, mixedSeen>>

(* A request finishes or is aborted, possibly with an output in flight.     *)
Leave(r) ==
  /\ pc = "idle" /\ r \in Live /\ Happens
  /\ reqs' = [reqs EXCEPT ![r] = Gone]
  /\ UNCHANGED <<newSched, callVars, rankVars, stepVars, acct, credit,
                 inContention, inflight, refused, refusedPrev, model, mixedSeen>>

(* The engine builds another Scheduler in the process that holds the policy *)
(* object.  Its outputs in flight may still be observed.                    *)
NewScheduler ==
  /\ pc = "idle" /\ ~newSched /\ Happens
  /\ newSched' = TRUE
  /\ reqs' = [r \in Rids |-> Gone]
  /\ UNCHANGED <<callVars, rankVars, stepVars, acct, credit, inContention,
                 inflight, refused, refusedPrev, model, mixedSeen>>

(* Busy time the next completion would be accounted for.                    *)
BusyTime(rec) == Smaller(rec.since, acct)

Tick ==
  /\ pc = "idle"
  /\ inflight # <<>> => BusyTime(Head(inflight)) < MaxDt
  /\ age' = [r \in Rids |->
               IF arrival[r] = 0 THEN 0 ELSE Smaller(Interval, age[r] + 1)]
  /\ acct' = Smaller(MaxDt, acct + 1)
  /\ inflight' = [i \in DOMAIN inflight |->
                    [inflight[i] EXCEPT !.since = Smaller(MaxDt, @ + 1)]]
  /\ UNCHANGED <<envVars, callVars, lastService, rrSeq, arrival, incarn,
                 earnedBy, stepVars, credit, inContention, refused,
                 refusedPrev, model, mixedSeen>>

-----------------------------------------------------------------------------
(* begin_step                                                               *)

(* Mutant: only a departed id is forgotten, not one that was bound again.   *)
Forgotten_Departed(r) == r \notin Live

(* _prune and _track_incarnations: an id that is gone, or bound to another  *)
(* request object, keeps nothing.                                           *)
Forgotten(r) == r \notin Live \/ incarn[r] \notin {0, reqs[r].obj}
Kept(f) == [r \in Rids |-> IF Forgotten(r) THEN 0 ELSE f[r]]
(* _prune: entries of ids that are not live are dropped.                    *)
Pruned(f) == [r \in Rids |-> IF r \in Live THEN f[r] ELSE 0]

Newcomers == {r \in Live : Kept(arrival)[r] = 0}

(* A decoder runs, or an output that served one is still in flight.         *)
(* Mutant: contention is over as soon as no prefill is queued.              *)
Decoding_WhileQueued(flight) == Decodes # {} /\ Prefills # {}

Decoding(flight) ==
  Decodes # {} \/ \E i \in DOMAIN flight : flight[i].had_decode

(* Debt is forgiven only when nothing is decoding any more.                 *)
(* Mutant: the end of contention leaves the debt standing.                  *)
Carried_Always(funds, decoding) == funds

Carried(funds, decoding) == IF decoding THEN funds ELSE 0

(* Mutant: a mixed turn is taken with an older prefill in flight.           *)
ModeOf_AnyFlight(turn, busy) == IF turn THEN "prefill_turn" ELSE "solo"

ModeOf(turn, busy) ==
  IF ~turn THEN "solo" ELSE IF busy THEN "decode_only" ELSE "prefill_turn"

BeginStep ==
  LET flight == IF newSched THEN <<>> ELSE inflight
      \* a scheduler change zeroes the credit; an unfinished step is refunded
      funds == CASE newSched -> 0
                 [] ~newSched /\ recOpen -> credit + Reserved
                 [] OTHER -> credit
      decoding == Decoding(flight)
      contending == inContention /\ ~newSched /\ decoding
      turn == Prefills # {} /\ Decodes # {}
      busy == \E i \in DOMAIN flight : HasPrefill(flight[i])
  IN
  /\ pc = "idle" /\ Live # {} /\ Len(flight) < QueueDepth
  /\ pc' = "open" /\ cur' = 0 /\ todo' = Live /\ num' = None
  /\ newSched' = FALSE /\ inflight' = flight
  /\ acct' = IF newSched THEN MaxDt ELSE acct
  /\ incarn' = [r \in Rids |-> IF r \in Live THEN reqs[r].obj ELSE 0]
  /\ lastService' = Kept(lastService) /\ rrSeq' = Kept(rrSeq)
  /\ earnedBy' = Kept(earnedBy)
  /\ arrival' = Stamp(Kept(arrival), Newcomers, None)
  /\ age' = [r \in Rids |-> IF r \in Newcomers THEN 0 ELSE Kept(age)[r]]
  /\ refusedPrev' = IF newSched THEN {}
                    ELSE {r \in refused \cap Prefills : ~Forgotten(r)}
  /\ refused' = {}
  /\ candidates' = Prefills
  /\ rank' = Position(Prefills, RankKey(lastService', rrSeq', arrival'))
  /\ recOpen' = TRUE /\ hadDecode' = (Decodes # {})
  /\ grants' = [r \in Rids |-> NoGrant] /\ borrowed' = FALSE
  /\ tried' = {} /\ passed' = {} /\ deferredTiers' = {}
  /\ inContention' = (contending \/ turn)
  /\ credit' = IF turn /\ ~contending THEN Smaller(MaxStep, Cost(Chunk))
               ELSE Carried(funds, decoding)
  /\ stepMode' = ModeOf(turn, busy)
  /\ LET key == [r \in Rids |-> <<rank'[r]>>] IN
     IF stepMode' # "prefill_turn" THEN selected' = {}
     ELSE \E T \in Leading(Prefills \ refusedPrev', MaxChunks, key) :
            \E U \in Leading(Prefills \ T, Room(T), key) :
              selected' = T \cup U
  /\ UNCHANGED <<reqs, events, model, mixedSeen>>

-----------------------------------------------------------------------------
(* One visit of the base scheduler's loops: cap_for and what follows it     *)

(* Decodes come first in the reordered running list, then the running       *)
(* prefills, then the waiting queues.                                       *)
Turn ==
  IF todo \cap Decodes # {} THEN todo \cap Decodes
  ELSE IF todo \cap Running # {} THEN todo \cap Running ELSE todo

Visiting(r) == pc = "open" /\ cur = 0 /\ r \in Turn

ProtectDecode(r) == hadDecode /\ reqs[r].rem > 0

Scheduled(r, n) ==
  /\ num' = [num EXCEPT ![r] = n]
  /\ reqs' = IF n > 0 THEN [reqs EXCEPT ![r].at = "running"] ELSE reqs

(* Nothing left to prefill, or a step without contention: no cap.  A zero   *)
(* or a refused allocation of an unselected request is a policy pass.       *)
VisitUncapped(r) ==
  /\ Visiting(r)
  /\ reqs[r].rem = 0 \/ stepMode = "solo"
  /\ todo' = todo \ {r}
  /\ \E n \in 0..Larger(1, reqs[r].rem) : Scheduled(r, n)
  /\ UNCHANGED <<newSched, events, pc, cur, rankVars, stepVars, acct, credit,
                 inContention, inflight, refused, refusedPrev, model, mixedSeen>>

(* A contended prefill that does not hold the turn gets a zero cap.         *)
VisitPassed(r) ==
  /\ Visiting(r)
  /\ reqs[r].rem > 0 /\ stepMode # "solo"
  /\ stepMode # "prefill_turn" \/ r \notin selected
  /\ todo' = todo \ {r}
  /\ passed' = passed \cup {r}
  /\ UNCHANGED <<envVars, pc, cur, num, rankVars, recOpen, hadDecode, stepMode,
                 candidates, rank, selected, tried, deferredTiers, grants,
                 borrowed, acct, credit, inContention, inflight, refused,
                 refusedPrev, model, mixedSeen>>

GapRoom == Larger(0, MaxStep - Reserved)
Due(r) == lastService[r] = 0 \/ age[r] >= Interval

(* Mutant: a lower tier may borrow although a higher one was deferred.      *)
MayBorrow_AnyTier(r) == Due(r) /\ credit >= 0 /\ Granted = {} /\ ~borrowed

(* A newcomer or an aged request may borrow one chunk, alone in its step,   *)
(* once all debt is repaid and no higher tier was deferred.                 *)
MayBorrow(r) ==
  /\ Due(r) /\ credit >= 0
  /\ Granted = {} /\ ~borrowed
  /\ ~\E d \in deferredTiers : d < Tier[r]

LowerPresent(r) == \E c \in candidates : Tier[c] > Tier[r]

Grant(n, b) == [cap |-> n, cost |-> Cost(n), borrowed |-> b]

Best(S) == {n \in S : \A m \in S : m <= n}

(* What cap_for offers a selected request: the largest rung that fits the   *)
(* step if the credit covers it or it may be borrowed; otherwise, with a    *)
(* lower tier waiting, the largest rung the credit does cover.  Nothing is  *)
(* offered to a request that is deferred.                                   *)
Offers(r) ==
  LET picks == Best(Fitting(reqs[r].rem, GapRoom))
      dear == {n \in picks : Cost(n) > credit}
      affordable == Fitting(reqs[r].rem, Smaller(GapRoom, Larger(0, credit)))
  IN {Grant(n, FALSE) : n \in picks \ dear}
     \cup {Grant(n, TRUE) : n \in {p \in dear : MayBorrow(r)}}
     \cup {Grant(n, FALSE) : n \in {a \in Best(affordable) :
             dear # {} /\ ~MayBorrow(r) /\ LowerPresent(r)}}

(* The turn of a selected prefill that holds no grant yet.                  *)
HoldsTurn(r) ==
  /\ Visiting(r)
  /\ reqs[r].rem > 0 /\ stepMode = "prefill_turn" /\ r \in selected

VisitGranted(r) ==
  /\ HoldsTurn(r)
  /\ \E g \in Offers(r) :
       /\ grants' = [grants EXCEPT ![r] = g]
       /\ credit' = credit - g.cost
       /\ borrowed' = (borrowed \/ g.borrowed)
  /\ todo' = todo \ {r} /\ cur' = r
  /\ passed' = passed \cup {r} /\ tried' = tried \cup {r}
  /\ UNCHANGED <<envVars, pc, num, rankVars, recOpen, hadDecode, stepMode,
                 candidates, rank, selected, deferredTiers, acct, inContention,
                 inflight, refused, refusedPrev, model, mixedSeen>>

-----------------------------------------------------------------------------
(* _release: a selected request that got nothing gives back its grant and   *)
(* its slot, and the next untried candidate is promoted.                    *)

(* _promote_next.  After a native refusal the candidates the loops have not *)
(* passed yet come first, within their tier.                                *)
PromotionKey(seen, preferUnseen) ==
  [r \in Rids |->
     IF preferUnseen
       THEN <<Tier[r], IF r \in seen THEN 1 ELSE 0, rank[r]>>
       ELSE <<rank[r]>>]

(* Mutant: the licence to borrow is not returned with the chunk.            *)
StillBorrowed_Kept(r) == borrowed

StillBorrowed(r) == borrowed /\ ~grants[r].borrowed

Release(r, rotates, refusal) ==
  LET left == selected \ {r}
      held == Granted \ {r}
      eligible == candidates \ (tried \cup {r} \cup left)
  IN
  /\ credit' = credit + grants[r].cost
  /\ borrowed' = StillBorrowed(r)
  /\ grants' = [grants EXCEPT ![r] = NoGrant]
  /\ tried' = tried \cup {r}
  /\ rrSeq' = IF rotates THEN Stamp(rrSeq, {r}, None) ELSE rrSeq
  /\ \E T \in Leading(eligible, Room(left \cup held),
                      PromotionKey(passed', refusal)) :
       selected' = left \cup T

(* cap_for defers the request: no rung fits the step budget, or the credit. *)
VisitDeferred(r) ==
  /\ HoldsTurn(r)
  /\ Offers(r) = {}
  /\ todo' = todo \ {r}
  /\ passed' = passed \cup {r}
  /\ deferredTiers' = deferredTiers \cup {Tier[r]}
  /\ Release(r, FALSE, FALSE)
  /\ UNCHANGED <<envVars, pc, cur, num, lastService, arrival, incarn, earnedBy,
                 age, recOpen, hadDecode, stepMode, candidates, rank, acct,
                 inContention, inflight, refused, refusedPrev, model, mixedSeen>>

-----------------------------------------------------------------------------
(* The outcome of a granted chunk                                           *)

(* Budgets, alignment and encoder caps leave n tokens and the blocks are    *)
(* allocated.                                                               *)
ChunkScheduled ==
  /\ pc = "open" /\ cur # 0
  /\ \E n \in 1..grants[cur].cap : Scheduled(cur, n)
  /\ cur' = 0
  /\ UNCHANGED <<newSched, events, pc, todo, rankVars, stepVars, acct, credit,
                 inContention, inflight, refused, refusedPrev, model, mixedSeen>>

(* note_scheduled with zero tokens.                                         *)
ChunkZero ==
  /\ pc = "open" /\ cur # 0
  /\ cur' = 0
  /\ Release(cur, TRUE, FALSE)
  /\ UNCHANGED <<envVars, pc, todo, num, lastService, arrival, incarn, earnedBy,
                 age, recOpen, hadDecode, stepMode, candidates, rank, passed,
                 deferredTiers, acct, inContention, inflight, refused, refusedPrev,
                 model, mixedSeen>>

(* note_alloc_failed: the KV cache has no blocks for the chunk.             *)
ChunkRefused ==
  /\ pc = "open" /\ cur # 0
  /\ cur' = 0
  /\ refused' = refused \cup {cur}
  /\ Release(cur, TRUE, TRUE)
  /\ UNCHANGED <<envVars, pc, todo, num, lastService, arrival, incarn, earnedBy,
                 age, recOpen, hadDecode, stepMode, candidates, rank, passed,
                 deferredTiers, acct, inContention, inflight, refusedPrev, model,
                 mixedSeen>>

(* A running request gets no blocks and preempts v, unless the policy       *)
(* protects the decodes from it.  Nothing is admitted after a preemption.   *)
Preempt(d, v) ==
  /\ Visiting(d) /\ d \in Running /\ ~ProtectDecode(d)
  /\ v \in Running \ Granted /\ Happens
  /\ \E n \in 1..MaxTok :
       reqs' = [reqs EXCEPT ![v] = [at |-> "waiting", rem |-> n, obj |-> @.obj]]
  /\ num' = [num EXCEPT ![v] = 0]
  /\ todo' = (todo \cap Running) \ {v}
  /\ UNCHANGED <<newSched, pc, cur, rankVars, stepVars, acct, credit,
                 inContention, inflight, refused, refusedPrev, model, mixedSeen>>

(* The token budget or the running slots are used up, or the waiting loop   *)
(* breaks: the remaining prefills are not visited.                          *)
LoopEnds ==
  /\ pc = "open" /\ cur = 0
  /\ todo # {} /\ todo \cap Decodes = {} /\ Happens
  /\ todo' = {}
  /\ UNCHANGED <<reqs, newSched, pc, cur, num, rankVars, stepVars, acct, credit,
                 inContention, inflight, refused, refusedPrev, model, mixedSeen>>

-----------------------------------------------------------------------------
(* finish_step, then the base scheduler's _update_after_schedule            *)

(* Mutant: a decode token counts as prefill.                                *)
PrefillPart_Unclamped(r) == num[r]

PrefillPart(r) == Smaller(num[r], reqs[r].rem)

(* What finish_step charges a grant: what was scheduled of it, at the       *)
(* estimate of today and never more than its own; a chunk that alignment,   *)
(* allocation or preemption took out of the output costs nothing.           *)
Sealed(r) == IF PrefillPart(r) > 0 THEN Smaller(grants[r].cost, Cost(PrefillPart(r)))
             ELSE 0
Charged == SumFunction([r \in Rids |-> Sealed(r)])

(* The fields of a step are set again by begin_step before anything reads   *)
(* them, the grants apart: the model clears them here.                      *)
StepEnds ==
  /\ pc' = "idle" /\ cur' = 0 /\ todo' = {} /\ num' = None
  /\ borrowed' = FALSE
  /\ selected' = {} /\ tried' = {} /\ passed' = {} /\ deferredTiers' = {}
  /\ candidates' = {} /\ rank' = None
  /\ stepMode' = "solo" /\ hadDecode' = FALSE

FinishStep ==
  LET prefill == [r \in Rids |-> PrefillPart(r)] IN
  /\ pc = "open" /\ cur = 0 /\ todo = {}
  /\ credit' = credit + Reserved - Charged
  /\ StepEnds
  /\ recOpen' = FALSE /\ grants' = [r \in Rids |-> NoGrant]
  /\ reqs' = [r \in Rids |-> [reqs[r] EXCEPT !.rem = @ - prefill[r]]]
  /\ inflight' = IF num = None THEN inflight
                 ELSE Append(inflight,
                        [had_decode |-> hadDecode, prefill |-> prefill,
                         reserved |-> Charged, since |-> 0,
                         incarn |-> [r \in Rids |->
                                       IF prefill[r] > 0 THEN incarn[r] ELSE 0]])
  /\ UNCHANGED <<newSched, events, rankVars, acct, inContention, refused, refusedPrev,
                 model, mixedSeen>>

(* schedule() raises: nothing is dispatched, and the record stays open with *)
(* its grants, which begin_step refunds.                                    *)
AbortStep ==
  /\ pc = "open" /\ Happens
  /\ StepEnds
  /\ UNCHANGED <<reqs, newSched, rankVars, recOpen, grants, acct, credit,
                 inContention, inflight, refused, refusedPrev, model, mixedSeen>>

-----------------------------------------------------------------------------
(* observe_output: the oldest output in flight completes                    *)

Orders(S) == {f \in [S -> 1..Cardinality(S)] :
                \A r, s \in S : f[r] = f[s] => r = s}

(* The reservation was debited when it was granted: it is returned, and the *)
(* actual busy time is charged if the step carried prefill.                 *)
(* Mutants: the reservation is not returned; decode service earns nothing.  *)
Settled_ChargedTwice(rec, dt, cost) == credit + Share * dt - cost
Settled_NoAccrual(rec, dt, cost) == credit + rec.reserved - cost

Settled(rec, dt, cost) == credit + rec.reserved + Share * dt - cost

Observe ==
  LET rec == Head(inflight)
      dt == BusyTime(rec)
      served == {r \in Rids : rec.prefill[r] > 0}
      credited == {r \in served : rec.incarn[r] = incarn[r]}
      cost == IF served = {} THEN 0 ELSE Unit * dt
  IN
  /\ pc = "idle" /\ inflight # <<>> /\ dt >= MinDt
  /\ inflight' = Tail(inflight)
  /\ acct' = 0
  /\ \E pos \in Orders(credited) :
       /\ lastService' = Pruned(Stamp(lastService, credited, None))
       /\ rrSeq' = Pruned(Stamp(rrSeq, credited, pos))
  /\ age' = Pruned([r \in Rids |-> IF r \in credited THEN 0 ELSE age[r]])
  /\ earnedBy' = Pruned([r \in Rids |->
                    IF r \in credited THEN rec.incarn[r] ELSE earnedBy[r]])
  /\ arrival' = Pruned(arrival) /\ incarn' = Pruned(incarn)
  /\ credit' = IF rec.had_decode
                 THEN Capped(Settled(rec, dt, cost))
                 ELSE credit
  /\ IF served = {} \/ dt = 0
       THEN UNCHANGED <<model, mixedSeen>>
       ELSE model' \in Models /\ mixedSeen' = (mixedSeen \/ rec.had_decode)
  /\ refused' = refused \cap Live /\ refusedPrev' = refusedPrev \cap Live
  /\ UNCHANGED <<envVars, callVars, stepVars, inContention>>
-----------------------------------------------------------------------------
Environment == \/ \E r \in Rids : Arrive(r) \/ Leave(r)
               \/ NewScheduler

Visit(r) == \/ VisitUncapped(r)
            \/ VisitPassed(r)
            \/ VisitGranted(r)
            \/ VisitDeferred(r)

Next == \/ Environment
        \/ Tick
        \/ BeginStep
        \/ \E r \in Rids : Visit(r)
        \/ \E d, v \in Rids : Preempt(d, v)
        \/ ChunkScheduled \/ ChunkZero \/ ChunkRefused
        \/ LoopEnds
        \/ FinishStep \/ AbortStep
        \/ Observe

Spec == Init /\ [][Next]_vars

(* The engine core keeps calling schedule() while there are requests and    *)
(* schedule() runs to its end; time passes and every output completes       *)
(* between those calls; and a request that is sized again and again is not  *)
(* given zero tokens, or refused blocks, every time.                        *)
Schedule == \/ BeginStep \/ FinishStep
            \/ \E r \in Rids : Visit(r)
            \/ ChunkScheduled \/ ChunkZero \/ ChunkRefused

GetsTokens(r) == /\ VisitUncapped(r) \/ (cur = r /\ ChunkScheduled)
                 /\ num'[r] > 0

Fairness ==
  /\ WF_vars(Schedule)
  /\ SF_vars(Tick) /\ SF_vars(Observe)
  /\ \A r \in Rids : SF_vars(GetsTokens(r))

FairSpec == Spec /\ Fairness

-----------------------------------------------------------------------------
(* Properties                                                               *)

Flight == [had_decode : BOOLEAN, prefill : [Rids -> 0..MaxTok], reserved : Nat,
           since : 0..MaxDt, incarn : [Rids -> Nat]]

Request == [at : {"out", "waiting", "running"}, rem : 0..MaxTok, obj : Nat]

CallType ==
  /\ reqs \in [Rids -> Request]
  /\ newSched \in BOOLEAN /\ events \in 0..MaxEvents
  /\ pc \in {"idle", "open"} /\ cur \in Rids \cup {0}
  /\ todo \subseteq Rids /\ num \in [Rids -> 0..MaxTok]

RankType ==
  /\ age \in [Rids -> 0..Interval]
  /\ lastService \in [Rids -> Nat] /\ rrSeq \in [Rids -> Nat]
  /\ arrival \in [Rids -> Nat] /\ incarn \in [Rids -> Nat]
  /\ earnedBy \in [Rids -> Nat]
  /\ refused \subseteq Rids /\ refusedPrev \subseteq Rids

CreditType ==
  /\ credit \in Int /\ inContention \in BOOLEAN
  /\ inflight \in Seq(Flight) /\ acct \in 0..MaxDt
  /\ model \in Models /\ mixedSeen \in BOOLEAN

GrantType == [cap : 0..MaxTok, cost : Nat, borrowed : BOOLEAN]

StepType ==
  /\ recOpen \in BOOLEAN /\ hadDecode \in BOOLEAN
  /\ stepMode \in {"solo", "decode_only", "prefill_turn"}
  /\ candidates \subseteq Rids /\ rank \in [Rids -> Nat]
  /\ selected \subseteq Rids /\ tried \subseteq Rids /\ passed \subseteq Rids
  /\ deferredTiers \subseteq Nat
  /\ grants \in [Rids -> GrantType] /\ borrowed \in BOOLEAN

(* The shape of the state: every handler leaves each field in its range.    *)
TypeOK == CallType /\ RankType /\ CreditType /\ StepType

(* A step never has more than MaxChunks chunks granted or still selected,   *)
(* however often candidates are released and others promoted in their place.*)
SlotBound == Cardinality(selected \cup Granted) <= MaxChunks

(* The estimates reserved in one step stay within the step limit.           *)
StepBudget == Reserved <= MaxStep

(* A borrowed chunk is the only chunk of its step, and the borrowed flag is *)
(* up exactly as long as that chunk is held: a release returns the licence. *)
BorrowAlone ==
  pc = "open" =>
    /\ borrowed => \E r \in Rids : Granted = {r} /\ grants[r].borrowed
    /\ ~borrowed => \A r \in Rids : ~grants[r].borrowed

(* A contended step that carries prefill was scheduled with no older        *)
(* prefill in flight: async scheduling never stacks a second mixed step.    *)
SoleContendedPrefill ==
  \A i, j \in DOMAIN inflight :
    i < j /\ inflight[j].had_decode /\ HasPrefill(inflight[j])
      => ~HasPrefill(inflight[i])

(* The decoders' debt, counting what is reserved for work not completed     *)
(* yet, never exceeds the unpaid part of one step's service.                *)
MaxDebt == (Unit - Share) * MaxDt
DebtBounded ==
  \/ credit + Reserved >= -MaxDebt
  \/ \E i \in DOMAIN inflight :
       inflight[i].reserved > 0 /\ credit + Reserved + inflight[i].reserved >= -MaxDebt

(* Out of contention nothing is owed, so entering contention, which sets    *)
(* the credit to one probe, can never forgive a debt.                       *)
NoDebtOutsideContention == ~inContention => credit >= 0

(* Credit is bounded: settled credit by the step limit, and a refund of an  *)
(* abandoned step can add at most one more step limit to it.                *)
CreditCeiling == credit + Reserved <= 2 * MaxStep

(* Under the priority policy a chunk goes past a better tier's candidate    *)
(* only if that candidate had its turn in this step or was refused blocks   *)
(* in the previous one.                                                     *)
NoTierInversion ==
  pc = "open" =>
    \A r \in Granted, s \in candidates :
      Tier[s] < Tier[r] => s \in selected \cup tried \cup refusedPrev

(* A lower tier never borrows in a step where a higher tier was deferred.   *)
NoBorrowPastDeferredTier ==
  \A r \in Rids : grants[r].borrowed => \A d \in deferredTiers : d >= Tier[r]

(* Tiers are passed over and borrowed past only by licence.                 *)
TiersKept == NoTierInversion /\ NoBorrowPastDeferredTier

(* The service age a request is ranked by was earned by that very request   *)
(* object, never by an earlier request under the same id.                   *)
ServiceBelongsToRequest ==
  pc = "open" => \A r \in Live : lastService[r] > 0 => earnedBy[r] = reqs[r].obj

(* While a decoder runs, starting a step never cancels debt: churn of the   *)
(* prefills (departures, new arrivals) only refunds an unfinished step.     *)
DebtSurvivesChurn ==
  [][(pc = "idle" /\ pc' = "open" /\ ~newSched /\ credit < 0 /\ Decodes # {})
       => credit' <= credit + Reserved]_vars

(* A request with prefill to do is eventually given tokens, or leaves, even *)
(* while decoders keep running: shared debt is repaid, and neither the age  *)
(* order nor the rotation passes it over for ever.                          *)
EventuallyScheduled ==
  \A r \in Rids : (r \in Prefills) ~> (num[r] > 0 \/ r \notin Prefills)
=============================================================================
