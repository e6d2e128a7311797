------------------------------ MODULE HybridHit ------------------------------
(****************************************************************************)
(* The prefix-cache lookup of the hybrid coordinator as the kit changes it  *)
(* (overlay/patch_hybrid_prefix_hit.py), and what a request leaves in the   *)
(* cache for it to find (overlay/patch_apc_per_group_retention.py).         *)
(*                                                                          *)
(* The full-attention (MLA) group, the Mamba groups and the drafter's       *)
(* sliding-window group each look up a shared candidate length, in passes,  *)
(* until no group shortens it.  The drafter does not shorten it, but a hit  *)
(* whose fresh suffix is too short to rebuild its window is backed up       *)
(* unless a verified window comes with it.                                  *)
(*                                                                          *)
(* Requests follow one stream of tokens as far as `div' and leave it there. *)
(* Only what they cache of the stream matters: positions are token counts.  *)
(* The Mamba groups have one geometry and are one group.  Lookups of the    *)
(* managers are vLLM's.                                                     *)
(****************************************************************************)
EXTENDS Integers, FiniteSets, FiniteSetsExt

CONSTANTS
  Align,         \* scheduler_block_size, the MLA and Mamba block
  Unit,          \* _cache_hit_alignment_tokens: Align, or the drafter's block
  DraftBlock,    \* block size of the drafter's group
  WindowTokens,  \* its sliding window
  Kpool,         \* kpool_replay_tokens
  Compact,       \* GLM53_DRAFT_KV_COMPACT: the lookup ends at the boundary
  DraftDense,    \* the drafter's retention interval is not 0
  MambaDense,    \* the Mamba groups' retention interval is not 0
  MaxLen,        \* bound: the longest prompt
  MaxRequests    \* bound: requests served

ASSUME GeometryAssumption ==
  /\ {Align, Unit, DraftBlock, WindowTokens, MaxLen} \subseteq Nat \ {0}
  /\ Align % DraftBlock = 0 /\ Unit \in {Align, DraftBlock}
  /\ {Kpool, MaxRequests} \subseteq Nat
  /\ {Compact, DraftDense, MambaDense} \subseteq BOOLEAN

VARIABLES
  mla,      \* ends of the stream's cached full-attention blocks
  states,   \* positions of its cached Mamba states
  draft,    \* numbers of its cached draft blocks, the first is 1
  query,    \* the request being served: prompt length, divergence
  look,     \* the locals of find_longest_cache_hit
  served,   \* requests so far
  intact    \* history: the last replay boundary computed since an eviction

vars == <<mla, states, draft, query, look, served, intact>>

-----------------------------------------------------------------------------
(* Geometry                                                                 *)

Down(n, unit) == (n \div unit) * unit
Up(n, unit) == Down(n + unit - 1, unit)
AtLeast0(n) == IF n > 0 THEN n ELSE 0
Largest(S) == Max(S \cup {0})

Lookahead == IF Compact THEN 0 ELSE 1

(* required_tail_blocks: the blocks of a complete window.                   *)
TailBlocks == Up(WindowTokens - 1, DraftBlock) \div DraftBlock

(* The draft blocks of the window that ends at p, cut at the prompt's start.*)
WindowAt(p) == {i \in 1..(p \div DraftBlock) : i > p \div DraftBlock - TailBlocks}

(* The last boundary before the token that is always recomputed.            *)
ReplayBoundary(n) == Down(n - 1, Align)
MaxHit == query.len - 1
Fresh(h) == query.len - h

(* kpool floor: what is left to compute rebuilds a complete kpool.          *)
Candidate(n) == AtLeast0(Min({n - 1, n - Kpool}))

-----------------------------------------------------------------------------
(* What the managers find, at most at n                                     *)

(* Ends of block chains cached from the start, as far as the query agrees.  *)
FullHits ==
  {m \in mla : m <= query.div /\ \A k \in 1..(m \div Align) : k * Align \in mla}
FullEnd(n) == Largest({m \in FullHits : m <= n})
FullCovers(p) == p = 0 \/ \E m \in FullHits : p <= m

StateEnd(n) == Largest({s \in states : s <= n /\ s <= query.div})

(* A window, and `ahead' blocks after it that are popped from the result.   *)
DraftEnds(n, ahead) ==
  {p \in {k * Unit : k \in 1..(MaxLen \div Unit)} :
     /\ p + ahead * DraftBlock <= n
     /\ \A i \in WindowAt(p) \cup (p \div DraftBlock + 1)..(p \div DraftBlock + ahead) :
          i \in draft /\ i * DraftBlock <= query.div}
DraftEnd(n, ahead) == Largest(DraftEnds(n, ahead))

-----------------------------------------------------------------------------
(* What a request leaves                                                    *)

(* Boundaries a sparse Mamba group keeps: the replay boundary, a junction   *)
(* with other requests, and one boundary before the former.                 *)
(* Mutant: no prior boundary.                                               *)
Kept_NoPrior(n, junction) == {ReplayBoundary(n), junction}

Kept(n, junction) == {ReplayBoundary(n), ReplayBoundary(n) - Align, junction}

NewStates(n, h, junction) ==
  {p \in {k * Align : k \in 1..(n \div Align)} :
     p > h /\ (MambaDense \/ p \in Kept(n, junction))}

(* A partial block at the end of the prompt, when hits may be fine-grained. *)
Tails(n, h) == {p \in {Down(n - 1, Unit)} : p > h /\ Unit # Align}

(* Draft blocks of the windows that end at a boundary, with the block after *)
(* the boundary unless lookups end at it.  Nothing before the window of the *)
(* hit is there to be cached.                                               *)
NewDraft(n, h, reused, junction) ==
  LET ends == {p \in {k * Align : k \in 1..(n \div Align)} :
                 DraftDense \/ p \in {ReplayBoundary(n), junction}}
      kept == UNION {WindowAt(p) \cup {p \div DraftBlock + Lookahead} : p \in ends}
      first == IF reused THEN h ELSE AtLeast0(h - WindowTokens + 1)
  IN {i \in kept : i > first \div DraftBlock /\ i * DraftBlock <= n}

-----------------------------------------------------------------------------
(* hit, curr: hit_length and curr_hit_length; full: the MLA blocks are      *)
(* found; verified: eagle_verified; window: where the drafter's blocks end, *)
(* 0 for none; longest: longest_hit_length.                                 *)

NoQuery == [len |-> 1, div |-> 0]
NoLook == [pc |-> "idle", hit |-> 0, curr |-> 0, full |-> FALSE, verified |-> FALSE,
           window |-> 0, longest |-> 0]

Init ==
  /\ mla = {} /\ states = {} /\ draft = {}
  /\ query = NoQuery /\ look = NoLook
  /\ served = 0 /\ intact = 0

Arrive ==
  /\ look.pc = "idle" /\ served < MaxRequests
  /\ served' = served + 1
  /\ \E n \in 1..MaxLen : \E d \in 0..n :
       /\ query' = [len |-> n, div |-> d]
       /\ look' = [NoLook EXCEPT !.pc = "full", !.hit = Candidate(n), !.curr = Candidate(n)]
  /\ UNCHANGED <<mla, states, draft, intact>>

(* The blocks of the full-attention group are found once and then cut.      *)
FullLookup ==
  /\ look.pc = "full"
  /\ LET n == IF look.full THEN Down(look.curr, Unit) ELSE FullEnd(look.curr) IN
     look' = [look EXCEPT !.pc = "mamba", !.curr = n, !.full = TRUE,
                          !.verified = @ /\ (look.full \/ n = look.curr),
                          !.longest = IF look.full THEN @ ELSE Largest({@, n})]
  /\ UNCHANGED <<mla, states, draft, query, served, intact>>

MambaLookup ==
  /\ look.pc = "mamba"
  /\ LET n == StateEnd(look.curr) IN
     look' = [look EXCEPT !.pc = "draft", !.curr = n, !.verified = @ /\ n = look.curr,
                          !.longest = Largest({@, n})]
  /\ UNCHANGED <<mla, states, draft, query, served, intact>>

(* Whether the drafter's group counts as verified after it found a window   *)
(* that ends at n, having looked for the block after it or not.             *)
(* Mutant: an attempt to find the block after the window verifies it.       *)
Verified_Attempted(n, dropped) == dropped \/ look.verified

Verified(n, dropped) ==
  IF Compact \/ dropped THEN n >= look.curr ELSE look.verified /\ n >= look.curr

(* A window that ends before the candidate is no use.                       *)
(* Mutant: it is taken all the same.                                        *)
WindowFound_Any(n) == n

WindowFound(n) == IF n >= look.curr THEN n ELSE look.window

(* The drafter never shortens the candidate.                                *)
DraftLookup ==
  /\ look.pc = "draft"
  /\ LET drop == ~look.verified /\ ~Compact
         most == IF drop
                 THEN Min({look.curr + DraftBlock, MaxHit})
                 ELSE look.curr
         n == DraftEnd(most, IF drop THEN 1 ELSE 0)
     IN look' = [look EXCEPT !.pc = "converge",
                             !.verified = Verified(n, drop),
                             !.window = WindowFound(n)]
  /\ UNCHANGED <<mla, states, draft, query, served, intact>>

(* draft_replay_ready: a verified window of full size ends at the candidate.*)
(* Mutant: a cached window is not looked at, every hit is backed up.        *)
WindowReady_Never == FALSE

WindowReady ==
  /\ look.verified /\ TailBlocks > 0
  /\ look.window = look.curr
  /\ look.curr \div DraftBlock >= TailBlocks

(* _glm53_dflash_replay_safe_hit: back to where the suffix fills a window.  *)
SafeHit(h) ==
  IF h = 0 \/ Fresh(h) >= WindowTokens THEN h
  ELSE AtLeast0(h - Up(WindowTokens - Fresh(h), Unit))

(* A fine hit first falls back to the boundary before it.                   *)
(* Mutant: a fine hit is backed up like any other.                          *)
BackedUp_Directly(h) == SafeHit(h)

BackedUp(h) == IF h % Align # 0 THEN Largest({SafeHit(h), Down(h, Align)}) ELSE SafeHit(h)

(* The next pass after a candidate was backed up to h.                      *)
(* Mutant: the pass repeats at the length that failed.                      *)
Retry_SameLength(h) ==
  [look EXCEPT !.pc = "full", !.curr = look.hit, !.window = 0, !.verified = FALSE]

Retry(h) ==
  [look EXCEPT !.pc = "full", !.hit = h, !.curr = h, !.window = 0, !.verified = FALSE]

Converge ==
  /\ look.pc = "converge"
  /\ look' = IF look.curr < look.hit
             THEN [look EXCEPT !.pc = "full", !.hit = look.curr]
             ELSE IF ~WindowReady /\ BackedUp(look.curr) < look.curr
             THEN Retry(BackedUp(look.curr))
             ELSE [look EXCEPT !.pc = "done"]
  /\ UNCHANGED <<mla, states, draft, query, served, intact>>

(* The request computes the rest of its prompt, what it shares with the     *)
(* stream is cached, and it leaves.  vLLM may have it keep the junction.    *)
Complete ==
  /\ look.pc = "done"
  /\ \E junction \in {0, look.longest} :
     LET n == query.len
         h == look.hit
         shared == {p \in 1..n : p <= query.div}
         ends == {k * Align : k \in 1..(n \div Align)} \cup Tails(n, h)
     IN
     /\ mla' = mla \cup ({p \in ends : p > h} \cap shared)
     /\ states' = states \cup ((NewStates(n, h, junction) \cup Tails(n, h)) \cap shared)
     /\ draft' = draft \cup {i \in NewDraft(n, h, look.window > 0, junction) :
                               i * DraftBlock <= query.div}
     /\ intact' = IF h < ReplayBoundary(n) /\ ReplayBoundary(n) <= query.div
                  THEN Largest({intact, ReplayBoundary(n)}) ELSE intact
  /\ query' = NoQuery /\ look' = NoLook
  /\ UNCHANGED served

(* A block is taken by some other request.                                  *)
Evict ==
  /\ look.pc = "idle"
  /\ \/ \E p \in mla : mla' = mla \ {p} /\ UNCHANGED <<states, draft>>
     \/ \E p \in states : states' = states \ {p} /\ UNCHANGED <<mla, draft>>
     \/ \E i \in draft : draft' = draft \ {i} /\ UNCHANGED <<mla, states>>
  /\ intact' = 0
  /\ UNCHANGED <<query, look, served>>

Lookup == FullLookup \/ MambaLookup \/ DraftLookup \/ Converge

(* The program only stops at the bound on requests.                         *)
Next == Arrive \/ Lookup \/ Complete \/ Evict

Spec == Init /\ [][Next]_vars

(* find_longest_cache_hit is one call: once begun it runs to its end.       *)
FairSpec == Spec /\ WF_vars(Lookup)

-----------------------------------------------------------------------------
(* Properties                                                               *)

(* Positions are aligned and inside the prompt, whatever was cached.        *)
TypeOK ==
  /\ mla \subseteq 1..MaxLen /\ states \subseteq 1..MaxLen
  /\ draft \subseteq 1..(MaxLen \div DraftBlock)
  /\ query \in [len : 1..MaxLen, div : 0..MaxLen]
  /\ look \in [pc : {"idle", "full", "mamba", "draft", "converge", "done"},
              hit : 0..(MaxLen - 1), curr : 0..(MaxLen - 1), full : BOOLEAN,
              verified : BOOLEAN, window : 0..(MaxLen - 1), longest : 0..(MaxLen - 1)]
  /\ served \in 0..MaxRequests /\ intact \in 0..MaxLen

(* Usable without the drafter: the target has every block and a state at h, *)
(* of the query's own tokens, and a complete kpool is left to compute.      *)
TargetHas(h) ==
  /\ h % Unit = 0 /\ FullCovers(h) /\ h \in states
  /\ h <= query.div /\ Fresh(h) >= Kpool

(* A full window that ends at h is cached, with the block after it unless   *)
(* lookups end at the boundary.                                             *)
WindowCached(h) ==
  /\ h \div DraftBlock >= TailBlocks
  /\ h + Lookahead * DraftBlock <= MaxHit
  /\ WindowAt(h) \cup (h \div DraftBlock + 1)..(h \div DraftBlock + Lookahead)
       \subseteq {i \in draft : i * DraftBlock <= query.div}

(* The length returned is one the target can resume at, although groups     *)
(* shorten it in turn and it is backed up after they agreed.                *)
HitResumable == look.pc = "done" /\ look.hit > 0 => TargetHas(look.hit)

(* The drafter never starts on a partial window: either the suffix rebuilds *)
(* it or a verified one comes with the hit.                                 *)
WindowOrReplay ==
  look.pc = "done" /\ look.hit > 0 =>
    \/ Fresh(look.hit) >= WindowTokens
    \/ look.window = look.hit /\ WindowCached(look.hit)

(* Draft blocks that were found for another length are never returned.      *)
WindowOfTheHit == look.pc = "done" => look.window \in {0, look.hit}

(* No boundary that could be used is passed over, by the backing up or      *)
(* because a fine hit beyond it failed, when the window fits a block.       *)
NoBoundaryMissed ==
  look.pc = "done" =>
    \A h \in {k * Align : k \in 1..(MaxHit \div Align)} :
      TargetHas(h) /\ (Fresh(h) >= WindowTokens \/ WindowCached(h)) => look.hit >= h

(* Sparse as the Mamba states may be, a follow-up that agrees with all that *)
(* was computed up to the last replay boundary resumes at most one boundary *)
(* before it: backing up lands on a state that was kept for it.             *)
PriorReachable ==
  look.pc = "done" /\ intact > 0 /\ query.len > intact /\ query.div >= intact
    => look.hit >= intact - Align

(* A lookup ends: no pass repeats for ever.                                 *)
LookupEnds == look.pc \notin {"idle", "done"} ~> look.pc = "done"

(* What a lookup returns can be resumed at by the target and, with or       *)
(* without cached draft blocks, by the drafter.                             *)
HitUsable == TypeOK /\ HitResumable /\ WindowOrReplay /\ WindowOfTheHit
=============================================================================
