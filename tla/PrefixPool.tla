------------------------------ MODULE PrefixPool ------------------------------
(****************************************************************************)
(* The block pool of the prefix cache as the kit changes it: the drafter's  *)
(* low-priority blocks and the order of the releases                        *)
(* (overlay/patch_apc_per_group_retention.py), requests that store nothing  *)
(* (overlay/patch_apc_no_store.py) and the cache reset route                *)
(* (overlay/patch_cache_reset.py).  The rest of the pool and the managers   *)
(* that hold block tables are vLLM's and are modelled as those patches use  *)
(* them.                                                                    *)
(*                                                                          *)
(* A prompt is a sequence of chunks, one block per chunk and manager.  The  *)
(* target manager stands for the MLA and Mamba managers, whose blocks the   *)
(* pool treats alike; the draft manager keeps a window of the last blocks.  *)
(* How long a hit may be and whether the drafter's window comes with it is  *)
(* decided by the coordinator: here a hit is any prefix the target has      *)
(* cached, with the drafter's window or without it.  Which full draft       *)
(* blocks are worth a hash is a matter of the retention interval: here any. *)
(****************************************************************************)
EXTENDS Integers, Sequences, FiniteSets

CONSTANTS
  Blocks,       \* block ids without the null block
  Reqs,         \* request ids
  Prompts,      \* the prompts, sequences of chunks; a common prefix is shared
  MaxLen,       \* bound: the longest prompt
  Window,       \* draft blocks the sliding window reads
  LowPriority   \* the retention interval of the drafter is 0

ASSUME BlocksAssumption == IsFiniteSet(Blocks) /\ 0 \notin Blocks
ASSUME ReqsAssumption == IsFiniteSet(Reqs)
ASSUME PromptsAssumption ==
  /\ MaxLen \in Nat \ {0}
  /\ \A p \in Prompts : Len(p) \in 1..MaxLen /\ p \in Seq({p[i] : i \in DOMAIN p})
ASSUME WindowAssumption == Window \in Nat \ {0} /\ LowPriority \in BOOLEAN

VARIABLES
  queue,   \* free_block_queue: the place of each block, 1 at its front, or 0
  ref,     \* ref_cnt of each block
  hash,    \* block_hash of each block
  holds,   \* the key of what was last computed into each block
  req,     \* the requests: prompt, no-store flag, blocks, last one full
  table    \* req_to_blocks of both managers

vars == <<queue, ref, hash, holds, req, table>>

-----------------------------------------------------------------------------
(* Keys and tables                                                          *)

Null == 0
NoHash == <<>>
Out == [on |-> FALSE, prompt |-> <<>>, quiet |-> FALSE, len |-> 0, full |-> TRUE]
NoTable == [target |-> <<>>, draft |-> <<>>]

(* A hash covers the group and every chunk up to its block.                 *)
Key(m, p, i) == <<m, SubSeq(p, 1, i)>>
Keys == UNION {{Key(m, p, i) : i \in DOMAIN p} : m \in {"target", "draft"}, p \in Prompts}

Entries(s) == {s[i] : i \in DOMAIN s} \ {Null}
Held(t) == Entries(t.target) \cup Entries(t.draft)
Holders(b) == {r \in Reqs : b \in Held(table[r])}

(* get_num_skipped_tokens: draft blocks behind the window of n full blocks. *)
Skipped(n) == IF n > Window THEN n - Window ELSE 0

-----------------------------------------------------------------------------
(* free_blocks: blocks nobody holds any more go back to the queue.  A block *)
(* that cannot match goes to the front, a drafter block that can goes       *)
(* behind those of its call, any other cached block goes to the end.        *)

Unhashed(h, b) == h[b] = NoHash

LowCached(h, b) == LowPriority /\ ~Unhashed(h, b) /\ h[b][1] = "draft"
Ordinary(h, b) == ~Unhashed(h, b) /\ ~LowCached(h, b)

Unheld(rc, S) == {b \in S : rc[b] = 1}

(* The blocks of S, queued by increasing key.                               *)
Queued(S, key) ==
  [b \in Blocks |->
     IF b \in S THEN Cardinality({c \in S : key[c] <= key[b]}) ELSE 0]

InQueue(q) == {b \in Blocks : q[b] > 0}

(* Where the block at place i of its table goes, last block first.          *)
(* Mutant: every cached block goes to the end, as before the patch.         *)
Spot_OneClass(b, i) ==
  IF Unhashed(hash, b) THEN -MaxLen - i ELSE Cardinality(Blocks) + MaxLen - i + 1

Spot(b, i) ==
  IF Unhashed(hash, b) THEN -MaxLen - i
  ELSE IF LowCached(hash, b) THEN -i
  ELSE Cardinality(Blocks) + MaxLen - i + 1

(* The queue after the blocks S of the table s are freed.                   *)
Freed(q, s, S, rc) ==
  LET free == Unheld(rc, S) IN
  Queued(InQueue(q) \cup free,
         [b \in Blocks |-> IF b \in free
                          THEN Spot(b, CHOOSE i \in DOMAIN s : s[i] = b) ELSE q[b]])

Dropped(rc, S) == [b \in Blocks |-> IF b \in S THEN rc[b] - 1 ELSE rc[b]]

(* touch: blocks of a hit leave the queue and gain a holder.                *)
(* Mutant: the blocks of a hit stay in the free queue.                      *)
Touched_Queued(q, S) == q

Touched(q, S) == Queued(InQueue(q) \ S, q)

(* get_new_blocks pops the front: the first n blocks, in their order.       *)
Popped(q, n) == {f \in [1..n -> Blocks] : \A i \in 1..n : q[f[i]] = i}
Behind(q, n) == [b \in Blocks |-> IF q[b] > n THEN q[b] - n ELSE 0]

(* _maybe_evict_cached_block: what the popped blocks cached is forgotten.   *)
(* Mutant: a popped block keeps its hash.                                   *)
Evicted_Kept(h, S) == h

Evicted(h, S) == [b \in Blocks |-> IF b \in S THEN NoHash ELSE h[b]]

-----------------------------------------------------------------------------
(* cache_full_blocks                                                        *)

(* The new hashes of the full blocks new (a function to their keys): none   *)
(* for a no-store request, and a draft block only if it is retained.        *)
(* Mutant: the no-store flag is not looked at.                              *)
Stored_Always(h, new, quiet) ==
  {[b \in Blocks |-> IF b \in DOMAIN new \ drop THEN new[b] ELSE h[b]] :
     drop \in SUBSET {b \in DOMAIN new : new[b][1] = "draft"}}

Stored(h, new, quiet) ==
  IF quiet THEN {h}
  ELSE {[b \in Blocks |-> IF b \in DOMAIN new \ drop THEN new[b] ELSE h[b]] :
          drop \in SUBSET {b \in DOMAIN new : new[b][1] = "draft"}}

-----------------------------------------------------------------------------
(* Ids are only names: they may be numbered in any order.                   *)
Init ==
  /\ queue \in {q \in [Blocks -> 1..Cardinality(Blocks)] :
                  \A b, c \in Blocks : b # c => q[b] # q[c]}
  /\ ref = [b \in Blocks |-> 0]
  /\ hash = [b \in Blocks |-> NoHash]
  /\ holds = [b \in Blocks |-> NoHash]
  /\ req = [r \in Reqs |-> Out]
  /\ table = [r \in Reqs |-> NoTable]

(* The ways the coordinator can answer a lookup of h blocks of p.           *)
TargetHit(p, h) ==
  {t \in [1..h -> Blocks] : \A i \in 1..h : hash[t[i]] = Key("target", p, i)}
DraftHit(p, h) ==
  {d \in [1..h -> Blocks \cup {Null}] :
     \A i \in 1..h : IF i <= Skipped(h) THEN d[i] = Null
                     ELSE d[i] # Null /\ hash[d[i]] = Key("draft", p, i)}

(* allocate_slots for a request that is not running: the hit is touched,    *)
(* then each manager takes what it lacks.  Without a draft hit the drafter  *)
(* gets an empty window, which nothing is computed into.                    *)
Admit(r) ==
  /\ ~req[r].on
  /\ \E p \in Prompts, quiet \in BOOLEAN, full \in BOOLEAN :
     \E h \in 0..(Len(p) - 1) :
     \E t \in TargetHit(p, h), warm \in {d \in DraftHit(p, h) : h > 0} \cup {<<>>} :
     LET cold == warm = <<>>
         hits == Entries(t) \cup Entries(warm)
         left == Touched(queue, hits)
         blank == IF cold THEN h - Skipped(h) ELSE 0
         need == 2 + blank
         base == IF cold THEN [i \in 1..Skipped(h) |-> Null] ELSE warm
     IN \E new \in Popped(left, need) :
     LET draft == base \o Tail(new)
         key == [b \in {new[1], new[need]} |->
                   Key(IF b = new[1] THEN "target" ELSE "draft", p, h + 1)]
         filler == [b \in {new[i] : i \in 2..(need - 1)} |->
                      Key("draft", p, CHOOSE i \in DOMAIN draft : draft[i] = b)]
     IN
     /\ queue' = Behind(left, need)
     /\ ref' = [b \in Blocks |->
                  IF b \in hits THEN ref[b] + 1
                  ELSE IF b \in Entries(new) THEN 1 ELSE ref[b]]
     /\ holds' = [b \in Blocks |->
                    IF b \in DOMAIN key THEN key[b]
                    ELSE IF b \in DOMAIN filler THEN NoHash ELSE holds[b]]
     /\ hash' \in Stored(Evicted(hash, Entries(new)),
                         [b \in DOMAIN filler \cup (IF full THEN DOMAIN key ELSE {}) |->
                            IF b \in DOMAIN key THEN key[b] ELSE filler[b]],
                         quiet)
     /\ req' = [req EXCEPT ![r] = [on |-> TRUE, prompt |-> p, quiet |-> quiet,
                                   len |-> h + 1, full |-> full]]
     /\ table' = [table EXCEPT ![r] = [target |-> Append(t, new[1]), draft |-> draft]]

(* The draft blocks of r the window has passed.                             *)
Passed(r) == {table[r].draft[i] : i \in 1..Skipped(req[r].len)} \ {Null}

WithoutPassed(r) ==
  [i \in DOMAIN table[r].draft |->
     IF i <= Skipped(req[r].len) THEN Null ELSE table[r].draft[i]]

(* allocate_slots for a running request whose blocks are full: the blocks   *)
(* behind the window are freed, then each manager takes one block, if there *)
(* are enough.                                                              *)
Grow(r) ==
  /\ req[r].on /\ req[r].full /\ req[r].len < Len(req[r].prompt)
  /\ LET p == req[r].prompt
         n == req[r].len + 1
         q == Freed(queue, table[r].draft, Passed(r), ref)
         rc == Dropped(ref, Passed(r))
     IN
     \/ /\ Cardinality(InQueue(q)) < 2 /\ Passed(r) # {}
        /\ queue' = q /\ ref' = rc
        /\ table' = [table EXCEPT ![r].draft = WithoutPassed(r)]
        /\ UNCHANGED <<hash, holds, req>>
     \/ \E new \in Popped(q, 2), full \in BOOLEAN :
        LET key == [b \in Entries(new) |->
                      Key(IF b = new[1] THEN "target" ELSE "draft", p, n)]
        IN
        /\ queue' = Behind(q, 2)
        /\ ref' = [b \in Blocks |-> IF b \in DOMAIN key THEN 1 ELSE rc[b]]
        /\ holds' = [b \in Blocks |-> IF b \in DOMAIN key THEN key[b] ELSE holds[b]]
        /\ hash' \in Stored(Evicted(hash, DOMAIN key),
                            [b \in IF full THEN DOMAIN key ELSE {} |-> key[b]],
                            req[r].quiet)
        /\ req' = [req EXCEPT ![r].len = n, ![r].full = full]
        /\ table' = [table EXCEPT ![r] = [target |-> Append(@.target, new[1]),
                                         draft |-> Append(WithoutPassed(r), new[2])]]

(* allocate_slots for a running request whose last blocks become full.      *)
Fill(r) ==
  /\ req[r].on /\ ~req[r].full
  /\ LET n == req[r].len
         new == {table[r].target[n], table[r].draft[n]}
     IN hash' \in Stored(hash,
                         [b \in new |-> Key(IF b = table[r].target[n] THEN "target"
                                            ELSE "draft", req[r].prompt, n)],
                         req[r].quiet)
  /\ req' = [req EXCEPT ![r].full = TRUE]
  /\ UNCHANGED <<queue, ref, holds, table>>

(* free, when the request finishes, is aborted or is preempted: the low-    *)
(* priority manager first.                                                  *)
(* Mutant: the managers are released in the order of their groups.          *)
Released_GroupOrder(r) ==
  Freed(Freed(queue, table[r].target, Entries(table[r].target), ref),
        table[r].draft, Entries(table[r].draft), ref)

Released(r) ==
  Freed(Freed(queue, table[r].draft, Entries(table[r].draft), ref),
        table[r].target, Entries(table[r].target), ref)

Release(r) ==
  /\ req[r].on
  /\ queue' = Released(r)
  /\ ref' = Dropped(ref, Held(table[r]))
  /\ req' = [req EXCEPT ![r] = Out]
  /\ table' = [table EXCEPT ![r] = NoTable]
  /\ UNCHANGED <<hash, holds>>

(* /reset_prefix_cache forgets every hash, and only while nothing is held.  *)
Reset ==
  /\ \A b \in Blocks : ref[b] = 0
  /\ hash' = [b \in Blocks |-> NoHash]
  /\ UNCHANGED <<queue, ref, holds, req, table>>

Next == Reset \/ \E r \in Reqs : Admit(r) \/ Grow(r) \/ Fill(r) \/ Release(r)

Spec == Init /\ [][Next]_vars

-----------------------------------------------------------------------------
(* Properties                                                               *)

RequestType ==
  [on : BOOLEAN, prompt : Prompts \cup {<<>>}, quiet : BOOLEAN, len : 0..MaxLen,
   full : BOOLEAN]

(* Places, counts, keys and requests stay in their ranges, and both tables  *)
(* of a request have one entry per block of its prompt.                     *)
TypeOK ==
  /\ queue \in [Blocks -> 0..Cardinality(Blocks)]
  /\ ref \in [Blocks -> 0..Cardinality(Reqs)]
  /\ hash \in [Blocks -> Keys \cup {NoHash}]
  /\ holds \in [Blocks -> Keys \cup {NoHash}]
  /\ req \in [Reqs -> RequestType]
  /\ \A r \in Reqs :
       /\ table[r].target \in Seq(Blocks) /\ Len(table[r].target) = req[r].len
       /\ table[r].draft \in Seq(Blocks \cup {Null})
       /\ Len(table[r].draft) = req[r].len

(* A block's count is the number of requests that hold it, and it is in the *)
(* free queue, once, exactly when nobody does: blocks shared by hits,       *)
(* passed by a window or released by a preemption are neither leaked nor    *)
(* handed out while in use.                                                 *)
CountsMatch ==
  \A b \in Blocks :
    /\ ref[b] = Cardinality(Holders(b))
    /\ queue[b] > 0 <=> ref[b] = 0
    /\ queue[b] > 0 => \A c \in Blocks \ {b} : queue[c] # queue[b]

(* Nothing another request does puts other keys into the target blocks of a *)
(* request: each holds exactly the prefix of its prompt that it stands for, *)
(* whether it came from a hit or was computed.                              *)
TargetIntact ==
  \A r \in Reqs : \A i \in DOMAIN table[r].target :
    holds[table[r].target[i]] = Key("target", req[r].prompt, i)

(* The drafter never evicts target state: an ordinary cached block is only  *)
(* reached when no free block is left that cannot match or that only the    *)
(* drafter has cached.                                                      *)
TargetLast ==
  \A b, c \in InQueue(queue) :
    Ordinary(hash, b) /\ ~Ordinary(hash, c) => queue[c] < queue[b]

(* A request that stores nothing and read nothing leaves the pool with its  *)
(* own blocks at the very front: they are the next ids recycled.            *)
NoStoreRecycledNext ==
  [][\A r \in Reqs :
       LET own == Held(table[r]) IN
       req[r].quiet /\ ~req'[r].on /\ (\A b \in own : ref[b] = 1 /\ Unhashed(hash, b))
         => {b \in Blocks : queue'[b] \in 1..Cardinality(own)} = own]_vars

(* While only requests that store nothing run, no chunk becomes reachable   *)
(* that was not, however they are admitted, grow and are preempted.         *)
NoStoreAddsNothing ==
  [][(\A r \in Reqs : req'[r].on => req'[r].quiet)
       => {hash'[b] : b \in Blocks} \subseteq {hash[b] : b \in Blocks} \cup {NoHash}]_vars

(* In one release the blocks that cannot match come before the drafter's    *)
(* cached ones, although the managers are released one by one.              *)
ReleaseOrder ==
  [][\A r \in Reqs : req[r].on /\ ~req'[r].on =>
       \A b, c \in Held(table[r]) :
         queue'[b] > 0 /\ queue'[c] > 0 /\ Unhashed(hash, b) /\ LowCached(hash, c)
           => queue'[b] < queue'[c]]_vars

(* Every block is accounted for (block_pool as the retention patch has it). *)
PoolAccounted == TypeOK /\ CountsMatch

(* A no-store request leaves nothing behind that others could find, and     *)
(* takes nothing others could still use (patch_apc_no_store.py).            *)
NoStoreLeavesNoTrace == NoStoreRecycledNext /\ NoStoreAddsNothing
=============================================================================
