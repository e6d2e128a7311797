# A verification project for the GLM-5.3-Flash EXL3 kit

TLA+ models of the serving kit in this repository: what its parts do, the
properties they must keep, TLC configurations that check them on small instances,
and theorems that TLAPS proves for every value of the constants. The code is the
reference; each definition translates the lines that `PROJECT.json` names for it
under `map`. `PROJECT.json` also lists the components, the runs, the hazards each
property is for, the disagreements found between comments and code, and the
theorems.

1. [The system](#1-the-system)
2. [The modules](#2-the-modules)
3. [FairPrefill](#3-fairprefill-the-fair-scheduler)
4. [PrefixPool](#4-prefixpool-the-block-pool)
5. [HybridHit](#5-hybridhit-the-prefix-cache-lookup)
6. [One container](#6-one-container-mcserving)
7. [Weights and containers](#7-weights-and-containers-mccluster)
8. [Findings](#8-findings)
9. [What is proved](#9-what-is-proved)
10. [What is not modelled](#10-what-is-not-modelled)
11. [Running it](#11-running-it)

## 1. The system

The kit serves one model with vLLM on two, three or four DGX Spark machines. vLLM
itself is external. The repository holds a launcher that runs on the head machine
and drives the workers over ssh; patches that rewrite files of the installed vLLM
when a container starts; replacement modules (the EXL3 quantisation layer, the TP=3
layers, the drafter); native kernels; and tools. At run time the parts meet inside
one vLLM engine: its scheduler thread calls the patched scheduling policy, the
policy's requests allocate from the patched block pool, admissions start with the
patched prefix lookup, and every step runs the patched layers on each machine.

### Components

**Fair mixed-prefill scheduler** (`overlay/patch_scheduler_decode_floor.py`).
State: the credit decoders have granted to prefill (or are owed), the records of
outputs in flight, service and rotation stamps per request, samples of step cost,
and within a step the ranking, the selected requests and their grants; what is
reserved is the sum of the grants' costs, taken anew wherever it is needed. Operations: `begin_step`, `cap_for`, `_release` with `_promote_next`, the
`note_*` hooks, `finish_step`, `observe_output`. Called by the scheduler around and
inside `schedule()`, and by `update_from_output` when an output completes. Hard:
with async scheduling steps are scheduled before older ones complete; a granted
chunk can be refused in the middle of the visiting loops, which moves its slot to
another request; ids are bound to new requests while outputs are in flight;
`schedule()` may raise. Correct when: the account of the debt balances and stays
bounded; a step respects its slots and its budget; no priority tier is passed
without a licence; nobody starves.

**Block pool** (`overlay/patch_apc_per_group_retention.py`,
`patch_apc_no_store.py`, `patch_cache_reset.py`). State: vLLM's free queue,
reference counts, hashes and block tables. Changed operations: the order in which
the managers of a request release blocks, where a released block enters the queue,
whether a full block gets a hash, the reset route. Hard: blocks are shared by
prefix hits, groups with different retention share one pool, and the effect of one
release is seen many requests later, at an eviction. Correct when: counts match the
tables; a held block is never rewritten; the drafter's blocks go before target
state; requests that store nothing leave no trace.

**Hybrid lookup and retention** (`overlay/patch_hybrid_prefix_hit.py`,
`patch_apc_per_group_retention.py`). State: the loop variables of
`find_longest_cache_hit` and, across calls, what earlier requests left in the cache.
Hard: three kinds of groups shorten one candidate in turn, the drafter must not
shorten it, and a hit that leaves too little to recompute the drafter's window is
backed up, to a place where every group must still have something. Correct when:
every group can resume at the returned length, the drafter never starts on half a
window, no usable boundary is missed, and the loop ends.

**Adaptive verification length** (`overlay/patch_adaptive_k.py`). State: an average
of accepted drafts and a count per request, the set of lengths, an override file.
Operations: `observe`, `choose`, `apply`, `batch_k`, `_reload`. Hard: the length for
the next step is chosen from averages of completed steps, for a batch that changed;
the override may change in between. Correct when: one length per batch, always from
the captured set, and full length while anything is unobserved or structured.

**Cooperative MoE** (`extensions/cooperative_moe`). State: one scratch and one
buffer of arrival counters per row capacity for all layers of a device, the layers
with a native launch. Operations: install, select, launch (up to three kernels),
raise. Hard: sharing between layers and streams; a kernel leaves the counters that
the next one counts from; a failure after a partial launch. Correct when: a cell is
finished once, each kernel reads what its own launch wrote, and stock code never
runs over a partial result.

**Checkpoint loading** (`overlay/patch_loadclone.py`, `patch_cold_load_uma.py`).
State: a window of shard reads in a thread pool, shards consumed and released.
Operations: `files`, `read`, `release_before`, `close`. Hard: close at any point,
with reads outstanding. Correct when: outstanding reads stay within the depth, no
page is released before its tensor was consumed, close leaves no thread.

**Grammar and stop handling** (`overlay/patch_xgrammar_termination.py`,
`patch_suppress_stops_in_reasoning.py`, `patch_tool_choice_none.py`). State: the
matcher, a cached termination flag. Hard: a speculative batch crosses the end of
the grammar or of the reasoning and is rolled back. Correct when: the flag always
equals the matcher's and tokens after the end are refused quietly.

**Kpool tail state** (`overlay/patch_kpool_tail_slotmap.py`,
`patch_kpool_tail_seed_stride.py`, `patch_indexer_*.py`) and **Mamba alignment**
(`overlay/patch_mamba_align_chunking.py`, `patch_mamba_align_state_free.py`).
State: a ring in one block per request; recorded indices of superseded state
blocks. Correct when: a slot stays inside its request's block; a state block is
freed once and not before the step that reads it.

**EXL3 layers** (`overlay/exl3.py`). State: the buffers and the arrival records of a
merged dense layer; the tier of expert kernels resolved at load. Operations: load a
tensor, process a layer, route a batch. Hard: tensors in any order with stale
copies and gaps; five kernel tiers, each of which serves only part of the rows.
Correct when: a layer serves its own columns or is refused; every routed row of a
rank is added once.

**TP=3 layers** (`overlay/tp3/`). State: padded vocabulary tables and shards. Hard:
sizes three ranks do not divide. Correct when: every token, row and head is served
by one rank from its own weight.

**Drafter groups, drafter, ablation, small patches**
(`overlay/patch_glm5_drafter_group.py`, `qwen3_dflash2.py`,
`dflash2_speculator.py`, `ablit_runtime.py`, ...). Tensor programs and
single-expression changes; their control is vLLM's.

**Launcher** (`start.sh`, `stop.sh`, `start-tp3.sh`, `start-tp4.sh`). State: the
lifecycle lock, containers on every machine, the canary's verdict. Operations:
`start`, `stop`, `restart`, `launch_cluster`, `wait_for_health`,
`post_ready_warmup`, `stop_containers`. Hard: two operators; a machine that cannot
be reached half way; a killed shell, whose ssh does not keep the lock; transient
misses that look like dead containers. Correct when: only the holder of the lock
begins to change containers, stop never removes a pair another start is building, a
condemned engine does not stay reachable unless the message says so.

**Weights on disk** (`download_weights`, `sync_repo_to_worker` in `start.sh`,
`files/nfs-share.sh`). State: snapshots and a marker per machine. Hard: transfers
interrupted at any file, a second revision over the first. Correct when: a marker
vouches only for a complete tree of its revision.

**Installers** (`main` of every patch). State: the text of the vLLM files. Hard: run
again after a crash between two files, and over what an older kit has patched.
Correct when: a file is pristine or complete (the coordinator of an older retention
kit is neither, and is served), and a second run changes nothing.

**Dense pair** (`build_dense_h3` in `start.sh`, `tools/dense_overlay.py`,
`stage_dense_h3.py`, `pack_profile.py`). State: a cache of headers, an overlay and
its marker, published snapshots, a reference. Hard: a long chain of steps, any of which may
be the last of its run. Correct when: what is published or served is whole, and a
failed build can be run again.

**Probes, images, benchmarks, packaging** (`scripts`, `kernel_lab`, `tests`, the
other `tools`): offline or observing programs.

## 2. The modules

| module | models | checked in | against |
| --- | --- | --- | --- |
| `FairPrefill` | the fair policy inside the scheduler | five runs of `MCFairPrefill` | invariants, liveness, proofs |
| `PrefixPool` | free queue, hashes, counts, release order | `pool_priority` | invariants, action properties, proofs |
| `HybridHit` | the lookup loop and retention | `hit_eagle`, `hit_fine` | invariants, liveness, proofs |
| `PatchInstall` | all installers, the build and the three boots | `serving` | invariants |
| `ShardLayout` | vocabulary, shards and heads over the ranks | `serving` | the unsharded tables, proofs |
| `DenseLoad` | tensors of merged EXL3 layers | `serving` | the checkpoint's columns |
| `MoeDispatch` | tiers and kernels of the experts | `serving` | the router's choice |
| `AdaptiveK` | averages, override, batch length | `serving` | invariants, proofs |
| `CoopMoe` | launches, counters, shared workspace | `serving` | invariants, proofs |
| `GrammarBatch` | drafts over the end of a grammar | `serving` | the matcher, proofs |
| `MambaAlign` | chunk ends and state blocks | `serving` | invariants, proofs |
| `KpoolRing` | ring slots and strided seeding | `serving` | the request's last tokens, proofs |
| `Launcher` | lock, start, stop, restart, health, teardown | `cluster`, `tail` | `ClusterOwner`, invariants, liveness, proofs |
| `SnapshotSync` | marker, transfer, verification; extends `Launcher` | `cluster`, `tail` | invariants, proofs |
| `ClusterOwner` | abstract: one owner of the pair | `cluster` | (refined by `Launcher`, proved) |
| `PackBuild` | the resumable build of the dense pair | `cluster`, `stuck_build` | invariants, proofs |
| `LoadPrefetch` | window of shard reads, release, close | `cluster` | invariants, liveness, proofs |

`SnapshotSync` composes with `Launcher`: a start syncs under its lock, and a kill or
a concurrent command meets both. `HybridHit` and `PrefixPool` meet through
what an eviction may take, which `HybridHit` overapproximates (section 5). The other
components share no state in the code, or meet only inside vLLM. `MCServing` and
`MCCluster` therefore put independent components next to each other: the variable
`part` picks one in the initial state, its variables move and those of the others
stay put. Such a run explores the sum of the components, not their product; a
property of one of them says nothing about the rest, and is written
`part = "..." => ...`, or holds trivially in the first state of the others.

The proofs are in modules of their own: `FairPrefillProofs`, `PrefixPoolProofs`,
`HybridHitProofs`, `ClusterProofs` (the four components of section 7), and over
`MCServing` `ServingProofs` (`CoopMoe`, `KpoolRing`, and the arithmetic the others
share), `EngineProofs` (`MambaAlign`, the tiers of `MoeDispatch`), `AdaptiveProofs`
(`AdaptiveK`, `GrammarBatch`) and `ShardProofs`.

What is worth adding next: proofs for `DenseLoad`, `PatchInstall` and the rest of
`MoeDispatch`; an `NfsShare` module (exporter, mounts, refusals).

## 3. FairPrefill: the fair scheduler

`FairPrefill` is class `_Glm53MixedPrefill` in mode `fair` with the parts of vLLM's
`schedule()` that call it.

| action | code |
| --- | --- |
| `BeginStep` | `begin_step`: scheduler change, refund of an open record, pruning, ranking, contention, selection |
| `VisitUncapped`, `VisitPassed`, `VisitGranted`, `VisitDeferred` | the four answers of `cap_for`, each with what the loops do next; decodes are visited first, then running prefills, then the waiting queue |
| `ChunkScheduled`, `ChunkZero`, `ChunkRefused` | what becomes of a granted chunk: `note_scheduled` with tokens, with none, `note_alloc_failed`; the last two include `_release` and `_promote_next` |
| `Preempt`, `LoopEnds` | vLLM: a preemption, a loop that ends early |
| `FinishStep`, `AbortStep` | `finish_step` with `_update_after_schedule`; a `schedule()` that raises and leaves the record open |
| `Observe` | `observe_output` for the oldest output in flight |
| `Arrive`, `Leave`, `NewScheduler`, `Tick` | clients, another Scheduler in the process, the clock |

Clock readings are only subtracted in the code, so the model keeps differences;
stamps are only compared, so it keeps their order (`Compact`). Credit and cost are
integers, `Unit` to a tick. The estimate of a step's cost is any member of `Models`,
chosen anew whenever a sample arrives: whatever the fit computes, it is positive
and does not decrease with the size. There is no variable for what a step has
reserved or a record was charged: `Reserved` and `Charged` are the sums over the
grants that `begin_step`, `cap_for` and `finish_step` take. A step that ends keeps its
grants until its record is sealed or, when `schedule()` raised, until the next
`begin_step` refunds them. `None`, `Gone`, `NoGrant` are empty values.

Runs:

| run | instance | shows |
| --- | --- | --- |
| `fair_async` | 2 requests, 2 outputs in flight, 2 sizes, two estimates | the account: bounds, one mixed step at a time, no laundering of debt, a borrowing licence handed back by the chunk that had it |
| `fair_priority` | 3 requests, 2 tiers, one chunk per step | slots, tier order, borrowing |
| `fair_rebind` | 2 ids, 2 object identities, 2 outputs in flight | service age belongs to the object that earned it |
| `fair_live` | 2 requests, 2 outputs in flight, 2 sizes, with fairness | a prefill next to running decoders gets tokens |
| `fair_borrow_past` | 3 requests, 2 chunks per step | the first finding below |

Two outputs in flight are what async scheduling keeps. Three requests are needed
for a slot to move past a second candidate to a third. `BorrowAlone` says that the
licence to borrow and the borrowed chunk come and go together, and that such a chunk
is never next to another grant: the run, with one chunk per step, shows the first;
the second rests on the theorem `BorrowedAlone`, for any number of chunks. Each run
keeps the dimension its question needs and bounds the others.
`MaxEvents` bounds the arrivals, departures, preemptions and failures of a
behaviour: three allow one request to arrive, a second to contend, and one thing
to go wrong between them, or an id to be used, left and bound again. A completed
step takes from `MinDt` to `MaxDt` ticks; in `fair_async` a step of one tick costs 4
units where its estimate was 1, 2 or 4, and one of no ticks costs nothing, so more,
less or as much is settled as was reserved.

Fairness (`FairSpec`): the engine core calls `schedule()` as long as there are
requests and the call runs to its end (WF of `Schedule`); time passes and outputs
come back between those calls, though not at any particular call (SF of `Tick` and
`Observe`); a request whose chunk is sized again and again is not refused every
time (SF of `GetsTokens`). The last one is an assumption on the KV cache: blocks
come free some time. `EventuallyScheduled` then says that the policy itself defers
nobody for ever.

## 4. PrefixPool: the block pool

A prompt is a sequence of chunks, one block per chunk and manager. The target
manager stands for the MLA and Mamba managers, whose blocks the pool treats alike;
the draft manager keeps a sliding window. `queue` maps each block to its place in
the free queue.

| action | code |
| --- | --- |
| `Admit` | `allocate_slots` for an admission: touch the hit, pop blocks, evict what they cached, hash the full ones (`BP_FULL_NEW`: none for a no-store request) |
| `Grow`, `Fill` | a running request: free the blocks its window has passed, take new ones; its last blocks become full |
| `Release` | `FREE_METHOD_NEW` and `BP_FREE_NEW`: managers in priority order, each block to the front, behind the front, or to the end |
| `Reset` | the reset route, which vLLM refuses while blocks are held |

`pool_priority` runs two requests over two prompts that share a chunk, in five
blocks: enough for a shared hit while both run, too few for both to grow, so
evictions, refusals and preemptions all happen; the longer prompt slides the
window. Blocks and requests are symmetric. The initial order of the queue is any:
ids are only names. `NoStoreLeavesNoTrace` and `ReleaseOrder` are action properties:
what a step with a no-store request may hash, and in which order one release puts
blocks in the queue. `PoolAccounted` joins the counts with the tables and the queue.

Preemption, abort and completion are one action, as in the code: each calls `free`.
Which of vLLM's hits a request gets is any prefix the target has, with the
drafter's window or without; `HybridHit` models the choice.

## 5. HybridHit: the prefix-cache lookup

All requests follow one stream of tokens and leave it at `div`; only what they
cache of the stream matters, so the cache is three sets of positions: ends of MLA
blocks, Mamba states, draft blocks. `look` holds the locals of
`find_longest_cache_hit`.

| action | code |
| --- | --- |
| `FullLookup`, `MambaLookup`, `DraftLookup` | one turn of the loop over `attention_groups` each, with the patch's verification (`MIN_NEW`) and lookup at the boundary |
| `Converge` | the end of a pass: another pass, the replay clamp, the fall back from a fine tail (`CONVERGE_FINAL`, `COARSE_RETRY_NEW`), or the return |
| `Complete` | what the request leaves: `reachable_boundaries` of the retention patch |
| `Arrive`, `Evict` | a prompt; any cached block is taken by another request |

Dense retention of the drafter's blocks (`DraftDense`) leaves more windows than sparse
retention and is in no run: its cache states are too many for the same bounds.

vLLM chooses whether a junction with another request is kept (`Complete`): both. An
eviction takes any block, more than the order of `PrefixPool` allows; properties
that need an order carry it as a condition (`intact`).

The production geometry has a window of 2048 tokens in a block of 3584 of several
draft blocks. The instances keep what the arithmetic depends on: the draft block
divides the MLA block, the window is at most one MLA block, the kpool is at most one
draft block. `MaxLen` is three MLA blocks and one token (two and two in
`hit_fine`), so that a hit can be backed up once and once more.

| run | instance | shows |
| --- | --- | --- |
| `hit_eagle` | 3 requests, sparse retention, block after the window verified | drafter safe, no boundary missed, backing up finds a kept state |
| `hit_fine` | 2 requests, hits at draft-block granularity (three between boundaries), lookup ends at the hit (compact drafter cache), dense Mamba retention, with fairness | drafter safe, no boundary missed, resumable after the fall back, the window belongs to the hit, the lookup ends |

`NoBoundaryMissed` and `PriorReachable` depend on the geometry, and the proofs say on
what: for the first the drafter's window is at most a block of the target, as
deployed; for the second hits end at Mamba boundaries (`CoarseHits`, the default:
`PREFIX_MATCH_UNIT` is unset). With finer hits `PriorReachable` is false, by
counterexamples of TLC with boundaries every four or six tokens and hits at every
second one.

Two requests are enough for a hit, three for one over what two left. Deadlock is
not checked in these two runs: serving stops at `MaxRequests`. `FairSpec` is weak
fairness of the lookup's own steps: it is one call of one thread.

## 6. One container: MCServing

`Serving.cfg` instantiates nine components and gives the sizes of five of them
(`Shard...`, `Adaptive...`, `Coop...`, `Ring...`, `Mamba...`), so that a theorem about
`MCSpec` holds for all their sizes. Each is small enough to be explored whole; `CHECK_DEADLOCK FALSE` because each may come to its end.

**PatchInstall.** A file of vLLM is the set of generations of each installer's edits
in it. A *recipe* per installer says which files it writes in which order, whether
it examines all before writing one, whether it replaces a file at once, how much of
a file it compares, and which older generations it migrates or refuses. `Examine`,
`Handle`, `Leave` are one installer; `order` is the list of a Docker build or of one
of the three boot scripts; `Crash` and `Rerun` are a container killed and started
again; what a plain write had begun may be cut (`torn`). The initial states are
stock and current installations in which one installer's first files have another
generation. A generation that an installer writes back as it is stays what it was
(`keeps`): the coordinator of an older retention kit has the marker, so it gains one
helper and neither the order of release nor a call of that helper; it is
`"unordered"` before and after. `InstallConsistent` (an engine starts only over complete files, that
coordinator and files edited by hand apart; the worker's guard is on disk before the drafter page; the two coordinator installers
put their helpers in one order) and `RefusesOverDrift` (a boot is refused only over
a file that is torn, was edited, or has a generation no kit migrates).

**ShardLayout.** The padded vocabulary (`Unit`, `OrgPadded`, `FullPadded`, `Indices`),
what each rank loads and which row it reads for a token, padded shards, and the
padded heads of the draft, for one to four ranks. `LayoutServed`: every token is
served by one rank and found where the gathered logits expect it, shards
concatenate to the weight and zeros, every query head meets its own key head.
Vocabularies divide by ranks and padding or miss either by one (`TokensAround`).

**DenseLoad.** `Arrive` is `_load_exl3` for one tensor, in any order, with one
missing and stale copies among them; `Process` is `process_weights_after_loading`;
the two forward paths (packed, and the BF16 copy for large batches) are operators.
`DenseServed`: each output column comes from its own column with its own scale on
both paths, or the layer is refused for a cause.

**MoeDispatch.** `Load` resolves the tier from the switches, the symbols in the image
and the layer; one action per path of `apply_exl3_fused_moe`. A kernel adds a
sequence of <<slot, expert, signs>>. `ExpertsServed`: each choice of the router of
this rank is added once, with its own signs, by the tier that was resolved.
`argsort` ties are ordered either way. Kernels do what their Python callers rely on.

**AdaptiveK.** `Observe`, `Reload`, `Choose`, `BatchK` (asynchronous), `Drafted` and
`Apply` (synchronous). `Keys` is the order in which the override file is read: a
value that does not parse leaves the ones before it in force. `LengthsHonoured`:
the length is captured and one for the batch, requests under a grammar or with too
few observations keep their drafts, and a request cut short finds back after
`Climb` steps of full acceptance. `Climb` is long enough for every `alpha` and `margin`
a file may set (`Shrinks` in `AKAssumption`: the deficit of an average shrinks by
`1 - alpha` with each such step).

**CoopMoe.** `Call` queues the kernels of one launch on a stream, or fails after some
of them; `Begin`, `ArriveLast`, `Finish` run them on the device. Cells of the
counters stand for chunks; the regions of the two capacities overlap if they share a
buffer. Five calls over two layers, one with a native kernel, let each of the
kernels follow each other at both capacities. `LaunchesIsolated`: a chunk is finished once, by the last that arrives; a
kernel reads what its own launch wrote; nothing follows a half launch.

**GrammarBatch.** `Propose`, `Fill`, `Sample`, `Reset`: drafts over the end of the
grammar and of the reasoning, the walk that fills the masks and is rolled back.
`MatcherInStep`: the cached flag and the count are the matcher's; no token that was
validated or masked is refused. The grammar is a parameter (`GrammarDelta` and the
constants next to it in `Serving.cfg`); the run's is a cycle with an exit, of which
three drafts reach the end, or pass it, from every state.

**MambaAlign.** `Schedule` ends a chunk (`SplitEnd`), allocates and records what it
supersedes; `Return` lets an older step end; `Preempt` frees and admits again, from
a hit or from nothing. `StatesAligned`: a step in flight keeps the blocks it reads
and writes, a complete page holds the state of its end, blocks stay in the
reservation, every grant makes progress. Pages of two and four tokens, a checkpoint
every four and two batches in flight put a chunk's end before, on and past a page's;
a prompt of 19 has a last checkpoint, a page after it and a tail.

**KpoolRing.** `Prefill` runs one program per token of a mixed batch with padding.
`RingsPrivate`: the ring of a request holds its last tokens whoever had the block
before, and the padding of a page is not written. Three rows over two blocks make a
block change hands; a ring of two with a stride of five leaves padding behind it.

## 7. Weights and containers: MCCluster

`Cluster.cfg` has two commands, two revisions, two faults; three faults of the dense
build; four shards, a window of two and one failing read.

**Launcher.** A command is a shell that ran `start`, `restart` or `stop`, at its step
`pc`. `kin` are the live processes with its descriptor 9: the lock is free when no
process has it open. docker and rsync inherit it, so a killed shell leaves the lock
to them; ssh closes every descriptor above stderr, so it does not keep the lock. What
a shell was doing on the worker when it was killed, or when its ssh broke, may
therefore take effect much later, whoever has the lock by then: `LeftBehind` puts it
into `late`, `Strays` carries it out, at any time and once, and `struck` remembers
that the worker's container (or marker) was last changed that way. The two ssh that
`stop_containers` runs side by side are in subshells of bash, which do hold the
descriptor: after a kill they may keep the lock until they end, or not (`Kill` allows
both). `Issue`, `Returns` and `Fails` are the docker commands,
one at a time in a launch and side by side in a stop; one over ssh may fail and have
been carried out. `Check` is a round of `wait_for_health`. `Exit` is a container
that ends by itself. Faults are counted together (`MaxFaults`). `WaitProtected`: while
a command waits for its pair the head's container is its own, and the worker's too
unless a command left behind on the worker changed it since; misses that are never
three in a row condemn nothing of its own; and a command that is over keeps the lock
no longer than a docker or rsync command of its runs. `DeadRankNoticed`: a dead rank
ends the wait by the probes alone.

**SnapshotSync.** From "inventory" to "launch" of a start. `Download` moves
`refs/main` outside the lock; `Loss` removes a shard from the worker; `Rsync`
is cut off, or returns over a link whose target the worker never gets.
The marker is written and cleared over ssh and may be `late` like a docker command;
the receiving end of an rsync is taken to end with it.
`CopyTrusted`: a launch that uses the revision it checked has all of it on the
worker, a preset's pin makes it use that revision, no marker outlives an
interrupted copy, except one that a command left behind wrote. Without a preset, a download between check and launch does change
the revision that is launched; the property says what is vouched for then.

**Refinement.** `ClusterOwner` is what the lock promises: one owner at a time, and
only the owner removes containers or puts its own in their place. It also says what
the lock cannot promise: an owner may leave docker commands for the worker behind
(`Leave`), each of which may take effect once, on the worker's container alone and
under another owner (`Late`). `MCCluster` defines `Holder`, `Built` and `Behind` from
`kin`, `pair` and `late` and checks `OwnerOnly`, the specification of `ClusterOwner`
under that mapping; `LockFollowed` proves it for any number of commands.

**PackBuild.** One action per step of `build_dense_h3` that leaves something on disk;
`Fails` and `Killed` end a run at any of them and `Rerun` starts over the files
left. A directory is its tensors, its configuration and its links; its revision is
its contents. `PackWhole`: what is published or served has the pinned tensors and the
configuration that names its draft. A build killed while it removes one it had
published before may later publish a directory without some links (`torn`); nothing
checks them, and the property excludes that case.

**LoadPrefetch.** `Submit`, `Waited`, `Open`, `Tensor`, `ShardEnds` are the iterator,
`Cancel`, `Join`, `Release` its close, `Take`, `Read`, `ReadFails` a thread of the
pool. Four shards with a window of two have a shard before, in and behind it.
`PagesKept`: the window bounds the reads, no page is given back that a tensor maps
or that was read ahead, close leaves nothing behind. `LoadEnds`: every load ends.

Fairness: weak fairness of `Check` (the shell goes on probing; a command is under no
obligation to time out, nor an engine to come up), of the load's consumer (the
caller goes on asking for tensors or abandons the iterator) and of each thread's
`Take` and `Read`.

Two commands are what a lock needs; two faults allow a kill and an exit, or a loss
and a download; two revisions tell a copy from another. Three builds may fail: one to
leave a file, one to leave another, one more over both.

## 8. Findings

Each is shown by a run that ends in a violation.

- `fair_borrow_past` (comment): the module's docstring says a lower tier never borrows
  in a step where a higher tier was deferred. `cap_for` knows only the deferrals so
  far: with two chunks per step a running lower-tier prefill is visited, and borrows,
  before the higher-tier waiting one is deferred.
- `tail` (code): `on_ready` starts its log follower without closing descriptor 9, which
  `wait_for_health` takes care to do for its own. With `TAIL=1`, when the shell is
  killed, the follower holds the lifecycle lock until the head's container ends.
- `stuck_build` (code): `remote_headers` writes its cache in place and reads it back
  unchecked. A build killed there makes every later one fail, against
  "(re-run to retry)".

Some comments and messages say more than the code does, without a run here:

- a selected prefill that made no progress "rotates behind" only among peers of equal
  service age;
- the drafter's cached blocks sit behind the unused blocks of their own call, ahead of
  the rest of the queue;
- an override file reported as "ignored" by `patch_adaptive_k.py` has already changed
  the values read before the bad one (`AdaptiveK` models it);
- the lock is there so that "a second launcher cannot docker-rm the first's containers
  mid wait_for_health" (`start.sh`, above `with_cluster_lock`): a `docker rm` or `run` for
  the worker whose shell was killed, or whose ssh broke, has no lock and can still do
  that. `PairIsMine` and `ClusterOwner` name the case; without it TLC finds both
  violated;
- `patch_apc_per_group_retention.py` reports "DFlash replay/free ordering" as patched
  also when the coordinator had an older kit's marker, in which case it inserts a
  helper only (`PatchInstall` keeps such a file `"unordered"`; a `ServesWhole` that did not
  name it is violated).

## 9. What is proved

Each theorem holds for every value of the constants, under the assumptions the
modules name (`...Assumption`); those say what the code's parsing and its callers
enforce. Where a theorem has a hypothesis of its own, it is in the table.

| theorem | module | says |
| --- | --- | --- |
| `TypeCorrect`, `StepLimits`, `BorrowedAlone`, `OneContendedPrefill`, `BoundedDebt`, `CreditRange`, `ChurnKeepsDebt` | `FairPrefillProofs` | the account of the fair policy: ranges, chunks and reservation of a step, one contended prefill, bounds of debt and credit |
| `TiersNotInverted`; `TiersKeptByOneChunk` (`MaxChunks = 1`, the default) | | no tier is passed without a licence, through every release and promotion |
| `ServiceIsOnesOwn` | | the age a request is ranked by was earned by that request |
| `PoolIsAccounted`, `TargetStaysIntact`, `TargetIsLast`, `NoStoreIsTraceless`, `ReleasesAreOrdered` | `PrefixPoolProofs` | the five properties of `pool_priority` |
| `HitsAreUsable`; `NoUsableBoundaryMissed` (`WindowTokens <= Align`); `PriorIsReachable` (`CoarseHits`) | `HybridHitProofs` | the safety properties of `hit_eagle` |
| `WaitsAreProtected` (`Tail = FALSE`), `CopiesAreTrusted` | `ClusterProofs` | lock, launch and copy, with commands left behind on the worker |
| `LockFollowed` | | `Launcher` implements `ClusterOwner`, its late commands included |
| `BuildsAreWhole`, `PackStaysWhole` | | the dense pair, alone and in `MCSpec` |
| `LoadsKeepPages` (`LoadAssumption`), `LoadKeepsPages` | | the load's window, alone and in `MCSpec` |
| `LaunchesStayIsolated`, `RingsStayPrivate` | `ServingProofs` | the cooperative kernels; the rings |
| `StatesStayAligned`, `TiersStayResolved` | `EngineProofs` | recurrent states; the tier of kernels that serves the experts |
| `LengthsStayHonoured`, `MatcherStaysInStep` | `AdaptiveProofs` | verification lengths; the matcher under a grammar |
| `LayoutStaysServed` | `ShardProofs` | vocabulary, shards and heads |

The hypothesis `Tail = FALSE` is the second finding: with a follower that inherits
the descriptor the property is false. `NoBorrowPastDeferredTier`, the second half of
`TiersKept`, is false with two chunks per step: the first finding. The bounds of the
models (`MaxEvents`, `MaxFaults`, `Calls`, ...) are constants too, so no proof depends
on their values.

### The invariants

None of the properties is inductive alone. Each component has an invariant that is,
with one lemma per action; the properties follow from it.

**FairPrefill** (`IInv`). What a step may debit depends on what its record holds, what
can still be charged on what was covered when it was granted, and a debt may be
forgiven only when contention has ended. `IInv` joins `TypeOK`; `Ledger` (only a
record that was not finished has grants; a closed step leaves nothing else); `Held` (a
request is visited once and holds a grant only after that); `Turns` (chunks are
granted in a prefill turn, without older prefill in flight, and what they cost
together is covered by the credit it was taken from); `Covered` (while an output with
reserved prefill is in flight contention has not ended, and the funds with its
reservation are not negative); and the bounds. `SettledBound` does the arithmetic of `observe_output`. `TierOrder` adds what
the ranking of a step says of each tier's turns, `Earned` who earned a service stamp.
What is reserved is a sum over all grants, a fold of the community modules: it
unrolls into a function on sets, by least counterexample (`FoldExists`, `SumUnrolls`),
whose values do not depend on the order (`AnyOrder`), so a grant more, a shrunk or a
cancelled one moves the sum by the difference (`SumChanged`, `ReservedMoves`) and what a
step is charged is at most what it reserved (`SumBound`, `ChargedType`).

**PrefixPool** (`PoolInv`). The queue is a function to places: `OwnPlaces`, `QueueIsFree`
and `Counted` tie places, counts and tables together. A block keeps the kind it was
allocated for (`KindsKept`), the tables of two requests share only full prefix blocks
(`Apart`), a hash names the contents (`HashTrue`). Without the last three an eviction
could take a chunk that a table still needs.

**HybridHit** (`HitInv`). A candidate only shrinks (`Shrinks`); what a group has
confirmed stays confirmed for any shorter candidate on its grid (`Covered`, `Resumes`);
the drafter's window is checked at the candidate that is returned (`Windowed`); a pass
ends where all agree (`Ended`). `NoneMissed` adds that nothing longer was usable, and
`PriorInv` what retention leaves one boundary before a kept one.

**Launcher and SnapshotSync** (`LaunchInv`, `CopyInv`, `MarkerVouches`). The descriptors
of two commands are never alive together (`Exclusive`), each step has the processes it
waits for (`StepKin`), what is being launched is this command's unless a late command
has struck the worker's container since (`LaunchOrder`, `LaunchedMine`), and the counter
of misses is below three unless a container is gone (`MissesAreNoise`, `NoFalseAlarm`).
A run is left behind only by a command that is over (`LateRuns`). A command past its
transfer has the revision on the worker (`CopyInv`), and a marker is only there with
its tree unless a late command wrote it. For the refinement, the holder of the lock is
the owner; each step of the launcher is then a step of `ClusterOwner` or leaves holder,
pair and late commands alone.

**PackBuild** (`PackInv`). `MarkerClaims` (an overlay with the marker is complete),
`StepFinds` (each step finds what the earlier ones of this run left), `Published`.

**LoadPrefetch** (`LoadInv`). `WindowInv` and `LocalsInv` relate the iterator's locals to
what the threads have taken; `ClosedQuiet` is inductive only with them.

**CoopMoe** (`CoopInv`). One stream runs its kernels in order (`OneStream`), counters are
the kernels' own or zero (`CountsOwn`, `Cleared`), a queued kernel finds what the one
before it handed on (`Handed`) and nothing follows a failed launch (`Chained`). For any
queue, by what is at its front and behind it.

**KpoolRing** (`RingInv`). A block belongs to one row (`OwnBlock`) and holds its row's tail
(`TailKept`). That the tokens of a chunk hit different slots is a fact about remainders,
proved once for any ring and stride.

**MambaAlign** (`MambaInv`). Steps in flight are ordered by their chunks (`InOrder`); a
table ends with the running state and the speculative blocks (`Shaped`); any block
before them waits to be released and holds the end of its page (`OnlyStale`,
`Ascending`); a step in flight starts from each superseded block not yet read (`Awaited`).
Release then frees exactly what no step in flight reads.

**AdaptiveK** (`AdaptiveInv`). An average counts no step older than the file in force
(`SeenSince`), and the longer a run of full acceptance, the closer the average is to the
top (`NotFarBehind`): a bound per number of accepted steps that each observation keeps.

**GrammarBatch** (`GrammarInv`). The masks a step samples from are those of a window over
its drafts (`MasksFit`), and drafts proposed with the grammar active are legal one after
the other (`LegalRun`). A fold is a sequence of states (`FoldExists`, `AcceptRuns`,
`TryRuns`, `WindowRuns`): along the window the matcher stays in step and its path only
grows (`WindowAlong`), so the rollback restores it; what is sampled from the masks is
accepted the way the window walked (`Follows`).

**ShardLayout** (`ShardInv`). Each rank that has loaded holds its own part. The rest is a
lemma about numbers: cut into runs of equal size and with their padding, every token
lies in one run (`RunOf`, `OneRun`), the padded size is `tp` times the rows of a rank
(`LaidOut`), and the mapping, three flattened lists of runs, takes each slot once
(`MappedIs`, `EverySlot`). `FlattenSeq` is a recursive function; `Flattened` gives its
value in closed form from the lengths of the pieces, by least counterexample instead
of induction.

A component of `MCServing` or `MCCluster` runs alone: `OnlyItsPart` and `PartSteps` turn
a step of the whole into a step of the part a theorem is about.

### Only model-checked

`NoBorrowPastDeferredTier` (false in general, see above); `InstallConsistent` and
`RefusesOverDrift` (statements about one table of recipes, which TLC explores for one
crash); `DenseServed` and `ExpertsServed` (each compares a fold over the tensors of a
layer with the checkpoint's columns or the router's choice: no invariant of many steps,
and not proved here; the half of `ExpertsServed` that is about tiers is
`TiersStayResolved`). Liveness (`EventuallyScheduled`, `LookupEnds`, `LoadEnds`,
`DeadRankNoticed`) is out of the prover's reach: it has no rules for fairness and ENABLED.

## 10. What is not modelled

Of the fair policy: the modes `off`, `fixed`, `skip` and `auto`, the trace and the
log, `carry` (an annotation of the trace), the least-squares fit (any monotone
estimate stands for it), rounding chunks to the Mamba alignment (any smaller number
of tokens may be scheduled). Identities are object addresses: the model allows an
address to be used again only when nothing remembers it. The share of the fair
policy is positive in every run; 0 is allowed by the proofs.

Of the pool: several target managers, kv events, the event of several hashes on one
block, parsing of the no-store flag and of the retention intervals. Of the lookup:
content of draft blocks (`PROJECT.json` has the hazard), several Mamba groups of
different geometry, logging.

Of the installers: the switches with which a boot skips one (all are assumed to run),
the text of the edits, and torn files, about which nothing is claimed. What an engine
does over the coordinator of an older retention kit is not modelled: `PrefixPool` and
`HybridHit` are about this kit's. A fresh
container starts from the image; a crash restarts the same one.

Of the EXL3 layer: the kernels, FP8 groups and autotuning. The code checks that the
last shard is BF16 if any is, and only records that `suh` arrived; the model does the
same. A text branch of `pad-tp3-config.py` that nothing in the repository calls is
left out. The build-time patches `patch_exl3_decode_pipeline.py`,
`patch_exl3_fat_kernel.py` and `patch_exl3_ext_aarch64.py` run once in an image build.

Of the launcher: docker on the head is assumed to answer; helpers that live a few
seconds do not count as holders of the descriptor; commands for the worker other than
docker's and the marker's (directories, copies of scripts) change nothing modelled; images, memory checks and the
scripts of three and four machines. The Hub client, which writes `refs/main` before
the files, is external. Of the dense pair: two builds at once, a source that is not
the one named, and the ablated variant, which takes the same steps.

The components of section 1 without a module are listed in `PROJECT.json` with the
reason.

## 11. Running it

    tlc -config FairAsync.cfg MCFairPrefill.tla
    tlc -config Serving.cfg MCServing.tla
    tlc -config Cluster.cfg MCCluster.tla
    for m in FairPrefill PrefixPool HybridHit Cluster Serving Engine Adaptive Shard
    do tlapm --threads 2 --stretch 1.3 ${m}Proofs.tla; done

Every property has a mutant in its module: an operator named after the definition
it stands for, with a comment that says what a plausible bug would do. Putting it in
place of that definition makes the property fail in its run.
