---------------------------- MODULE PatchInstall ----------------------------
(***************************************************************************)
(* The installers under overlay/: each rewrites files of the installed     *)
(* vLLM, at image build and again whenever a container starts.  A file is  *)
(* modelled by the generation of each installer's edits in it: "stock"     *)
(* (none), "new" (this kit's), an older generation by name, or "part" (a   *)
(* marker without all that belongs to it).  A recipe says which files an   *)
(* installer writes and in which order, whether it examines all of them    *)
(* before it writes one, whether a write replaces the file at once,        *)
(* whether it compares everything it owns or only looks for its marker,    *)
(* and which older generations it migrates, refuses, or writes back as     *)
(* they are.                                                               *)
(***************************************************************************)
EXTENDS Naturals, Sequences, FiniteSets, SequencesExt

CONSTANTS
    MaxCrashes      \* containers killed while installing

(***************************************************************************)
(* Recipes.                                                                *)
(***************************************************************************)
Plain(files) == [files |-> files, prepared |-> FALSE, atomic |-> FALSE,
                 whole |-> FALSE, always |-> FALSE, copies |-> {},
                 migrates |-> {}, refuses |-> {}, keeps |-> {}]

(* Everything is examined, and compared in full, before the first write.   *)
Prepared(files) == [Plain(files) EXCEPT !.prepared = TRUE, !.whole = TRUE]

(* A temporary file in the same directory takes the place of the target.   *)
Atomic(files) == [Prepared(files) EXCEPT !.atomic = TRUE]

Ablit == [Plain(<<"ablit_runtime", "model", "mtp">>) EXCEPT !.copies = {"ablit_runtime"}]
AdaptiveK == Plain(<<"scheduler", "cudagraph_utils">>)
ApcNoStore == Atomic(<<"sampling_params", "request", "block_pool">>)

(* Each file is edited unless it has the marker, and written either way.   *)
(* The coordinator of an older kit ("unordered") has the marker, but not   *)
(* this kit's order of release: it only gains the helper it lacks.         *)
ApcRetention ==
    [Prepared(<<"coordinator", "block_pool", "single_type_manager">>)
        EXCEPT !.whole = FALSE, !.always = TRUE, !.keeps = {"unordered", "part"}]

CacheReset == Prepared(<<"cache_router">>)
ColdLoadUma == [Prepared(<<"weight_utils">>) EXCEPT !.migrates = {"v1"}]
DefaultMaxNewTokens ==
    Prepared(<<"token_limits", "serving_completion", "completion_protocol">>)
DenseFp8 == [Plain(<<"exl3", "kda", "model">>) EXCEPT !.copies = {"exl3"}]
Dflash2Exl3 ==
    [Plain(<<"qwen3_dflash2", "qwen3_dflash">>)
        EXCEPT !.copies = {"qwen3_dflash2"}, !.whole = TRUE, !.migrates = {"part"}]
FlashKdaTp3 == Prepared(<<"kda">>)
Glm5DrafterGroup ==
    [Prepared(<<"worker_utils", "kv_cache_utils">>)
        EXCEPT !.migrates = {"v1", "v2", "v3"}]
GlmVideo == [Plain(<<"video_hook", "kpool_indexer">>) EXCEPT !.copies = {"video_hook"}]
HybridPrefixHit ==
    [Atomic(<<"coordinator">>)
        EXCEPT !.migrates = {"legacy", "verified", "replay", "boundary"}]
IndexerWarmupRange == Atomic(<<"indexer">>)
IndexerWorkspace == Atomic(<<"indexer">>)
KpoolTailSlotmap == Atomic(<<"block_table">>)
KpoolTailSeedStride == Atomic(<<"kpool_compress">>)
KvCapacityLog == [Atomic(<<"kv_cache_utils">>) EXCEPT !.migrates = {"published"}]
LoadClone == [Atomic(<<"weight_utils">>) EXCEPT !.refuses = {"v1"}]
MambaAlignChunking == [Atomic(<<"scheduler">>) EXCEPT !.migrates = {"retained"}]
MambaAlignStateFree == Prepared(<<"single_type_manager", "kv_cache_interface">>)
DecodeFloor ==
    [Prepared(<<"scheduler">>)
        EXCEPT !.migrates = {"v1", "v2", "v5", "v6", "v7-drop"},
               !.refuses = {"v3", "v4"}]
SkipCudagraphProfile == Plain(<<"gpu_worker">>)
Spinwait == [Atomic(<<"shm_broadcast">>) EXCEPT !.refuses = {"other-value"}]
SuppressStops == Plain(<<"detokenizer">>)
ToolChoiceNone == Plain(<<"glm47_moe">>)
XgrammarTermination == Atomic(<<"grammar_backend", "grammar_manager">>)
ExpertShard == Plain(<<"exl3">>)
ExpertMap == Plain(<<"exl3">>)
Tp3Glm == Plain(<<"model">>)
SparseMlaSlice == [Atomic(<<"flashinfer_mla">>) EXCEPT !.refuses = {"other-image"}]
GlmEagle3 == [Plain(<<"model">>) EXCEPT !.whole = TRUE, !.migrates = {"part"}]
Dflash2 ==
    [Plain(<<"qwen3_dflash2", "dflash2_speculator", "qwen3_dflash", "registry",
             "dflash_utils", "spec_decode_init">>)
        EXCEPT !.copies = {"qwen3_dflash2", "dflash2_speculator"},
               !.whole = TRUE, !.migrates = {"part"}]
ModelOverrides == Plain(<<"model_config">>)

Recipe == [
    ablit |-> Ablit, adaptive_k |-> AdaptiveK, apc_no_store |-> ApcNoStore,
    apc_per_group_retention |-> ApcRetention, cache_reset |-> CacheReset,
    cold_load_uma |-> ColdLoadUma, default_max_new_tokens |-> DefaultMaxNewTokens,
    dense_fp8 |-> DenseFp8, dflash2_exl3 |-> Dflash2Exl3,
    flashkda_tp3 |-> FlashKdaTp3, glm5_drafter_group |-> Glm5DrafterGroup,
    glm_video_placeholders |-> GlmVideo, hybrid_prefix_hit |-> HybridPrefixHit,
    indexer_warmup_range |-> IndexerWarmupRange,
    indexer_workspace |-> IndexerWorkspace,
    kpool_tail_slotmap |-> KpoolTailSlotmap,
    kpool_tail_seed_stride |-> KpoolTailSeedStride,
    kv_capacity_log |-> KvCapacityLog, loadclone |-> LoadClone,
    mamba_align_chunking |-> MambaAlignChunking,
    mamba_align_state_free |-> MambaAlignStateFree,
    scheduler_decode_floor |-> DecodeFloor,
    skip_cudagraph_profile |-> SkipCudagraphProfile, spinwait |-> Spinwait,
    suppress_stops |-> SuppressStops, tool_choice_none |-> ToolChoiceNone,
    xgrammar_termination |-> XgrammarTermination, exl3_ep_shard |-> ExpertShard,
    exl3_expert_map |-> ExpertMap, tp3_glm |-> Tp3Glm,
    sparse_mla_slice |-> SparseMlaSlice, glm_eagle3 |-> GlmEagle3,
    dflash2 |-> Dflash2, model_overrides |-> ModelOverrides]

Installers == DOMAIN Recipe
FilesOf(p) == ToSet(Recipe[p].files)
Files == UNION {FilesOf(p) : p \in Installers}
Places == UNION {{<<f, p>> : f \in FilesOf(p)} : p \in Installers}

(***************************************************************************)
(* The orders in which installers run: in the Dockerfile, and in the       *)
(* script a container starts with on two, three and four machines.         *)
(***************************************************************************)
ImageOrder == <<
    "model_overrides", "dflash2", "dflash2_exl3", "glm_eagle3",
    "glm5_drafter_group", "suppress_stops", "scheduler_decode_floor",
    "mamba_align_chunking", "hybrid_prefix_hit", "apc_per_group_retention",
    "apc_no_store", "mamba_align_state_free", "kv_capacity_log",
    "xgrammar_termination", "kpool_tail_slotmap", "kpool_tail_seed_stride",
    "indexer_workspace", "indexer_warmup_range", "cache_reset",
    "tool_choice_none", "loadclone", "ablit", "cold_load_uma",
    "skip_cudagraph_profile">>

(* Mutant: the alignment before the decode floor it looks at.              *)
BootOrder2_AlignFirst == <<
    "cold_load_uma", "skip_cudagraph_profile", "glm_video_placeholders",
    "suppress_stops", "mamba_align_chunking", "scheduler_decode_floor",
    "glm5_drafter_group", "hybrid_prefix_hit", "apc_per_group_retention",
    "apc_no_store", "mamba_align_state_free", "kv_capacity_log",
    "tool_choice_none", "xgrammar_termination", "kpool_tail_slotmap",
    "kpool_tail_seed_stride", "spinwait", "adaptive_k", "dense_fp8",
    "dflash2_exl3", "loadclone", "default_max_new_tokens",
    "indexer_workspace", "indexer_warmup_range", "cache_reset", "ablit">>

BootOrder2 == <<
    "cold_load_uma", "skip_cudagraph_profile", "glm_video_placeholders",
    "suppress_stops", "scheduler_decode_floor", "mamba_align_chunking",
    "glm5_drafter_group", "hybrid_prefix_hit", "apc_per_group_retention",
    "apc_no_store", "mamba_align_state_free", "kv_capacity_log",
    "tool_choice_none", "xgrammar_termination", "kpool_tail_slotmap",
    "kpool_tail_seed_stride", "spinwait", "adaptive_k", "dense_fp8",
    "dflash2_exl3", "loadclone", "default_max_new_tokens",
    "indexer_workspace", "indexer_warmup_range", "cache_reset", "ablit">>

BootOrder3 == <<
    "glm_video_placeholders", "suppress_stops", "scheduler_decode_floor",
    "mamba_align_chunking", "glm5_drafter_group", "hybrid_prefix_hit",
    "apc_per_group_retention", "mamba_align_state_free",
    "xgrammar_termination", "kpool_tail_slotmap", "kpool_tail_seed_stride",
    "tp3_glm", "adaptive_k", "dense_fp8", "flashkda_tp3", "exl3_ep_shard",
    "exl3_expert_map", "spinwait", "indexer_workspace", "ablit">>

BootOrder4 == <<
    "glm_video_placeholders", "suppress_stops", "scheduler_decode_floor",
    "mamba_align_chunking", "glm5_drafter_group", "hybrid_prefix_hit",
    "apc_per_group_retention", "mamba_align_state_free",
    "xgrammar_termination", "kpool_tail_slotmap", "kpool_tail_seed_stride",
    "spinwait", "loadclone", "sparse_mla_slice", "adaptive_k",
    "indexer_workspace", "ablit">>

VARIABLES
    disk,       \* the generation of each installer's edits in each file
    torn,       \* files cut short by a write that did not finish
    helpers,    \* the helpers in the coordinator's file, top to bottom
    order,      \* the installers of this build or boot
    at,         \* the installer that runs, an index of order
    left,       \* files it has yet to write or, unprepared, to look at
    begun,      \* it has read its files
    status,     \* "build", "boot", "down", "refused", "serving"
    crashes

vars == <<disk, torn, helpers, order, at, left, begun, status, crashes>>

P == order[at]
R == Recipe[P]
Gen(f) == disk[<<f, P>>]
Editors(f) == {p \in Installers : f \in FilesOf(p)}

(***************************************************************************)
(* What an installer makes of a file.  A torn file may or may not have     *)
(* what it looks for in front of the cut.                                  *)
(***************************************************************************)
Copied(f) == /\ Gen(f) = "new"
             /\ \A p \in Editors(f) \ {P} : disk[<<f, p>>] = "stock"

(* A scheduler whose decode floor is older than v5 is no place for the     *)
(* chunk ends of the Mamba alignment.                                      *)
OldFloor == /\ P = "mamba_align_chunking"
            /\ disk[<<"scheduler", "scheduler_decode_floor">>]
                    \notin {"stock", "v5", "v7-drop", "new"}

Verdict(f) ==
    IF f \in R.copies THEN IF Copied(f) THEN "skip" ELSE "write"
    ELSE IF OldFloor THEN "refuse"
    ELSE IF Gen(f) \in {"new"} \cup R.keeps THEN IF R.always THEN "write" ELSE "skip"
    ELSE IF Gen(f) \in {"stock"} \cup R.migrates THEN "write"
    ELSE IF Gen(f) = "part" /\ ~R.whole THEN "skip"
    ELSE "refuse"

Verdicts(f) == IF f \in torn
               THEN IF f \in R.copies THEN {"write"} ELSE {"skip", "refuse"}
               ELSE {Verdict(f)}

(***************************************************************************)
(* The helpers both coordinator installers put above the same function:    *)
(* each looks for what the other may have left, and the replay and the     *)
(* boundary helpers go in front of the other installer's.                  *)
(***************************************************************************)
Has(h, name) == name \in ToSet(h)
Append1(h, name) == IF Has(h, name) THEN h ELSE Append(h, name)

(* Mutant: the helper is put below whatever is there.                      *)
BeforeRetention_Last(h, name) == Append1(h, name)

BeforeRetention(h, name) ==
    IF Has(h, name) THEN h
    ELSE IF Has(h, "retention")
         THEN SelectSeq(h, LAMBDA n : n \notin {"retention", "prior"})
                  \o <<name>>
                  \o SelectSeq(h, LAMBDA n : n \in {"retention", "prior"})
    ELSE Append(h, name)

Placed(h, p, gen) ==
    CASE p = "hybrid_prefix_hit" ->
            BeforeRetention(BeforeRetention(
                IF gen = "stock" THEN Append1(h, "inner") ELSE h, "replay"), "boundary")
      [] p = "apc_per_group_retention" ->
            Append1(IF gen = "stock" THEN Append1(Append1(h, "inner"), "retention")
                    ELSE h, "prior")
      [] OTHER -> h

(* A written file carries the installer's edits, unless they are left as   *)
(* they were; a copied one no others.                                      *)
Landed(f) ==
    [pl \in Places |->
        IF pl = <<f, P>> THEN IF Gen(f) \in R.keeps THEN Gen(f) ELSE "new"
        ELSE IF pl[1] = f /\ f \in R.copies THEN "stock"
        ELSE disk[pl]]

(***************************************************************************)
(* The steps of a build or a boot.  The shell runs one installer after     *)
(* another and ends with the first that refuses (set -e).                  *)
(***************************************************************************)
Running == status \in {"build", "boot"} /\ at <= Len(order)

Refuse == /\ status' = "refused"
          /\ UNCHANGED <<disk, torn, helpers, order, at, left, begun, crashes>>

(* An installer that prepares reads all of its files first.                *)
Examine ==
    /\ Running /\ ~begun
    /\ IF R.prepared
       THEN \E v \in [FilesOf(P) -> {"skip", "write", "refuse"}] :
                /\ \A f \in FilesOf(P) : v[f] \in Verdicts(f)
                /\ IF \E f \in FilesOf(P) : v[f] = "refuse"
                   THEN Refuse
                   ELSE /\ left' = SelectSeq(R.files, LAMBDA f : v[f] = "write")
                        /\ begun' = TRUE
                        /\ UNCHANGED <<disk, torn, helpers, order, at, status, crashes>>
       ELSE /\ left' = R.files
            /\ begun' = TRUE
            /\ UNCHANGED <<disk, torn, helpers, order, at, status, crashes>>

Write(f) ==
    /\ disk' = Landed(f)
    /\ torn' = IF f \in R.copies THEN torn \ {f} ELSE torn
    /\ helpers' = IF f = "coordinator" THEN Placed(helpers, P, Gen(f)) ELSE helpers
    /\ left' = Tail(left)
    /\ UNCHANGED <<order, at, begun, status, crashes>>

Handle ==
    /\ Running /\ begun /\ left # <<>>
    /\ LET f == Head(left)
       IN \E v \in IF R.prepared THEN {"write"} ELSE Verdicts(f) :
             \/ v = "write" /\ Write(f)
             \/ /\ v = "skip"
                /\ left' = Tail(left)
                /\ UNCHANGED <<disk, torn, helpers, order, at, begun, status, crashes>>
             \/ v = "refuse" /\ Refuse

Leave ==
    /\ Running /\ begun /\ left = <<>>
    /\ at' = at + 1
    /\ begun' = FALSE
    /\ UNCHANGED <<disk, torn, helpers, order, left, status, crashes>>

(* The image is built; a container of it starts.                           *)
Boot ==
    /\ status = "build" /\ at > Len(order)
    /\ order' \in {BootOrder2, BootOrder3, BootOrder4}
    /\ status' = "boot"
    /\ at' = 1
    /\ UNCHANGED <<disk, torn, helpers, left, begun, crashes>>

Serve ==
    /\ status = "boot" /\ at > Len(order)
    /\ status' = "serving"
    /\ UNCHANGED <<disk, torn, helpers, order, at, left, begun, crashes>>

(* The container is killed; what a plain write had begun is cut short.     *)
Crash ==
    /\ status = "boot" /\ Running /\ crashes < MaxCrashes
    /\ status' = "down"
    /\ crashes' = crashes + 1
    /\ torn' \in {torn} \cup
           (IF begun /\ left # <<>> /\ ~R.atomic
               /\ (R.prepared \/ "write" \in Verdicts(Head(left)))
            THEN {torn \cup {Head(left)}} ELSE {})
    /\ at' = 1
    /\ begun' = FALSE
    /\ left' = <<>>
    /\ UNCHANGED <<disk, helpers, order>>

(* The same container is started again and runs the same order.            *)
Rerun ==
    /\ status = "down"
    /\ status' = "boot"
    /\ UNCHANGED <<disk, torn, helpers, order, at, left, begun, crashes>>

Stopped == status \in {"serving", "refused"} /\ UNCHANGED vars

Next == Examine \/ Handle \/ Leave \/ Boot \/ Serve \/ Crash \/ Rerun \/ Stopped

(***************************************************************************)
(* Where a build or a boot begins: a stock or a current installation in    *)
(* which at most one installer's files have another generation, as an      *)
(* older kit, an edit by hand or an interrupted run leaves them: the       *)
(* files it writes first are the newer ones.                               *)
(***************************************************************************)
Generations(p) ==
    {"stock", "new", "part"} \cup Recipe[p].migrates \cup Recipe[p].refuses
        \cup Recipe[p].keeps

(* Only its coordinator tells the older retention kit from this one.       *)
KitOf(gen, f) == IF gen = "unordered" /\ f # "coordinator" THEN "new" ELSE gen

Age(base, p, gen, n) ==
    [pl \in Places |->
        IF pl[2] # p THEN base
        ELSE LET i == CHOOSE j \in 1..Len(Recipe[p].files) : Recipe[p].files[j] = pl[1]
             IN IF (base = "stock") = (i <= n) THEN KitOf(gen, pl[1]) ELSE base]

Laid(d) ==
    LET h == d[<<"coordinator", "hybrid_prefix_hit">>]
        r == d[<<"coordinator", "apc_per_group_retention">>]
    IN (IF {h, r} = {"stock"} THEN <<>> ELSE <<"inner">>)
       \o (IF h \in {"replay", "boundary", "new"} THEN <<"replay">> ELSE <<>>)
       \o (IF h \in {"boundary", "new"} THEN <<"boundary">> ELSE <<>>)
       \o (IF r # "stock" THEN <<"retention">> ELSE <<>>)
       \o (IF r = "new" THEN <<"prior">> ELSE <<>>)

Init ==
    /\ \E base \in {"stock", "new"}, p \in Installers :
          \E gen \in Generations(p), n \in 0..Len(Recipe[p].files) :
             disk = Age(base, p, gen, n)
    /\ helpers = Laid(disk)
    /\ \/ status = "build" /\ order = ImageOrder
       \/ status = "boot" /\ order \in {BootOrder2, BootOrder3, BootOrder4}
    /\ torn = {} /\ at = 1 /\ left = <<>> /\ begun = FALSE /\ crashes = 0

Spec == Init /\ [][Next]_vars

(***************************************************************************)
(* Properties.                                                             *)
(***************************************************************************)

(* An engine starts only over files every installer of its boot has        *)
(* completed, whatever the image was and wherever an earlier run was       *)
(* killed; no later installer undoes an earlier one (the EXL3 file is      *)
(* copied whole before the three-node edits are made in it).  Not claimed: *)
(* files torn by a write that is not atomic, installers that trust their   *)
(* marker over a file somebody edited, and the coordinator of an older     *)
(* retention kit, which its installer serves without this kit's order of   *)
(* release (patch_apc_per_group_retention.py edits no marked coordinator). *)
ServesWhole ==
    status = "serving" /\ torn = {} =>
        \A i \in 1..Len(order) : \A f \in FilesOf(order[i]) :
            \/ disk[<<f, order[i]>>] = "new"
            \/ disk[<<f, order[i]>>] = "part" /\ ~Recipe[order[i]].whole
            \/ disk[<<f, order[i]>>] = "unordered"

(* A refusal is about the files of the installer that refuses: one of      *)
(* them is torn, was edited or is of a generation no kit can migrate.      *)
(* Neither the order of the installers, nor an older kit in the image, nor *)
(* a run killed between two files makes a boot refuse.                     *)
RefusesOnlyDrift ==
    status = "refused" =>
        \E f \in FilesOf(P) : \/ f \in torn
                               \/ Gen(f) \in {"part"} \cup R.refuses

(* The larger drafter page is never on disk without the worker's guard     *)
(* that splits it: the guard is written first (torn files aside).          *)
GuardBeforePage ==
    torn = {} /\ disk[<<"kv_cache_utils", "glm5_drafter_group">>] = "new" =>
        disk[<<"worker_utils", "glm5_drafter_group">>] = "new"

(* The helpers of the coordinator end up in one order, whichever of its    *)
(* two installers ran first and whichever generation it replaced or kept   *)
(* (a file edited by hand aside, which the second does not notice).  It is *)
(* about where the helpers stand: an older coordinator gains the last one  *)
(* and still does not call it.                                             *)
OneCoordinator ==
    /\ status = "serving" /\ torn = {}
    /\ disk[<<"coordinator", "apc_per_group_retention">>] \in {"new", "unordered"}
    => helpers = <<"inner", "replay", "boundary", "retention", "prior">>

(* The files of a served engine, and the pairs of them that must change    *)
(* together (overlay/patch_*.py, the boot scripts).                        *)
FilesConsistent == ServesWhole /\ GuardBeforePage /\ OneCoordinator
=============================================================================
