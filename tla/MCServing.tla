------------------------------ MODULE MCServing ------------------------------
(***************************************************************************)
(* Small instances of what one container goes through: the installers of   *)
(* its boot, the layout of the weights its layers load, the kernels of its *)
(* experts, and the parts of a step of the engine.  They share no state: a *)
(* behaviour is of the one component in "part", and the variables of the   *)
(* others are Off.                                                         *)
(***************************************************************************)
EXTENDS PatchInstall, Integers, TLC

CONSTANTS
    ShardSizes, ShardPads, ShardVocabularies, ShardWidths,  \* of ShardLayout
    AdaptiveReqs, AdaptiveFull, AdaptiveUnit, AdaptiveBootSets, AdaptiveOverrides,
    AdaptiveSeen, AdaptiveClimb,                        \* of AdaptiveK
    tokA, tokB, tokS,   \* tokens
    GrammarTokens, GrammarDelta, GrammarStart, GrammarEnd, GrammarThought, GrammarDrafts,
    GrammarLength,                                      \* of GrammarBatch
    CoopLayers, CoopEligible, CoopNeed, CoopCalls,      \* of CoopMoe
    RingRows, RingBlocks, RingKPool, RingStride, RingMaxPos, RingMaxChunk,  \* of KpoolRing
    MambaPages, MambaCheckpoint, MambaPrompt, MambaGrants, MambaBackoff, MambaBatches,
    MambaSpec               \* of MambaAlign

VARIABLES part,
    tp, vocab, width, tables, shards,
    mod, rank, coming, lost, trellis, svh, weight, parts, markers, state,
    env, image, experts, tier, pc, batch, last, out,
    bootSet, knobs, average, live, picked, since, streak,
    variant, overlap, policy, boot, native, layer, queue, running, counters,
    scratch, raised, calls,
    path, flag, processed, thinking, drafts, stage, allowed, error,
    table, owned, stale, computed, flight, runs,
    row, pos, memory

(* Vocabularies that divide by the ranks and the padding or miss either by *)
(* one, with and without added tokens.                                     *)
TokensAround == ((1..13) \X {0}) \cup ({3, 4, 7, 10, 12} \X (1..4))

SH == INSTANCE ShardLayout WITH
    Sizes <- ShardSizes, Pads <- ShardPads, Widths <- ShardWidths,
    Vocabularies <- ShardVocabularies

(* A shard of a merged layer: declared BF16, tiles of output per rank,     *)
(* replicated on all ranks, with a stale BF16 copy in the checkpoint.      *)
Sh(bf16, n, rep, old) == [bf16 |-> bf16, out |-> n, rep |-> rep, stale |-> old]
DenseLayers == {
    [shards |-> <<Sh(FALSE, 2, FALSE, TRUE), Sh(TRUE, 1, FALSE, FALSE),
                  Sh(TRUE, 1, FALSE, FALSE)>>, row |-> FALSE, full |-> 8],
    [shards |-> <<Sh(FALSE, 2, FALSE, FALSE), Sh(FALSE, 1, TRUE, FALSE)>>,
     row |-> FALSE, full |-> 5],
    [shards |-> <<Sh(FALSE, 2, FALSE, FALSE)>>, row |-> TRUE, full |-> 2],
    [shards |-> <<Sh(FALSE, 3, FALSE, FALSE)>>, row |-> FALSE, full |-> 3],
    [shards |-> <<Sh(TRUE, 1, FALSE, FALSE), Sh(FALSE, 1, FALSE, TRUE)>>,
     row |-> FALSE, full |-> 4]}

DL == INSTANCE DenseLoad WITH Layers <- DenseLayers, World <- 2

(* Batches that fit the temporaries, and ones with one, two or no experts  *)
(* that do not; experts of another rank among them.                        *)
RoutedBatches == {
    <<<<0, 1>>, <<2, 1>>>>,
    <<<<0, 2>>, <<1, 2>>, <<2, 0>>>>,
    <<<<0, 1>>, <<1, 2>>, <<0, 1>>>>,
    <<<<0, 2>>, <<2, 0>>, <<1, 2>>, <<0, 1>>>>,
    <<<<2, 1>>, <<0, 2>>, <<2, 1>>, <<2, 0>>, <<0, 2>>>>}
RankMaps == {(0 :> 0 @@ 1 :> -1 @@ 2 :> 1), (0 :> 0 @@ 1 :> 1 @@ 2 :> 2)}

MD == INSTANCE MoeDispatch WITH
    Batches <- RoutedBatches, Maps <- RankMaps, layer <- experts, Cap <- 2, TileGateUp <- 2, TileDown <- 1

File(keys, bad) == [keys |-> keys, bad |-> bad]
OverrideFiles == {
    File([mode |-> FALSE], "none"),
    File([set |-> {1, 2}, min |-> 2], "none"),
    File([set |-> {2}, margin |-> 0], "none"),
    File([alpha |-> 1, set |-> {1}], "margin")}

AK == INSTANCE AdaptiveK WITH
    Reqs <- AdaptiveReqs, Full <- AdaptiveFull, Unit <- AdaptiveUnit,
    BootSets <- AdaptiveBootSets, Overrides <- AdaptiveOverrides,
    MaxSeen <- AdaptiveSeen, Climb <- AdaptiveClimb

CM == INSTANCE CoopMoe WITH
    Variants <- {"tp2", "tp3"}, Layers <- CoopLayers, Eligible <- CoopEligible,
    Need <- CoopNeed, MaxCalls <- CoopCalls

(* (A B)* A S, from "q0" to "end".                                         *)
Alternating == [q0 |-> (tokA :> "q1"), q1 |-> (tokB :> "q0" @@ tokS :> "end")]

GB == INSTANCE GrammarBatch WITH
    Tokens <- GrammarTokens, Delta <- GrammarDelta, Start <- GrammarStart,
    End <- GrammarEnd, EndOfThinking <- GrammarThought, Drafts <- GrammarDrafts,
    MaxLength <- GrammarLength

MA == INSTANCE MambaAlign WITH
    Pages <- MambaPages, Checkpoint <- MambaCheckpoint, Prompt <- MambaPrompt,
    Grants <- MambaGrants, Backoff <- MambaBackoff, Batches <- MambaBatches,
    Spec <- MambaSpec

KP == INSTANCE KpoolRing WITH
    Rows <- RingRows, Blocks <- RingBlocks, KPool <- RingKPool, Stride <- RingStride,
    MaxPos <- RingMaxPos, MaxChunk <- RingMaxChunk

ASSUME ServingAssumption ==
    /\ SH!ShardAssumption /\ AK!AKAssumption /\ CM!CoopAssumption
    /\ GB!GrammarAssumption /\ MA!MambaAssumption /\ KP!KpoolAssumption

shardvars == <<tp, vocab, width, tables, shards>>
densevars == <<mod, rank, coming, lost, trellis, svh, weight, parts, markers, state>>
moevars == <<env, image, experts, tier, pc, batch, last, out>>
akvars == <<bootSet, knobs, average, live, picked, since, streak>>
coopvars == <<variant, overlap, policy, boot, native, layer, queue, running, counters,
              scratch, raised, calls>>
gbvars == <<path, flag, processed, thinking, drafts, stage, allowed, error>>
mavars == <<table, owned, stale, computed, flight, runs>>
kpvars == <<row, pos, memory>>

Off == "off"

(* One component begins, the others are off for good.                      *)
InstallPart ==
    \/ part = "install" /\ Init
    \/ /\ part # "install"
       /\ disk = Off /\ torn = Off /\ helpers = Off /\ order = Off /\ at = Off
       /\ left = Off /\ begun = Off /\ status = Off /\ crashes = Off

ShardPart ==
    \/ part = "shard" /\ SH!ShardInit
    \/ part # "shard" /\ tp = Off /\ vocab = Off /\ width = Off /\ tables = Off /\ shards = Off

DensePart ==
    \/ part = "dense" /\ DL!DenseInit
    \/ /\ part # "dense"
       /\ mod = Off /\ rank = Off /\ coming = Off /\ lost = Off /\ trellis = Off
       /\ svh = Off /\ weight = Off /\ parts = Off /\ markers = Off /\ state = Off

MoePart ==
    \/ part = "moe" /\ MD!MoeInit
    \/ /\ part # "moe"
       /\ env = Off /\ image = Off /\ experts = Off /\ tier = Off
       /\ pc = Off /\ batch = Off /\ last = Off /\ out = Off

AdaptivePart ==
    \/ part = "adaptive" /\ AK!AKInit
    \/ /\ part # "adaptive"
       /\ bootSet = Off /\ knobs = Off /\ average = Off /\ live = Off
       /\ picked = Off /\ since = Off /\ streak = Off

CoopPart ==
    \/ part = "coop" /\ CM!CoopInit
    \/ /\ part # "coop"
       /\ variant = Off /\ overlap = Off /\ policy = Off /\ boot = Off
       /\ native = Off /\ layer = Off /\ queue = Off /\ running = Off
       /\ counters = Off /\ scratch = Off /\ raised = Off /\ calls = Off

GrammarPart ==
    \/ part = "grammar" /\ GB!GBInit
    \/ /\ part # "grammar"
       /\ path = Off /\ flag = Off /\ processed = Off /\ thinking = Off
       /\ drafts = Off /\ stage = Off /\ allowed = Off /\ error = Off

MambaPart ==
    \/ part = "mamba" /\ MA!MAInit
    \/ /\ part # "mamba"
       /\ table = Off /\ owned = Off /\ stale = Off /\ computed = Off
       /\ flight = Off /\ runs = Off

KpoolPart ==
    \/ part = "kpool" /\ KP!KPInit
    \/ part # "kpool" /\ row = Off /\ pos = Off /\ memory = Off

MCInit ==
    /\ part \in {"install", "shard", "dense", "moe", "adaptive", "coop", "grammar",
                 "mamba", "kpool"}
    /\ InstallPart /\ ShardPart /\ DensePart /\ MoePart
    /\ AdaptivePart /\ CoopPart /\ GrammarPart /\ MambaPart /\ KpoolPart

Install ==
    /\ part = "install" /\ Next
    /\ UNCHANGED <<part, shardvars, densevars, moevars, akvars, coopvars, gbvars, mavars, kpvars>>

Shard ==
    /\ part = "shard" /\ SH!ShardNext
    /\ UNCHANGED <<part, vars, densevars, moevars, akvars, coopvars, gbvars, mavars, kpvars>>

Dense ==
    /\ part = "dense" /\ DL!DenseNext
    /\ UNCHANGED <<part, vars, shardvars, moevars, akvars, coopvars, gbvars, mavars, kpvars>>

Experts ==
    /\ part = "moe" /\ MD!MoeNext
    /\ UNCHANGED <<part, vars, shardvars, densevars, akvars, coopvars, gbvars, mavars, kpvars>>

Adaptive ==
    /\ part = "adaptive" /\ AK!AKNext
    /\ UNCHANGED <<part, vars, shardvars, densevars, moevars, coopvars, gbvars, mavars, kpvars>>

Coop ==
    /\ part = "coop" /\ CM!CoopNext
    /\ UNCHANGED <<part, vars, shardvars, densevars, moevars, akvars, gbvars, mavars, kpvars>>

Structured ==
    /\ part = "grammar" /\ GB!GBNext
    /\ UNCHANGED <<part, vars, shardvars, densevars, moevars, akvars, coopvars, mavars, kpvars>>

Recurrent ==
    /\ part = "mamba" /\ MA!MANext
    /\ UNCHANGED <<part, vars, shardvars, densevars, moevars, akvars, coopvars, gbvars, kpvars>>

Pooled ==
    /\ part = "kpool" /\ KP!KPNext
    /\ UNCHANGED <<part, vars, shardvars, densevars, moevars, akvars, coopvars, gbvars, mavars>>

MCNext ==
    \/ Install \/ Shard \/ Dense \/ Experts
    \/ Adaptive \/ Coop \/ Structured \/ Recurrent \/ Pooled

MCSpec == MCInit /\ [][MCNext]_<<part, vars, shardvars, densevars, moevars, akvars, coopvars,
                              gbvars, mavars, kpvars>>

(* The components' properties, each explained in its module.               *)

(* A served engine has every edit of its boot, and no half of a pair.      *)
InstallConsistent == part = "install" => FilesConsistent

(* An installer refuses a boot only over drift in its own files.           *)
RefusesOverDrift == part = "install" => RefusesOnlyDrift

(* Every token, row and head is served once and from the weight it has in  *)
(* the checkpoint, however sizes fail to divide by the ranks.              *)
LayoutServed ==
    part = "shard" => SH!VocabularyServed /\ SH!ShardsConcatenate /\ SH!HeadsKeepTheirKeys

(* A merged layer serves its own columns, or is refused for a cause, in    *)
(* whatever order and with whatever gaps its tensors arrive.               *)
DenseServed == part = "dense" => DL!ColumnsServed /\ DL!RefusedForACause

(* Every routed row of this rank is added once, by the tier that was       *)
(* resolved when the layer was loaded.                                     *)
ExpertsServed == part = "moe" => MD!ExpertsServed

(* A batch is verified at a captured length that each request allows.      *)
LengthsHonoured == part = "adaptive" => AK!LengthsHonoured

(* A cooperative launch finishes each cell once, in a workspace of its own. *)
LaunchesIsolated == part = "coop" => CM!LaunchesIsolated

(* The backend's flag is the matcher's, and no token is refused.           *)
MatcherInStep == part = "grammar" => GB!MatcherInStep

(* Recurrent states are kept, hashed and reserved as their readers expect. *)
StatesAligned == part = "mamba" => MA!StatesAligned

(* A ring holds its request's tail and nothing is written beside it.       *)
RingsPrivate == part = "kpool" => KP!RingsPrivate
=============================================================================
