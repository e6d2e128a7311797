------------------------------ MODULE MoeDispatch ------------------------------
(***************************************************************************)
(* The routed experts of one EXL3 layer (overlay/exl3.py): the tier of     *)
(* kernels resolved when the layer's weights are loaded, and the kernels a *)
(* batch then goes through.  The fused kernel serves an expert whose rows  *)
(* fit its temporaries (Cap) and silently skips every other one, which a   *)
(* second pass has to serve: slices of the sorted rows, batched buffers,   *)
(* the grouped kernels over tables built on the device, row tiles, or the  *)
(* loop over experts.                                                      *)
(*                                                                         *)
(* A slot is one (token, k) pair of the router's choice: it stands for the *)
(* row of the token and for its weight, which the sort moves together.     *)
(* What a kernel adds to the output is the sequence of parts <<slot,       *)
(* expert, suh>> it computed, "suh" naming the input signs it used for the *)
(* up projection: the expert's own ones or the gate's.                     *)
(***************************************************************************)
EXTENDS Integers, Sequences, FiniteSets, FiniteSetsExt, SequencesExt, TLC

CONSTANTS Batches,      \* batches: a sequence of tokens, each the global experts chosen for it
          Maps,         \* expert maps of a rank: global expert -> local one, -1 for another rank's
          Cap,          \* rows of the fused kernel's temporaries
          TileGateUp, TileDown    \* rows of a block of the grouped kernels

VARIABLES
    env,        \* the flags of the environment that select a path
    image,      \* kernels the image was built with
    layer,      \* what the checkpoint and the rank give this layer
    tier,       \* layer._exl3_fat_effective_tier
    pc,         \* load, refused, ready, call, done
    batch,      \* ids of the tokens of the call, and how the sort broke ties
    last,       \* layer._exl3_last_fat_fallback
    out         \* the parts added to the output

moevars == <<env, image, layer, tier, pc, batch, last, out>>

NoBatch == [ids |-> <<>>, stable |-> TRUE]

(* ---------------------------------------------------------- at load ---- *)

(* EXL3_FAT_*: each tier implies the ones below.                           *)
Configured == IF env.fat = "off" THEN "legacy" ELSE env.fat

(* resolve_exl3_fat_tier                                                   *)
Resolved(shared, eligible) ==
    IF Configured = "legacy" THEN "legacy"
    ELSE IF ~shared /\ Configured \in {"grouped", "kernel", "batched"} THEN "sorted"
    ELSE IF Configured = "grouped" /\ ~image.grouped THEN "refused"
    ELSE IF Configured = "grouped" /\ eligible THEN "grouped"
    ELSE IF Configured \in {"grouped", "kernel"}
         THEN IF image.kernel THEN "kernel" ELSE "refused"
    ELSE Configured

(* process_weights_after_loading: the grouped kernels also need the signs  *)
(* of gate and up to be the same ones (grouped_fat_eligibility).           *)
Load ==
    LET r == Resolved(layer.shared, layer.shared /\ layer.fits)
    IN /\ pc = "load"
       /\ tier' = r
       /\ pc' = IF r = "refused" THEN "refused" ELSE "ready"
       /\ UNCHANGED <<env, image, layer, batch, last, out>>

(* -------------------------------------------------------- one batch ---- *)

K == Len(batch.ids[1])
Slots == 1 .. Len(batch.ids) * K
Chosen(slot) == batch.ids[1 + ((slot - 1) \div K)][1 + ((slot - 1) % K)]
Locals == Cardinality({g \in DOMAIN layer.map : layer.map[g] >= 0})

(* map_topk_to_local: an expert of another rank becomes the sentinel.      *)
Local(slot) ==
    LET g == Chosen(slot)
        invalid == g \notin DOMAIN layer.map \/ layer.map[g] < 0 \/ layer.map[g] >= Locals
    IN IF invalid THEN Locals ELSE layer.map[g]

(* argsort promises no order among equal keys.                             *)
Sorted ==
    LET Before(i, j) ==
          \/ Local(i) < Local(j)
          \/ Local(i) = Local(j) /\ (IF batch.stable THEN i < j ELSE i > j)
    IN SortSeq([i \in Slots |-> i], Before)

Counts == [e \in 0 .. Locals - 1 |-> Cardinality({i \in Slots : Local(i) = e})]
SumBelow(f, e) == MapThenSumSet(LAMBDA x : f[x], 0 .. e - 1)
Total(f) == SumBelow(f, Locals)
Hottest(f) == Max({f[e] : e \in DOMAIN f} \cup {0})
CeilDiv(a, b) == (a + b - 1) \div b
OfExperts(F(_)) == FlattenSeq([i \in 1 .. Locals |-> F(i - 1)])

Own == "own"
GateSigns == IF layer.shared THEN Own ELSE "gate"
Slice(rows, from, n, e, suh) == [i \in 1 .. n |-> <<rows[from + i], e, suh>>]

(* exl3_moe: expert e owns counts[e] rows after those of the experts below *)
(* it, and is skipped when they do not fit.                                *)
Fused(counts, rows) ==
    OfExperts(LAMBDA e : IF counts[e] > Cap THEN <<>>
                         ELSE Slice(rows, SumBelow(counts, e), counts[e], e, Own))

(* apply_exl3_sorted_fat and apply_exl3_batched_fat                        *)
FatSlices(counts, rows, suh) ==
    OfExperts(LAMBDA e : IF counts[e] <= Cap THEN <<>>
                         ELSE Slice(rows, SumBelow(counts, e), counts[e], e, suh))

(* apply_exl3_python_loop: by global expert, over the router's own ids.    *)
Loop(only) ==
    LET globals == SetToSortSeq({Chosen(i) : i \in Slots}, LAMBDA a, b : a < b)
        Of(g) == SelectSeq([i \in Slots |-> i],
                           LAMBDA i : Chosen(i) = g /\ Local(i) \in only)
        Parts(g) == LET s == Of(g) IN [i \in DOMAIN s |-> <<s[i], layer.map[g], Own>>]
    IN FlattenSeq([n \in DOMAIN globals |-> Parts(globals[n])])

(* Mutant: searchsorted finds the left end of a run.                       *)
Owner_Left(sizes, x) ==
    LET past == {e \in DOMAIN sizes : SumBelow(sizes, e + 1) >= x}
    IN IF past = {} THEN Locals - 1 ELSE Min(past)

(* searchsorted(cumsum(sizes), x, right=True), clamped.                    *)
Owner(sizes, x) ==
    LET past == {e \in DOMAIN sizes : SumBelow(sizes, e + 1) > x}
    IN IF past = {} THEN Locals - 1 ELSE Min(past)

(* build_grouped_fat_tables: the rows of the fat experts back to back, and *)
(* the blocks of at most "tile" rows of one expert they are cut into.      *)
Tables(counts, rows, tile) ==
    LET fat == [e \in DOMAIN counts |-> IF counts[e] > Cap THEN counts[e] ELSE 0]
        tiles == [e \in DOMAIN counts |-> CeilDiv(fat[e], tile)]
        Block(s) == LET e == Owner(tiles, s)
                        nth == s - SumBelow(tiles, e)
                    IN [expert |-> e, first |-> SumBelow(fat, e) + nth * tile,
                        rows |-> Min({tile, Max({0, fat[e] - nth * tile})})]
        Row(r) == LET e == Owner(fat, r)
                      at == Min({SumBelow(counts, e) + r - SumBelow(fat, e), Len(rows) - 1})
                  IN [expert |-> e, slot |-> rows[at + 1]]
    IN [blocks |-> [s \in 0 .. Total(tiles) - 1 |-> Block(s)],
        rows |-> [r \in 0 .. Total(fat) - 1 |-> Row(r)]]

(* apply_exl3_grouped_fat: gather, gate and up, down.  A row of the buffer *)
(* is good for the down projection of the expert that wrote it last.       *)
Grouped(counts, rows) ==
    LET up == Tables(counts, rows, TileGateUp)
        down == Tables(counts, rows, TileDown)
        Within(b) == b.first .. b.first + b.rows - 1
        Writer(r) == {up.blocks[s].expert : s \in
                        {s \in DOMAIN up.blocks : r \in Within(up.blocks[s])}}
        Part(b, r) == IF Writer(r) = {b.expert} /\ up.rows[r].expert = b.expert
                      THEN <<down.rows[r].slot, b.expert, GateSigns>>
                      ELSE <<down.rows[r].slot, b.expert, "unwritten">>
    IN FlattenSeq([s \in 1 .. Cardinality(DOMAIN down.blocks) |->
           LET b == down.blocks[s - 1] IN [i \in 1 .. b.rows |-> Part(b, b.first + i - 1)]])

(* _exl3_moe_row_tiles                                                     *)
RowTiles(counts, rows) ==
    LET Tile(t) ==
          LET size == [e \in DOMAIN counts |-> Min({Cap, Max({0, counts[e] - t * Cap})})]
              Row(i) == LET e == Owner(size, i)
                        IN rows[1 + SumBelow(counts, e) + t * Cap + i - SumBelow(size, e)]
          IN Fused(size, [i \in 1 .. Total(size) |-> Row(i - 1)])
    IN FlattenSeq([t \in 1 .. CeilDiv(Hottest(counts), Cap) |-> Tile(t - 1)])

(* ------------------------------------------- the paths of one call ---- *)

Call ==
    /\ pc = "ready"
    /\ \E ids \in Batches, stable \in BOOLEAN : batch' = [ids |-> ids, stable |-> stable]
    /\ pc' = "call"
    /\ last' = "none"
    /\ out' = <<>>
    /\ UNCHANGED <<env, image, layer, tier>>

Served(name, parts) ==
    /\ pc' = "done"
    /\ last' = name
    /\ out' = parts
    /\ UNCHANGED <<env, image, layer, tier, batch>>

UseFused == env.fused /\ image.fused

(* apply_exl3_experts without the fused kernel                             *)
AllLoop ==
    /\ pc = "call" /\ ~UseFused
    /\ Served("loop", Loop(0 .. Locals - 1))

(* A batch that fits takes one launch, also in a captured graph.           *)
Small ==
    /\ pc = "call" /\ UseFused
    /\ Len(batch.ids) <= Cap
    /\ Served("none", Fused(Counts, Sorted))

TakesGrouped == env.fat = "grouped" /\ ~env.rowTile /\ tier = "grouped"

GroupedPath ==
    /\ pc = "call" /\ UseFused
    /\ Len(batch.ids) > Cap
    /\ TakesGrouped
    /\ Served("grouped", Fused(Counts, Sorted) \o Grouped(Counts, Sorted))

(* The remaining paths of a batch that does not fit.                       *)
Overflow == pc = "call" /\ UseFused /\ Len(batch.ids) > Cap /\ ~TakesGrouped

WantKernel == env.fat \in {"kernel", "grouped"}
WantBatched == env.fat \in {"batched", "kernel", "grouped"}
UseBatched == WantBatched /\ layer.shared
UseSorted == env.fat # "off"

ThinPath ==
    /\ Overflow
    /\ Hottest(Counts) <= Cap
    /\ Served("none", Fused(Counts, Sorted))

RowTilePath ==
    /\ Overflow
    /\ Hottest(Counts) > Cap
    /\ env.rowTile
    /\ Served("row_tile", RowTiles(Counts, Sorted))

FatPath ==
    /\ Overflow
    /\ Hottest(Counts) > Cap
    /\ ~env.rowTile
    /\ LET thin == Fused(Counts, Sorted)
           fat == {e \in DOMAIN Counts : Counts[e] > Cap}
       IN IF UseBatched
            THEN Served(IF WantKernel THEN "kernel" ELSE "batched",
                        thin \o FatSlices(Counts, Sorted, GateSigns))
          ELSE IF UseSorted
            THEN Served("sorted", thin \o FatSlices(Counts, Sorted, Own))
          ELSE Served("legacy", thin \o Loop(fat))

Return ==
    /\ pc = "done"
    /\ pc' = "ready"
    /\ batch' = NoBatch /\ out' = <<>>
    /\ UNCHANGED <<env, image, layer, tier, last>>

MoeInit ==
    /\ env \in [fat : {"off", "sorted", "batched", "kernel", "grouped"},
                rowTile : BOOLEAN, fused : BOOLEAN]
    /\ image \in [fused : BOOLEAN, kernel : BOOLEAN, grouped : BOOLEAN]
    /\ layer \in [map : Maps, shared : BOOLEAN, fits : BOOLEAN]
    /\ tier = "unresolved" /\ pc = "load"
    /\ batch = NoBatch /\ last = "none" /\ out = <<>>

MoeNext == Load \/ Call \/ AllLoop \/ Small \/ GroupedPath \/ ThinPath \/ RowTilePath
           \/ FatPath \/ Return

(* Whatever path a batch takes, every choice of the router that falls on   *)
(* an expert of this rank is added to the output exactly once, computed    *)
(* by that expert and with its own signs: no row is dropped between the    *)
(* fused kernel, which skips a full expert, and the pass that serves it,   *)
(* none is served by both, and no block of the grouped tables straddles    *)
(* two experts.                                                            *)
EachChoiceOnce ==
    pc = "done" =>
      LET due == {<<i, Local(i), Own>> : i \in {i \in Slots : Local(i) < Locals}}
      IN ToSet(out) = due /\ Len(out) = Cardinality(due)

(* The pass that serves the full experts is the tier that was resolved     *)
(* (and logged) at load, so that a tier that was refused there, or that    *)
(* the image has no kernel for, is never met in the middle of a prefill.   *)
TierAsResolved ==
    pc = "done" /\ last \notin {"none", "loop", "row_tile"} =>
      /\ last = tier
      /\ last = "kernel" => image.kernel
      /\ last = "grouped" => image.grouped /\ layer.fits

ExpertsServed == EachChoiceOnce /\ TierAsResolved
=============================================================================
