------------------------------ MODULE ShardLayout ------------------------------
(***************************************************************************)
(* How the weights of a model whose sizes do not divide by the number of   *)
(* ranks are padded, cut and found again: the vocabulary                   *)
(* (overlay/tp3/vllm/.../vocab_parallel_embedding.py), the columns and     *)
(* rows of a linear layer (parameter.py) and the heads of the drafter      *)
(* (pad-tp3-config.py).  The ranks load one after the other; then every    *)
(* token is looked up, its logit gathered, and every query head meets its  *)
(* key.                                                                    *)
(*                                                                         *)
(* A row of a weight is its number in the checkpoint plus one, a row of    *)
(* padding is 0.                                                           *)
(***************************************************************************)
EXTENDS Integers, Sequences, FiniteSets, FiniteSetsExt, SequencesExt

CONSTANTS Sizes,        \* numbers of ranks
          Pads,         \* units the vocabulary is padded to (64 in the code)
          Vocabularies, \* <<tokens of the checkpoint, tokens added to them>>
          Widths        \* stored sizes of a linear layer's dimension

(* What the parameters must satisfy.                                       *)
ShardAssumption ==
    /\ Sizes \subseteq Nat \ {0} /\ Pads \subseteq Nat \ {0} /\ Widths \subseteq Nat
    /\ Vocabularies \subseteq Nat \X Nat

VARIABLES
    tp,         \* tp_size
    vocab,      \* [pad, org, added]: the embedding's constructor arguments
    width,      \* stored size of the linear layer
    tables,     \* what each rank's embedding holds, for the ranks that have loaded
    shards      \* what each rank's linear weight holds

shardvars == <<tp, vocab, width, tables, shards>>

Ranks == 0 .. tp - 1
CeilTo(n, unit) == ((n + unit - 1) \div unit) * unit
Divides(a, b) == b % a = 0
Lcm(a, b) == Min({n \in 1 .. a * b : Divides(a, n) /\ Divides(b, n)})

(* -------------------------------------------------- the vocabulary ---- *)

Unit == IF tp > 1 /\ ~Divides(tp, vocab.pad) THEN Lcm(vocab.pad, tp) ELSE vocab.pad

(* num_embeddings and its two paddings                                     *)
Full == vocab.org + vocab.added
OrgPadded == CeilTo(vocab.org, Unit)
FullPadded == CeilTo(OrgPadded + vocab.added, Unit)
PerRank == FullPadded \div tp

(* _get_indices: the tokens of the checkpoint and the added ones are cut   *)
(* separately, and each cut loses its padding.                             *)
Indices(rank) ==
    LET org == OrgPadded \div tp
        added == (FullPadded - OrgPadded) \div tp
        Cut(at, end) == Min({at, end})
        addedAt == vocab.org + rank * added
    IN [orgFirst |-> Cut(rank * org, vocab.org),
        orgEnd |-> Cut((rank + 1) * org, vocab.org),
        addedFirst |-> Cut(addedAt, Full),
        addedEnd |-> Cut(addedAt + added, Full),
        orgRows |-> org,
        addedRows |-> added]

(* weight_loader: the rank's tokens, and zeros behind them.                *)
LoadedTable(rank) ==
    LET i == Indices(rank)
    IN [row \in 0 .. PerRank - 1 |->
          IF i.orgFirst + row < i.orgEnd THEN i.orgFirst + row + 1 ELSE 0]

(* get_masked_input_and_mask: where a rank looks a token up, or -1 when it *)
(* masks the token out.                                                    *)
RowOf(rank, token) ==
    LET i == Indices(rank)
        inOrg == token >= i.orgFirst /\ token < i.orgEnd
        inAdded == token >= i.addedFirst /\ token < i.addedEnd
        padding == i.orgRows - (i.orgEnd - i.orgFirst)
        addedOffset == i.addedFirst - (i.orgEnd - i.orgFirst) - padding
        offset == (IF inOrg THEN i.orgFirst ELSE 0) + (IF inAdded THEN addedOffset ELSE 0)
    IN IF inOrg \/ inAdded THEN token - offset ELSE -1

(* get_sharded_to_full_mapping                                             *)
Mapping ==
    LET At(rank) == PerRank * rank
        Run(first, n) == [k \in 1 .. n |-> first + k - 1]
        Each(F(_)) == FlattenSeq([r \in 1 .. tp |-> F(r - 1)])
        Org(r) == LET i == Indices(r) IN Run(At(r), i.orgEnd - i.orgFirst)
        Added(r) == LET i == Indices(r)
                    IN Run(At(r) + i.orgRows, i.addedEnd - i.addedFirst)
        Padding(r) ==
          LET i == Indices(r)
              org == i.orgEnd - i.orgFirst
              added == i.addedEnd - i.addedFirst
          IN Run(At(r) + org, i.orgRows - org)
             \o Run(At(r) + i.orgRows + added, i.addedRows - added)
    IN Each(Org) \o Each(Added) \o Each(Padding)

(* -------------------------------------------- columns and rows of a layer ---- *)

(* Mutant: a rank past the end of the checkpoint's tensor takes its tail.  *)
PadThenNarrow_Tail(stored, first, n) ==
    LET from == Max({0, Min({first, stored - n})})
    IN [k \in 1 .. n |-> IF from + k <= stored THEN from + k ELSE 0]

(* _pad_then_narrow, over a tensor of "stored" rows                        *)
PadThenNarrow(stored, first, n) ==
    [k \in 1 .. n |-> IF first + k <= stored THEN first + k ELSE 0]

(* load_column_parallel_weight and load_row_parallel_weight                *)
LoadedShard(rank) ==
    LET n == CeilTo(width, tp) \div tp IN PadThenNarrow(width, rank * n, n)

(* load_qkv_weight: the key heads of a rank, "replicas" ranks sharing one. *)
LoadedKeys(rank, stored, n, replicas) == PadThenNarrow(stored, (rank \div replicas) * n, n)

(* --------------------------------------------- the drafter's heads ---- *)

StockQ == 32
StockKV == 8
Ratio == StockQ \div StockKV

(* pad_config on the drafter's configuration                               *)
DraftKV == CeilTo(StockKV, tp)
DraftQ == CeilTo(Max({CeilTo(StockQ, tp), DraftKV * Ratio}), tp)

(* The key head that the query head "q" of rank "rank" attends to.         *)
KeyOf(rank, q) ==
    LET localQ == DraftQ \div tp
        localKV == DraftKV \div tp
    IN LoadedKeys(rank, StockKV, localKV, 1)[1 + (q \div (localQ \div localKV))]

(* ------------------------------------------------------------- steps ---- *)

ShardInit ==
    /\ tp \in Sizes
    /\ \E pad \in Pads, v \in Vocabularies :
         vocab = [pad |-> pad, org |-> v[1], added |-> v[2]]
    /\ width \in Widths
    /\ tables = <<>> /\ shards = <<>>

(* The next rank builds its layers and loads its part of the checkpoint.   *)
LoadRank ==
    /\ Len(tables) < tp
    /\ tables' = Append(tables, LoadedTable(Len(tables)))
    /\ shards' = Append(shards, LoadedShard(Len(tables)))
    /\ UNCHANGED <<tp, vocab, width>>

ShardNext == LoadRank

AllLoaded == Len(tables) = tp

(* A token is looked up by exactly one rank, in the row that holds it, so  *)
(* that the sum over the ranks is its embedding; and its logit is found by *)
(* the mapping at that very row of the gathered logits, whose padding      *)
(* comes last.                                                             *)
VocabularyServed ==
    AllLoaded /\ tp > 1 =>
      LET Holders(t) == {r \in Ranks : RowOf(r, t) >= 0}
          Gathered(at) == tables[1 + (at \div PerRank)][at % PerRank]
      IN /\ Len(Mapping) = FullPadded
         /\ ToSet(Mapping) = 0 .. FullPadded - 1
         /\ \A t \in 0 .. Full - 1 :
              \E r \in Ranks :
                /\ Holders(t) = {r}
                /\ RowOf(r, t) < PerRank
                /\ Mapping[t + 1] = r * PerRank + RowOf(r, t)
                /\ Gathered(Mapping[t + 1]) = (IF t < vocab.org THEN t + 1 ELSE 0)
         /\ \A at \in Full + 1 .. FullPadded : Gathered(Mapping[at]) = 0

(* The shards of the ranks, one after the other, are the checkpoint's      *)
(* weight followed by zeros: every row is served once.                     *)
ShardsConcatenate ==
    AllLoaded =>
      FlattenSeq(shards) = [k \in 1 .. CeilTo(width, tp) |-> IF k <= width THEN k ELSE 0]

(* The heads of the drafter divide by the ranks on both sides, and every   *)
(* query head of the checkpoint attends on its rank to the key head it was *)
(* trained with.                                                           *)
HeadsKeepTheirKeys ==
    AllLoaded =>
      /\ Divides(tp, DraftQ) /\ Divides(tp, DraftKV)
      /\ Divides(DraftKV \div tp, DraftQ \div tp)
      /\ \A h \in 0 .. StockQ - 1 :
           LET localQ == DraftQ \div tp
           IN KeyOf(h \div localQ, h % localQ) = (h \div Ratio) + 1
=============================================================================
