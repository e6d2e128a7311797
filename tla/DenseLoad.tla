------------------------------- MODULE DenseLoad -------------------------------
(***************************************************************************)
(* One dense EXL3 linear layer of a rank (Exl3LinearMethod of              *)
(* overlay/exl3.py): its tensors arrive from the checkpoint in any order,  *)
(* some packed (trellis, svh, a codebook marker), some declared BF16, some *)
(* stale BF16 copies of packed shards; after the load the layer is checked *)
(* and serves a batch either with the packed kernels or, when it retained  *)
(* a BF16 copy, with one product.                                          *)
(*                                                                         *)
(* Sizes are in tiles of 16.  A column of a buffer is <<0, 0>> until it    *)
(* is written with <<shard, column of the checkpoint's tensor>>.           *)
(***************************************************************************)
EXTENDS Integers, Sequences, FiniteSets, FiniteSetsExt, SequencesExt

CONSTANTS Layers,       \* the layers a model declares
          World         \* number of ranks

VARIABLES
    mod,        \* the layer: [shards, row, full]; a shard is [bf16, out, rep]
    rank,
    coming,     \* parts of the checkpoint that have not arrived yet
    lost,       \* the part the checkpoint lacks, if any
    trellis, svh, weight,   \* the layer's parameters
    parts,      \* self._loaded_parts
    markers,    \* shards whose codebook marker is set
    state       \* loading, refused or served

densevars == <<mod, rank, coming, lost, trellis, svh, weight, parts, markers, state>>

NShards == Len(mod.shards)
Shards == 1 .. NShards
Bf16 == {i \in Shards : mod.shards[i].bf16}
Out(i) == mod.shards[i].out
SumOut(S) == MapThenSumSet(LAMBDA i : Out(i), S)
Below(i) == 1 .. i - 1
Blank(n) == [k \in 1 .. n |-> <<0, 0>>]

(* A layer that reports its full output although ranks split the others is *)
(* replicated, whatever tp_size says.                                      *)
LayerTP == IF ~mod.row /\ World > 1 /\ SumOut(Shards) = mod.full THEN 1 ELSE World
EffTP(i) == IF mod.shards[i].rep THEN 1 ELSE LayerTP
EffRank(i) == IF EffTP(i) = 1 THEN 0 ELSE rank

(* The columns of shard i in the checkpoint, of which this rank serves     *)
(* those after First(i).                                                   *)
Stored(i) == IF mod.row THEN Out(i) ELSE Out(i) * EffTP(i)
First(i) == IF mod.row THEN 0 ELSE EffRank(i) * Out(i)

(* shard_exl3_col, shard_exl3_row and the slicing of a BF16 shard          *)
Sliced(i) ==
    LET n == Stored(i) \div (IF mod.row THEN 1 ELSE EffTP(i))
    IN [k \in 1 .. n |-> <<i, First(i) + k>>]

Packed == {"trellis", "suh", "svh", "marker"}
Checkpoint(m) ==
    LET all == 1 .. Len(m.shards)
    IN {<<i, "weight">> : i \in {i \in all : m.shards[i].bf16 \/ m.shards[i].stale}}
       \cup ({i \in all : ~m.shards[i].bf16} \X Packed)

(* -------------------------------------------------------- the layer ---- *)

Written(buffer, at, columns) ==
    [k \in DOMAIN buffer |-> IF k > at /\ k <= at + Len(columns) THEN columns[k - at] ELSE buffer[k]]

(* Where shard i is written: the trellis holds packed shards only, the     *)
(* scales all of them, the staged weight the BF16 ones.                    *)
TrellisAt(i) == SumOut(Below(i) \ Bf16)
SvhAt(i) == SumOut(Below(i))
WeightAt(i) == SumOut(Below(i) \cap Bf16)

(* create_weights refuses BF16 shards that are not the last ones.          *)
DenseInit ==
    /\ mod \in Layers
    /\ rank \in 0 .. World - 1
    /\ lost \in Checkpoint(mod) \cup {<<0, "none">>}
    /\ coming = Checkpoint(mod) \ {lost}
    /\ trellis = Blank(SumOut(Shards \ Bf16))
    /\ svh = Blank(SumOut(Shards))
    /\ weight = Blank(SumOut(Bf16))
    /\ parts = {} /\ markers = {}
    /\ state = IF Bf16 # {} /\ NShards \notin Bf16 THEN "refused" ELSE "loading"

(* _load_exl3                                                              *)
Arrive(i, part) ==
    /\ state = "loading"
    /\ <<i, part>> \in coming
    /\ coming' = coming \ {<<i, part>>}
    /\ LET fits == Len(Sliced(i)) = Out(i)
           skip == part = "weight" /\ i \notin Bf16
       IN /\ state' = IF skip \/ part \in {"marker", "suh"} \/ fits THEN state ELSE "refused"
          /\ parts' = IF skip \/ part = "marker" THEN parts ELSE parts \cup {<<i, part>>}
          /\ trellis' = IF part = "trellis" /\ fits
                          THEN Written(trellis, TrellisAt(i), Sliced(i)) ELSE trellis
          /\ svh' = IF part = "svh" /\ fits THEN Written(svh, SvhAt(i), Sliced(i)) ELSE svh
          /\ weight' = IF part = "weight" /\ ~skip /\ fits
                         THEN Written(weight, WeightAt(i), Sliced(i)) ELSE weight
          /\ markers' = IF part = "marker" THEN markers \cup {i} ELSE markers
    /\ UNCHANGED <<mod, rank, lost>>

(* Mutant: the parts are counted, whatever shard they are of.              *)
Complete_Counted == Cardinality(parts) >= 2 * NShards

Complete ==
    /\ Shards \ Bf16 \subseteq markers
    /\ Bf16 \X {"weight"} \subseteq parts
    /\ (Shards \ Bf16) \X (Packed \ {"marker"}) \subseteq parts

(* process_weights_after_loading                                           *)
Process ==
    /\ state = "loading" /\ coming = {}
    /\ state' = IF Complete THEN "served" ELSE "refused"
    /\ UNCHANGED <<mod, rank, coming, lost, trellis, svh, weight, parts, markers>>

DenseNext == (\E i \in Shards, part \in Packed \cup {"weight"} : Arrive(i, part)) \/ Process

(* ------------------------------------------------------- the output ---- *)

From(buffer, at, n) == SubSeq(buffer, at + 1, at + n)
Each(S, F(_)) == FlattenSeq([i \in Shards |-> IF i \in S THEN F(i) ELSE <<>>])

(* A packed shard's columns, each with the scale it is multiplied by.      *)
PackedOut(i) ==
    LET t == From(trellis, TrellisAt(i), Out(i))
        s == From(svh, SvhAt(i), Out(i))
    IN [k \in 1 .. Out(i) |-> <<t[k], s[k]>>]
Bf16Out(i) ==
    LET w == From(weight, WeightAt(i), Out(i)) IN [k \in 1 .. Out(i) |-> <<w[k], w[k]>>]

(* _dense_exl3_forward_impl: the packed shards, then the staged tail.      *)
SmallBatch == Each(Shards \ Bf16, PackedOut) \o [k \in DOMAIN weight |-> <<weight[k], weight[k]>>]

(* _retain_bf16_large_m and the product over the copy it made              *)
LargeBatch == Each(Shards, LAMBDA i : IF i \in Bf16 THEN Bf16Out(i) ELSE PackedOut(i))

(* A layer that serves gives every output column from the column of the    *)
(* checkpoint that is this rank's, with that column's scale, in the order  *)
(* of the shards and on both paths: nothing stale, nothing unwritten.      *)
ColumnsServed ==
    state = "served" =>
      LET due == Each(Shards, LAMBDA i :
                   [k \in 1 .. Out(i) |-> <<<<i, First(i) + k>>, <<i, First(i) + k>>>>])
      IN SmallBatch = due /\ LargeBatch = due

(* A layer is refused for a checkpoint that lacks one of its parts or a    *)
(* declaration it cannot serve, and for nothing else.                      *)
RefusedForACause ==
    LET needed == <<0, "none">> # lost
                  /\ ~(lost[2] = "weight" /\ lost[1] \notin Bf16)
    IN /\ state = "served" => ~needed
       /\ state = "refused" => needed \/ (Bf16 # {} /\ NShards \notin Bf16)
=============================================================================
