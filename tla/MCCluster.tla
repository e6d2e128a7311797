------------------------------ MODULE MCCluster ------------------------------
(***************************************************************************)
(* Small instances of what brings the weights and the containers up: the   *)
(* commands on the head with the copy to the worker ("cluster"), the build *)
(* of the dense pair ("pack") and the iterator a rank loads through        *)
(* ("load").  The three share no state: a behaviour is of the one in       *)
(* "part", the others stay in their first state.                           *)
(***************************************************************************)
EXTENDS SnapshotSync

CONSTANTS
    MaxPackFaults,      \* bound: failed or killed builds
    LoadShards,         \* shards of the checkpoint a rank loads
    LoadDepth,          \* GLM53_LOAD_PREFETCH of that load
    MaxReads            \* bound: reads of one shard

VARIABLES part,
    headers, draft, overlay, done, snaps, ref, staged, step, failures, hit, torn,
    at, index, nextIndex, current, job, made, pending, consumed, released, given,
    bound, seen, stop

PB == INSTANCE PackBuild WITH
    MaxFaults <- MaxPackFaults, marker <- done, rev <- staged, pc <- step,
    faults <- failures

LP == INSTANCE LoadPrefetch WITH
    N <- LoadShards, Depth <- LoadDepth, Reads <- MaxReads, pc <- at

ASSUME LoadParameters == LP!LoadAssumption

packvars == <<headers, draft, overlay, done, snaps, ref, staged, step, failures, hit, torn>>
lvars == <<at, index, nextIndex, current, job, made, pending, consumed, released, given,
           bound, seen, stop>>

MCInit ==
    /\ part \in {"cluster", "pack", "load"}
    /\ Init /\ PB!PackInit /\ LP!LoadInit
    /\ part # "cluster" => pinned = None /\ copy = {} /\ marker = None

Cluster == part = "cluster" /\ Next /\ UNCHANGED <<part, packvars, lvars>>
Pack == part = "pack" /\ PB!PackNext /\ UNCHANGED <<part, vars, lvars>>
Load == part = "load" /\ LP!LoadNext /\ UNCHANGED <<part, vars, packvars>>

MCNext == Cluster \/ Pack \/ Load

(* The shells go on probing, the consumer of a load goes on asking, and    *)
(* the threads of its pool run.                                            *)
MCFairness ==
    /\ \A c \in Commands : WF_vars(part = "cluster" /\ Check(c) /\ UNCHANGED syncvars)
    /\ WF_lvars(part = "load" /\ LP!Consumer)
    /\ \A s \in LP!Shards : WF_lvars(part = "load" /\ (LP!Take(s) \/ LP!Read(s)))

MCSpec == MCInit /\ [][MCNext]_<<part, vars, packvars, lvars>> /\ MCFairness

(* The command whose descriptor is open, and whose containers are there.   *)
Holder == IF Free THEN None ELSE CHOOSE c \in Commands : kin[c] # {}
Built == [side \in Sides |-> IF pair[side] = None THEN None ELSE pair[side].by]

Behind == {l \in late : l[3] \in Remote}

Owner == INSTANCE ClusterOwner WITH owner <- Holder, built <- Built, behind <- Behind

(* The commands follow the promise of the lock: however they interleave    *)
(* and are killed, each change to the pair is made by the one command that *)
(* owns it, but for those to the worker whose ssh is gone, each at most    *)
(* once and on the worker alone.                                           *)
OwnerOnly == Owner!Spec

(* The pages of a load stay within its window, and none is given back that *)
(* is mapped or ahead (patch_loadclone.py).                                *)
PagesKept == LP!PagesKept

(* A load that was begun ends.                                             *)
LoadEnds == part = "load" => LP!LoadEnds

(* Whatever builds failed before, what is published and served is whole    *)
(* (build_dense_h3 of start.sh).                                           *)
PackWhole == PB!PackWhole
=============================================================================
