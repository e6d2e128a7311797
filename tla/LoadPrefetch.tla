---------------------------- MODULE LoadPrefetch ----------------------------
(***************************************************************************)
(* The checkpoint iterator of patch_loadclone.py: a consumer pulls tensors *)
(* shard by shard, a pool of threads reads ahead to fill the page cache    *)
(* and the pages of a shard are given back once its tensors are gone.  The *)
(* iterator may be closed at any tensor, and a read may fail.              *)
(***************************************************************************)
EXTENDS Integers, Sequences, FiniteSets

CONSTANTS
    N,              \* shards of the checkpoint
    Depth,          \* GLM53_LOAD_PREFETCH; 0 reads nothing ahead
    Reads           \* bound: reads of one shard

(* What the parameters must satisfy.                                       *)
LoadAssumption == N \in Nat \ {0} /\ Depth \in Nat /\ Reads \in Nat \ {0}

Shards == 0..(N - 1)

VARIABLES
    pc,         \* consumer: "next", "wait", "shard", "yield", "native",
                \*           "cancel", "join", "release", "closed"
    index,      \* the shard files() is at
    nextIndex,  \* the first shard not submitted
    current,    \* the shard last yielded to the native iterator, -1 for none
    job,        \* shard |-> "none", "queued", "reading", "done", "failed",
                \*          "cancelled"
    made,       \* shard |-> reads made of it
    pending,    \* shards whose future has not been taken
    consumed,   \* shards yielded: those below this one
    released,   \* release_before has released the shards below this one
    given,      \* shards whose pages were given back
    bound,      \* the shard of the tensor the iterator's locals hold, -1
    seen,       \* the shard of the tensor before it
    stop        \* the stop event

lvars == <<pc, index, nextIndex, current, job, made, pending, consumed,
           released, given, bound, seen, stop>>

LoadInit ==
    /\ pc = "next" /\ index = 0 /\ nextIndex = 0 /\ current = -1
    /\ job = [s \in Shards |-> "none"] /\ made = [s \in Shards |-> 0] /\ pending = {}
    /\ consumed = 0 /\ released = 0 /\ given = {} /\ bound = -1 /\ seen = -1
    /\ stop = FALSE

Least(a, b) == IF a < b THEN a ELSE b
Reading(s) == job[s] = "reading"
Workers == Least(Depth, N)
Outstanding == {s \in Shards : job[s] = "queued" \/ Reading(s)}

(***************************************************************************)
(* files(): submit up to the depth, the shard at hand included, and wait   *)
(* for it.                                                                 *)
(***************************************************************************)
Window(i) == Least(i + Depth, N)

Submit ==
    /\ pc = "next" /\ index < N
    /\ nextIndex' = IF Depth = 0 THEN nextIndex ELSE Window(index)
    /\ job' = [s \in Shards |-> IF s \in nextIndex..(nextIndex' - 1) THEN "queued" ELSE job[s]]
    /\ pending' = (pending \cup nextIndex..(nextIndex' - 1)) \ {index}
    /\ pc' = IF Depth = 0 THEN "shard" ELSE "wait"
    /\ UNCHANGED <<made, index, current, consumed, released, given, bound, seen, stop>>

(* Mutant: a failed read never answers.                                    *)
Waited_DoneOnly ==
    /\ pc = "wait" /\ job[index] = "done"
    /\ pc' = "shard"
    /\ UNCHANGED <<made, index, nextIndex, current, job, pending, consumed, released,
                   given, bound, seen, stop>>

(* The future's result: a failed read raises through the iterator, whose   *)
(* clean-up closes it.                                                     *)
Waited ==
    /\ pc = "wait" /\ job[index] \in {"done", "failed"}
    /\ pc' = IF job[index] = "failed" THEN "native" ELSE "shard"
    /\ UNCHANGED <<made, index, nextIndex, current, job, pending, consumed, released,
                   given, bound, seen, stop>>

(* The native iterator opens the shard.                                    *)
Open ==
    /\ pc = "shard"
    /\ consumed' = index + 1
    /\ current' = index
    /\ pc' = "yield"
    /\ UNCHANGED <<made, index, nextIndex, job, pending, released, given, bound, seen, stop>>

(* A tensor of the shard that is not filtered: only now have both locals   *)
(* moved on, and the shards before it can be given back.                   *)
GivenBefore == IF current # seen THEN released..(current - 1) ELSE {}

Tensor ==
    /\ pc = "yield" /\ bound # current
    /\ bound' = current
    /\ seen' = current
    /\ given' = given \cup GivenBefore
    /\ released' = IF current # seen THEN current ELSE released
    /\ UNCHANGED <<made, pc, index, nextIndex, current, job, pending, consumed, stop>>

(* The shard ends, perhaps with all of its tensors filtered.               *)
ShardEnds ==
    /\ pc = "yield"
    /\ index' = index + 1
    /\ pc' = IF index + 1 < N THEN "next" ELSE "native"
    /\ UNCHANGED <<made, nextIndex, current, job, pending, consumed, released, given,
                   bound, seen, stop>>

(* The consumer drops the iterator at a tensor it was given.               *)
Abandon ==
    /\ pc = "yield" /\ bound = current
    /\ pc' = "native"
    /\ UNCHANGED <<made, index, nextIndex, current, job, pending, consumed, released,
                   given, bound, seen, stop>>

(***************************************************************************)
(* close(): the native iterator first, then the event, the futures, the    *)
(* threads, and at last the pages of all that was yielded.                 *)
(***************************************************************************)
CloseNative ==
    /\ pc = "native"
    /\ bound' = -1
    /\ pc' = "cancel"
    /\ UNCHANGED <<made, index, nextIndex, current, job, pending, consumed, released,
                   given, seen, stop>>

Cancel ==
    /\ pc = "cancel"
    /\ stop' = TRUE
    /\ job' = [s \in Shards |-> IF job[s] = "queued" THEN "cancelled" ELSE job[s]]
    /\ pc' = "join"
    /\ UNCHANGED <<made, index, nextIndex, current, pending, consumed, released, given,
                   bound, seen>>

(* Mutant: close does not wait for the threads.                            *)
Idle_NotAwaited == TRUE

Idle == Outstanding = {}

Join ==
    /\ pc = "join" /\ Idle
    /\ pending' = {}
    /\ pc' = "release"
    /\ UNCHANGED <<made, index, nextIndex, current, job, consumed, released, given,
                   bound, seen, stop>>

Yielded == 0..(consumed - 1)

Release ==
    /\ pc = "release"
    /\ given' = given \cup Yielded
    /\ consumed' = 0
    /\ pc' = "closed"
    /\ UNCHANGED <<made, index, nextIndex, current, job, pending, released, bound, seen, stop>>

(***************************************************************************)
(* The pool: shards are taken in the order of submission; the event is     *)
(* looked at between two reads.                                            *)
(***************************************************************************)
Take(s) ==
    /\ job[s] = "queued"
    /\ \A t \in Shards : t < s => job[t] # "queued"
    /\ Cardinality({t \in Shards : Reading(t)}) < Workers
    /\ job' = [job EXCEPT ![s] = "reading"]
    /\ UNCHANGED <<made, pc, index, nextIndex, current, pending, consumed, released,
                   given, bound, seen, stop>>

Read(s) ==
    /\ Reading(s)
    /\ IF stop \/ made[s] = Reads
       THEN job' = [job EXCEPT ![s] = "done"] /\ UNCHANGED made
       ELSE made' = [made EXCEPT ![s] = @ + 1] /\ UNCHANGED job
    /\ UNCHANGED <<pc, index, nextIndex, current, pending, consumed, released,
                   given, bound, seen, stop>>

ReadFails(s) ==
    /\ Reading(s)
    /\ job' = [job EXCEPT ![s] = "failed"]
    /\ UNCHANGED <<made, pc, index, nextIndex, current, pending, consumed, released,
                   given, bound, seen, stop>>

Consumer == \/ Submit \/ Waited \/ Open \/ Tensor \/ ShardEnds \/ Abandon
            \/ CloseNative \/ Cancel \/ Join \/ Release
Pool(s) == Take(s) \/ Read(s) \/ ReadFails(s)
LoadNext == Consumer \/ \E s \in Shards : Pool(s)
LoadFairness == WF_lvars(Consumer) /\ \A s \in Shards : WF_lvars(Take(s) \/ Read(s))

(***************************************************************************)
(* Properties.                                                             *)
(***************************************************************************)

(* Reads in progress and queued never exceed the depth, and none is ahead  *)
(* of the window of the shard at hand, so a load keeps to its memory.      *)
WindowBounded ==
    /\ Cardinality(Outstanding) <= Depth
    /\ \A s \in Outstanding : s < index + Depth

(* The pages of a shard are not given back while a local of the iterator   *)
(* still holds a tensor mapped from it, also across shards whose tensors   *)
(* were all filtered, and in the clean-up.                                 *)
MappedKept == bound \notin given

(* Pages read ahead for shards that were never yielded are kept.           *)
AheadKept == \A s \in given : s <= current

(* close() leaves no thread reading and no future behind, whatever was     *)
(* queued, in the middle of a read or failed when it was called.           *)
ClosedQuiet == pc \in {"release", "closed"} => Outstanding = {} /\ pending = {}

(* Every load ends, by its last tensor, an abandoned iterator or an error: *)
(* the consumer never waits for a read nobody will make.                   *)
LoadEnds == <>(pc = "closed")

(* The page cache of a load stays within its window, keeps what is mapped  *)
(* or ahead, and is left alone after close() (patch_loadclone.py).         *)
PagesKept == WindowBounded /\ MappedKept /\ AheadKept /\ ClosedQuiet
=============================================================================
