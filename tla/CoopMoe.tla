------------------------------- MODULE CoopMoe -------------------------------
(***************************************************************************)
(* The cooperative MoE adapter of extensions/cooperative_moe: one scratch  *)
(* workspace and a buffer of arrival counters per device, used by every    *)
(* layer.  A call queues up to three kernels on a stream; kernel A clears  *)
(* the counters of B and kernel B those of A, each for the next call.      *)
(* Counters are modelled with one cell of the A region per capacity unit   *)
(* and the B region behind it, so that the regions of two capacities       *)
(* overlap when they share a buffer.                                       *)
(***************************************************************************)
EXTENDS Integers, Sequences, FiniteSets

CONSTANTS
    Variants,       \* of {"tp2", "tp3"}
    Layers,         \* MoE layers of a step
    Eligible,       \* those whose weights have the compiled shape
    Need,           \* arrivals a cell waits for: tiles of one output chunk
    MaxCalls        \* bound: calls of the model

(* What the parameters must satisfy.                                       *)
CoopAssumption ==
    /\ Layers \in Nat \ {0} /\ Eligible \subseteq 1..Layers
    /\ Need \in Nat \ {0} /\ MaxCalls \in Nat

Streams == {0, 1}       \* the second one only with overlapping micro-batches
Rows == {"one", "few", "many", "over"}      \* 1, up to 32, up to 64, more
Cells == 0..3

VARIABLES
    variant,
    overlap,    \* the configuration asks for micro-batches that overlap
    policy,     \* tp3: the row classes measured faster with the stock kernel
    boot,       \* "start", "refused", "ready"
    native,     \* layers with the native launch attached
    layer,      \* stream |-> the layer its host code is at
    queue,      \* stream |-> kernels launched on it and not finished
    running,    \* stream |-> its first kernel has begun, arrivals, last ones
    counters,   \* buffer |-> cell |-> arrivals
    scratch,    \* part of the workspace |-> the call that wrote it
    raised,     \* a launch failed: the engine ends
    calls       \* calls made

coopvars == <<variant, overlap, policy, boot, native, layer, queue, running,
              counters, scratch, raised, calls>>

Rest == [begun |-> FALSE, arrived |-> [c \in Cells |-> 0], lasts |-> [c \in Cells |-> 0]]

CoopInit ==
    /\ variant \in Variants
    /\ overlap \in BOOLEAN
    /\ policy \in IF variant = "tp3" THEN {{}, {"few"}} ELSE {{}}
    /\ boot = "start" /\ native = {}
    /\ layer = [s \in Streams |-> 1]
    /\ queue = [s \in Streams |-> <<>>]
    /\ running = [s \in Streams |-> Rest]
    /\ counters = [b \in {1, 2} |-> [c \in Cells |-> 0]]
    /\ scratch = [rotated |-> 0, act |-> 0, output |-> 0]
    /\ raised = FALSE /\ calls = 0

(***************************************************************************)
(* install: a configuration whose launches could overlap is refused; the   *)
(* native launch is attached after the weights of a layer are loaded.      *)
(***************************************************************************)
Serialized == ~overlap

Install ==
    /\ boot = "start"
    /\ IF Serialized
       THEN boot' = "ready" /\ native' = Eligible
       ELSE boot' = "refused" /\ UNCHANGED native
    /\ UNCHANGED <<variant, overlap, policy, layer, queue, running, counters, scratch,
                   raised, calls>>

(***************************************************************************)
(* apply: the stock kernel or the cooperative launch.                      *)
(***************************************************************************)
Capacity(rows) == IF rows = "many" THEN 2 ELSE 1
(* Mutant: both capacities use one buffer.                                 *)
Buffer_Shared(rows) == 1

Buffer(rows) == Capacity(rows)

Fits(rows) ==
    CASE variant = "tp2" -> rows \in {"one", "few"}
      [] variant = "tp3" -> rows \in {"one", "few", "many"} \ policy

Selected(l, rows) == l \in native /\ Fits(rows)

Kernel(kind, id, rows) == [kind |-> kind, id |-> id, rows |-> rows]

(* A single row is rotated inside kernel A.                                *)
Launches(id, rows) ==
    (IF rows = "one" THEN <<>> ELSE <<Kernel("rot", id, rows)>>)
        \o <<Kernel("A", id, rows), Kernel("B", id, rows)>>

Advance(s) == layer' = [layer EXCEPT ![s] = IF @ = Layers THEN 1 ELSE @ + 1]

Enqueue(s, kernels) == queue' = [queue EXCEPT ![s] = @ \o kernels]

(* What follows a launch that failed after n of its kernels.               *)
OnFailure(s, id, rows, n) ==
    /\ raised' = TRUE
    /\ Enqueue(s, SubSeq(Launches(id, rows), 1, n))
    /\ UNCHANGED layer

Busy == {s \in Streams : s = 0 \/ overlap}

Call(s) ==
    /\ boot = "ready" /\ ~raised /\ s \in Busy /\ calls < MaxCalls
    /\ Len(queue[s]) <= 3
    /\ calls' = calls + 1
    /\ \E rows \in Rows :
          IF Selected(layer[s], rows)
          THEN LET all == Launches(calls', rows) IN
               \/ /\ Enqueue(s, all \o <<Kernel("use", calls', rows)>>)
                  /\ Advance(s)
                  /\ UNCHANGED raised
               \/ \E n \in 0..(Len(all) - 1) : OnFailure(s, calls', rows, n)
          ELSE /\ Enqueue(s, <<Kernel("stock", calls', rows)>>)
               /\ Advance(s)
               /\ UNCHANGED raised
    /\ UNCHANGED <<variant, overlap, policy, boot, native, running, counters, scratch>>

(***************************************************************************)
(* The device: a stream runs its kernels in order, streams in any.         *)
(***************************************************************************)
First(s) == Head(queue[s])
RegionA(k) == 0..(Capacity(k.rows) - 1)
RegionB(k) == Capacity(k.rows)..(2 * Capacity(k.rows) - 1)
Arrives(k) == CASE k.kind = "A" -> RegionA(k) [] k.kind = "B" -> RegionB(k) [] OTHER -> {}
Clears(k) == CASE k.kind = "A" -> RegionB(k) [] k.kind = "B" -> RegionA(k) [] OTHER -> {}

Begin(s) ==
    /\ queue[s] # <<>> /\ ~running[s].begun
    /\ running' = [running EXCEPT ![s].begun = TRUE]
    /\ counters' = [counters EXCEPT ![Buffer(First(s).rows)] =
          [c \in Cells |-> IF c \in Clears(First(s)) THEN 0 ELSE @[c]]]
    /\ UNCHANGED <<variant, overlap, policy, boot, native, layer, queue, scratch, raised, calls>>

(* arrive_last: a block adds one and knows by the value before whether it  *)
(* is the last of its chunk, which it then finishes.                       *)
ArriveLast(s, c) ==
    /\ queue[s] # <<>> /\ running[s].begun
    /\ LET k == First(s)
           b == Buffer(k.rows)
           last == counters[b][c] = Need - 1
       IN /\ c \in Arrives(k) /\ running[s].arrived[c] < Need
          /\ counters' = [counters EXCEPT ![b][c] = @ + 1]
          /\ running' = [running EXCEPT ![s].arrived[c] = @ + 1,
                                        ![s].lasts[c] = @ + IF last THEN 1 ELSE 0]
    /\ UNCHANGED <<variant, overlap, policy, boot, native, layer, queue, scratch, raised, calls>>

Writes(k) == CASE k.kind = "rot" -> {"rotated"}
               [] k.kind = "A" -> {"act"}
               [] k.kind = "B" -> {"output"}
               [] OTHER -> {}
Reads(k) == CASE k.kind = "A" -> IF k.rows = "one" THEN {} ELSE {"rotated"}
              [] k.kind = "B" -> {"act"}
              [] k.kind = "use" -> IF variant = "tp3" THEN {"output"} ELSE {}
              [] OTHER -> {}

Finish(s) ==
    /\ queue[s] # <<>> /\ running[s].begun
    /\ \A c \in Arrives(First(s)) : running[s].arrived[c] = Need
    /\ scratch' = [part \in DOMAIN scratch |->
                      IF part \in Writes(First(s)) THEN First(s).id ELSE scratch[part]]
    /\ queue' = [queue EXCEPT ![s] = Tail(@)]
    /\ running' = [running EXCEPT ![s] = Rest]
    /\ UNCHANGED <<variant, overlap, policy, boot, native, layer, counters, raised, calls>>

CoopNext ==
    \/ Install
    \/ \E s \in Streams : Call(s) \/ Begin(s) \/ Finish(s) \/ \E c \in Cells : ArriveLast(s, c)

(***************************************************************************)
(* Properties.                                                             *)
(***************************************************************************)

(* Whatever ran before it, at one row, at either capacity or after calls   *)
(* that used the stock kernel, a chunk is finished by one block, and by    *)
(* the last that arrives: never early on a stale count, never twice.       *)
FinishedOnce ==
    \A s \in Streams : \A c \in Cells :
        running[s].lasts[c] = IF running[s].arrived[c] = Need THEN 1 ELSE 0

(* Every kernel reads what its own call wrote to the workspace, and tp3's  *)
(* one output buffer is read before another call writes it.                *)
OwnWorkspace ==
    \A s \in Streams : running[s].begun =>
        \A part \in Reads(First(s)) : scratch[part] = First(s).id

(* A call is computed by one path: either all of its kernels were          *)
(* launched, or the launch failed, the engine ends and nothing follows.    *)
Successor(kind) == [rot |-> "A", A |-> "B", B |-> "use"][kind]

NoRetry ==
    \A s \in Streams : \A i \in 1..Len(queue[s]) :
        LET k == queue[s][i]
        IN k.kind \in {"rot", "A", "B"} =>
              IF i < Len(queue[s])
              THEN queue[s][i + 1] = [k EXCEPT !.kind = Successor(@)]
              ELSE raised

(* No launch disturbs another one, nor is any half of one repeated         *)
(* (cooperative_moe/runtime.py, CoopLaunch).                               *)
LaunchesIsolated == FinishedOnce /\ OwnWorkspace /\ NoRetry
=============================================================================
