------------------------------ MODULE MambaAlign ------------------------------
(***************************************************************************)
(* The recurrent states of one prefill in "align" mode: where the patched  *)
(* scheduler ends a chunk (patch_mamba_align_chunking.py) and which state  *)
(* blocks the patched managers hold and release while earlier steps are    *)
(* in flight (patch_mamba_align_state_free.py).  There is one group per    *)
(* page size; a block is modelled by the position whose state it holds.    *)
(***************************************************************************)
EXTENDS Integers, Sequences, FiniteSets, FiniteSetsExt

CONSTANTS
    Pages,          \* block sizes of the Mamba groups
    Checkpoint,     \* the scheduler's block size, their common multiple
    Prompt,         \* tokens of the prompt
    Grants,         \* what a step may grant the request
    Backoff,        \* tokens the last checkpoint is moved down by EAGLE
    Batches,        \* max_concurrent_batches
    Spec            \* num_speculative_blocks

(* What the parameters must satisfy.                                       *)
MambaAssumption ==
    /\ \A p \in Pages : p \in Nat \ {0} /\ Checkpoint % p = 0
    /\ Checkpoint \in Nat \ {0} /\ Prompt \in Nat \ {0} /\ Batches \in Nat \ {0}
    /\ Backoff \in {0, Checkpoint} /\ Spec \in Nat
    /\ Grants \subseteq Nat \ {0}

Null == -1
Blank == 0      \* a block without a state yet

VARIABLES
    table,      \* page |-> the request's blocks, by position
    owned,      \* page |-> blocks were allocated since it was admitted
    stale,      \* page |-> stale_state_block_idxs
    computed,   \* num_computed_tokens: scheduled
    flight,     \* steps that were scheduled and have not come back
    runs        \* times the request was admitted

mavars == <<table, owned, stale, computed, flight, runs>>

Cdiv(a, b) == (a + b - 1) \div b
Least(a, b) == IF a < b THEN a ELSE b
Most(a, b) == IF a > b THEN a ELSE b

(* Indices count from zero in the code.                                    *)
At(t, i) == t[i + 1]
StateIndex(pos, page) == Cdiv(pos, page) - 1
Nulls(n) == [i \in 1..Most(n, 0) |-> Null]
Real(t) == {i \in 0..(Len(t) - 1) : At(t, i) # Null}

(* Admission: a hit leaves one block, the one that holds the hit state.    *)
Hit(pos, page) ==
    IF pos = 0 THEN <<>> ELSE Append(Nulls(pos \div page - 1), pos)

Admit(pos) ==
    /\ table' = [p \in Pages |-> Hit(pos, p)]
    /\ owned' = [p \in Pages |-> FALSE]
    /\ stale' = [p \in Pages |-> <<>>]
    /\ computed' = pos
    /\ flight' = <<>>

MAInit ==
    /\ \E pos \in {c \in 0..(Prompt - 1) : c % Checkpoint = 0} :
          /\ table = [p \in Pages |-> Hit(pos, p)]
          /\ computed = pos
    /\ owned = [p \in Pages |-> FALSE]
    /\ stale = [p \in Pages |-> <<>>]
    /\ flight = <<>> /\ runs = 1

(***************************************************************************)
(* _mamba_block_aligned_split: only a grant of a full page is rounded to   *)
(* checkpoints; from the middle of a page the next boundary of the shared  *)
(* or of a smaller page ends the chunk, and so does the last checkpoint.   *)
(***************************************************************************)
LastCheckpoint == Most(Prompt - (Prompt % Checkpoint) - Backoff, 0)

Boundary(start, page) == (start \div page + 1) * page
SubPages(start) == {p \in Pages \ {Checkpoint} : start % p # 0}

Rounded(start, end) ==
    IF end < Prompt /\ end - start >= Checkpoint
    THEN end - (end % Checkpoint) ELSE end

NextBoundary(start) == Min({Boundary(start, p) : p \in SubPages(start) \cup {Checkpoint}})

Stops(start) ==
    (IF start % Checkpoint # 0 THEN {NextBoundary(start)} ELSE {})
        \cup (IF start < LastCheckpoint THEN {LastCheckpoint} ELSE {})

(* A grant of less than a page from a boundary ends before the next one.   *)
SplitEnd(start, grant) ==
    Min({Rounded(start, Least(start + grant, Prompt))} \cup Stops(start))

(***************************************************************************)
(* remove_skipped_blocks, allocate_new_blocks.                             *)
(***************************************************************************)
Processed == IF flight = <<>> THEN computed ELSE Head(flight).start

(* Mutant: the block that holds the processed state is released, too.      *)
ReleasableBelow_Early(page) == Cdiv(Processed, page)

ReleasableBelow(page) == Cdiv(Processed, page) - 1

(* The list is walked from its front and left at the first block that is   *)
(* still needed.                                                           *)
Popped(page) ==
    Max({n \in 0..Len(stale[page]) :
            \A j \in 1..n : stale[page][j] < ReleasableBelow(page)})

Waiting(page) == SubSeq(stale[page], Popped(page) + 1, Len(stale[page]))

Released(page) ==
    [i \in 1..Len(table[page]) |->
        IF \E j \in 1..Popped(page) : stale[page][j] = i - 1
        THEN Null ELSE table[page][i]]

(* The speculative blocks move up with the running state (external).       *)
Extended(t, has, end, page) ==
    LET prev == Len(t)
        need == Cdiv(end, page) + Spec
        skip == need - 1 - Spec
        moved == IF has THEN {i \in (prev - Spec)..(prev - 1) : i < skip} ELSE {}
        kept == [i \in 1..prev |-> IF i - 1 \in moved THEN Null ELSE t[i]]
        base == kept \o Nulls(skip - prev) \o [i \in 1..Cardinality(moved) |-> Blank]
    IN IF need <= prev THEN t
       ELSE base \o [i \in 1..(need - Len(base)) |-> Blank]

(* The state block a longer table supersedes.                              *)
Superseded(page, end) ==
    LET prev == Len(table[page])
    IN IF Cdiv(end, page) + Spec <= prev THEN <<>>
       ELSE IF owned[page] THEN <<prev - 1 - Spec>>
       ELSE IF prev > 0 THEN <<prev - 1>> ELSE <<>>

Recorded(page, end) == Waiting(page) \o Superseded(page, end)

Allocated(page, end) ==
    LET t == Extended(Released(page), owned[page], end, page)
    IN [t EXCEPT ![StateIndex(end, page) + 1] = end]

Grows(page, end) == Cdiv(end, page) + Spec > Len(table[page])

Schedule ==
    /\ Len(flight) < Batches /\ computed < Prompt
    /\ \E grant \in Grants :
         LET end == SplitEnd(computed, grant) IN
         /\ end > computed
         /\ table' = [p \in Pages |-> Allocated(p, end)]
         /\ stale' = [p \in Pages |-> Recorded(p, end)]
         /\ owned' = [p \in Pages |-> owned[p] \/ Grows(p, end)]
         /\ computed' = end
         /\ flight' = Append(flight, [start |-> computed, end |-> end])
    /\ UNCHANGED runs

(* The oldest step has come back.                                          *)
Return ==
    /\ flight # <<>>
    /\ flight' = Tail(flight)
    /\ UNCHANGED <<table, owned, stale, computed, runs>>

(* Preemption: the blocks are freed, the list dropped with them; the       *)
(* request is admitted again with what the cache has of it by then.        *)
Preempt ==
    /\ flight = <<>> /\ runs < 2
    /\ runs' = runs + 1
    /\ \E pos \in {c \in 0..(Prompt - 1) : c % Checkpoint = 0} : Admit(pos)

MANext == Schedule \/ Return \/ Preempt

(***************************************************************************)
(* Properties.                                                             *)
(***************************************************************************)

(* A step in flight finds the state it starts from and the block it        *)
(* writes: neither is released before the step has come back.              *)
InFlightKept ==
    \A i \in 1..Len(flight) : \A p \in Pages :
        LET s == flight[i] IN
        /\ s.start > 0 => StateIndex(s.start, p) \in Real(table[p])
        /\ StateIndex(s.end, p) \in Real(table[p])

(* A complete page is hashed with the state at its own end: no state of    *)
(* the middle of a page is left behind in a page the chunks have passed.   *)
HashedExact ==
    \A p \in Pages : \A i \in Real(table[p]) :
        (i + 1) * p <= computed => At(table[p], i) = (i + 1) * p

(* The blocks held stay within what the specification reserves, however    *)
(* many pages every chunk crosses.                                         *)
ReservationHolds ==
    \A p \in Pages : Cardinality(Real(table[p])) <= 1 + Batches + Spec

(* Any positive grant makes progress, and the last checkpoint before the   *)
(* end of the prompt is a chunk's end, so that its state can be reused.    *)
SplitProgress ==
    /\ \A grant \in Grants : computed < Prompt => SplitEnd(computed, grant) > computed
    /\ \A i \in 1..Len(flight) :
          flight[i].start < LastCheckpoint => flight[i].end <= LastCheckpoint

(* The recurrent states are where the scheduler, the hash and the          *)
(* reservation each expect them (patch_mamba_align_*.py).                  *)
StatesAligned == InFlightKept /\ HashedExact /\ ReservationHolds /\ SplitProgress
=============================================================================
