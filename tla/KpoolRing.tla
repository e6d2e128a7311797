------------------------------ MODULE KpoolRing ------------------------------
(***************************************************************************)
(* The K-pool tail: per request one block of the indexer's cache is a ring *)
(* of the raw keys and gate scores of its last KPool tokens.  A prefill    *)
(* batch maps positions to slots (patch_kpool_tail_slotmap.py) and one     *)
(* program per token decides whether it seeds the ring and where           *)
(* (patch_kpool_tail_seed_stride.py).  A head has one element here.        *)
(***************************************************************************)
EXTENDS Integers, Sequences, FiniteSets, SequencesExt

CONSTANTS
    Rows,       \* rows of the block table: requests are 0..(Rows - 1)
    Blocks,     \* blocks of the pool: 0..n
    KPool,      \* tokens of a ring, and the tail group's block size
    Stride,     \* tail.stride(0): elements of an indexer page, padded
    MaxPos,     \* bound: tokens of a request
    MaxChunk    \* bound: tokens of one request in one batch

(* What the parameters must satisfy.                                       *)
KpoolAssumption ==
    /\ Rows \in Nat /\ KPool \in Nat \ {0} /\ Stride \in Nat /\ Stride >= 2 * KPool
    /\ IsFiniteSet(Blocks) /\ Blocks = 0..(Cardinality(Blocks) - 1)
    /\ MaxPos \in Nat /\ MaxChunk \in Nat

VARIABLES
    row,        \* request |-> its row of the block table: one block, or None
    pos,        \* request |-> tokens it has computed
    memory      \* element of the cache |-> the token and vector it holds

kpvars == <<row, pos, memory>>

Reqs == 0..(Rows - 1)
None == -1
Datum(r, p, which) == [req |-> r, pos |-> p, which |-> which]
Other == Datum(None, 0, 0)      \* not of a tail
Torn == Datum(None, 1, 0)
Padding == [req |-> None, pos |-> 0]
KPoolHead == KPool
Elements == 0..(Stride * Cardinality(Blocks) - 1)

KPInit ==
    /\ row = [r \in Reqs |-> None]
    /\ pos = [r \in Reqs |-> 0]
    /\ memory = [e \in Elements |-> Other]

Held == {r \in Reqs : row[r] # None}
Free == Blocks \ {row[r] : r \in Held}

Admit(r) ==
    /\ row[r] = None /\ pos[r] = 0
    /\ \E b \in Free : row' = [row EXCEPT ![r] = b]
    /\ UNCHANGED <<pos, memory>>

Finish(r) ==
    /\ row[r] # None /\ pos[r] > 0
    /\ row' = [row EXCEPT ![r] = None]
    /\ UNCHANGED <<pos, memory>>

(***************************************************************************)
(* Slot mapping.  The table is one array with one entry to a row: what is  *)
(* past the end of a row is another request's, or anything.                *)
(***************************************************************************)
TableStride == 1
Index(p) == LET i == p \div KPool IN IF i < TableStride THEN i ELSE TableStride - 1

Entry(r, i) == IF r + i \in Held THEN row[r + i] ELSE 0

Slot(r, p) == Entry(r, Index(p)) * KPool + (p % KPool)

(***************************************************************************)
(* The seed kernel: token i of the batch is among its request's last       *)
(* KPool ones iff the token KPool ahead belongs to another tail block, or  *)
(* is past the batch or padding.                                           *)
(***************************************************************************)
TSlot(token) == IF token = Padding THEN None ELSE Slot(token.req, token.pos)

Ahead(batch, i) == IF i + KPool <= Len(batch) THEN TSlot(batch[i + KPool]) ELSE None

Seeds(batch, i) ==
    LET t == TSlot(batch[i])
        ahead == Ahead(batch, i)
    IN t >= 0 /\ ~(ahead >= 0 /\ ahead \div KPool = t \div KPool)

(* padded_k_element, and where the gate score goes.                        *)
(* Mutant: blocks are addressed as if the pages were not padded.           *)
KElement_Dense(t) == (t \div KPool) * 2 * KPool + (t % KPool)

KElement(t) == (t \div KPool) * Stride + (t % KPool)
Element(t, which) == KElement(t) + which * KPoolHead

(* view_row: what the decode kernel reads.                                 *)
View(block, which, ring) == memory[block * Stride + which * KPoolHead + ring]

Seeding(batch) == {i \in 1..Len(batch) : Seeds(batch, i)}

(* Each program stores twice; an element two of them store to is undefined.*)
Stored(batch) ==
    LET stores == {<<Element(TSlot(batch[i]), which), Datum(batch[i].req, batch[i].pos, which)>> :
                      i \in Seeding(batch), which \in {0, 1}}
        touched == {s[1] : s \in stores}
    IN [e \in Elements |->
           IF e \notin touched THEN memory[e]
           ELSE IF Cardinality({s \in stores : s[1] = e}) > 1 THEN Torn
           ELSE (CHOOSE s \in stores : s[1] = e)[2]]

Tokens(r, n) == [i \in 1..n |-> [req |-> r, pos |-> pos[r] + i - 1]]

(* The requests of a batch one after another, and padding behind them.     *)
Prefill ==
    \E first \in Held, others \in SUBSET Held, pad \in {0, 1} :
        /\ first \notin others /\ Cardinality(others) <= 1
        /\ \E n \in [others \cup {first} -> 1..MaxChunk] :
            /\ \A r \in DOMAIN n : pos[r] + n[r] <= MaxPos
            /\ LET batch == Tokens(first, n[first])
                            \o (IF others = {} THEN <<>>
                                ELSE LET r == CHOOSE x \in others : TRUE IN Tokens(r, n[r]))
                            \o [i \in 1..pad |-> Padding]
               IN memory' = Stored(batch)
            /\ pos' = [r \in Reqs |-> IF r \in DOMAIN n THEN pos[r] + n[r] ELSE pos[r]]
    /\ UNCHANGED row

KPNext == Prefill \/ \E r \in Reqs : Admit(r) \/ Finish(r)

(***************************************************************************)
(* Properties.                                                             *)
(***************************************************************************)

(* After any chunks, however they were batched and whoever had the block   *)
(* before, the ring of a request holds the keys and the scores of exactly  *)
(* its last tokens; no other request's seeding has touched it.             *)
RingHoldsTail ==
    \A r \in Held : \A p \in 0..(pos[r] - 1) : \A which \in {0, 1} :
        p >= pos[r] - KPool =>
            View(row[r], which, p % KPool) = Datum(r, p, which)

(* Nothing is stored in the padding of a page, where another layer's data  *)
(* may lie.                                                                *)
PaddingUntouched ==
    \A e \in Elements : e % Stride >= 2 * KPool => memory[e] = Other

(* The rings keep to their own storage and content                         *)
(* (patch_kpool_tail_slotmap.py, patch_kpool_tail_seed_stride.py).         *)
RingsPrivate == RingHoldsTail /\ PaddingUntouched
=============================================================================
