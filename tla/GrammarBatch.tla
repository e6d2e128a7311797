----------------------------- MODULE GrammarBatch -----------------------------
(***************************************************************************)
(* Structured output with speculative drafts, as                           *)
(* patch_xgrammar_termination.py leaves it: one request's grammar, a       *)
(* matcher that can be rolled back behind a cached termination flag.  A    *)
(* step proposes drafts, fills one bitmask per draft by walking the        *)
(* grammar along them, samples, and feeds what was sampled to the grammar; *)
(* the model's reasoning, which the grammar does not see, may end in the   *)
(* middle of the drafts.                                                   *)
(***************************************************************************)
EXTENDS Integers, Sequences, FiniteSets, SequencesExt

CONSTANTS
    Tokens,         \* the vocabulary
    Delta,          \* the grammar: state |-> token |-> next state
    Start, End,     \* its first and its terminated state
    EndOfThinking,  \* the token that ends the reasoning
    Drafts,         \* num_spec_tokens
    MaxLength       \* bound: tokens the matcher has accepted

(* What the parameters must satisfy.                                       *)
GrammarAssumption ==
    /\ Start \in DOMAIN Delta /\ End \notin DOMAIN Delta
    /\ \A q \in DOMAIN Delta :
          /\ DOMAIN Delta[q] \subseteq Tokens
          /\ \A t \in DOMAIN Delta[q] : Delta[q][t] \in DOMAIN Delta \cup {End}
    /\ Drafts \in Nat /\ MaxLength \in Nat

VARIABLES
    path,       \* the matcher: the grammar states it went through
    flag,       \* _is_terminated
    processed,  \* num_processed_tokens
    thinking,   \* the reasoning has not ended
    drafts,     \* spec_token_ids of the request
    stage,      \* "draft", "fill", "sample"
    allowed,    \* the bitmasks of the step: one set of tokens per position
    error       \* the grammar refused a token it had to take

gbvars == <<path, flag, processed, thinking, drafts, stage, allowed, error>>

GBInit ==
    /\ path = <<Start>> /\ flag = FALSE /\ processed = 0
    /\ thinking \in BOOLEAN
    /\ drafts = <<>> /\ stage = "draft" /\ allowed = <<>> /\ error = FALSE

Over(p) == Last(p) = End

(* matcher.accept_token (external): after its end it accepts nothing.      *)
Legal(p) == IF Over(p) THEN {} ELSE DOMAIN Delta[Last(p)]
Step(p, token) == Append(p, Delta[Last(p)][token])

(* What the operations below thread through: the matcher, the flag, the    *)
(* count, and whether every token so far was taken.                        *)
Grammar(p, f, n, ok) == [path |-> p, flag |-> f, count |-> n, ok |-> ok]
Now == Grammar(path, flag, processed, TRUE)

(***************************************************************************)
(* accept_tokens: a batch ends with the token that ends the grammar.       *)
(***************************************************************************)
AcceptOne(g, token) ==
    IF ~g.ok \/ g.flag THEN g
    ELSE IF token \notin Legal(g.path) THEN [g EXCEPT !.ok = FALSE]
    ELSE LET p == Step(g.path, token)
         IN Grammar(p, Over(p), g.count + 1, TRUE)

AcceptTokens(g, tokens) == FoldLeft(AcceptOne, g, tokens)

(***************************************************************************)
(* validate_tokens: the legal prefix, up to the end of the grammar; the    *)
(* matcher is rolled back.                                                 *)
(***************************************************************************)
Try(v, token) ==
    IF v.refused \/ token \notin Legal(v.path) THEN [v EXCEPT !.refused = TRUE]
    ELSE [v EXCEPT !.path = Step(@, token), !.taken = Append(@, token)]

ValidateTokens(g, tokens) ==
    IF g.flag THEN <<>>
    ELSE FoldLeft(Try, [path |-> g.path, taken |-> <<>>, refused |-> FALSE], tokens).taken

(***************************************************************************)
(* A step.  update_draft_token_ids: drafts are validated once the grammar  *)
(* is active.                                                              *)
(***************************************************************************)
Sequences(n) == UNION {[1..k -> Tokens] : k \in 0..n}

Propose ==
    /\ stage = "draft" /\ Len(path) <= MaxLength
    /\ \E d \in Sequences(Drafts) :
          drafts' = IF thinking THEN d ELSE ValidateTokens(Now, d)
    /\ stage' = "fill"
    /\ UNCHANGED <<path, flag, processed, thinking, allowed, error>>

(* The manager walks the drafts and rolls back what it advanced.  A window *)
(* in which the reasoning ends has drafts nobody validated: a token is     *)
(* tried before it is taken.                                               *)
FillOne(w, token) ==
    LET g == w.grammar
        mask == IF w.active /\ ~g.flag THEN Legal(g.path) ELSE Tokens
        active == w.active \/ token = EndOfThinking
        taken == IF w.late /\ ValidateTokens(g, <<token>>) = <<>> THEN [g EXCEPT !.ok = FALSE]
                 ELSE AcceptTokens(g, <<token>>)
    IN IF ~w.active \/ g.flag
       THEN [w EXCEPT !.masks = Append(@, mask), !.active = active,
                      !.late = active /\ (w.late \/ ~w.active)]
       ELSE [w EXCEPT !.masks = Append(@, mask),
                      !.grammar = [taken EXCEPT !.ok = TRUE],
                      !.advanced = @ + (IF taken.ok THEN 1 ELSE 0),
                      !.failed = @ \/ (~taken.ok /\ ~w.late)]

Window ==
    FoldLeft(FillOne, [grammar |-> Now, active |-> ~thinking, late |-> FALSE,
                       masks |-> <<>>, advanced |-> 0, failed |-> FALSE], drafts)

(* matcher.rollback and the flag read from it again (external).            *)
RolledBack(g, n) ==
    LET p == SubSeq(g.path, 1, Len(g.path) - n)
    IN Grammar(p, Over(p), g.count - n, TRUE)

Fill ==
    /\ stage = "fill"
    /\ LET w == Window
           g == RolledBack(w.grammar, w.advanced)
       IN /\ path' = g.path /\ flag' = g.flag /\ processed' = g.count
          /\ error' = (error \/ w.failed)
          /\ allowed' = Append(w.masks,
                IF w.active /\ ~w.grammar.flag THEN Legal(w.grammar.path) ELSE Tokens)
    /\ stage' = "sample"
    /\ UNCHANGED <<thinking, drafts>>

(* Only what follows the reasoning goes to the grammar.                    *)
EndsIn(out) == {i \in 1..Len(out) : out[i] = EndOfThinking}

AfterThinking(out) ==
    IF ~thinking THEN out
    ELSE IF EndsIn(out) = {} THEN <<>>
    ELSE SubSeq(out, (CHOOSE i \in EndsIn(out) : \A j \in EndsIn(out) : i <= j) + 1, Len(out))

(* Drafts are accepted up to some position, and one more token is sampled: *)
(* each from the mask of its position.                                     *)
Sample ==
    /\ stage = "sample"
    /\ \E n \in 0..Len(drafts) : \E bonus \in Tokens :
         LET out == Append(SubSeq(drafts, 1, n), bonus)
             g == AcceptTokens(Now, AfterThinking(out))
         IN /\ \A i \in 1..Len(out) : out[i] \in allowed[i]
            /\ path' = g.path /\ flag' = g.flag /\ processed' = g.count
            /\ error' = (error \/ ~g.ok)
            /\ thinking' = (thinking /\ EndsIn(out) = {})
    /\ drafts' = <<>> /\ allowed' = <<>> /\ stage' = "draft"

(* Mutant: the flag outlives the reset.                                    *)
Reset_KeepsFlag ==
    /\ stage = "draft" /\ ~thinking
    /\ path' = <<Start>> /\ processed' = 0
    /\ UNCHANGED <<flag, thinking, drafts, stage, allowed, error>>

(* reset(): the grammar is used from its beginning again.                  *)
Reset ==
    /\ stage = "draft" /\ ~thinking
    /\ path' = <<Start>> /\ processed' = 0 /\ flag' = FALSE
    /\ UNCHANGED <<thinking, drafts, stage, allowed, error>>

GBNext == Propose \/ Fill \/ Sample \/ Reset

(***************************************************************************)
(* Properties.                                                             *)
(***************************************************************************)

(* The cached flag and the count are the matcher's, between any two steps, *)
(* however a batch ended and after a reset or a roll-back.                 *)
FlagIsMatchers == flag = Over(path) /\ processed = Len(path) - 1

(* No sampled or validated token is ever refused: tokens that follow the   *)
(* end of the grammar in one batch are ignored, drafts made before the     *)
(* reasoning ended are tried first.                                        *)
NeverRefused == ~error

(* The backend's grammar and the matcher under it stay in step             *)
(* (patch_xgrammar_termination.py).                                        *)
MatcherInStep == FlagIsMatchers /\ NeverRefused
=============================================================================
