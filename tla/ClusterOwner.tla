---------------------------- MODULE ClusterOwner ----------------------------
(***************************************************************************)
(* What the lifecycle lock promises: one command at a time owns the pair,  *)
(* and only the owner removes containers or puts its own in their place.   *)
(* What it cannot promise: a docker command for the worker that an owner   *)
(* left behind there may take effect later, once, whoever is the owner.    *)
(***************************************************************************)
CONSTANTS Commands, None, Sides

VARIABLES owner, built,   \* side |-> the command whose container is there
          behind          \* <<command, its step, what it does>> left behind

Init == owner = None /\ built = [side \in Sides |-> None] /\ behind = {}

Acquire(c) == owner = None /\ owner' = c /\ UNCHANGED <<built, behind>>

Change(c, side) ==
    /\ owner = c
    /\ \/ built' = [built EXCEPT ![side] = None]
       \/ built[side] = None /\ built' = [built EXCEPT ![side] = c]
    /\ owner' \in {c, None}
    /\ UNCHANGED behind

(* The owner loses its hold on commands of its, and perhaps the lock too.  *)
Leave(c) ==
    /\ owner = c
    /\ behind \subseteq behind' /\ \A l \in behind' \ behind : l[1] = c
    /\ owner' \in {c, None}
    /\ UNCHANGED built

Release == owner' = None /\ UNCHANGED <<built, behind>>

Late(l) ==
    /\ l \in behind /\ behind' = behind \ {l}
    /\ \/ l[3] = "rm worker" /\ built' = [built EXCEPT !["worker"] = None]
       \/ /\ l[3] = "run worker" /\ built["worker"] = None
          /\ built' = [built EXCEPT !["worker"] = l[1]]
       \/ l[3] = "run worker" /\ built["worker"] # None /\ UNCHANGED built
    /\ UNCHANGED owner

Next == \/ \E c \in Commands : \/ Acquire(c) \/ Leave(c)
                               \/ \E side \in Sides : Change(c, side)
        \/ Release
        \/ \E l \in behind : Late(l)

Spec == Init /\ [][Next]_<<owner, built, behind>>
=============================================================================
