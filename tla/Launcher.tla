------------------------------ MODULE Launcher ------------------------------
(***************************************************************************)
(* start.sh on the head: start, restart and stop, run by hand from several *)
(* terminals at once, over the two containers of the pair.  A command owns *)
(* the cluster through the flock on its descriptor 9: the lock is free     *)
(* when no process has that descriptor open.  docker and rsync inherit it, *)
(* ssh closes it.  A shell may be killed at any point; what it was running *)
(* ends by itself, on the worker perhaps long after its ssh and the lock   *)
(* are gone.  ssh may fail, a container may exit and a probe may miss.     *)
(* The weights are another module's: it takes a command from "inventory"   *)
(* to "launch".                                                            *)
(***************************************************************************)
EXTENDS Integers, FiniteSets

CONSTANTS
    Commands,       \* the shells in which start.sh is run, once each
    None,           \* no container, no revision
    Tail,           \* TAIL=1: start ends by following the head's log
    MaxFaults       \* bound: shells killed, worker commands left behind by their
                    \*   ssh, containers that exit by themselves and, in
                    \*   SnapshotSync, downloads and losses

Sides == {"head", "worker"}
Containers == [by : Commands, running : BOOLEAN, serving : BOOLEAN]

ASSUME NoneAssumption == None \notin Containers \cup Commands

VARIABLES
    pc,         \* command |-> "new", "stop" or "restart" while it removes the
                \*   pair for stop or restart, "preflight", the steps of SnapshotSync from
                \*   "inventory" on, "launch", "wait", "failed", "warm",
                \*   "condemned", "tail"; at the end "up", "stopped",
                \*   "refused", "died", "killed"
    todo,       \* command |-> docker commands still to be issued, in order
    kin,        \* command |-> its live processes, which hold the lock: "shell",
                \*   a docker or rsync command in flight, "follower"
    late,       \* commands to the worker whose ssh is gone and which may still
                \*   take effect: <<command, its step, what it does>>
    struck,     \* what of the worker's, "container" or "marker", was changed
                \*   last by such a command
    pair,       \* side |-> the container: who ran it, running, serving
    miss,       \* command |-> side |-> probes missed in a row
    noise,      \* side |-> probes in a row that missed a running container
    faults

wvars == <<late, struck, pair>>
launchvars == <<pc, todo, kin, wvars, miss, noise, faults>>

Over == {"up", "stopped", "refused", "died", "killed"}
Free == \A c \in Commands : kin[c] = {}
Alive(c) == "shell" \in kin[c]
Running(side) == pair[side] # None /\ pair[side].running
Serving == Running("head") /\ pair["head"].serving

LauncherInit ==
    /\ pc = [c \in Commands |-> "new"]
    /\ todo = [c \in Commands |-> {}]
    /\ kin = [c \in Commands |-> {}]
    /\ late = {} /\ struck = {}
    /\ pair = [side \in Sides |-> None]
    /\ miss = [c \in Commands |-> [side \in Sides |-> 0]]
    /\ noise = [side \in Sides |-> 0]
    /\ faults = 0

(* The counters are locals of wait_for_health.                             *)
Forgets(c) == miss' = [miss EXCEPT ![c] = [side \in Sides |-> 0]]

(* The shell ends here; a follower of the log may outlive it.              *)
Ends(c, how) ==
    /\ pc' = [pc EXCEPT ![c] = how]
    /\ kin' = [kin EXCEPT ![c] = @ \ {"shell"}]

(***************************************************************************)
(* with_cluster_lock and with_cluster_lock_for_stop.                       *)
(***************************************************************************)
Remove == {"rm head", "rm worker"}

(* Mutant: a stop that has waited long enough goes on.                     *)
Granted_StopAnyway(first) == Free \/ first = "stop"

Granted(first) == Free

(* first: what start, stop or restart begins with.                         *)
Lock(c) ==
    /\ pc[c] = "new"
    /\ \E first \in {"preflight", "stop", "restart"} :
         /\ Granted(first)
         /\ pc' = [pc EXCEPT ![c] = first]
         /\ todo' = [todo EXCEPT ![c] = IF first = "preflight" THEN {} ELSE Remove]
    /\ kin' = [kin EXCEPT ![c] = {"shell"}]
    /\ UNCHANGED <<wvars, miss, noise, faults>>

(* start and restart refuse at once, stop after CLUSTER_LOCK_WAIT.         *)
Refuse(c) ==
    /\ pc[c] = "new" /\ ~Free
    /\ pc' = [pc EXCEPT ![c] = "refused"]
    /\ UNCHANGED <<todo, kin, wvars, miss, noise, faults>>

(* preflight, which dies on an engine that holds the port, among others.   *)
Preflight(c) ==
    /\ pc[c] = "preflight" /\ Alive(c)
    /\ \/ /\ ~Serving
          /\ pc' = [pc EXCEPT ![c] = "inventory"] /\ UNCHANGED kin
       \/ Ends(c, "died")
    /\ UNCHANGED <<todo, wvars, miss, noise, faults>>

(***************************************************************************)
(* launch_cluster and stop_containers, one docker command at a time.  The  *)
(* commands of stop run side by side.                                      *)
(***************************************************************************)
Launching == {"rm head", "rm worker", "run worker", "run head"}
Before(a) == CASE a = "rm head" -> {}
               [] a = "rm worker" -> {"rm head"}
               [] a = "run worker" -> {"rm head", "rm worker"}
               [] a = "run head" -> {"rm head", "rm worker", "run worker"}

InFlight(c) == kin[c] \cap Launching

(* The shell issues a command: launch_cluster waits for each, and dies of  *)
(* a container it could not run.                                           *)
Issue(c, a) ==
    /\ Alive(c) /\ a \in todo[c]
    /\ pc[c] = "launch" => InFlight(c) = {} /\ Before(a) \cap todo[c] = {}
    /\ todo' = [todo EXCEPT ![c] = @ \ {a}]
    /\ kin' = [kin EXCEPT ![c] = @ \cup {a}]
    /\ UNCHANGED <<pc, wvars, miss, noise, faults>>

Side(a) == IF a \in {"rm head", "run head"} THEN "head" ELSE "worker"

(* docker run fails on a name that is taken, docker rm -f does not fail.   *)
Done(c, a) ==
    IF a \in Remove THEN pair' = [pair EXCEPT ![Side(a)] = None]
    ELSE /\ pair[Side(a)] = None
         /\ pair' = [pair EXCEPT ![Side(a)] = [by |-> c, running |-> TRUE, serving |-> FALSE]]

(* What c itself does to a container of the worker is the last change.     *)
Own(a) == struck' = IF Side(a) = "worker" THEN struck \ {"container"} ELSE struck

Returns(c, a) ==
    /\ a \in InFlight(c)
    /\ kin' = [kin EXCEPT ![c] = @ \ {a}]
    /\ Done(c, a) /\ Own(a)
    /\ UNCHANGED <<pc, todo, late, miss, noise, faults>>

(* The ssh of a command of c is gone, what it began on the worker is not.  *)
LeftBehind(c, acts) == late' = late \cup {<<c, pc[c], a>> : a \in acts}

(* A run on a name that is taken does nothing; nor does, as a rule, a      *)
(* command whose ssh failed or whose shell was killed, but the worker may  *)
(* carry it out all the same, now or later.  A failed removal is passed    *)
(* over (|| true, || log), a failed run ends the launch (set -e).          *)
Fails(c, a) ==
    /\ a \in InFlight(c)
    /\ \/ /\ \/ Side(a) = "worker" \/ ~Alive(c)
             \/ a \notin Remove /\ pair[Side(a)] # None
          /\ UNCHANGED <<wvars, faults>>
       \/ /\ Side(a) = "worker" /\ LeftBehind(c, {a})
          /\ faults < MaxFaults /\ faults' = faults + 1
          /\ UNCHANGED <<pair, struck>>
    /\ IF a \in Remove \/ ~Alive(c)
       THEN kin' = [kin EXCEPT ![c] = @ \ {a}] /\ UNCHANGED <<pc, todo>>
       ELSE /\ pc' = [pc EXCEPT ![c] = "died"]
            /\ kin' = [kin EXCEPT ![c] = {}]
            /\ todo' = [todo EXCEPT ![c] = {}]
    /\ UNCHANGED <<miss, noise>>

(* A docker command left behind takes effect on the worker, whoever has    *)
(* the lock by then.                                                       *)
Strays(c, step, a) ==
    /\ <<c, step, a>> \in late
    /\ late' = late \ {<<c, step, a>>}
    /\ \/ Done(c, a) /\ struck' = struck \cup {"container"}
       \/ a \notin Remove /\ pair["worker"] # None /\ UNCHANGED <<struck, pair>>
    /\ UNCHANGED <<pc, todo, kin, miss, noise, faults>>

(* Mutant: the log follower of the wait keeps descriptor 9.                *)
Followed_Inherits == {"follower"}

(* docker logs -f of the wait is started with 9>&-.                        *)
Followed == {}

(* All its commands have returned: wait_for_health, or the end of a stop.  *)
Returned(c) == Alive(c) /\ todo[c] = {} /\ InFlight(c) = {}

Launched(c) ==
    /\ pc[c] = "launch" /\ Returned(c)
    /\ pc' = [pc EXCEPT ![c] = "wait"]
    /\ kin' = [kin EXCEPT ![c] = @ \cup Followed]
    /\ Forgets(c)
    /\ UNCHANGED <<todo, wvars, noise, faults>>

Stopped(c) ==
    /\ pc[c] \in {"stop", "restart", "condemned"} /\ Returned(c)
    /\ IF pc[c] = "restart"
       THEN pc' = [pc EXCEPT ![c] = "preflight"] /\ UNCHANGED kin
       ELSE Ends(c, IF pc[c] = "stop" THEN "stopped" ELSE "died")
    /\ UNCHANGED <<todo, wvars, miss, noise, faults>>

(***************************************************************************)
(* wait_for_health: /health first, then the head's container, then the     *)
(* worker's; three probes missed in a row condemn a side.  A probe misses  *)
(* a running container at most twice in a row.                             *)
(***************************************************************************)
Strikes == 3

Missed(n, heard) == IF heard THEN 0 ELSE n + 1

Leaves(c, how) ==
    /\ pc' = [pc EXCEPT ![c] = how]
    /\ kin' = [kin EXCEPT ![c] = @ \ {"follower"}]
    /\ noise' = [side \in Sides |-> 0]

(* Mutant: the worker is not probed.                                       *)
Asked_Head(misses) == {"head"}

(* The worker is not asked about once the head is condemned.               *)
Asked(misses) == IF misses = Strikes THEN {"head"} ELSE Sides

(* The answers to one round.                                               *)
Probe(c, heard) ==
    LET asked == Asked(Missed(miss[c]["head"], "head" \in heard))
    IN  /\ \A side \in asked : \/ side \in heard /\ Running(side)
                               \/ side \notin heard /\ (Running(side) => noise[side] < Strikes - 1)
        /\ miss' = [miss EXCEPT ![c] = [side \in Sides |->
              IF side \in asked THEN Missed(@[side], side \in heard) ELSE @[side]]]

Heard(heard) ==
    noise' = [side \in Sides |-> IF side \in heard \/ ~Running(side) THEN 0 ELSE noise[side] + 1]

Check(c) ==
    /\ pc[c] = "wait" /\ Alive(c)
    /\ IF Serving THEN Leaves(c, "warm") /\ Forgets(c)
       ELSE \E heard \in SUBSET Sides :
              /\ Probe(c, heard)
              /\ IF \E side \in Sides : miss'[c][side] = Strikes
                 THEN Leaves(c, "failed") ELSE Heard(heard) /\ UNCHANGED <<pc, kin>>
    /\ UNCHANGED <<todo, wvars, faults>>

TimesOut(c) ==
    /\ pc[c] = "wait" /\ Alive(c) /\ ~Serving
    /\ Leaves(c, "failed")
    /\ Forgets(c)
    /\ UNCHANGED <<todo, wvars, faults>>

(* The logs are collected; the containers are left as they are.            *)
GivesUp(c) ==
    /\ pc[c] = "failed" /\ Alive(c)
    /\ Ends(c, "died")
    /\ Forgets(c)
    /\ UNCHANGED <<todo, wvars, noise, faults>>

(***************************************************************************)
(* post_ready_warmup and on_ready.                                         *)
(***************************************************************************)
Canary(c) ==
    /\ pc[c] = "warm" /\ Alive(c)
    /\ pc' = [pc EXCEPT ![c] = "condemned"]
    /\ todo' = [todo EXCEPT ![c] = Remove]
    /\ UNCHANGED <<kin, wvars, miss, noise, faults>>

OnReady(c) ==
    /\ pc[c] = "warm" /\ Alive(c)
    /\ IF Tail THEN /\ pc' = [pc EXCEPT ![c] = "tail"]
                    /\ kin' = [kin EXCEPT ![c] = @ \cup {"follower"}]
       ELSE Ends(c, "up")
    /\ UNCHANGED <<todo, wvars, miss, noise, faults>>

(* Ctrl-C, or the end of the log, ends the follower and then the shell.    *)
Detach(c) ==
    /\ pc[c] = "tail" /\ Alive(c)
    /\ pc' = [pc EXCEPT ![c] = "up"]
    /\ kin' = [kin EXCEPT ![c] = {}]
    /\ UNCHANGED <<todo, wvars, miss, noise, faults>>

(***************************************************************************)
(* The world: kills, the engine and its containers.                        *)
(***************************************************************************)
(* What the shell has begun on the worker by an ssh it waits for itself:   *)
(* docker, or a marker that SnapshotSync clears or writes.                 *)
Remote == {"rm worker", "run worker"}
Marking == {"clear", "stamp"}
Begun(c) == (InFlight(c) \cap Remote) \cup ({pc[c]} \cap Marking)

(* docker and rsync inherited descriptor 9 and run on with it.  A launch's *)
(* ssh has closed it; the ssh that stop_containers put in the background   *)
(* may have a subshell that waits for it and holds the lock.               *)
Kill(c) ==
    /\ Alive(c) /\ faults < MaxFaults
    /\ faults' = faults + 1
    /\ \E acts \in SUBSET Begun(c) :
         /\ pc[c] = "launch" => InFlight(c) \cap Remote \subseteq acts
         /\ LeftBehind(c, acts)
         /\ kin' = [kin EXCEPT ![c] = @ \ (acts \cup {"shell"})]
    /\ pc' = [pc EXCEPT ![c] = "killed"]
    /\ todo' = [todo EXCEPT ![c] = {}]
    /\ Forgets(c) /\ noise' = [side \in Sides |-> 0]
    /\ UNCHANGED <<struck, pair>>

(* docker logs -f ends with the container it follows.                      *)
FollowerEnds(c) ==
    /\ kin[c] = {"follower"} /\ ~Running("head")
    /\ kin' = [kin EXCEPT ![c] = {}]
    /\ UNCHANGED <<pc, todo, wvars, miss, noise, faults>>

(* The two ranks of one launch find each other and the API answers.        *)
EngineUp ==
    /\ Running("head") /\ Running("worker") /\ pair["head"].by = pair["worker"].by
    /\ ~Serving
    /\ pair' = [pair EXCEPT !["head"].serving = TRUE]
    /\ UNCHANGED <<pc, todo, kin, late, struck, miss, noise, faults>>

Exit(side) ==
    /\ Running(side) /\ faults < MaxFaults
    /\ faults' = faults + 1
    /\ pair' = [pair EXCEPT ![side].running = FALSE]
    /\ UNCHANGED <<pc, todo, kin, late, struck, miss, noise>>

Shell(c) ==
    \/ Lock(c) \/ Refuse(c) \/ Preflight(c) \/ Launched(c) \/ Stopped(c)
    \/ Check(c) \/ GivesUp(c) \/ Canary(c) \/ OnReady(c)
    \/ \E a \in Launching : Issue(c, a)

InFlightEnds(c) == FollowerEnds(c) \/ \E a \in Launching : Returns(c, a) \/ Fails(c, a)

LauncherNext ==
    \/ \E c \in Commands : \/ Shell(c) \/ InFlightEnds(c)
                           \/ TimesOut(c) \/ Detach(c) \/ Kill(c)
    \/ \E l \in late : l[3] \in Remote /\ Strays(l[1], l[2], l[3])
    \/ EngineUp \/ \E side \in Sides : Exit(side)

(***************************************************************************)
(* Properties.                                                             *)
(***************************************************************************)

(* While a command waits for the pair it started, the head's container is  *)
(* its own, and so is the worker's unless a command to the worker that was *)
(* left behind by its ssh changed it since: whoever has the lock, and what *)
(* a killed one left running under the lock, does neither.                 *)
PairIsMine ==
    \A c \in Commands, side \in Sides : pc[c] \in {"wait", "warm"} =>
        \/ pair[side] # None /\ pair[side].by = c
        \/ side = "worker" /\ "container" \in struck

(* Misses of a running container of its own, never three in a row, never   *)
(* make a command condemn it.                                              *)
NoFalseAlarm ==
    \A c \in Commands, side \in Sides :
        pc[c] = "failed" /\ miss[c][side] = Strikes =>
            ~(Running(side) /\ pair[side].by = c)

(* A command that is over holds the lock no longer than it takes a docker  *)
(* or rsync command of its to end: never for as long as the engine     *)
(* runs, through a process that follows its log.                           *)
LockLetGo ==
    \A c \in Commands : pc[c] \in Over => kin[c] \subseteq Launching \cup {"rsync"}

(* A rank that is gone ends the wait by the probes alone, without the      *)
(* timeout, unless a run that was left behind puts another in its place.   *)
DeadRankNoticed ==
    \A c \in Commands :
        (pc[c] = "wait" /\ \E side \in Sides : ~Running(side))
            ~> (pc[c] # "wait" \/ \A side \in Sides : Running(side))

(* What the lock, the probes and the closed descriptors of start.sh give a *)
(* command that waits for its pair, and the one that comes after it.       *)
WaitProtected == PairIsMine /\ NoFalseAlarm /\ LockLetGo
=============================================================================
