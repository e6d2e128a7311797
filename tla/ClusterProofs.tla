---------------------------- MODULE ClusterProofs ----------------------------
(* What brings the weights and the containers up, taken together: the       *)
(* commands on the head follow the promise of their lock, step by step, and *)
(* neither they nor the build of the pair nor the load of a rank loses what *)
(* was proved of each alone.                                                *)
EXTENDS MCCluster, FiniteSetTheorems, TLAPS

-----------------------------------------------------------------------------
(* The commands on the head: what the lifecycle lock gives a command, and   *)
(* what the check of the weights gives its launch, for any number of        *)
(* commands, revisions and faults.  The lock is kept by processes, not by   *)
(* commands, so neither can be proved without saying which processes a      *)
(* command at a step can have.                                              *)

Steps ==
  {"new", "preflight", "inventory", "marker", "clear", "rsync", "verify", "stamp",
   "resolve", "launch", "wait", "failed", "warm", "condemned", "stop", "restart", "tail"}
    \cup Over

Processes == Launching \cup {"shell", "rsync", "follower"}

LauncherTypeOK ==
  /\ pc \in [Commands -> Steps]
  /\ todo \in [Commands -> SUBSET Launching]
  /\ kin \in [Commands -> SUBSET Processes]
  /\ pair \in [Sides -> Containers \cup {None}]
  /\ miss \in [Commands -> [Sides -> 0..Strikes]]
  /\ noise \in [Sides -> 0..(Strikes - 1)]

(* What was left behind: by whom, at which step, and what.                  *)
LateTypeOK == late \subseteq Commands \X Steps \X (Remote \cup Marking)

(* A command does not survive a run of its that it left behind.             *)
LateRuns == \A l \in late : l[3] = "run worker" => pc[l[1]] \in {"died", "killed"}

SyncTypeOK ==
  /\ pinned \in Revisions \cup {None}
  /\ main \in Revisions
  /\ have \in [Revisions -> {None, Partial, Complete}]
  /\ copy \subseteq Revisions
  /\ marker \in Revisions \cup {None}
  /\ rev \in [Commands -> Revisions \cup {None}]
  /\ use \in [Commands -> Revisions \cup {None}]

(* One command at a time has processes, a command that is not over and has  *)
(* begun has its shell, and what else it may have depends on its step: a    *)
(* docker command of a launch or a removal, or rsync, holds the lock after  *)
(* its step only when the shell was killed.                                 *)
Exclusive == \A c, d \in Commands : kin[c] # {} /\ kin[d] # {} => c = d

Docking == {"launch", "stop", "restart", "condemned"}

StepKin ==
  \A c \in Commands :
    /\ Alive(c) <=> pc[c] \notin Over \cup {"new"}
    /\ pc[c] = "new" => kin[c] = {}
    /\ todo[c] # {} => pc[c] \in Docking
    /\ InFlight(c) # {} => pc[c] \in Docking \cup {"killed"}
    /\ "rsync" \in kin[c] => pc[c] \in {"rsync", "killed"}
    /\ "follower" \in kin[c] => Tail /\ pc[c] \in {"tail", "killed"}

(* A launch issues its commands in order and one after the other: what is   *)
(* behind one that was issued has returned.                                 *)
LaunchOrder ==
  \A c \in Commands : pc[c] = "launch" =>
    \A a \in Launching \ todo[c] : Before(a) \cap (todo[c] \cup kin[c]) = {}

Run(side) == IF side = "head" THEN "run head" ELSE "run worker"

(* A container the launch has run is its own from then on, but for what a   *)
(* command left behind does to the worker's.                                *)
Fouled(side) == side = "worker" /\ "container" \in struck

LaunchedMine ==
  \A c \in Commands : pc[c] \in {"launch", "wait", "warm"} =>
    \A side \in Sides : Run(side) \notin todo[c] \cup kin[c] =>
      (pair[side] # None /\ pair[side].by = c) \/ Fouled(side)

(* Misses of a running container of c's own are counted by the noise of its *)
(* probes.                                                                  *)
Mine(c, side) == Running(side) /\ pair[side].by = c

MissesAreNoise ==
  \A c \in Commands, side \in Sides :
    /\ pc[c] = "wait" => miss[c][side] < Strikes
    /\ pc[c] = "wait" /\ Mine(c, side) => miss[c][side] <= noise[side]

LaunchInv == /\ LauncherTypeOK /\ Exclusive /\ StepKin /\ LaunchOrder /\ LaunchedMine
             /\ MissesAreNoise /\ NoFalseAlarm

(* A command has chosen what it syncs from its inventory on, and from the   *)
(* probe on the worker has it whole; a preset has chosen for it.            *)
Synced == {"stamp", "resolve", "launch", "wait", "warm"}
Syncing == {"marker", "clear", "rsync", "verify"} \cup Synced

CopyInv ==
  \A c \in Commands :
    /\ pc[c] \in Synced => rev[c] \in copy
    /\ pinned # None /\ pc[c] \in Syncing => rev[c] = pinned
    /\ pinned # None /\ pc[c] \in {"launch", "wait", "warm"} => use[c] = pinned

IInv == LaunchInv /\ LateTypeOK /\ LateRuns /\ SyncTypeOK /\ CopyInv /\ MarkerVouches

USE DEF wvars

-----------------------------------------------------------------------------
(* Steps of one command                                                     *)

(* A command with nothing left to issue and no docker command running may   *)
(* move to any step that asks nothing of the containers, with the processes *)
(* that belong to that step.                                                *)
LEMMA MovesInv ==
  ASSUME LaunchInv, NEW c \in Commands, Alive(c), todo[c] = {}, InFlight(c) = {},
         NEW moved \in Steps \ {"new", "launch", "wait", "failed", "warm"},
         NEW K \in SUBSET {"shell", "rsync", "follower"},
         "shell" \in K <=> moved \notin Over,
         "rsync" \in K => moved = "rsync",
         "follower" \in K => Tail /\ moved = "tail",
         pc' = [pc EXCEPT ![c] = moved], kin' = [kin EXCEPT ![c] = K],
         miss' \in [Commands -> [Sides -> 0..Strikes]],
         \A d \in Commands \ {c} : miss'[d] = miss[d],
         UNCHANGED <<todo, pair, noise>>,
         \A side \in Sides : Fouled(side)' <=> Fouled(side)
  PROVE  LaunchInv'
<1> USE DEF LaunchInv, Alive, InFlight
<1>0. \A d \in Commands \ {c} : pc'[d] = pc[d] /\ kin'[d] = kin[d]
  BY DEF LauncherTypeOK
<1>00. pc'[c] = moved /\ kin'[c] = K
  BY DEF LauncherTypeOK
<1>1. LauncherTypeOK'
  BY DEF LauncherTypeOK, Processes
<1>2. Exclusive'
  BY <1>0 DEF LauncherTypeOK, Exclusive
<1>3. StepKin'
  BY <1>0, <1>00 DEF LauncherTypeOK, StepKin, Over, Docking, Launching
<1>4. LaunchOrder'
  BY <1>0, <1>00 DEF LaunchOrder
<1>5. LaunchedMine'
  BY <1>0, <1>00 DEF LaunchedMine, Fouled
<1>6. MissesAreNoise' /\ NoFalseAlarm'
  BY <1>0, <1>00 DEF MissesAreNoise, NoFalseAlarm, Running, Mine
<1> QED BY <1>1, <1>2, <1>3, <1>4, <1>5, <1>6

LEMMA BeforeType == \A a \in Launching : Before(a) \subseteq Launching \ {a}
BY DEF Launching, Before

(* Who has processes has them alone; who is at work has its shell.          *)
LEMMA OthersIdle ==
  ASSUME LaunchInv, NEW c \in Commands, kin[c] # {}, NEW d \in Commands \ {c}
  PROVE  kin[d] = {} /\ ~Alive(d) /\ pc[d] \in Over \cup {"new"}
BY DEF LaunchInv, Exclusive, StepKin, Alive

(* A change of the containers concerns the command that is at work, if any. *)
LEMMA MineKept ==
  ASSUME LaunchInv, NEW c \in Commands, kin[c] # {},
         \A d \in Commands \ {c} : pc'[d] = pc[d] /\ miss'[d] = miss[d]
  PROVE  \A d \in Commands \ {c} :
           pc'[d] \notin {"launch", "wait", "warm", "failed"}
BY OthersIdle DEF Over

LEMMA LockInv ==
  ASSUME LaunchInv, NEW c \in Commands, Lock(c)
  PROVE  LaunchInv'
<1> USE DEF LaunchInv
<1>a. PICK first \in {"preflight", "stop", "restart"} :
         /\ Granted(first) /\ pc' = [pc EXCEPT ![c] = first]
         /\ todo' = [todo EXCEPT ![c] = IF first = "preflight" THEN {} ELSE Remove]
  BY DEF Lock
<1> DEFINE S == IF first = "preflight" THEN {} ELSE Remove
<1>0. /\ Free /\ kin' = [kin EXCEPT ![c] = {"shell"}]
      /\ UNCHANGED <<struck, pair, miss, noise>>
      /\ pc' = [pc EXCEPT ![c] = first] /\ todo' = [todo EXCEPT ![c] = S]
      /\ S # {} => first # "preflight"
      /\ S \subseteq Launching
  BY <1>a DEF Lock, Granted, Remove, Launching
<1> HIDE DEF S
<1>1. LauncherTypeOK'
  BY <1>0 DEF LauncherTypeOK, Steps, Over, Processes
<1>2. Exclusive'
  BY <1>0 DEF LauncherTypeOK, Exclusive, Free
<1>00. /\ \A d \in Commands \ {c} : pc'[d] = pc[d] /\ kin'[d] = kin[d] /\ todo'[d] = todo[d]
       /\ kin'[c] = {"shell"} /\ pc'[c] \in {"preflight", "stop", "restart"}
       /\ todo'[c] # {} => pc'[c] \in {"stop", "restart"}
  BY <1>0 DEF LauncherTypeOK
<1>3. StepKin'
  <2>1. /\ Alive(c)' /\ InFlight(c)' = {} /\ "rsync" \notin kin'[c] /\ "follower" \notin kin'[c]
        /\ pc'[c] \notin Over \cup {"new"} /\ (todo'[c] # {} => pc'[c] \in Docking)
    BY <1>00 DEF Alive, InFlight, Launching, Over, Docking
  <2> QED BY <1>00, <2>1 DEF StepKin, Alive, InFlight
<1>4. LaunchOrder' /\ LaunchedMine'
  BY <1>0, <1>00 DEF LaunchOrder, LaunchedMine, Fouled
<1>5. MissesAreNoise' /\ NoFalseAlarm'
  BY <1>0, <1>00 DEF MissesAreNoise, NoFalseAlarm, Mine, Running
<1> QED BY <1>1, <1>2, <1>3, <1>4, <1>5

LEMMA RefuseInv ==
  ASSUME LaunchInv, NEW c \in Commands, Refuse(c)
  PROVE  LaunchInv'
<1> USE DEF LaunchInv, Refuse
<1>1. LauncherTypeOK' /\ Exclusive' /\ StepKin'
  BY DEF LauncherTypeOK, Steps, Over, Exclusive, StepKin, Alive, InFlight, Docking
<1>2. LaunchOrder' /\ LaunchedMine' /\ MissesAreNoise' /\ NoFalseAlarm'
  BY DEF LauncherTypeOK, LaunchOrder, LaunchedMine, MissesAreNoise, NoFalseAlarm, Running, Fouled, Mine
<1> QED BY <1>1, <1>2

LEMMA PreflightInv ==
  ASSUME LaunchInv, NEW c \in Commands, Preflight(c)
  PROVE  LaunchInv'
<1>1. todo[c] = {} /\ InFlight(c) = {} /\ kin[c] \subseteq {"shell"}
  BY DEF LaunchInv, LauncherTypeOK, StepKin, Preflight, InFlight, Docking, Processes
<1>2. miss' \in [Commands -> [Sides -> 0..Strikes]]
  BY DEF LaunchInv, LauncherTypeOK, Preflight
<1>3. CASE pc' = [pc EXCEPT ![c] = "inventory"] /\ UNCHANGED kin
  <2>1. kin' = [kin EXCEPT ![c] = {"shell"}]
    BY <1>1, <1>3 DEF LaunchInv, LauncherTypeOK, Preflight, Alive
  <2> QED BY <1>1, <1>2, <1>3, <2>1, MovesInv DEF Preflight, Steps, Over, Fouled
<1>4. CASE Ends(c, "died")
  <2>1. kin' = [kin EXCEPT ![c] = {}]
    BY <1>1, <1>4 DEF Ends
  <2> QED BY <1>1, <1>2, <1>4, <2>1, MovesInv DEF Preflight, Ends, Steps, Over, Fouled
<1> QED BY <1>3, <1>4 DEF Preflight

LEMMA IssueInv ==
  ASSUME LaunchInv, NEW c \in Commands, NEW a \in Launching, Issue(c, a)
  PROVE  LaunchInv'
<1> USE DEF LaunchInv, Issue
<1>0. /\ \A d \in Commands \ {c} : todo'[d] = todo[d] /\ kin'[d] = kin[d]
      /\ todo'[c] = todo[c] \ {a} /\ kin'[c] = kin[c] \cup {a}
      /\ pc[c] \in Docking /\ a \in todo[c] /\ pc' = pc
  BY DEF LauncherTypeOK, StepKin
<1>1. LauncherTypeOK'
  BY DEF LauncherTypeOK, Processes
<1>2. Exclusive'
  BY <1>0 DEF Exclusive, Alive
<1>3. StepKin'
  <2>1. a \notin {"shell", "rsync", "follower"}
    BY DEF Launching
  <2>2. pc[c] \notin Over \cup {"new", "rsync", "tail"}
    BY <1>0 DEF Docking, Over
  <2> QED BY <1>0, <2>1, <2>2 DEF StepKin, Alive, InFlight
<1>4. LaunchOrder'
  <2> SUFFICES ASSUME NEW d \in Commands, pc[d] = "launch",
                      NEW b \in Launching \ todo'[d]
               PROVE  Before(b) \cap (todo'[d] \cup kin'[d]) = {}
    BY <1>0 DEF LaunchOrder
  <2>1. CASE d # c
    BY <1>0, <2>1 DEF LaunchOrder
  <2>2. CASE d = c
    <3>1. InFlight(c) = {} /\ Before(a) \cap todo[c] = {}
      BY <2>2
    <3>2. CASE b = a
      BY <1>0, <2>2, <3>1, <3>2, BeforeType DEF InFlight
    <3>3. CASE b # a
      <4>1. Before(b) \cap (todo[c] \cup kin[c]) = {}
        BY <1>0, <2>2, <3>3 DEF LaunchOrder
      <4> QED BY <1>0, <2>2, <4>1
    <3> QED BY <3>2, <3>3
  <2> QED BY <2>1, <2>2
<1>5. LaunchedMine'
  BY <1>0 DEF LaunchedMine, Fouled
<1>6. MissesAreNoise' /\ NoFalseAlarm'
  BY DEF MissesAreNoise, NoFalseAlarm, Running, Mine
<1> QED BY <1>1, <1>2, <1>3, <1>4, <1>5, <1>6

LEMMA DonePair ==
  ASSUME LaunchInv, NEW c \in Commands, NEW a \in Launching, Done(c, a)
  PROVE  /\ pair' \in [Sides -> Containers \cup {None}]
         /\ \A side \in Sides \ {Side(a)} : pair'[side] = pair[side]
         /\ a \notin Remove => pair'[Side(a)] # None /\ pair'[Side(a)].by = c
<1>1. Side(a) \in Sides
  BY DEF Side, Sides
<1> DEFINE fresh == [by |-> c, running |-> TRUE, serving |-> FALSE]
<1>2. fresh \in Containers /\ fresh # None /\ fresh.by = c
  <2>1. fresh \in Containers
    BY DEF Containers
  <2>2. fresh # None
    BY <2>1, NoneAssumption
  <2> QED BY <2>1, <2>2
<1>3. pair \in [Sides -> Containers \cup {None}]
  BY DEF LaunchInv, LauncherTypeOK
<1> HIDE DEF fresh
<1>4. CASE a \in Remove
  BY <1>1, <1>3, <1>4 DEF Done
<1>5. CASE a \notin Remove
  <2>1. pair' = [pair EXCEPT ![Side(a)] = fresh]
    BY <1>5 DEF Done, fresh
  <2> QED BY <1>1, <1>2, <1>3, <1>5, <2>1
<1> QED BY <1>4, <1>5

(* A docker command of c ends: it did what it does, or nothing that its     *)
(* launch relies on.                                                        *)
LEMMA EndsInFlight ==
  ASSUME LaunchInv, NEW c \in Commands, NEW a \in Launching, a \in InFlight(c),
         kin' = [kin EXCEPT ![c] = @ \ {a}],
         (Done(c, a) /\ Own(a)) \/ (UNCHANGED <<pair, struck>> /\ (a \in Remove \/ ~Alive(c))),
         UNCHANGED <<pc, todo, miss, noise>>
  PROVE  LaunchInv'
<1> USE DEF LaunchInv
<1>0. /\ \A d \in Commands \ {c} : kin'[d] = kin[d]
      /\ kin'[c] = kin[c] \ {a}
      /\ kin[c] # {} /\ pc[c] \in Docking \cup {"killed"}
      /\ a \notin {"shell", "rsync", "follower"}
  BY DEF LauncherTypeOK, StepKin, InFlight, Launching
<1>1. LauncherTypeOK'
  BY DonePair DEF LauncherTypeOK
<1>2. Exclusive'
  BY <1>0 DEF Exclusive
<1>3. StepKin'
  BY <1>0 DEF StepKin, Alive, InFlight
<1>4. LaunchOrder'
  BY <1>0 DEF LaunchOrder
<1>5. \A d \in Commands : pc[d] \in {"launch", "wait", "warm", "failed"} => d = c /\ pc[c] = "launch"
  BY <1>0, OthersIdle DEF Docking, Over
<1>6. LaunchedMine'
  <2> SUFFICES ASSUME pc[c] = "launch", NEW side \in Sides,
                      Run(side) \notin todo[c] \cup kin'[c]
               PROVE  (pair'[side] # None /\ pair'[side].by = c) \/ Fouled(side)'
    BY <1>0, <1>5 DEF LaunchedMine, Fouled
  <2>1. Alive(c)
    BY DEF StepKin, Over
  <2>2. CASE a = Run(side)
    <3>1. a \notin Remove /\ Side(a) = side
      BY <2>2 DEF Remove, Run, Side, Sides
    <3> QED BY <2>1, <3>1, DonePair
  <2>3. CASE a # Run(side)
    <3>1. Run(side) \notin todo[c] \cup kin[c] /\ Run(side) \in Launching
      BY <1>0, <2>3 DEF Run, Launching
    <3>2. a \notin Before(Run(side))
      BY <3>1 DEF LaunchOrder, InFlight
    <3>3. Side(a) # side
      BY <2>3, <3>2 DEF Before, Run, Side, Launching, Sides
    <3>4. pair'[side] = pair[side]
      BY <3>3, DonePair
    <3>5. Fouled(side) => Fouled(side)'
      BY <3>3 DEF Own, Fouled
    <3>6. (pair[side] # None /\ pair[side].by = c) \/ Fouled(side)
      BY <3>1 DEF LaunchedMine
    <3> QED BY <3>4, <3>5, <3>6
  <2> QED BY <2>2, <2>3
<1>7. MissesAreNoise' /\ NoFalseAlarm'
  BY <1>5 DEF MissesAreNoise, NoFalseAlarm, Mine, Running
<1> QED BY <1>1, <1>2, <1>3, <1>4, <1>6, <1>7

LEMMA ReturnsInv ==
  ASSUME LaunchInv, NEW c \in Commands, NEW a \in Launching, Returns(c, a)
  PROVE  LaunchInv'
BY EndsInFlight DEF Returns

LEMMA FailsInv ==
  ASSUME LaunchInv, NEW c \in Commands, NEW a \in Launching, Fails(c, a)
  PROVE  LaunchInv'
<1>1. UNCHANGED <<pair, struck>>
  BY DEF Fails
<1>2. CASE a \in Remove \/ ~Alive(c)
  BY <1>1, <1>2, EndsInFlight DEF Fails
<1>3. CASE ~(a \in Remove \/ ~Alive(c))
  <2> USE DEF LaunchInv
  <2>0. /\ \A d \in Commands \ {c} : pc'[d] = pc[d] /\ kin'[d] = kin[d] /\ todo'[d] = todo[d]
        /\ pc'[c] = "died" /\ kin'[c] = {} /\ todo'[c] = {} /\ kin[c] # {}
    BY <1>3 DEF LauncherTypeOK, Fails, InFlight
  <2>1. LauncherTypeOK'
    BY <1>1, <1>3 DEF LauncherTypeOK, Fails, Steps, Over
  <2>2. Exclusive' /\ StepKin'
    BY <2>0 DEF Exclusive, StepKin, Alive, InFlight, Over
  <2>3. \A d \in Commands : pc'[d] \notin {"launch", "wait", "warm", "failed"}
    BY <2>0, OthersIdle DEF Over
  <2>4. LaunchOrder' /\ LaunchedMine' /\ MissesAreNoise' /\ NoFalseAlarm'
    BY <2>3 DEF LaunchOrder, LaunchedMine, MissesAreNoise, NoFalseAlarm, Fouled, Mine, Running
  <2> QED BY <2>1, <2>2, <2>4
<1> QED BY <1>2, <1>3

LEMMA LaunchedInv ==
  ASSUME LaunchInv, NEW c \in Commands, Launched(c)
  PROVE  LaunchInv'
<1> USE DEF LaunchInv, Launched, Forgets
<1>0. /\ \A d \in Commands \ {c} : pc'[d] = pc[d] /\ miss'[d] = miss[d]
      /\ pc'[c] = "wait" /\ kin' = kin /\ todo' = todo
      /\ \A side \in Sides : miss'[c][side] = 0
      /\ kin[c] # {} /\ todo[c] = {} /\ InFlight(c) = {} /\ Alive(c)
  BY DEF LauncherTypeOK, Followed, Returned, Alive
<1>1. LauncherTypeOK'
  BY <1>0 DEF LauncherTypeOK, Steps, Strikes
<1>2. Exclusive' /\ StepKin'
  BY <1>0 DEF Exclusive, StepKin, Alive, InFlight, Over, Docking
<1>3. LaunchOrder' /\ LaunchedMine'
  BY <1>0 DEF LaunchOrder, LaunchedMine, Fouled
<1>4. \A side \in Sides : noise'[side] = noise[side] /\ noise[side] \in Nat
  BY DEF LauncherTypeOK, Strikes
<1>5. MissesAreNoise'
  BY <1>0, <1>4 DEF MissesAreNoise, Running, Strikes, Mine
<1>6. NoFalseAlarm'
  BY <1>0 DEF NoFalseAlarm, Running
<1> QED BY <1>1, <1>2, <1>3, <1>5, <1>6

LEMMA StoppedInv ==
  ASSUME LaunchInv, NEW c \in Commands, Stopped(c)
  PROVE  LaunchInv'
<1>1. todo[c] = {} /\ InFlight(c) = {} /\ kin[c] = {"shell"}
  BY DEF LaunchInv, LauncherTypeOK, StepKin, Stopped, Returned, Alive, InFlight, Processes
<1>2. miss' \in [Commands -> [Sides -> 0..Strikes]]
  BY DEF LaunchInv, LauncherTypeOK, Stopped
<1>3. CASE pc' = [pc EXCEPT ![c] = "preflight"] /\ UNCHANGED kin
  <2>1. kin' = [kin EXCEPT ![c] = {"shell"}]
    BY <1>1, <1>3 DEF LaunchInv, LauncherTypeOK
  <2> QED BY <1>1, <1>2, <1>3, <2>1, MovesInv DEF Stopped, Returned, Steps, Over, Fouled
<1>4. ASSUME NEW how \in {"stopped", "died"}, Ends(c, how) PROVE LaunchInv'
  <2>1. kin' = [kin EXCEPT ![c] = {}]
    BY <1>1, <1>4 DEF Ends
  <2> QED BY <1>1, <1>2, <1>4, <2>1, MovesInv DEF Stopped, Returned, Ends, Steps, Over, Fouled
<1> QED BY <1>3, <1>4 DEF Stopped

LEMMA CheckInv ==
  ASSUME LaunchInv, NEW c \in Commands, Check(c)
  PROVE  LaunchInv'
<1> USE DEF LaunchInv
<1>0. /\ kin[c] # {} /\ pc[c] = "wait" /\ todo[c] = {} /\ InFlight(c) = {}
      /\ "shell" \in kin[c] /\ kin[c] \ {"follower"} = kin[c]
  BY DEF LauncherTypeOK, Check, StepKin, Alive, Docking
<1>1. CASE Serving
  <2>1. /\ pc' = [pc EXCEPT ![c] = "warm"] /\ kin' = kin
        /\ noise' = [side \in Sides |-> 0]
        /\ miss' = [miss EXCEPT ![c] = [side \in Sides |-> 0]]
        /\ UNCHANGED <<todo, pair, struck>>
    <3>1. kin' = [kin EXCEPT ![c] = @ \ {"follower"}]
      BY <1>1 DEF Check, Leaves
    <3>2. kin' = kin
      BY <1>0, <3>1 DEF LauncherTypeOK
    <3> QED BY <1>1, <3>2 DEF Check, Leaves, Forgets
  <2>2. LauncherTypeOK'
    BY <2>1 DEF LauncherTypeOK, Steps, Strikes
  <2>3. Exclusive' /\ StepKin'
    BY <1>0, <2>1 DEF LauncherTypeOK, Exclusive, StepKin, Alive, InFlight, Over, Docking
  <2>4. LaunchOrder' /\ LaunchedMine'
    BY <1>0, <2>1 DEF LauncherTypeOK, LaunchOrder, LaunchedMine, Fouled
  <2>5. \A d \in Commands : pc'[d] \notin {"wait", "failed"}
    BY <1>0, <2>1, OthersIdle DEF LauncherTypeOK, Over
  <2>6. MissesAreNoise' /\ NoFalseAlarm'
    BY <2>5 DEF MissesAreNoise, NoFalseAlarm, Mine, Running
  <2> QED BY <2>2, <2>3, <2>4, <2>6
<1>2. CASE ~Serving
  <2>1. PICK heard \in SUBSET Sides :
          /\ Probe(c, heard)
          /\ IF \E side \in Sides : miss'[c][side] = Strikes
             THEN Leaves(c, "failed") ELSE Heard(heard) /\ UNCHANGED <<pc, kin>>
    BY <1>2 DEF Check
  <2>2. UNCHANGED <<todo, pair, struck>>
    BY DEF Check
  <2> DEFINE M(side) == Missed(miss[c][side], side \in heard)
             asked == Asked(M("head"))
  <2>3. \A side \in Sides : /\ miss[c][side] \in 0..2 /\ noise[side] \in 0..2
                            /\ Mine(c, side) => miss[c][side] <= noise[side]
    BY <1>0 DEF LauncherTypeOK, MissesAreNoise, Strikes, Mine, Running
  <2>4. \A side \in Sides : M(side) \in 0..3
    BY <2>3 DEF Missed
  <2>5. asked \subseteq Sides /\ "head" \in asked /\ (M("head") # 3 => asked = Sides)
    BY DEF Asked, Strikes, Sides
  <2>6. /\ \A side \in Sides :
             miss'[c][side] = IF side \in asked THEN M(side) ELSE miss[c][side]
        /\ miss' \in [Commands -> [Sides -> 0..3]]
        /\ \A d \in Commands \ {c} : miss'[d] = miss[d]
    BY <2>1, <2>3, <2>4 DEF Probe, LauncherTypeOK, Strikes
  (* Its own running side, if asked, answers or is missed by noise.         *)
  <2>7. \A side \in asked :
          /\ Running(side) => side \in heard \/ noise[side] < 2
          /\ Mine(c, side) => \/ side \in heard /\ M(side) = 0
                              \/ side \notin heard /\ noise[side] < 2 /\ M(side) <= noise[side] + 1
    BY <2>1, <2>3, <2>5 DEF Probe, Missed, Strikes, Mine
  <2>8. \A side \in Sides : Mine(c, side) => miss'[c][side] # 3
    BY <2>3, <2>5, <2>6, <2>7
  <2> HIDE DEF M, asked
  <2>9. CASE \E side \in Sides : miss'[c][side] = Strikes
    <3>1. /\ pc' = [pc EXCEPT ![c] = "failed"] /\ noise' = [side \in Sides |-> 0]
          /\ kin' = [kin EXCEPT ![c] = @ \ {"follower"}]
      BY <2>1, <2>9 DEF Leaves
    <3>2. kin' = kin
      BY <1>0, <3>1 DEF LauncherTypeOK
    <3>3. LauncherTypeOK'
      BY <2>2, <2>6, <3>1, <3>2 DEF LauncherTypeOK, Steps, Strikes
    <3>4. Exclusive' /\ StepKin'
      BY <1>0, <2>2, <3>1, <3>2
         DEF LauncherTypeOK, Exclusive, StepKin, Alive, InFlight, Over, Docking
    <3>5. LaunchOrder' /\ LaunchedMine'
      BY <2>2, <3>1, <3>2 DEF LauncherTypeOK, LaunchOrder, LaunchedMine, Fouled
    <3>6. pc'[c] = "failed"
          /\ \A d \in Commands \ {c} : pc'[d] \notin {"wait", "failed"}
      BY <1>0, <3>1, OthersIdle DEF LauncherTypeOK, Over
    <3>7. MissesAreNoise' /\ NoFalseAlarm'
      BY <2>2, <2>8, <3>6 DEF MissesAreNoise, NoFalseAlarm, Running, Strikes, Mine
    <3> QED BY <3>3, <3>4, <3>5, <3>7
  <2>10. CASE ~\E side \in Sides : miss'[c][side] = Strikes
    <3>1. Heard(heard) /\ UNCHANGED <<pc, kin>>
      BY <2>1, <2>10
    <3>2. \A side \in Sides : miss'[c][side] = M(side) /\ side \in asked
      BY <2>5, <2>6, <2>10 DEF Strikes, Sides
    <3>3. \A side \in Sides :
            /\ noise'[side] \in 0..2
            /\ Mine(c, side) => M(side) <= noise'[side] /\ M(side) < 3
      <4> SUFFICES ASSUME NEW side \in Sides
                   PROVE  /\ noise'[side] \in 0..2
                          /\ Mine(c, side) => M(side) <= noise'[side] /\ M(side) < 3
        OBVIOUS
      <4>1. noise'[side] = IF side \in heard \/ ~Running(side) THEN 0 ELSE noise[side] + 1
        BY <3>1 DEF Heard
      <4>2. side \in asked /\ noise[side] \in 0..2 /\ M(side) \in 0..3
        BY <2>3, <2>4, <3>2
      <4>4. Mine(c, side) => Running(side)
        BY DEF Mine
      <4>5. Running(side) => side \in heard \/ noise[side] < 2
        BY <2>7, <4>2
      <4>3. Mine(c, side) => \/ side \in heard /\ M(side) = 0
                             \/ side \notin heard /\ noise[side] < 2 /\ M(side) <= noise[side] + 1
        BY <2>7, <4>2
      <4> QED BY <4>1, <4>2, <4>3, <4>4, <4>5
    <3>4. LauncherTypeOK'
      BY <2>2, <2>6, <3>1, <3>3 DEF LauncherTypeOK, Heard, Strikes
    <3>5. Exclusive' /\ StepKin' /\ LaunchOrder' /\ LaunchedMine'
      BY <2>2, <3>1
         DEF Exclusive, StepKin, Alive, InFlight, LaunchOrder, LaunchedMine, Fouled
    <3>6. pc'[c] = "wait"
          /\ \A d \in Commands \ {c} : pc'[d] \notin {"wait", "failed"}
      BY <1>0, <3>1, OthersIdle DEF Over
    <3>7. \A side \in Sides : miss'[c][side] < 3
      BY <2>6, <2>10 DEF Strikes
    <3>8. MissesAreNoise' /\ NoFalseAlarm'
      BY <2>2, <3>2, <3>3, <3>6, <3>7
         DEF MissesAreNoise, NoFalseAlarm, Running, Strikes, Mine
    <3> QED BY <3>4, <3>5, <3>8
  <2> QED BY <2>9, <2>10
<1> QED BY <1>1, <1>2

(* The wait, or whatever a killed shell was at, ends; its counters with it. *)
LEMMA LeavesInv ==
  ASSUME LaunchInv, NEW c \in Commands, Alive(c),
         NEW moved \in {"failed", "killed"},
         NEW K \in SUBSET kin[c], kin' = [kin EXCEPT ![c] = K],
         moved = "failed" => pc[c] = "wait" /\ K = kin[c] /\ todo' = todo,
         moved = "killed" => "shell" \notin K /\ todo' = [todo EXCEPT ![c] = {}],
         pc' = [pc EXCEPT ![c] = moved],
         miss' = [miss EXCEPT ![c] = [side \in Sides |-> 0]],
         noise' = [side \in Sides |-> 0],
         UNCHANGED pair
  PROVE  LaunchInv'
<1> USE DEF LaunchInv
<1>0. /\ \A d \in Commands \ {c} : /\ pc'[d] = pc[d] /\ kin'[d] = kin[d]
                                   /\ todo'[d] = todo[d] /\ miss'[d] = miss[d]
      /\ pc'[c] = moved /\ kin[c] # {}
      /\ \A side \in Sides : miss'[c][side] = 0
  BY DEF LauncherTypeOK, Alive
<1>1. LauncherTypeOK'
  <2>1. K \subseteq Processes /\ todo' \in [Commands -> SUBSET Launching]
    <3>1. K \subseteq Processes
      BY DEF LauncherTypeOK
    <3>2. CASE moved = "failed"
      BY <3>1, <3>2 DEF LauncherTypeOK
    <3>3. CASE moved = "killed"
      BY <3>1, <3>3 DEF LauncherTypeOK
    <3> QED BY <3>2, <3>3
  <2>2. moved \in Steps
    BY DEF Steps, Over
  <2>3. /\ pc' \in [Commands -> Steps] /\ todo' \in [Commands -> SUBSET Launching]
        /\ kin' \in [Commands -> SUBSET Processes]
    BY <2>1, <2>2 DEF LauncherTypeOK
  <2>4. /\ miss' \in [Commands -> [Sides -> 0..Strikes]]
        /\ noise' \in [Sides -> 0..(Strikes - 1)]
    BY DEF LauncherTypeOK, Strikes
  <2> QED BY <2>3, <2>4 DEF LauncherTypeOK
<1>2. Exclusive'
  BY <1>0 DEF LauncherTypeOK, Exclusive
<1>3. StepKin'
  <2>1. CASE moved = "failed"
    <3>1. kin'[c] = kin[c] /\ todo' = todo
      BY <2>1 DEF LauncherTypeOK
    <3> QED BY <1>0, <2>1, <3>1 DEF StepKin, Alive, InFlight, Over, Docking
  <2>2. CASE moved = "killed"
    <3>1. kin'[c] = K /\ "shell" \notin K /\ todo'[c] = {}
      BY <2>2 DEF LauncherTypeOK
    <3> QED BY <1>0, <2>2, <3>1 DEF StepKin, Alive, InFlight, Over
  <2> QED BY <2>1, <2>2
<1>4. \A d \in Commands : pc'[d] \notin {"launch", "wait", "warm"}
  BY <1>0, OthersIdle DEF Over
<1>5. LaunchOrder' /\ LaunchedMine' /\ MissesAreNoise'
  BY <1>4 DEF LaunchOrder, LaunchedMine, MissesAreNoise, Fouled, Mine, Running
<1>6. NoFalseAlarm'
  BY <1>0 DEF NoFalseAlarm, Running, Strikes
<1> QED BY <1>1, <1>2, <1>3, <1>5, <1>6

LEMMA TimesOutInv ==
  ASSUME LaunchInv, NEW c \in Commands, TimesOut(c)
  PROVE  LaunchInv'
<1>1. kin' = [kin EXCEPT ![c] = kin[c]]
  BY DEF TimesOut, Leaves, LaunchInv, LauncherTypeOK, StepKin
<1> QED BY <1>1, LeavesInv DEF TimesOut, Leaves, Forgets

(* A killed shell keeps no command to the worker that it was waiting for.   *)
LEMMA KillInv ==
  ASSUME LaunchInv, NEW c \in Commands, Kill(c)
  PROVE  LaunchInv'
<1>1. PICK acts \in SUBSET Begun(c) : kin' = [kin EXCEPT ![c] = @ \ (acts \cup {"shell"})]
  BY DEF Kill
<1> DEFINE K == kin[c] \ (acts \cup {"shell"})
<1>2. K \in SUBSET kin[c] /\ "shell" \notin K /\ kin' = [kin EXCEPT ![c] = K]
  BY <1>1
<1> HIDE DEF K
<1> QED BY <1>2, LeavesInv DEF Kill, Forgets

LEMMA GivesUpInv ==
  ASSUME LaunchInv, NEW c \in Commands, GivesUp(c)
  PROVE  LaunchInv'
<1>1. todo[c] = {} /\ InFlight(c) = {} /\ kin[c] = {"shell"}
  BY DEF LaunchInv, LauncherTypeOK, StepKin, GivesUp, Alive, InFlight, Docking, Processes
<1>2. miss' \in [Commands -> [Sides -> 0..Strikes]]
      /\ \A d \in Commands \ {c} : miss'[d] = miss[d]
  BY DEF LaunchInv, LauncherTypeOK, GivesUp, Forgets, Strikes
<1>3. kin' = [kin EXCEPT ![c] = {}]
  BY <1>1 DEF GivesUp, Ends
<1> QED BY <1>1, <1>2, <1>3, MovesInv DEF GivesUp, Ends, Steps, Over, Fouled

LEMMA CanaryInv ==
  ASSUME LaunchInv, NEW c \in Commands, Canary(c)
  PROVE  LaunchInv'
<1> USE DEF LaunchInv, Canary
<1>0. /\ \A d \in Commands \ {c} : pc'[d] = pc[d] /\ todo'[d] = todo[d]
      /\ pc'[c] = "condemned" /\ kin[c] # {}
  BY DEF LauncherTypeOK, Alive
<1>1. LauncherTypeOK' /\ Exclusive'
  BY DEF LauncherTypeOK, Steps, Remove, Launching, Exclusive
<1>2. StepKin'
  BY <1>0 DEF StepKin, Alive, InFlight, Over, Docking
<1>3. LaunchOrder' /\ LaunchedMine' /\ MissesAreNoise' /\ NoFalseAlarm'
  BY <1>0 DEF LaunchOrder, LaunchedMine, MissesAreNoise, NoFalseAlarm, Running, Fouled, Mine
<1> QED BY <1>1, <1>2, <1>3

LEMMA OnReadyInv ==
  ASSUME LaunchInv, NEW c \in Commands, OnReady(c)
  PROVE  LaunchInv'
<1>1. todo[c] = {} /\ InFlight(c) = {} /\ kin[c] = {"shell"}
  BY DEF LaunchInv, LauncherTypeOK, StepKin, OnReady, Alive, InFlight, Docking, Processes
<1>2. miss' \in [Commands -> [Sides -> 0..Strikes]]
  BY DEF LaunchInv, LauncherTypeOK, OnReady
<1>3. CASE Tail
  <2>1. kin' = [kin EXCEPT ![c] = {"shell", "follower"}] /\ pc' = [pc EXCEPT ![c] = "tail"]
    BY <1>1, <1>3 DEF OnReady
  <2> QED BY <1>1, <1>2, <1>3, <2>1, MovesInv DEF OnReady, Steps, Over, Fouled
<1>4. CASE ~Tail
  <2>1. kin' = [kin EXCEPT ![c] = {}] /\ pc' = [pc EXCEPT ![c] = "up"]
    BY <1>1, <1>4 DEF OnReady, Ends
  <2> QED BY <1>1, <1>2, <2>1, MovesInv DEF OnReady, Steps, Over, Fouled
<1> QED BY <1>3, <1>4

LEMMA DetachInv ==
  ASSUME LaunchInv, NEW c \in Commands, Detach(c)
  PROVE  LaunchInv'
<1>1. todo[c] = {} /\ InFlight(c) = {}
  BY DEF LaunchInv, StepKin, Detach, Docking
<1>2. miss' \in [Commands -> [Sides -> 0..Strikes]]
  BY DEF LaunchInv, LauncherTypeOK, Detach
<1> QED BY <1>1, <1>2, MovesInv DEF Detach, Steps, Over, Fouled

(* The process that followed the log of a killed shell is the last it had.  *)
LEMMA FollowerEndsInv ==
  ASSUME LaunchInv, NEW c \in Commands, FollowerEnds(c)
  PROVE  LaunchInv'
<1> USE DEF LaunchInv, FollowerEnds
<1>0. /\ \A d \in Commands \ {c} : kin'[d] = kin[d]
      /\ kin'[c] = {} /\ kin[c] = {"follower"}
  BY DEF LauncherTypeOK
<1>1. LauncherTypeOK' /\ Exclusive'
  BY DEF LauncherTypeOK, Exclusive
<1>2. pc[c] = "killed"
  BY <1>0 DEF StepKin, Alive, Over
<1>3. StepKin'
  BY <1>0, <1>2 DEF StepKin, Alive, InFlight, Over
<1>4. LaunchOrder' /\ LaunchedMine' /\ MissesAreNoise' /\ NoFalseAlarm'
  BY <1>0, <1>2 DEF LaunchOrder, LaunchedMine, MissesAreNoise, NoFalseAlarm, Running, Fouled, Mine
<1> QED BY <1>1, <1>3, <1>4

(* Containers may come to serve or exit; who ran them stays, and none that  *)
(* has exited runs again.                                                   *)
LEMMA ContainersInv ==
  ASSUME LaunchInv, pair' \in [Sides -> Containers \cup {None}],
         \A side \in Sides : /\ pair'[side] = None <=> pair[side] = None
                             /\ pair'[side].by = pair[side].by
                             /\ Running(side)' => Running(side),
         UNCHANGED <<pc, todo, kin, struck, miss, noise>>
  PROVE  LaunchInv'
<1> USE DEF LaunchInv
<1>1. LauncherTypeOK' /\ Exclusive' /\ StepKin' /\ LaunchOrder'
  BY DEF LauncherTypeOK, Exclusive, StepKin, LaunchOrder, Alive, InFlight
<1>2. LaunchedMine'
  BY DEF LaunchedMine, Fouled
<1>3. MissesAreNoise' /\ NoFalseAlarm'
  <2>1. \A d \in Commands, side \in Sides : Mine(d, side)' => Mine(d, side)
    BY DEF Mine
  <2> QED BY <2>1 DEF MissesAreNoise, NoFalseAlarm, Mine
<1> QED BY <1>1, <1>2, <1>3

LEMMA EngineUpInv ==
  ASSUME LaunchInv, EngineUp
  PROVE  LaunchInv'
<1>1. pair["head"] \in Containers /\ "head" \in Sides
  BY DEF EngineUp, Running, LaunchInv, LauncherTypeOK, Sides
<1> DEFINE up == [pair["head"] EXCEPT !.serving = TRUE]
<1>2. up \in Containers /\ up.by = pair["head"].by /\ up.running = pair["head"].running
  BY <1>1 DEF Containers
<1>3. pair' = [pair EXCEPT !["head"] = up]
  BY DEF EngineUp
<1> HIDE DEF up
<1> QED BY <1>1, <1>2, <1>3, NoneAssumption, ContainersInv
        DEF EngineUp, Running, LaunchInv, LauncherTypeOK

LEMMA ExitInv ==
  ASSUME LaunchInv, NEW side \in Sides, Exit(side)
  PROVE  LaunchInv'
<1>1. pair[side] \in Containers
  BY DEF Exit, Running, LaunchInv, LauncherTypeOK
<1> DEFINE down == [pair[side] EXCEPT !.running = FALSE]
<1>2. down \in Containers /\ down.by = pair[side].by /\ ~down.running
  BY <1>1 DEF Containers
<1>3. pair' = [pair EXCEPT ![side] = down]
  BY DEF Exit
<1> HIDE DEF down
<1> QED BY <1>1, <1>2, <1>3, NoneAssumption, ContainersInv
        DEF Exit, Running, LaunchInv, LauncherTypeOK

LEMMA LateIs ==
  ASSUME LateTypeOK, NEW l \in late
  PROVE  /\ l = <<l[1], l[2], l[3]>>
         /\ l[1] \in Commands /\ l[2] \in Steps /\ l[3] \in Remote \cup Marking
BY DEF LateTypeOK

(* A command left behind that takes effect changes no container but the     *)
(* worker's, and gives it to nobody who waits.                              *)
LEMMA StraysInv ==
  ASSUME LaunchInv, LateTypeOK, LateRuns, NEW l \in late, l[3] \in Remote,
         Strays(l[1], l[2], l[3])
  PROVE  LaunchInv'
<1> DEFINE c == l[1]
           a == l[3]
<1>0. /\ c \in Commands /\ a \in Launching /\ Side(a) = "worker"
      /\ UNCHANGED <<pc, todo, kin, miss, noise>>
  BY LateIs DEF Remote, Launching, Side, Strays
<1>1. /\ \/ Done(c, a) /\ "container" \in struck'
         \/ UNCHANGED <<struck, pair>>
      /\ a \notin Remove => a = "run worker" /\ pc[c] \in {"died", "killed"}
  BY <1>0 DEF Strays, LateRuns, Remote, Remove
<1> HIDE DEF c, a
<1>2. /\ pair' \in [Sides -> Containers \cup {None}]
      /\ pair'["head"] = pair["head"]
      /\ \/ pair'["worker"] = pair["worker"] /\ UNCHANGED struck
         \/ "container" \in struck' /\ pair'["worker"] = None
         \/ "container" \in struck' /\ pair'["worker"].by = c /\ pc[c] \in {"died", "killed"}
  <2>1. CASE UNCHANGED <<struck, pair>>
    BY <2>1 DEF LaunchInv, LauncherTypeOK
  <2>2. CASE Done(c, a) /\ "container" \in struck'
    <3>1. /\ pair' \in [Sides -> Containers \cup {None}] /\ pair'["head"] = pair["head"]
          /\ a \notin Remove => pair'["worker"].by = c
      BY <1>0, <2>2, DonePair DEF Sides
    <3>2. a \in Remove => pair'["worker"] = None
      BY <1>0, <2>2 DEF Done, LaunchInv, LauncherTypeOK, Sides
    <3> QED BY <1>1, <2>2, <3>1, <3>2
  <2> QED BY <1>1, <2>1, <2>2
<1>3. LauncherTypeOK' /\ Exclusive' /\ StepKin' /\ LaunchOrder'
  BY <1>0, <1>2 DEF LaunchInv, LauncherTypeOK, Exclusive, StepKin, LaunchOrder, Alive, InFlight
<1>4. LaunchedMine'
  BY <1>0, <1>2 DEF LaunchInv, LaunchedMine, Sides, Fouled
<1>5. \A d \in Commands, side \in Sides :
        pc[d] \in {"wait", "failed"} /\ Mine(d, side)' => Mine(d, side)
  BY <1>2 DEF Mine, Running, Sides
<1>6. MissesAreNoise' /\ NoFalseAlarm'
  <2> HIDE DEF Mine
  <2>1. \A d \in Commands, side \in Sides :
          /\ pc[d] = "wait" => miss[d][side] < Strikes
          /\ pc[d] = "wait" /\ Mine(d, side) => miss[d][side] <= noise[side]
          /\ pc[d] = "failed" /\ miss[d][side] = Strikes => ~Mine(d, side)
    BY DEF LaunchInv, MissesAreNoise, NoFalseAlarm, Mine
  <2>2. MissesAreNoise'
    BY <1>0, <1>5, <2>1 DEF MissesAreNoise, Mine, Running
  <2>3. \A d \in Commands, side \in Sides :
          pc'[d] = "failed" /\ miss'[d][side] = Strikes => ~Mine(d, side)'
    BY <1>0, <1>5, <2>1
  <2> QED BY <2>2, <2>3 DEF NoFalseAlarm, Mine
<1> QED BY <1>3, <1>4, <1>6 DEF LaunchInv

LEMMA LauncherNextInv ==
  ASSUME LaunchInv, LateTypeOK, LateRuns, LauncherNext
  PROVE  LaunchInv'
<1>1. ASSUME NEW c \in Commands, Shell(c) PROVE LaunchInv'
  BY <1>1, LockInv, RefuseInv, PreflightInv, LaunchedInv, StoppedInv, CheckInv,
     GivesUpInv, CanaryInv, OnReadyInv, IssueInv DEF Shell
<1>2. ASSUME NEW c \in Commands, InFlightEnds(c) PROVE LaunchInv'
  BY <1>2, FollowerEndsInv, ReturnsInv, FailsInv DEF InFlightEnds
<1> QED BY <1>1, <1>2, TimesOutInv, DetachInv, KillInv, StraysInv, EngineUpInv, ExitInv
        DEF LauncherNext

(* No step of Launcher alone brings a command among those that have synced  *)
(* their weights, or brings back an rsync.                                  *)
LEMMA LauncherKeepsSync ==
  ASSUME LaunchInv, LauncherNext
  PROVE  \A c \in Commands :
           /\ pc'[c] \in Synced => pc[c] \in Synced
           /\ pc'[c] \in Syncing => pc[c] \in Syncing
           /\ pc'[c] \in {"launch", "wait", "warm"} => pc[c] \in {"launch", "wait", "warm"}
           /\ "rsync" \in kin'[c] => "rsync" \in kin[c]
<1> DEFINE Kept == \A d \in Commands :
                     /\ \/ pc'[d] = pc[d] \/ pc'[d] \notin Syncing
                        \/ {pc[d], pc'[d]} \subseteq {"launch", "wait", "warm"}
                     /\ "rsync" \in kin'[d] => "rsync" \in kin[d]
<1>1. ASSUME NEW c \in Commands,
             \/ Shell(c) \/ InFlightEnds(c) \/ TimesOut(c) \/ Detach(c) \/ Kill(c)
      PROVE  Kept
  <2> USE DEF LaunchInv, LauncherTypeOK, Syncing, Synced
  <2>1. CASE Lock(c) \/ Refuse(c)
    BY <2>1 DEF Lock, Refuse
  <2>2. CASE Preflight(c) \/ GivesUp(c) \/ OnReady(c) \/ Stopped(c)
    BY <2>2 DEF Preflight, GivesUp, OnReady, Stopped, Ends
  <2>3. CASE Launched(c) \/ Canary(c)
    BY <2>3 DEF Launched, Canary, Followed
  <2>4. CASE Check(c) \/ TimesOut(c)
    BY <2>4 DEF Check, TimesOut, Leaves
  <2>5. CASE Detach(c) \/ FollowerEnds(c)
    BY <2>5 DEF Detach, FollowerEnds
  <2>6. CASE Kill(c)
    BY <2>6 DEF Kill
  <2>7. ASSUME NEW a \in Launching, Issue(c, a) \/ Returns(c, a) \/ Fails(c, a) PROVE Kept
    <3>1. a # "rsync"
      BY DEF Launching
    <3>2. pc' = pc \/ pc' = [pc EXCEPT ![c] = "died"]
      BY <2>7 DEF Issue, Returns, Fails
    <3>3. \/ kin' = [kin EXCEPT ![c] = @ \cup {a}]
          \/ kin' = [kin EXCEPT ![c] = @ \ {a}]
          \/ kin' = [kin EXCEPT ![c] = {}]
      BY <2>7 DEF Issue, Returns, Fails
    <3> QED BY <3>1, <3>2, <3>3
  <2> HIDE DEF Kept
  <2> QED BY <1>1, <2>1, <2>2, <2>3, <2>4, <2>5, <2>6, <2>7 DEF Shell, InFlightEnds
<1>2. \/ EngineUp \/ \E side \in Sides : Exit(side)
      \/ \E l \in late : Strays(l[1], l[2], l[3])
      => Kept
  BY DEF EngineUp, Exit, Strays
<1>3. Kept
  <2> HIDE DEF Kept
  <2> QED BY <1>1, <1>2 DEF LauncherNext
<1> QED BY <1>3 DEF Synced, Syncing

-----------------------------------------------------------------------------
(* What is left behind                                                      *)

(* A command that died or was killed stays so, and who leaves a run behind  *)
(* is one of these by then.                                                 *)
Gone(c) == pc[c] \in {"died", "killed"}

GoneStays == \A c \in Commands : Gone(c) => Gone(c)'

LEMMA LateKept ==
  ASSUME LateTypeOK, LateRuns, late' \subseteq late, GoneStays
  PROVE  LateTypeOK' /\ LateRuns'
BY DEF LateTypeOK, LateRuns, GoneStays, Gone

LEMMA LateGrows ==
  ASSUME LauncherTypeOK, LateTypeOK, LateRuns, GoneStays, NEW c \in Commands,
         NEW acts \in SUBSET (Remote \cup Marking), LeftBehind(c, acts),
         "run worker" \in acts => Gone(c)'
  PROVE  LateTypeOK' /\ LateRuns'
<1>1. \A l \in late' : l \in late \/ \E a \in acts : l = <<c, pc[c], a>>
  BY DEF LeftBehind
<1>2. LateTypeOK'
  <2> SUFFICES ASSUME NEW l \in late'
               PROVE  l \in Commands \X Steps \X (Remote \cup Marking)
    BY DEF LateTypeOK
  <2>1. CASE l \in late
    BY <2>1 DEF LateTypeOK
  <2>2. ASSUME NEW a \in acts, l = <<c, pc[c], a>>
        PROVE  l \in Commands \X Steps \X (Remote \cup Marking)
    <3>1. pc[c] \in Steps /\ a \in Remote \cup Marking
      BY DEF LauncherTypeOK
    <3> QED BY <2>2, <3>1
  <2> QED BY <1>1, <2>1, <2>2
<1>3. \A l \in late : l[3] = "run worker" => l[1] \in Commands /\ Gone(l[1])
  BY DEF LateTypeOK, LateRuns, Gone
<1>4. LateRuns'
  <2> SUFFICES ASSUME NEW l \in late', l[3] = "run worker"
               PROVE  Gone(l[1])'
    BY DEF LateRuns, Gone
  <2>1. CASE l \in late
    BY <1>3, <2>1 DEF GoneStays
  <2>2. ASSUME NEW a \in acts, l = <<c, pc[c], a>>
        PROVE  Gone(l[1])'
    <3>1. l[1] = c /\ l[3] = a
      BY <2>2
    <3> QED BY <3>1
  <2> QED BY <1>1, <2>1, <2>2
<1> QED BY <1>2, <1>4

(* Only a command that is alive, or has not begun, moves.                   *)
LEMMA OnlyLivingMove ==
  ASSUME LaunchInv, NEW c \in Commands, Alive(c) \/ pc[c] = "new",
         \A d \in Commands \ {c} : pc'[d] = pc[d]
  PROVE  GoneStays
BY DEF LaunchInv, StepKin, GoneStays, Gone, Over

LEMMA LauncherLate ==
  ASSUME LaunchInv, LateTypeOK, LateRuns, LauncherNext
  PROVE  /\ LateTypeOK' /\ LateRuns'
         /\ "marker" \in struck' <=> "marker" \in struck
<1> DEFINE Kept == /\ LateTypeOK' /\ LateRuns'
                   /\ "marker" \in struck' <=> "marker" \in struck
<1>1. ASSUME NEW c \in Commands,
             \/ Lock(c) \/ Refuse(c) \/ Preflight(c) \/ Launched(c) \/ Stopped(c) \/ Check(c)
             \/ GivesUp(c) \/ Canary(c) \/ OnReady(c) \/ TimesOut(c) \/ Detach(c)
      PROVE  Kept
  <2>1. UNCHANGED <<late, struck>>
    BY <1>1 DEF Lock, Refuse, Preflight, Launched, Stopped, Check, GivesUp, Canary, OnReady,
                TimesOut, Detach
  <2>2. Alive(c) \/ pc[c] = "new"
    BY <1>1 DEF Lock, Refuse, Preflight, Launched, Stopped, Returned, Check, GivesUp, Canary,
                OnReady, TimesOut, Detach
  <2>3. pc' = pc \/ \E to : pc' = [pc EXCEPT ![c] = to]
    BY <1>1 DEF Lock, Refuse, Preflight, Launched, Stopped, Check, GivesUp, Canary, OnReady,
                TimesOut, Detach, Ends, Leaves
  <2>4. GoneStays
    BY <2>2, <2>3, OnlyLivingMove DEF LaunchInv, LauncherTypeOK
  <2> QED BY <2>1, <2>4, LateKept
<1>2. ASSUME NEW c \in Commands,
             FollowerEnds(c) \/ \E a \in Launching : Issue(c, a) \/ Returns(c, a)
      PROVE  Kept
  <2>1. /\ UNCHANGED <<late, pc>>
        /\ UNCHANGED struck \/ struck' = struck \ {"container"}
    BY <1>2 DEF FollowerEnds, Issue, Returns, Own
  <2> QED BY <2>1, LateKept DEF GoneStays, Gone
<1>3. ASSUME NEW c \in Commands, Kill(c) PROVE Kept
  <2>1. PICK acts \in SUBSET Begun(c) : LeftBehind(c, acts)
    BY <1>3 DEF Kill
  <2>2. acts \in SUBSET (Remote \cup Marking)
    BY DEF Begun
  <2>3. Alive(c) /\ pc' = [pc EXCEPT ![c] = "killed"] /\ UNCHANGED struck
    BY <1>3 DEF Kill
  <2>4. Gone(c)' /\ GoneStays
    BY <2>3, OnlyLivingMove DEF LaunchInv, LauncherTypeOK, Gone
  <2> QED BY <2>1, <2>2, <2>3, <2>4, LateGrows DEF LaunchInv
<1>4. ASSUME NEW c \in Commands, NEW a \in Launching, Fails(c, a) PROVE Kept
  <2>1. UNCHANGED struck
    BY <1>4 DEF Fails
  <2>2. \/ UNCHANGED late
        \/ {a} \in SUBSET (Remote \cup Marking) /\ LeftBehind(c, {a})
    BY <1>4 DEF Fails, Side, Launching, Remote
  <2>3. /\ a \in Remove \/ ~Alive(c) => pc' = pc
        /\ ~(a \in Remove \/ ~Alive(c)) => pc' = [pc EXCEPT ![c] = "died"]
    BY <1>4 DEF Fails
  <2>4. GoneStays
    <3>1. CASE pc' = pc
      BY <3>1 DEF GoneStays, Gone
    <3>2. CASE Alive(c) /\ pc' = [pc EXCEPT ![c] = "died"]
      BY <3>2, OnlyLivingMove DEF LaunchInv, LauncherTypeOK
    <3> QED BY <2>3, <3>1, <3>2
  <2>5. a = "run worker" => Gone(c)'
    <3>1. pc[c] \in Docking \cup {"killed"} /\ (~Alive(c) => pc[c] \in Over \cup {"new"})
      BY <1>4 DEF LaunchInv, StepKin, Fails
    <3>2. ~Alive(c) => pc[c] = "killed"
      BY <3>1 DEF Docking, Over
    <3> QED BY <2>3, <3>2 DEF Remove, Gone, LaunchInv, LauncherTypeOK
  <2> QED BY <2>1, <2>2, <2>4, <2>5, LateKept, LateGrows DEF LaunchInv
<1>5. ASSUME NEW l \in late, Strays(l[1], l[2], l[3]) PROVE Kept
  <2>1. UNCHANGED pc /\ late' \subseteq late
    BY <1>5 DEF Strays
  <2>2. UNCHANGED struck \/ struck' = struck \cup {"container"}
    BY <1>5 DEF Strays
  <2> QED BY <2>1, <2>2, LateKept DEF GoneStays, Gone
<1>6. ASSUME EngineUp \/ \E side \in Sides : Exit(side) PROVE Kept
  <2>1. UNCHANGED <<pc, late, struck>>
    BY <1>6 DEF EngineUp, Exit
  <2> QED BY <2>1, LateKept DEF GoneStays, Gone
<1> HIDE DEF Kept
<1>7. Kept
  BY <1>1, <1>2, <1>3, <1>4, <1>5, <1>6 DEF LauncherNext, Shell, InFlightEnds
<1> QED BY <1>7 DEF Kept

LEMMA LauncherIInv ==
  ASSUME IInv, LauncherNext, UNCHANGED syncvars
  PROVE  IInv'
<1>1. LaunchInv' /\ LateTypeOK' /\ LateRuns'
  BY LauncherNextInv, LauncherLate DEF IInv
<1>2. CopyInv'
  BY LauncherKeepsSync DEF IInv, CopyInv, syncvars
<1>3. SyncTypeOK' /\ MarkerVouches'
  BY LauncherKeepsSync, LauncherLate DEF IInv, SyncTypeOK, MarkerVouches, syncvars
<1> QED BY <1>1, <1>2, <1>3 DEF IInv

-----------------------------------------------------------------------------
(* The weights                                                              *)

(* A step of the sync that only moves its command.                          *)
LEMMA MarkerInv ==
  ASSUME IInv, NEW c \in Commands, Inventory(c) \/ Marker(c) \/ Verify(c),
         UNCHANGED <<todo, wvars, miss, noise, faults>>
  PROVE  IInv'
<1> USE DEF IInv
<1>1. /\ todo[c] = {} /\ InFlight(c) = {} /\ kin[c] = {"shell"}
      /\ pc[c] \in {"inventory", "marker", "verify"} /\ Alive(c)
  BY DEF LaunchInv, LauncherTypeOK, StepKin, Inventory, Marker, Verify, At, Alive,
         InFlight, Docking, Processes
<1>2. \/ \E moved \in {"marker", "resolve", "clear", "stamp"} : Moves(c, moved)
      \/ Dies(c)
  BY DEF Inventory, Marker, Verify
<1>3. \/ \E moved \in {"marker", "resolve", "clear", "stamp"} :
              pc' = [pc EXCEPT ![c] = moved] /\ kin' = [kin EXCEPT ![c] = {"shell"}]
      \/ pc' = [pc EXCEPT ![c] = "died"] /\ kin' = [kin EXCEPT ![c] = {}]
  BY <1>1, <1>2 DEF LaunchInv, LauncherTypeOK, Moves, Dies, Ends
<1>4. miss' \in [Commands -> [Sides -> 0..Strikes]]
  BY DEF LaunchInv, LauncherTypeOK
<1>5. LaunchInv'
  BY <1>1, <1>3, <1>4, MovesInv DEF Steps, Over, Fouled
<1>6. SyncTypeOK'
  BY DEF SyncTypeOK, Inventory, Marker, Verify, Chosen
<1>7. /\ \A d \in Commands \ {c} : pc'[d] = pc[d] /\ rev'[d] = rev[d]
      /\ UNCHANGED <<copy, marker, pinned, use, lost>>
      /\ pc[c] # "inventory" => rev' = rev
      /\ pc[c] = "inventory" => rev'[c] = Chosen /\ pc'[c] \in {"marker", "died"}
  BY <1>3 DEF LaunchInv, LauncherTypeOK, SyncTypeOK, Inventory, Marker, Verify, At,
              Moves, Dies, Ends
<1>8. /\ pc'[c] \in {"marker", "resolve", "clear", "stamp", "died"}
      /\ pc'[c] \in {"resolve", "stamp"} => rev[c] \in copy /\ rev' = rev
  BY <1>1, <1>3, <1>7 DEF LaunchInv, LauncherTypeOK, CopyInv, Synced, Inventory, Marker,
     Honoured, Verify, Verified, At, Moves, Dies, Ends
<1>9. CopyInv'
  BY <1>1, <1>7, <1>8 DEF CopyInv, Chosen, Syncing, Synced
<1>10. \A d \in Commands : "rsync" \notin kin'[d]
  BY <1>1, <1>3, OthersIdle DEF LaunchInv, LauncherTypeOK
<1>11. MarkerVouches'
  BY <1>7, <1>10 DEF MarkerVouches
<1>12. GoneStays
  BY <1>1, <1>7, OnlyLivingMove
<1>13. LateTypeOK' /\ LateRuns'
  BY <1>12, LateKept
<1> QED BY <1>5, <1>6, <1>9, <1>11, <1>13

(* A change of the marker: it goes before the first file is written, and    *)
(* comes back after the last was verified.                                  *)
LEMMA MarksInv ==
  ASSUME IInv, NEW c \in Commands, Clear(c) \/ Stamp(c),
         UNCHANGED <<todo, pair, miss, noise>>
  PROVE  IInv'
<1> USE DEF IInv
<1>1. /\ todo[c] = {} /\ InFlight(c) = {} /\ kin[c] = {"shell"}
      /\ pc[c] \in {"clear", "stamp"} /\ Alive(c)
  BY DEF LaunchInv, LauncherTypeOK, StepKin, Clear, Stamp, At, Alive, InFlight, Docking,
         Processes
<1>2. miss' \in [Commands -> [Sides -> 0..Strikes]]
  BY DEF LaunchInv, LauncherTypeOK
<1>3. \/ /\ Marks(None) /\ pc[c] = "clear"
         /\ pc' = [pc EXCEPT ![c] = "rsync"] /\ kin' = [kin EXCEPT ![c] = {"shell", "rsync"}]
      \/ /\ Marks(rev[c]) /\ pc[c] = "stamp"
         /\ pc' = [pc EXCEPT ![c] = "resolve"] /\ kin' = [kin EXCEPT ![c] = {"shell"}]
      \/ /\ UNCHANGED <<marker, struck>>
         /\ late' = late \/ LeftBehind(c, {pc[c]})
         /\ pc' = [pc EXCEPT ![c] = "died"] /\ kin' = [kin EXCEPT ![c] = {}]
  <2>1. CASE Clear(c)
    BY <1>1, <2>1 DEF Clear, Cleared, At, MarkFails, Dies, Ends
  <2>2. CASE Stamp(c)
    BY <1>1, <2>2 DEF Stamp, At, Moves, MarkFails, Dies, Ends, LaunchInv, LauncherTypeOK
  <2> QED BY <2>1, <2>2
<1>4. \A side \in Sides : Fouled(side)' <=> Fouled(side)
  BY <1>3 DEF Fouled, Marks
<1>5. LaunchInv'
  BY <1>1, <1>2, <1>3, <1>4, MovesInv DEF Steps, Over
<1>6. UNCHANGED <<pinned, main, have, copy, rev, use, lost>>
  BY DEF Clear, Stamp
<1>7. SyncTypeOK'
  BY <1>3, <1>6 DEF SyncTypeOK, Marks
<1>8. /\ \A d \in Commands \ {c} : pc'[d] = pc[d] /\ kin'[d] = {}
      /\ pc'[c] \in {"rsync", "resolve", "died"} /\ (pc'[c] = "resolve" => pc[c] = "stamp")
      /\ "rsync" \in kin'[c] => pc'[c] = "rsync" /\ marker' = None
  BY <1>1, <1>3, OthersIdle DEF LaunchInv, LauncherTypeOK, Marks
<1>9. CopyInv'
  BY <1>1, <1>6, <1>8 DEF CopyInv, Syncing, Synced
<1>10. MarkerVouches'
  <2>1. CASE marker' = marker /\ struck' = struck
    BY <1>6, <1>8, <2>1 DEF MarkerVouches
  <2>2. CASE marker' = None
    BY <2>2 DEF MarkerVouches
  <2>3. CASE marker' = rev[c] /\ pc[c] = "stamp"
    <3>1. rev[c] \in copy'
      BY <1>6, <2>3 DEF CopyInv, Synced
    <3>2. \A d \in Commands : "rsync" \in kin'[d] => marker' = None
      BY <1>8
    <3> QED BY <2>3, <3>1, <3>2 DEF MarkerVouches
  <2> QED BY <1>3, <2>1, <2>2, <2>3 DEF Marks
<1>11. GoneStays
  BY <1>1, <1>8, OnlyLivingMove
<1>12. LateTypeOK' /\ LateRuns'
  <2>1. CASE late' = late
    BY <1>11, <2>1, LateKept
  <2>2. CASE LeftBehind(c, {pc[c]})
    <3>1. {pc[c]} \in SUBSET (Remote \cup Marking) /\ "run worker" \notin {pc[c]}
      BY <1>1 DEF Marking
    <3> QED BY <1>11, <2>2, <3>1, LateGrows DEF LaunchInv
  <2> QED BY <1>3, <2>1, <2>2 DEF Marks
<1> QED BY <1>5, <1>7, <1>9, <1>10, <1>12

(* A step that leaves the launcher where it is, whatever becomes of the     *)
(* marker.                                                                  *)
LEMMA LaunchKept ==
  ASSUME LaunchInv, UNCHANGED <<pc, todo, kin, pair, miss, noise>>,
         "container" \in struck' <=> "container" \in struck
  PROVE  LaunchInv' /\ GoneStays
<1>1. LauncherTypeOK' /\ Exclusive' /\ StepKin' /\ LaunchOrder'
  BY DEF LaunchInv, LauncherTypeOK, Exclusive, StepKin, LaunchOrder, Alive, InFlight
<1>2. LaunchedMine' /\ MissesAreNoise' /\ NoFalseAlarm'
  BY DEF LaunchInv, LaunchedMine, MissesAreNoise, NoFalseAlarm, Running, Fouled, Mine
<1> QED BY <1>1, <1>2 DEF LaunchInv, GoneStays, Gone

LEMMA StraysMarkInv ==
  ASSUME IInv, NEW c \in Commands, NEW a \in Marking, StraysMark(c, a),
         UNCHANGED <<pc, todo, kin, pair, miss, noise, faults>>
  PROVE  IInv'
<1> USE DEF IInv
<1>1. /\ late' \subseteq late /\ struck' = struck \cup {"marker"}
      /\ marker' \in {None, rev[c]}
      /\ UNCHANGED <<pinned, main, have, copy, rev, use, lost>>
  BY DEF StraysMark, Cleared
<1>2. LaunchInv' /\ GoneStays
  BY <1>1, LaunchKept
<1>3. LateTypeOK' /\ LateRuns'
  BY <1>1, <1>2, LateKept
<1>4. SyncTypeOK'
  BY <1>1 DEF SyncTypeOK
<1>5. CopyInv' /\ MarkerVouches'
  BY <1>1 DEF CopyInv, MarkerVouches
<1> QED BY <1>2, <1>3, <1>4, <1>5

(* rsync is the only process that writes to the worker's snapshots.         *)
LEMMA RsyncInv ==
  ASSUME IInv, NEW c \in Commands, Rsync(c),
         UNCHANGED <<todo, wvars, miss, noise, faults>>
  PROVE  IInv'
<1> USE DEF IInv
<1>0. /\ pc[c] \in {"rsync", "killed"} /\ kin[c] # {}
      /\ Alive(c) <=> pc[c] = "rsync"
  BY DEF LaunchInv, StepKin, Rsync, Over
<1>1. /\ pc[c] = "rsync" => todo[c] = {} /\ InFlight(c) = {} /\ kin[c] = {"shell", "rsync"}
      /\ todo[c] = {}
  BY <1>0 DEF LaunchInv, LauncherTypeOK, StepKin, Rsync, Alive, InFlight, Docking, Processes
<1>2. miss' \in [Commands -> [Sides -> 0..Strikes]]
  BY DEF LaunchInv, LauncherTypeOK
<1>3. \/ /\ pc[c] = "rsync" /\ Alive(c)
         /\ \/ pc' = [pc EXCEPT ![c] = "verify"] /\ kin' = [kin EXCEPT ![c] = {"shell"}]
            \/ pc' = [pc EXCEPT ![c] = "died"] /\ kin' = [kin EXCEPT ![c] = {}]
      \/ pc[c] = "killed" /\ ~Alive(c) /\ pc' = pc /\ kin' = [kin EXCEPT ![c] = {}]
  BY <1>0, <1>1 DEF LaunchInv, LauncherTypeOK, Rsync
<1>4. LaunchInv'
  <2>1. CASE pc[c] = "rsync"
    BY <1>1, <1>2, <1>3, <2>1, MovesInv DEF Steps, Over, Fouled
  <2>2. CASE pc[c] = "killed"
    <3> USE DEF LaunchInv
    <3>1. pc' = pc /\ kin'[c] = {} /\ \A d \in Commands \ {c} : kin'[d] = kin[d]
      BY <1>3, <2>2 DEF LauncherTypeOK
    <3>2. LauncherTypeOK' /\ Exclusive' /\ StepKin'
      BY <1>3, <2>2, <3>1 DEF LauncherTypeOK, Exclusive, StepKin, Alive, InFlight, Over
    <3>3. LaunchOrder' /\ LaunchedMine' /\ MissesAreNoise' /\ NoFalseAlarm'
      BY <2>2, <3>1 DEF LaunchOrder, LaunchedMine, MissesAreNoise, NoFalseAlarm, Running,
                        Fouled, Mine
    <3> QED BY <3>2, <3>3
  <2> QED BY <1>0, <2>1, <2>2
<1>5. SyncTypeOK'
  BY DEF SyncTypeOK, Rsync
<1>6. \A d \in Commands : pc'[d] \notin Synced /\ (pc'[d] \in Syncing => pc[d] \in Syncing)
  BY <1>0, <1>3, OthersIdle DEF LaunchInv, LauncherTypeOK, Over, Syncing, Synced
<1>7. CopyInv'
  BY <1>6 DEF CopyInv, Rsync, Synced
<1>8. "marker" \notin struck => marker = None /\ marker' = None
  BY DEF MarkerVouches, Rsync
<1>9. MarkerVouches'
  BY <1>8 DEF MarkerVouches, Rsync
<1>10. GoneStays
  <2>1. CASE pc' = pc
    BY <2>1 DEF GoneStays, Gone
  <2>2. CASE Alive(c)
    <3>1. \A d \in Commands \ {c} : pc'[d] = pc[d]
      BY <1>3 DEF LaunchInv, LauncherTypeOK
    <3> QED BY <2>2, <3>1, OnlyLivingMove
  <2> QED BY <1>3, <2>1, <2>2
<1>11. LateTypeOK' /\ LateRuns'
  BY <1>10, LateKept
<1> QED BY <1>4, <1>5, <1>7, <1>9, <1>11

LEMMA ResolveInv ==
  ASSUME IInv, NEW c \in Commands, Resolve(c),
         UNCHANGED <<wvars, miss, noise, faults>>
  PROVE  IInv'
<1> USE DEF IInv
<1>0. pc[c] = "resolve" /\ Alive(c)
  BY DEF Resolve, At
<1>1. /\ todo[c] = {} /\ InFlight(c) = {} /\ kin[c] = {"shell"}
      /\ pc[c] = "resolve" /\ Alive(c)
  BY <1>0 DEF LaunchInv, LauncherTypeOK, StepKin, Alive, InFlight, Docking, Processes
<1>2. miss' \in [Commands -> [Sides -> 0..Strikes]]
  BY DEF LaunchInv, LauncherTypeOK
<1>5. LateTypeOK' /\ LateRuns'
  <2>1. \A d \in Commands \ {c} : pc'[d] = pc[d]
    BY DEF Resolve, Dies, Ends, Moves, LaunchInv, LauncherTypeOK
  <2>2. GoneStays
    BY <1>0, <2>1, OnlyLivingMove
  <2> QED BY <2>2, LateKept
<1>3. CASE Dies(c) /\ UNCHANGED todo
  <2>1. pc' = [pc EXCEPT ![c] = "died"] /\ kin' = [kin EXCEPT ![c] = {}]
    BY <1>1, <1>3 DEF Dies, Ends
  <2>2. LaunchInv'
    BY <1>1, <1>2, <1>3, <2>1, MovesInv DEF Steps, Over, Fouled
  <2>3. SyncTypeOK'
    BY DEF SyncTypeOK, Resolve, Resolved, Chosen
  <2>4. CopyInv'
    BY <2>1 DEF LaunchInv, LauncherTypeOK, SyncTypeOK, CopyInv, Resolve, Syncing, Synced
  <2>5. MarkerVouches'
    BY <1>1, <2>1 DEF LaunchInv, LauncherTypeOK, MarkerVouches, Resolve
  <2> QED BY <1>5, <2>2, <2>3, <2>4, <2>5
<1>4. CASE Moves(c, "launch") /\ todo' = [todo EXCEPT ![c] = Launching]
  <2>1. /\ \A d \in Commands \ {c} : pc'[d] = pc[d] /\ todo'[d] = todo[d] /\ use'[d] = use[d]
        /\ pc'[c] = "launch" /\ todo'[c] = Launching /\ kin' = kin
        /\ use'[c] = Chosen
    BY <1>4 DEF LaunchInv, LauncherTypeOK, SyncTypeOK, Moves, Resolve, Resolved
  <2>2. LaunchInv'
    <3> USE DEF LaunchInv
    <3>1. LauncherTypeOK' /\ Exclusive'
      BY <1>4 DEF LauncherTypeOK, Exclusive, Moves, Steps
    <3>2. StepKin'
      BY <1>1, <2>1 DEF StepKin, Alive, InFlight, Docking, Over
    <3>3. \A side \in Sides : Run(side) \in Launching
      BY DEF Run, Launching
    <3>5. LaunchOrder' /\ LaunchedMine'
      BY <2>1, <3>3 DEF LaunchOrder, LaunchedMine, Fouled
    <3>4. MissesAreNoise' /\ NoFalseAlarm'
      BY <2>1 DEF MissesAreNoise, NoFalseAlarm, Running, Mine
    <3> QED BY <3>1, <3>2, <3>4, <3>5
  <2>3. SyncTypeOK'
    BY DEF SyncTypeOK, Resolve, Resolved, Chosen
  <2>4. CopyInv'
    BY <1>1, <2>1 DEF CopyInv, Resolve, Chosen, Syncing, Synced
  <2>5. MarkerVouches'
    BY <2>1 DEF MarkerVouches, Resolve
  <2> QED BY <1>5, <2>2, <2>3, <2>4, <2>5
<1> QED BY <1>3, <1>4 DEF Resolve

LEMMA WorldInv ==
  ASSUME IInv, World, UNCHANGED <<pc, todo, kin, wvars, miss, noise>>
  PROVE  IInv'
<1> USE DEF IInv
<1>0. LaunchInv' /\ GoneStays
  BY LaunchKept
<1>1. LaunchInv' /\ LateTypeOK' /\ LateRuns'
  BY <1>0, LateKept
<1>2. ASSUME NEW r \in Revisions, Download(r) \/ Downloaded(r) PROVE IInv'
  <2>1. SyncTypeOK'
    BY <1>2 DEF SyncTypeOK, Download, Downloaded
  <2>2. CopyInv' /\ MarkerVouches'
    BY <1>2 DEF CopyInv, MarkerVouches, Download, Downloaded
  <2> QED BY <1>1, <2>1, <2>2
<1>3. ASSUME NEW r \in Revisions, Loss(r) PROVE IInv'
  <2>1. SyncTypeOK'
    BY <1>3 DEF SyncTypeOK, Loss
  <2>2. \A c \in Commands : pc[c] \notin Synced
    BY <1>3 DEF Loss, Over, Synced
  <2>3. CopyInv'
    BY <1>3, <2>2 DEF CopyInv, Loss, Synced
  <2>4. MarkerVouches'
    BY <1>3 DEF MarkerVouches, Loss
  <2> QED BY <1>1, <2>1, <2>3, <2>4
<1> QED BY <1>2, <1>3 DEF World

LEMMA InitIInv == Init => IInv
<1> SUFFICES ASSUME Init PROVE IInv
  OBVIOUS
<1> USE DEF Init, LauncherInit, SyncInit
<1>1. LauncherTypeOK
  BY DEF LauncherTypeOK, Steps, Strikes
<1>2. Exclusive /\ StepKin /\ LaunchOrder /\ LaunchedMine /\ MissesAreNoise /\ NoFalseAlarm
  BY DEF Exclusive, StepKin, Alive, InFlight, Over, LaunchOrder, LaunchedMine,
         MissesAreNoise, NoFalseAlarm
<1>3. SyncTypeOK /\ LateTypeOK /\ LateRuns
  BY RevisionsAssumption DEF SyncTypeOK, LateTypeOK, LateRuns
<1>4. CopyInv /\ MarkerVouches
  BY DEF CopyInv, Synced, Syncing, MarkerVouches
<1> QED BY <1>1, <1>2, <1>3, <1>4 DEF IInv, LaunchInv

LEMMA NextIInv == IInv /\ [Next]_vars => IInv'
<1> SUFFICES ASSUME IInv, [Next]_vars PROVE IInv'
  OBVIOUS
<1>1. CASE UNCHANGED vars
  <2> USE <1>1 DEF vars, launchvars, syncvars, IInv, LaunchInv
  <2>1. LauncherTypeOK' /\ Exclusive' /\ StepKin'
    BY DEF LauncherTypeOK, Exclusive, StepKin, Alive, InFlight
  <2>2. LaunchOrder' /\ LaunchedMine' /\ MissesAreNoise' /\ NoFalseAlarm'
    BY DEF LaunchOrder, LaunchedMine, MissesAreNoise, NoFalseAlarm, Running, Fouled, Mine
  <2>3. SyncTypeOK' /\ CopyInv' /\ MarkerVouches' /\ LateTypeOK' /\ LateRuns'
    BY DEF SyncTypeOK, CopyInv, MarkerVouches, LateTypeOK, LateRuns
  <2> QED BY <2>1, <2>2, <2>3
<1>2. CASE Next
  BY <1>2, LauncherIInv, MarkerInv, MarksInv, RsyncInv, ResolveInv, StraysMarkInv, WorldInv
     DEF Next, Sync
<1> QED BY <1>1, <1>2

LEMMA Safety == Spec => []IInv
BY InitIInv, NextIInv, PTL DEF Spec

(* While a command of start.sh waits for the pair it launched, the head's   *)
(* container is its own, and so is the worker's but for what a command to   *)
(* the worker, left behind by its ssh, did to it since; the probes' noise   *)
(* alone never condemns it, and a command that is over keeps the lock no    *)
(* longer than the docker or rsync command it was running, for any number   *)
(* of commands and faults.  TAIL=0 is the default of the script.            *)
THEOREM WaitsAreProtected == Tail = FALSE => (Spec => []WaitProtected)
<1> SUFFICES ASSUME Tail = FALSE PROVE Spec => []WaitProtected
  OBVIOUS
<1>1. IInv => WaitProtected
  <2> SUFFICES ASSUME IInv PROVE WaitProtected
    OBVIOUS
  <2> USE DEF IInv, LaunchInv
  <2>1. PairIsMine
    BY DEF PairIsMine, LaunchedMine, Fouled, StepKin, InFlight, Docking, Run, Launching, Sides
  <2>2. LockLetGo
    BY DEF LockLetGo, LauncherTypeOK, StepKin, Alive, Processes
  <2> QED BY <2>1, <2>2 DEF WaitProtected
<1> QED BY <1>1, Safety, PTL

(* A launch of what sync_weights checked finds it whole on the worker, a    *)
(* pinned launch is of what was checked, and no marker stands while a copy  *)
(* is being written, nor after one that was cut off.                        *)
THEOREM CopiesAreTrusted == Spec => []CopyTrusted
<1>1. IInv => CopyTrusted
  BY DEF IInv, CopyInv, CopyTrusted, LaunchedWhole, PinHolds, Synced, Syncing
<1> QED BY <1>1, Safety, PTL

-----------------------------------------------------------------------------
(* The commands and the promise of the lock                                 *)

Commanded == IInv /\ IInv'

(* The command with processes is the owner, and it is the only one.         *)
LEMMA HolderIs ==
  ASSUME IInv
  PROVE  /\ Free => Holder = None
         /\ \A c \in Commands : kin[c] # {} => Holder = c
         /\ Holder \in Commands => kin[Holder] # {}
<1> USE DEF IInv, LaunchInv
<1>1. Free => Holder = None
  BY DEF Holder
<1>2. ASSUME NEW c \in Commands, kin[c] # {} PROVE Holder = c
  <2>1. ~Free
    BY <1>2 DEF Free
  <2>2. \A d \in Commands : kin[d] # {} <=> d = c
    BY <1>2 DEF Exclusive
  <2>3. Holder = CHOOSE d \in Commands : kin[d] # {}
    BY <2>1 DEF Holder
  <2> QED BY <1>2, <2>2, <2>3
<1>3. Free => Holder \notin Commands
  BY <1>1, NoneAssumption
<1> QED BY <1>1, <1>2, <1>3 DEF Free

LEMMA HolderNext ==
  ASSUME IInv'
  PROVE  /\ Free' => Holder' = None
         /\ \A c \in Commands : kin'[c] # {} => Holder' = c
<1> USE DEF IInv, LaunchInv
<1>1. Free' => Holder' = None
  BY DEF Holder
<1>2. ASSUME NEW c \in Commands, kin'[c] # {} PROVE Holder' = c
  <2>1. ~Free'
    BY <1>2 DEF Free
  <2>2. \A d \in Commands : kin'[d] # {} <=> d = c
    BY <1>2 DEF Exclusive
  <2>3. Holder' = CHOOSE d \in Commands : kin'[d] # {}
    BY <2>1 DEF Holder
  <2> QED BY <1>2, <2>2, <2>3
<1> QED BY <1>1, <1>2

(* A step that leaves the containers to whom they belong, and gives no      *)
(* process to a command while another has one, takes the lock, keeps it or  *)
(* lets it go.                                                              *)
LEMMA OwnerKept ==
  ASSUME Commanded, UNCHANGED <<Built, Behind>>,
         \A d \in Commands : kin'[d] # {} => Free \/ kin[d] # {}
  PROVE  [Owner!Next]_<<Holder, Built, Behind>>
<1> USE DEF Commanded
<1>1. CASE Free'
  <2>1. Holder' = None
    BY <1>1, HolderNext
  <2> QED BY <2>1 DEF Owner!Next, Owner!Release
<1>2. CASE ~Free'
  <2>1. PICK d \in Commands : kin'[d] # {}
    BY <1>2 DEF Free
  <2>2. Holder' = d
    BY <2>1, HolderNext
  <2>3. CASE Free
    <3>1. Holder = None
      BY <2>3, HolderIs
    <3>2. Owner!Acquire(d)
      BY <2>2, <3>1 DEF Owner!Acquire
    <3> QED BY <3>2 DEF Owner!Next
  <2>4. CASE ~Free
    <3>1. Holder = d
      BY <2>1, <2>4, HolderIs
    <3> QED BY <2>2, <3>1
  <2> QED BY <2>3, <2>4
<1> QED BY <1>1, <1>2

(* A command that lets go of what it began on the worker leaves the pair as *)
(* it is.                                                                   *)
LEMMA LeaveFollows ==
  ASSUME Commanded, NEW c \in Commands, kin[c] # {}, UNCHANGED Built,
         \A d \in Commands \ {c} : kin'[d] = kin[d],
         NEW acts \in SUBSET (Remote \cup Marking), LeftBehind(c, acts)
  PROVE  Owner!Next
<1> USE DEF Commanded
<1>1. Holder = c
  BY HolderIs
<1>2. \A d \in Commands \ {c} : kin'[d] = {}
  BY DEF IInv, LaunchInv, Exclusive
<1>3. Holder' \in {c, None}
  BY <1>2, HolderNext DEF Free
<1>4. Behind \subseteq Behind' /\ \A l \in Behind' \ Behind : l[1] = c
  BY DEF LeftBehind, Behind
<1> QED BY <1>1, <1>3, <1>4 DEF Owner!Leave, Owner!Next

(* The pair carries the name of who ran it, and of nobody else.             *)
LEMMA BuiltNone ==
  ASSUME IInv, NEW side \in Sides
  PROVE  pair[side] = None <=> Built[side] = None
BY NoneAssumption DEF IInv, LaunchInv, LauncherTypeOK, Built, Containers

(* What a docker command does to the pair is done by its owner.             *)
LEMMA DoneChanges ==
  ASSUME IInv, NEW c \in Commands, NEW a \in Launching, Done(c, a)
  PROVE  /\ Side(a) \in Sides
         /\ \/ Built' = [Built EXCEPT ![Side(a)] = None]
            \/ /\ Built[Side(a)] = None
               /\ Built' = [Built EXCEPT ![Side(a)] = c]
<1>0. Side(a) \in Sides
  BY DEF Side, Sides
<1>1. CASE a \in Remove
  <2>1. pair' = [pair EXCEPT ![Side(a)] = None]
    BY <1>1 DEF Done
  <2>2. Built' = [Built EXCEPT ![Side(a)] = None]
    BY <1>0, <2>1 DEF Built, IInv, LaunchInv, LauncherTypeOK
  <2> QED BY <1>0, <2>2
<1>2. CASE a \notin Remove
  <2> DEFINE fresh == [by |-> c, running |-> TRUE, serving |-> FALSE]
  <2>1. pair[Side(a)] = None /\ pair' = [pair EXCEPT ![Side(a)] = fresh]
    BY <1>2 DEF Done
  <2>2. fresh \in Containers /\ fresh.by = c
    BY DEF Containers
  <2>3. fresh # None
    BY <2>2, NoneAssumption
  <2> HIDE DEF fresh
  <2>4. Built' = [Built EXCEPT ![Side(a)] = c]
    BY <1>0, <2>1, <2>2, <2>3 DEF Built, IInv, LaunchInv, LauncherTypeOK
  <2> QED BY <1>0, <2>1, <2>4, BuiltNone
<1> QED BY <1>1, <1>2

LEMMA OwnerChanges ==
  ASSUME Commanded, NEW c \in Commands, NEW a \in Launching, kin[c] # {}, Done(c, a),
         UNCHANGED Behind, \A d \in Commands \ {c} : kin'[d] = kin[d]
  PROVE  Owner!Next
<1> USE DEF Commanded
<1>1. Holder = c
  BY HolderIs
<1>2. \A d \in Commands \ {c} : kin'[d] = {}
  BY DEF IInv, LaunchInv, Exclusive
<1>3. Holder' \in {c, None}
  BY <1>2, HolderNext DEF Free
<1>4. Owner!Change(c, Side(a)) /\ Side(a) \in Sides
  BY <1>1, <1>3, DoneChanges DEF Owner!Change
<1> QED BY <1>4 DEF Owner!Next

(* A command that returns has done what it was told; one that fails has     *)
(* done nothing, or is left behind.                                         *)
LEMMA EndsFollow ==
  ASSUME Commanded, NEW c \in Commands, NEW a \in Launching, Returns(c, a) \/ Fails(c, a)
  PROVE  [Owner!Next]_<<Holder, Built, Behind>>
<1>1. /\ kin[c] # {}
      /\ \A d \in Commands \ {c} : kin'[d] = kin[d]
  BY DEF Commanded, IInv, LaunchInv, LauncherTypeOK, Returns, Fails, InFlight
<1>2. CASE Returns(c, a)
  <2>1. Done(c, a) /\ UNCHANGED Behind
    BY <1>2 DEF Returns, Behind
  <2> QED BY <1>1, <2>1, OwnerChanges
<1>3. CASE Fails(c, a)
  <2>1. UNCHANGED Built
    BY <1>3 DEF Fails, Built
  <2>2. \/ UNCHANGED Behind
        \/ {a} \in SUBSET (Remote \cup Marking) /\ LeftBehind(c, {a})
    BY <1>3 DEF Fails, Behind, Side, Launching, Remote
  <2> QED BY <1>1, <2>1, <2>2, OwnerKept, LeaveFollows
<1> QED BY <1>2, <1>3

LEMMA KillFollows ==
  ASSUME Commanded, NEW c \in Commands, Kill(c)
  PROVE  Owner!Next
<1>1. PICK acts \in SUBSET Begun(c) :
         /\ LeftBehind(c, acts)
         /\ kin' = [kin EXCEPT ![c] = @ \ (acts \cup {"shell"})]
  BY DEF Kill
<1>2. acts \in SUBSET (Remote \cup Marking)
  BY DEF Begun
<1>3. kin[c] # {} /\ \A d \in Commands \ {c} : kin'[d] = kin[d]
  BY <1>1 DEF Commanded, IInv, LaunchInv, LauncherTypeOK, Kill, Alive
<1>4. UNCHANGED Built
  BY DEF Kill, Built
<1> QED BY <1>1, <1>2, <1>3, <1>4, LeaveFollows

(* What was left behind and takes effect is the worker's alone, and once.   *)
LEMMA StraysFollow ==
  ASSUME Commanded, NEW l \in late, l[3] \in Remote, Strays(l[1], l[2], l[3])
  PROVE  Owner!Next
<1> USE DEF Commanded
<1>1. /\ l = <<l[1], l[2], l[3]>> /\ l[1] \in Commands
      /\ l[3] \in Launching /\ Side(l[3]) = "worker"
  BY LateIs DEF IInv, Remote, Launching, Side
<1>2. l \in Behind /\ Behind' = Behind \ {l}
  BY <1>1 DEF Strays, Behind
<1>3. UNCHANGED Holder
  BY DEF Strays, Holder, Free
<1>4. "worker" \in Sides
  BY DEF Sides
<1>5. CASE Done(l[1], l[3])
  <2>1. CASE l[3] = "rm worker"
    <3>1. pair' = [pair EXCEPT !["worker"] = None]
      BY <1>1, <1>5, <2>1 DEF Done, Remove
    <3>2. Built' = [Built EXCEPT !["worker"] = None]
      BY <1>4, <3>1 DEF Built, IInv, LaunchInv, LauncherTypeOK
    <3>3. Owner!Late(l)
      BY <1>2, <1>3, <2>1, <3>2 DEF Owner!Late
    <3> QED BY <1>2, <3>3 DEF Owner!Next
  <2>2. CASE l[3] = "run worker"
    <3> DEFINE fresh == [by |-> l[1], running |-> TRUE, serving |-> FALSE]
    <3>1. pair["worker"] = None /\ pair' = [pair EXCEPT !["worker"] = fresh]
      BY <1>1, <1>5, <2>2 DEF Done, Remove
    <3>2. fresh \in Containers /\ fresh.by = l[1]
      BY <1>1 DEF Containers
    <3>3. fresh # None
      BY <3>2, NoneAssumption
    <3> HIDE DEF fresh
    <3>4. Built' = [Built EXCEPT !["worker"] = l[1]]
      BY <1>4, <3>1, <3>2, <3>3 DEF Built, IInv, LaunchInv, LauncherTypeOK
    <3>5. Built["worker"] = None
      BY <1>4, <3>1, BuiltNone
    <3>6. Owner!Late(l)
      BY <1>2, <1>3, <2>2, <3>4, <3>5 DEF Owner!Late
    <3> QED BY <1>2, <3>6 DEF Owner!Next
  <2> QED BY <2>1, <2>2 DEF Remote
<1>6. CASE l[3] \notin Remove /\ pair["worker"] # None /\ UNCHANGED pair
  <2>1. l[3] = "run worker"
    BY <1>6 DEF Remote, Remove
  <2>2. Built["worker"] # None /\ UNCHANGED Built
    BY <1>4, <1>6, BuiltNone DEF Built
  <2>3. Owner!Late(l)
    BY <1>2, <1>3, <2>1, <2>2 DEF Owner!Late
  <2> QED BY <1>2, <2>3 DEF Owner!Next
<1> QED BY <1>5, <1>6 DEF Strays

(* Only a command that finds the lock free starts to have processes; the    *)
(* others keep theirs or end them.                                          *)
LEMMA ShellFollows ==
  ASSUME Commanded, NEW c \in Commands,
         Shell(c) \/ TimesOut(c) \/ Detach(c) \/ FollowerEnds(c)
  PROVE  [Owner!Next]_<<Holder, Built, Behind>>
<1>1. UNCHANGED <<Built, Behind>>
  <2>1. UNCHANGED <<pair, late>>
    BY DEF Shell, Lock, Refuse, Preflight, Issue, Launched, Stopped, Check, GivesUp,
           Canary, OnReady, TimesOut, Detach, FollowerEnds
  <2> QED BY <2>1 DEF Built, Behind
<1>2. UNCHANGED kin \/ \E K : kin' = [kin EXCEPT ![c] = K]
  BY DEF Shell, Lock, Refuse, Preflight, Issue, Launched, Stopped, Check, GivesUp, Canary,
         OnReady, TimesOut, Detach, FollowerEnds, Ends, Leaves
<1>3. \A d \in Commands \ {c} : kin'[d] = kin[d]
  BY <1>2 DEF Commanded, IInv, LaunchInv, LauncherTypeOK
<1>4. Free \/ UNCHANGED kin \/ kin[c] # {}
  <2>1. Lock(c) => Free
    BY DEF Lock, Granted
  <2>2. Refuse(c) => UNCHANGED kin
    BY DEF Refuse
  <2>3. ASSUME Preflight(c) \/ (\E a \in Launching : Issue(c, a)) \/ Launched(c)
                 \/ Stopped(c) \/ Check(c) \/ GivesUp(c) \/ Canary(c) \/ OnReady(c)
                 \/ TimesOut(c) \/ Detach(c)
        PROVE  Alive(c)
    BY <2>3 DEF Preflight, Issue, Launched, Stopped, Returned, Check, GivesUp, Canary,
                OnReady, TimesOut, Detach
  <2>4. FollowerEnds(c) => kin[c] # {}
    BY DEF FollowerEnds
  <2> QED BY <2>1, <2>2, <2>3, <2>4 DEF Shell, Alive
<1>5. \A d \in Commands : kin'[d] # {} => Free \/ kin[d] # {}
  BY <1>3, <1>4
<1> QED BY <1>1, <1>5, OwnerKept

(* The engine comes up in the containers that are there, and a container    *)
(* that exits stays there.                                                  *)
LEMMA WorldFollows ==
  ASSUME Commanded, EngineUp \/ \E side \in Sides : Exit(side)
  PROVE  [Owner!Next]_<<Holder, Built, Behind>>
<1> USE DEF Commanded, IInv, LaunchInv, LauncherTypeOK
<1>0. UNCHANGED <<kin, Behind>>
  BY DEF EngineUp, Exit, Behind
<1>1. ASSUME NEW side \in Sides, pair[side] # None, NEW r \in Containers,
             r.by = pair[side].by, pair' = [pair EXCEPT ![side] = r]
      PROVE  UNCHANGED Built
  <2>1. r # None
    BY NoneAssumption
  <2> QED BY <1>1, <2>1 DEF Built
<1>2. CASE EngineUp
  <2> DEFINE r == [pair["head"] EXCEPT !.serving = TRUE]
  <2>1. "head" \in Sides /\ pair["head"] # None /\ pair' = [pair EXCEPT !["head"] = r]
    BY <1>2 DEF EngineUp, Running, Sides
  <2>2. pair["head"] \in Containers
    BY <2>1
  <2>3. r \in Containers /\ r.by = pair["head"].by
    BY <2>2 DEF Containers
  <2>4. UNCHANGED Built
    BY <1>1, <2>1, <2>3
  <2> QED BY <1>0, <2>4, OwnerKept
<1>3. ASSUME NEW side \in Sides, Exit(side) PROVE UNCHANGED Built
  <2> DEFINE r == [pair[side] EXCEPT !.running = FALSE]
  <2>1. pair[side] # None /\ pair' = [pair EXCEPT ![side] = r]
    BY <1>3 DEF Exit, Running
  <2>2. pair[side] \in Containers
    BY <2>1
  <2>3. r \in Containers /\ r.by = pair[side].by
    BY <2>2 DEF Containers
  <2> QED BY <1>1, <2>1, <2>3
<1>4. CASE \E side \in Sides : Exit(side)
  BY <1>0, <1>3, <1>4, OwnerKept
<1> QED BY <1>2, <1>4

(* The copy to the worker runs under the lock and leaves the pair alone.    *)
LEMMA SyncFollows ==
  ASSUME Commanded, NEW c \in Commands, Sync(c) \/ Resolve(c), UNCHANGED <<pair, late>>
  PROVE  [Owner!Next]_<<Holder, Built, Behind>>
<1>1. UNCHANGED <<Built, Behind>>
  BY DEF Built, Behind
<1>2. UNCHANGED kin \/ \E K : kin' = [kin EXCEPT ![c] = K]
  BY DEF Sync, Inventory, Marker, Rsync, Verify, Resolve, Moves, Dies, Ends
<1>3. \A d \in Commands \ {c} : kin'[d] = kin[d]
  BY <1>2 DEF Commanded, IInv, LaunchInv, LauncherTypeOK
<1>4. kin[c] # {}
  BY DEF Sync, Inventory, Marker, Rsync, Verify, Resolve, At, Alive
<1> QED BY <1>1, <1>3, <1>4, OwnerKept

(* So do the changes of the marker, made, failed or left behind.            *)
LEMMA MarksFollow ==
  ASSUME Commanded, NEW c \in Commands, Clear(c) \/ Stamp(c), UNCHANGED pair
  PROVE  [Owner!Next]_<<Holder, Built, Behind>>
<1>1. UNCHANGED Built
  BY DEF Built
<1>2. UNCHANGED kin \/ \E K : kin' = [kin EXCEPT ![c] = K]
  BY DEF Clear, Stamp, MarkFails, Moves, Dies, Ends
<1>3. \A d \in Commands \ {c} : kin'[d] = kin[d]
  BY <1>2 DEF Commanded, IInv, LaunchInv, LauncherTypeOK
<1>4. kin[c] # {} /\ pc[c] \in Marking
  BY DEF Clear, Stamp, At, Alive, Marking
<1>5. \/ UNCHANGED Behind
      \/ {pc[c]} \in SUBSET (Remote \cup Marking) /\ LeftBehind(c, {pc[c]})
  BY <1>4 DEF Clear, Stamp, Marks, MarkFails, Behind
<1> QED BY <1>1, <1>3, <1>4, <1>5, OwnerKept, LeaveFollows

LEMMA StepFollows == Commanded /\ [Next]_vars => [Owner!Next]_<<Holder, Built, Behind>>
<1> SUFFICES ASSUME Commanded, [Next]_vars PROVE [Owner!Next]_<<Holder, Built, Behind>>
  OBVIOUS
<1>1. CASE LauncherNext
  BY <1>1, EndsFollow, ShellFollows, KillFollows, StraysFollow, WorldFollows
     DEF LauncherNext, InFlightEnds
<1>2. CASE \E c \in Commands :
             \/ Sync(c) /\ UNCHANGED <<todo, wvars, miss, noise, faults>>
             \/ Resolve(c) /\ UNCHANGED <<wvars, miss, noise, faults>>
  BY <1>2, SyncFollows
<1>3. CASE \E c \in Commands : (Clear(c) \/ Stamp(c)) /\ UNCHANGED <<todo, pair, miss, noise>>
  BY <1>3, MarksFollow
<1>4. CASE \E c \in Commands : \E a \in Marking :
             StraysMark(c, a) /\ UNCHANGED <<pc, todo, kin, pair, miss, noise, faults>>
  <2>1. PICK c \in Commands, a \in Marking : StraysMark(c, a) /\ UNCHANGED <<pair, kin>>
    BY <1>4
  <2>2. UNCHANGED <<Built, Behind>>
    <3>1. <<c, a, a>>[3] = a /\ a \notin Remote
      BY DEF Marking, Remote
    <3> QED BY <2>1, <3>1 DEF StraysMark, Built, Behind
  <2> QED BY <2>1, <2>2, OwnerKept
<1>5. CASE UNCHANGED <<pair, kin, late>>
  BY <1>5, OwnerKept DEF Built, Behind
<1> QED BY <1>1, <1>2, <1>3, <1>4, <1>5 DEF Next, vars, launchvars

LEMMA InitFollows == Init => Owner!Init
BY DEF Init, LauncherInit, Owner!Init, Holder, Free, Built, Behind

-----------------------------------------------------------------------------
(* What a build of the dense pair publishes is whole, for any number of     *)
(* runs that fail or are killed.  A step relies on the ones before it only  *)
(* through the files they left, so the invariant says of each step what the *)
(* overlay must hold there, and of the marker what it claims whenever a run *)
(* may end.                                                                 *)

Dirs == [dense : {"none", "cut", "other", "whole"}, cfg : {"none", "cut", "plain", "profiled"},
         links : {"none", "all"}]

Whole == [dense |-> "whole", cfg |-> "profiled", links |-> "all"]

PackTypeOK ==
  /\ overlay \in Dirs
  /\ snaps \subseteq Dirs
  /\ ref \in Dirs
  /\ staged \in Dirs

(* The tensors of a finished overlay are the pinned ones; only a run killed *)
(* while it removed one may have taken some away.                           *)
Finished(d) ==
  /\ d.dense \in {"whole", "none"}
  /\ ~torn => d.dense = "whole" /\ d.links = "all"

MarkerClaims == done /\ overlay # PB!Absent => Finished(overlay)

(* What each step finds.                                                    *)
StepFinds ==
  /\ step \in {"headers", "cache", "fetch", "meta", "verify", "mark"} => ~done
  /\ step \in {"meta", "verify", "mark"} => overlay.links = "all" /\ overlay # PB!Absent
  /\ step = "mark" => overlay.dense = "whole"
  /\ step \in {"target", "profile", "publish"} => done /\ Finished(overlay)
  /\ step = "publish" => overlay.cfg = "profiled"
  /\ step \in {"resolve", "served"} => ref \in snaps
  /\ step = "served" => ref.dense # "none" /\ ref.cfg = "profiled" /\ draft

Published ==
  \A s \in snaps : s.dense \in {"whole", "none"} /\ (~torn => s = Whole)

PackInv == PackTypeOK /\ MarkerClaims /\ StepFinds /\ Published

LEMMA PackInitInv == PB!PackInit => PackInv
BY DEF PB!PackInit, PackInv, PackTypeOK, Dirs, PB!Absent, MarkerClaims, StepFinds, Published

(* A step that touches neither the overlay nor what was published owes only *)
(* what the next step finds.                                                *)
LEMMA OnlyMoves ==
  ASSUME PackInv, UNCHANGED <<overlay, snaps, ref, staged, torn>>,
         done' => done \/ Finished(overlay), StepFinds'
  PROVE  PackInv'
BY DEF PackInv, PackTypeOK, MarkerClaims, Finished, Published

(* A step at the overlay before it is finished: no marker vouches for it.   *)
LEMMA FillsOverlay ==
  ASSUME PackInv, UNCHANGED <<snaps, ref, staged, torn>>,
         overlay' \in Dirs, ~done', StepFinds'
  PROVE  PackInv'
BY DEF PackInv, PackTypeOK, MarkerClaims, Published

LEMMA SelectInv == PackInv /\ PB!Select => PackInv'
<1> SUFFICES ASSUME PackInv, PB!Select PROVE PackInv' OBVIOUS
<1>1. StepFinds'
  BY DEF PackInv, StepFinds, PB!Select, PB!Go, PB!Dies
<1> QED BY <1>1, OnlyMoves DEF PB!Select

LEMMA StageDraftInv == PackInv /\ PB!StageDraft => PackInv'
<1> SUFFICES ASSUME PackInv, PB!StageDraft PROVE PackInv' OBVIOUS
<1>1. StepFinds'
  BY DEF PackInv, StepFinds, PB!StageDraft, PB!Go
<1> QED BY <1>1, OnlyMoves DEF PB!StageDraft

LEMMA KeepOrClearInv == PackInv /\ PB!KeepOrClear => PackInv'
<1> SUFFICES ASSUME PackInv, PB!KeepOrClear PROVE PackInv' OBVIOUS
<1>1. CASE PB!Reusable
  <2>1. StepFinds'
    BY <1>1 DEF PackInv, MarkerClaims, StepFinds, PB!KeepOrClear, PB!Reusable, PB!Go, Finished
  <2> QED BY <1>1, <2>1, OnlyMoves DEF PB!KeepOrClear
<1>2. CASE ~PB!Reusable
  <2>1. StepFinds' /\ overlay' \in Dirs /\ ~done'
    BY <1>2 DEF PackInv, StepFinds, PB!KeepOrClear, PB!Go, PB!Absent, Dirs
  <2> QED BY <2>1, FillsOverlay DEF PB!KeepOrClear
<1> QED BY <1>1, <1>2

LEMMA HeadersInv == PackInv /\ (PB!ReadHeaders \/ PB!FetchHeaders \/ PB!CacheHeaders) => PackInv'
<1> SUFFICES ASSUME PackInv, PB!ReadHeaders \/ PB!FetchHeaders \/ PB!CacheHeaders PROVE PackInv'
  OBVIOUS
<1>1. StepFinds'
  BY DEF PackInv, StepFinds, PB!ReadHeaders, PB!FetchHeaders, PB!CacheHeaders, PB!Go, PB!Dies
<1> QED BY <1>1, OnlyMoves DEF PB!ReadHeaders, PB!FetchHeaders, PB!CacheHeaders

LEMMA LinkPackInv == PackInv /\ PB!LinkPack => PackInv'
<1> SUFFICES ASSUME PackInv, PB!LinkPack PROVE PackInv' OBVIOUS
<1>1. StepFinds' /\ ~done' /\ overlay' \in Dirs
  BY DEF PackInv, PackTypeOK, StepFinds, PB!LinkPack, Dirs
<1> QED BY <1>1, FillsOverlay DEF PB!LinkPack

LEMMA FetchTensorsInv == PackInv /\ PB!FetchTensors => PackInv'
<1> SUFFICES ASSUME PackInv, PB!FetchTensors PROVE PackInv' OBVIOUS
<1>1. overlay' \in Dirs /\ ~done' /\ overlay'.links = "all" /\ step' = "meta"
  BY DEF PackInv, PackTypeOK, StepFinds, PB!FetchTensors, Dirs, PB!Go
<1>2. StepFinds'
  BY <1>1 DEF StepFinds, PB!Absent
<1> QED BY <1>1, <1>2, FillsOverlay DEF PB!FetchTensors

LEMMA WriteMetaInv == PackInv /\ PB!WriteMeta => PackInv'
<1> SUFFICES ASSUME PackInv, PB!WriteMeta PROVE PackInv' OBVIOUS
<1>1. /\ overlay' \in Dirs /\ ~done' /\ overlay'.links = "all"
      /\ step' \in {"meta", "verify"}
  BY DEF PackInv, PackTypeOK, StepFinds, PB!WriteMeta, Dirs, PB!Go
<1>2. StepFinds'
  BY <1>1 DEF StepFinds, PB!Absent
<1> QED BY <1>1, <1>2, FillsOverlay DEF PB!WriteMeta

LEMMA VerifyInv == PackInv /\ PB!Verify => PackInv'
<1> SUFFICES ASSUME PackInv, PB!Verify PROVE PackInv' OBVIOUS
<1>1. StepFinds'
  BY DEF PackInv, StepFinds, PB!Verify, PB!Go, PB!Dies
<1> QED BY <1>1, OnlyMoves DEF PB!Verify

(* The marker is written only over tensors that were compared with the pin. *)
LEMMA MarkInv == PackInv /\ PB!Mark => PackInv'
<1> SUFFICES ASSUME PackInv, PB!Mark PROVE PackInv' OBVIOUS
<1>1. Finished(overlay)
  BY DEF PackInv, StepFinds, PB!Mark, Finished
<1>2. StepFinds'
  BY <1>1 DEF StepFinds, PB!Mark, PB!Go, Finished
<1> QED BY <1>1, <1>2, OnlyMoves DEF PB!Mark

(* The configuration of a finished overlay is replaced, never its tensors.  *)
LEMMA ReadConfigInv == PackInv /\ PB!ReadConfig => PackInv'
<1> SUFFICES ASSUME PackInv, PB!ReadConfig PROVE PackInv' OBVIOUS
<1>1. CASE UNCHANGED overlay
  <2>1. StepFinds'
    BY <1>1 DEF PackInv, StepFinds, PB!ReadConfig, PB!Go, PB!Dies, Finished
  <2> QED BY <1>1, <2>1, OnlyMoves DEF PB!ReadConfig
<1>2. CASE overlay' = [overlay EXCEPT !.cfg = "none"] /\ step' = "profile"
  <2>1. overlay' \in Dirs /\ Finished(overlay)' /\ done'
    BY <1>2 DEF PackInv, PackTypeOK, StepFinds, PB!ReadConfig, Dirs, Finished
  <2> QED BY <1>2, <2>1 DEF PackInv, PackTypeOK, MarkerClaims, StepFinds, Published,
                           PB!ReadConfig
<1> QED BY <1>1, <1>2 DEF PB!ReadConfig, PB!Go, PB!Dies

LEMMA WriteConfigInv == PackInv /\ PB!WriteConfig => PackInv'
<1> SUFFICES ASSUME PackInv, PB!WriteConfig PROVE PackInv' OBVIOUS
<1>1. overlay' \in Dirs /\ Finished(overlay)' /\ done'
  BY DEF PackInv, PackTypeOK, StepFinds, PB!WriteConfig, Dirs, Finished
<1>2. \/ step' = "profile"
      \/ step' = "publish" /\ overlay'.cfg = "profiled"
  BY DEF PackInv, PackTypeOK, PB!WriteConfig, Dirs, PB!Go
<1> QED BY <1>1, <1>2 DEF PackInv, PackTypeOK, MarkerClaims, StepFinds, Published,
                         PB!WriteConfig, Finished

LEMMA FinishedWhole ==
  ASSUME NEW d \in Dirs, d.dense = "whole", d.cfg = "profiled", d.links = "all"
  PROVE  d = Whole
<1>1. d = [dense |-> d.dense, cfg |-> d.cfg, links |-> d.links]
  BY DEF Dirs
<1> QED BY <1>1 DEF Whole

LEMMA PublishInv == PackInv /\ (PB!Rename \/ PB!Remove) => PackInv'
<1> SUFFICES ASSUME PackInv, PB!Rename \/ PB!Remove PROVE PackInv' OBVIOUS
<1>1. /\ step = "publish" /\ overlay \in Dirs /\ Finished(overlay)
      /\ overlay.cfg = "profiled"
  BY DEF PackInv, PackTypeOK, StepFinds, PB!Rename, PB!Remove
<1>2. overlay.dense \in {"whole", "none"} /\ (~torn => overlay = Whole)
  BY <1>1, FinishedWhole DEF Finished
<1>3. snaps' \subseteq snaps \cup {overlay} /\ UNCHANGED <<ref, done, torn>>
      /\ staged' = overlay /\ overlay' = PB!Absent /\ step' = "ref"
  BY DEF PB!Rename, PB!Remove, PB!Go
<1>4. PackTypeOK'
  BY <1>1, <1>3 DEF PackInv, PackTypeOK, PB!Absent, Dirs
<1>5. MarkerClaims' /\ StepFinds'
  BY <1>3 DEF MarkerClaims, StepFinds
<1>6. Published'
  BY <1>2, <1>3 DEF PackInv, Published
<1> QED BY <1>4, <1>5, <1>6 DEF PackInv

LEMMA WriteRefInv == PackInv /\ PB!WriteRef => PackInv'
<1> SUFFICES ASSUME PackInv, PB!WriteRef PROVE PackInv' OBVIOUS
<1>1. ref' \in Dirs
  BY DEF PackInv, PackTypeOK, PB!WriteRef, PB!Cut, Dirs
<1>2. step' \in {"ref", "unmark"}
  BY DEF PB!WriteRef, PB!Go
<1> QED BY <1>1, <1>2 DEF PackInv, PackTypeOK, MarkerClaims, StepFinds, Published,
                         PB!WriteRef, Finished

LEMMA UnmarkInv == PackInv /\ PB!Unmark => PackInv'
<1> SUFFICES ASSUME PackInv, PB!Unmark PROVE PackInv' OBVIOUS
<1>1. StepFinds'
  BY DEF PackInv, StepFinds, PB!Unmark, PB!Go
<1> QED BY <1>1, OnlyMoves DEF PB!Unmark

LEMMA PackResolveInv == PackInv /\ PB!Resolve => PackInv'
<1> SUFFICES ASSUME PackInv, PB!Resolve PROVE PackInv' OBVIOUS
<1>1. StepFinds'
  BY DEF PackInv, StepFinds, PB!Resolve, PB!Go, PB!Dies, PB!files
<1> QED BY <1>1, OnlyMoves DEF PB!Resolve, PB!files

LEMMA PackFailsInv == PackInv /\ PB!Fails => PackInv'
<1> SUFFICES ASSUME PackInv, PB!Fails PROVE PackInv' OBVIOUS
<1>1. StepFinds'
  BY DEF PackInv, StepFinds, PB!Fails, PB!Dies, PB!files
<1> QED BY <1>1, OnlyMoves DEF PB!Fails, PB!files

(* Killed while it removes a finished build, a run leaves some of its files *)
(* behind a marker that still vouches for them: from then on "torn" is set. *)
LEMMA KilledInv == PackInv /\ PB!Killed => PackInv'
<1> SUFFICES ASSUME PackInv, PB!Killed PROVE PackInv' OBVIOUS
<1>0. step' = "down" /\ UNCHANGED <<done, snaps, ref, staged>>
  BY DEF PB!Killed, PB!Go
<1>1. CASE UNCHANGED <<overlay, torn>>
  <2>1. StepFinds'
    BY <1>0, <1>1 DEF PackInv, StepFinds
  <2> QED BY <1>0, <1>1, <2>1, OnlyMoves
<1>2. CASE step = "publish" /\ overlay \in snaps
  <2>1. PICK left \in [dense : {overlay.dense, "none"}, cfg : {overlay.cfg, "none"},
                       links : {overlay.links, "none"}] :
          overlay' = left /\ torn' = (torn \/ left # overlay)
    BY <1>2 DEF PB!Killed
  <2>2. overlay \in Dirs /\ Finished(overlay)
    BY <1>2 DEF PackInv, PackTypeOK, StepFinds
  <2>3. left \in Dirs
    BY <2>2 DEF Dirs
  <2>4. left.dense \in {"whole", "none"}
    BY <2>2 DEF Finished
  <2>5. torn => torn'
    BY <2>1
  <2>6. ~torn' => left = overlay /\ ~torn
    BY <2>1
  <2>7. Finished(overlay)'
    BY <2>1, <2>2, <2>4, <2>6 DEF Finished
  <2>8. Published'
    BY <1>0, <2>5, <2>6 DEF PackInv, Published
  <2> QED BY <1>0, <2>1, <2>3, <2>7, <2>8
          DEF PackInv, PackTypeOK, MarkerClaims, StepFinds
<1> QED BY <1>1, <1>2 DEF PB!Killed

LEMMA RerunInv == PackInv /\ PB!Rerun => PackInv'
BY DEF PackInv, PackTypeOK, MarkerClaims, Finished, StepFinds, Published, PB!Rerun, PB!Go, PB!files,
       PB!Absent, Dirs

LEMMA PackNextInv == PackInv /\ [PB!PackNext]_packvars => PackInv'
<1> SUFFICES ASSUME PackInv, [PB!PackNext]_packvars PROVE PackInv' OBVIOUS
<1>1. CASE UNCHANGED packvars
  <2>1. StepFinds'
    BY <1>1 DEF PackInv, StepFinds, Finished, packvars, PB!files
  <2> QED BY <1>1, <2>1, OnlyMoves DEF packvars, PB!files
<1>2. CASE PB!PackNext
  BY <1>2, SelectInv, StageDraftInv, KeepOrClearInv, HeadersInv, LinkPackInv,
     FetchTensorsInv, WriteMetaInv, VerifyInv, MarkInv, ReadConfigInv, WriteConfigInv,
     PublishInv, WriteRefInv, UnmarkInv, PackResolveInv, PackFailsInv, KilledInv, RerunInv
  DEF PB!PackNext
<1> QED BY <1>1, <1>2

LEMMA PackInvWhole == PackInv => PB!PackWhole
BY DEF PackInv, Published, StepFinds, PB!PackWhole, Whole

(* The pair that is served, and any build that was published, has the       *)
(* pinned tensors and the configuration that names its draft, and all its   *)
(* files unless a removal was cut short, after any number of runs that      *)
(* failed or were killed (build_dense_h3 of start.sh, dense_overlay.py,     *)
(* stage_dense_h3.py and pack_profile.py).                                  *)
THEOREM BuildsAreWhole == PB!PackSpec => []PB!PackWhole
<1>1. PB!PackInit => PackInv
  BY PackInitInv
<1>2. PackInv /\ [PB!PackNext]_(PB!packvars) => PackInv'
  BY PackNextInv DEF packvars, PB!packvars, PB!files
<1>3. PackInv => PB!PackWhole
  BY PackInvWhole
<1> QED BY <1>1, <1>2, <1>3, PTL DEF PB!PackSpec

-----------------------------------------------------------------------------
(* What a load does to the page cache, for any number of shards, threads    *)
(* and reads.  The window is a statement about a set of threads' jobs, and  *)
(* what is given back one about the iterator's locals: the invariant ties   *)
(* the jobs to the two ends of the window, and the pages given back to the  *)
(* tensor the locals hold.                                                  *)

LEMMA CountsAreSame == \A S : LP!Cardinality(S) = Cardinality(S)
BY DEF LP!Cardinality, Cardinality

Jobs == {"none", "queued", "reading", "done", "failed", "cancelled"}
LoadSteps == {"next", "wait", "shard", "yield", "native", "cancel", "join", "release",
              "closed"}
Closing == {"cancel", "join", "release", "closed"}

LoadTypeOK ==
  /\ at \in LoadSteps
  /\ index \in 0..LoadShards
  /\ nextIndex \in 0..LoadShards
  /\ current \in -1..(LoadShards - 1)
  /\ job \in [LP!Shards -> Jobs]
  /\ consumed \in 0..LoadShards
  /\ released \in Nat
  /\ given \subseteq LP!Shards
  /\ bound \in -1..(LoadShards - 1)
  /\ seen \in -1..(LoadShards - 1)

(* A job is outstanding between the shard at hand and the end of the        *)
(* window, and the shard at hand only while it is waited for.               *)
WindowInv ==
  /\ nextIndex <= index + LoadDepth
  /\ LoadDepth > 0 => index <= nextIndex
  /\ LoadDepth > 0 /\ at \in {"wait", "shard", "yield"} => index < nextIndex
  /\ \A s \in LP!Outstanding : index <= s /\ s < nextIndex
  /\ at \in {"next", "wait", "shard", "yield"} => index < LoadShards
  /\ at \in {"shard", "yield"} => index \notin LP!Outstanding

(* The iterator's locals trail the shard at hand, and what was given back   *)
(* lies before them until the clean-up, which drops them first.             *)
LocalsInv ==
  /\ seen <= current /\ current <= index
  /\ bound \in {-1, seen}
  /\ at = "yield" => current = index
  /\ at \in Closing => bound = -1
  /\ at # "closed" => consumed = current + 1
  /\ at # "closed" => \A s \in given : s < seen
  /\ \A s \in given : s <= current

LoadInv == LoadTypeOK /\ WindowInv /\ LocalsInv /\ LP!ClosedQuiet

LEMMA LoadInitInv == LP!LoadAssumption /\ LP!LoadInit => LoadInv
<1> SUFFICES ASSUME LP!LoadAssumption, LP!LoadInit PROVE LoadInv OBVIOUS
<1> USE DEF LP!LoadAssumption, LP!LoadInit
<1>1. LoadTypeOK
  BY DEF LoadTypeOK, LoadSteps, Jobs
<1>2. LP!Outstanding = {}
  BY DEF LP!Outstanding, LP!Reading
<1>3. WindowInv /\ LocalsInv /\ LP!ClosedQuiet
  BY <1>2 DEF WindowInv, LocalsInv, LP!ClosedQuiet, Closing
<1> QED BY <1>1, <1>3 DEF LoadInv

(* A step that adds no job to the window and does not touch its ends.       *)
LEMMA ShrinksWindow ==
  ASSUME LoadInv, UNCHANGED <<index, nextIndex>>, LP!Outstanding' \subseteq LP!Outstanding,
         at' \in {"next", "wait", "shard", "yield"} => index < LoadShards,
         at' \in {"wait", "shard", "yield"} => at \in {"wait", "shard", "yield"},
         at' \in {"shard", "yield"} => index \notin LP!Outstanding'
  PROVE  WindowInv'
BY DEF LoadInv, WindowInv

LEMMA SubmitInv == LP!LoadAssumption /\ LoadInv /\ LP!Submit => LoadInv'
<1> SUFFICES ASSUME LP!LoadAssumption, LoadInv, LP!Submit PROVE LoadInv' OBVIOUS
<1> USE DEF LP!LoadAssumption, LoadInv, LP!Submit
<1>1. /\ nextIndex' \in 0..LoadShards /\ nextIndex <= nextIndex' /\ nextIndex' <= index + LoadDepth
      /\ LoadDepth = 0 => nextIndex' = nextIndex
  BY DEF LoadTypeOK, WindowInv, LP!Window, LP!Least
<1>2. LoadTypeOK'
  BY <1>1 DEF LoadTypeOK, LoadSteps, Jobs
<1>3. \A s \in LP!Shards : job'[s] = IF s \in nextIndex..(nextIndex' - 1) THEN "queued"
                                    ELSE job[s]
  OBVIOUS
<1>4. LP!Outstanding' \subseteq LP!Outstanding \cup nextIndex..(nextIndex' - 1)
  BY <1>3 DEF LP!Outstanding, LP!Reading
<1>5. \A s \in LP!Outstanding' : index <= s /\ s < nextIndex'
  <2>1. ASSUME LoadDepth = 0 PROVE LP!Outstanding' \subseteq LP!Outstanding /\ nextIndex' = nextIndex
    BY <1>4, <2>1 DEF LoadTypeOK
  <2>2. CASE LoadDepth = 0
    BY <2>1, <2>2 DEF WindowInv
  <2>3. CASE LoadDepth # 0
    <3> SUFFICES ASSUME NEW s \in LP!Outstanding' PROVE index <= s /\ s < nextIndex'
      OBVIOUS
    <3>1. CASE s \in LP!Outstanding
      <4>1. index <= s /\ s < nextIndex /\ s \in Int
        BY <3>1 DEF WindowInv, LP!Outstanding, LP!Shards
      <4> QED BY <1>1, <4>1 DEF LoadTypeOK
    <3>2. CASE s \in nextIndex..(nextIndex' - 1)
      BY <1>1, <2>3, <3>2 DEF WindowInv, LoadTypeOK
    <3> QED BY <1>4, <3>1, <3>2
  <2> QED BY <2>2, <2>3
<1>6. LoadDepth = 0 => index \notin LP!Outstanding'
  BY <1>1, <1>5 DEF WindowInv, LoadTypeOK
<1>7. LoadDepth > 0 => index < nextIndex'
  BY DEF LoadTypeOK, LP!Window, LP!Least
<1>8. WindowInv'
  BY <1>1, <1>5, <1>6, <1>7 DEF WindowInv, LoadTypeOK
<1>9. LocalsInv' /\ LP!ClosedQuiet'
  BY DEF LocalsInv, LP!ClosedQuiet, Closing
<1> QED BY <1>2, <1>8, <1>9

LEMMA WaitedInv == LoadInv /\ LP!Waited => LoadInv'
<1> SUFFICES ASSUME LoadInv, LP!Waited PROVE LoadInv' OBVIOUS
<1> USE DEF LoadInv, LP!Waited
<1>0. UNCHANGED LP!Outstanding /\ index \notin LP!Outstanding
  BY DEF LP!Outstanding, LP!Reading
<1>1. LoadTypeOK' /\ LocalsInv' /\ LP!ClosedQuiet'
  BY DEF LoadTypeOK, LoadSteps, LocalsInv, LP!ClosedQuiet, Closing
<1>2. WindowInv'
  BY <1>0, ShrinksWindow DEF WindowInv
<1> QED BY <1>1, <1>2

LEMMA OpenInv == LP!LoadAssumption /\ LoadInv /\ LP!Open => LoadInv'
<1> SUFFICES ASSUME LP!LoadAssumption, LoadInv, LP!Open PROVE LoadInv' OBVIOUS
<1> USE DEF LP!LoadAssumption, LoadInv, LP!Open
<1>0. UNCHANGED LP!Outstanding
  BY DEF LP!Outstanding, LP!Reading
<1>1. LoadTypeOK'
  BY DEF LoadTypeOK, LoadSteps, WindowInv
<1>2. LocalsInv' /\ LP!ClosedQuiet'
  BY DEF LoadTypeOK, LocalsInv, LP!ClosedQuiet, Closing, LP!Shards
<1>3. WindowInv'
  BY <1>0, ShrinksWindow DEF WindowInv
<1> QED BY <1>1, <1>2, <1>3

(* Only the shards before the tensor that is now held are given back.       *)
LEMMA TensorInv == LP!LoadAssumption /\ LoadInv /\ LP!Tensor => LoadInv'
<1> SUFFICES ASSUME LP!LoadAssumption, LoadInv, LP!Tensor PROVE LoadInv' OBVIOUS
<1> USE DEF LP!LoadAssumption, LoadInv, LP!Tensor
<1>0. UNCHANGED LP!Outstanding
  BY DEF LP!Outstanding, LP!Reading
<1>1. current \in LP!Shards /\ current \in Nat
  BY DEF LoadTypeOK, LocalsInv, WindowInv, LP!Shards
<1>2. \A s \in LP!GivenBefore : s \in LP!Shards /\ s < current
  BY <1>1 DEF LP!GivenBefore, LoadTypeOK, LP!Shards
<1>3. LoadTypeOK'
  BY <1>1, <1>2 DEF LoadTypeOK
<1>4. \A s \in given' : s < current
  BY <1>1, <1>2 DEF LoadTypeOK, LocalsInv, LP!Shards
<1>5. \A s \in given' : s <= current'
  BY <1>3, <1>4 DEF LoadTypeOK, LP!Shards
<1>6. LocalsInv' /\ LP!ClosedQuiet'
  BY <1>1, <1>4, <1>5 DEF LoadTypeOK, LocalsInv, LP!ClosedQuiet, Closing
<1>7. WindowInv'
  BY <1>0, ShrinksWindow DEF WindowInv
<1> QED BY <1>3, <1>6, <1>7

LEMMA ShardEndsInv == LP!LoadAssumption /\ LoadInv /\ LP!ShardEnds => LoadInv'
<1> SUFFICES ASSUME LP!LoadAssumption, LoadInv, LP!ShardEnds PROVE LoadInv' OBVIOUS
<1> USE DEF LP!LoadAssumption, LoadInv, LP!ShardEnds
<1>0. UNCHANGED LP!Outstanding /\ index \notin LP!Outstanding
  BY DEF LP!Outstanding, LP!Reading, WindowInv
<1>1. LoadTypeOK'
  BY DEF LoadTypeOK, LoadSteps, WindowInv
<1>2. LocalsInv' /\ LP!ClosedQuiet'
  BY DEF LoadTypeOK, LocalsInv, LP!ClosedQuiet, Closing
<1>3. \A s \in LP!Outstanding : s \in Int /\ index <= s /\ s # index /\ s < nextIndex
  BY <1>0 DEF WindowInv, LP!Outstanding, LP!Shards
<1>4. WindowInv'
  BY <1>0, <1>3 DEF WindowInv, LoadTypeOK
<1> QED BY <1>1, <1>2, <1>4

LEMMA AbandonInv == LoadInv /\ LP!Abandon => LoadInv'
<1> SUFFICES ASSUME LoadInv, LP!Abandon PROVE LoadInv' OBVIOUS
<1> USE DEF LoadInv, LP!Abandon
<1>0. UNCHANGED LP!Outstanding
  BY DEF LP!Outstanding, LP!Reading
<1>1. LoadTypeOK' /\ LocalsInv' /\ LP!ClosedQuiet'
  BY DEF LoadTypeOK, LoadSteps, LocalsInv, LP!ClosedQuiet, Closing
<1>2. WindowInv'
  BY <1>0, ShrinksWindow
<1> QED BY <1>1, <1>2

(* close() drops the iterator's locals, and with them its tensors, first.   *)
LEMMA CloseNativeInv == LP!LoadAssumption /\ LoadInv /\ LP!CloseNative => LoadInv'
<1> SUFFICES ASSUME LP!LoadAssumption, LoadInv, LP!CloseNative PROVE LoadInv' OBVIOUS
<1> USE DEF LP!LoadAssumption, LoadInv, LP!CloseNative
<1>0. UNCHANGED LP!Outstanding
  BY DEF LP!Outstanding, LP!Reading
<1>1. LoadTypeOK' /\ LocalsInv' /\ LP!ClosedQuiet'
  BY DEF LoadTypeOK, LoadSteps, LocalsInv, LP!ClosedQuiet, Closing
<1>2. WindowInv'
  BY <1>0, ShrinksWindow
<1> QED BY <1>1, <1>2

LEMMA CancelInv == LoadInv /\ LP!Cancel => LoadInv'
<1> SUFFICES ASSUME LoadInv, LP!Cancel PROVE LoadInv' OBVIOUS
<1> USE DEF LoadInv, LP!Cancel
<1>0. LP!Outstanding' \subseteq LP!Outstanding
  BY DEF LP!Outstanding, LP!Reading
<1>1. LoadTypeOK' /\ LocalsInv' /\ LP!ClosedQuiet'
  BY DEF LoadTypeOK, LoadSteps, Jobs, LocalsInv, LP!ClosedQuiet, Closing
<1>2. WindowInv'
  BY <1>0, ShrinksWindow
<1> QED BY <1>1, <1>2

(* close() goes on once no thread reads.                                    *)
LEMMA JoinInv == LoadInv /\ LP!Join => LoadInv'
<1> SUFFICES ASSUME LoadInv, LP!Join PROVE LoadInv' OBVIOUS
<1> USE DEF LoadInv, LP!Join
<1>0. UNCHANGED LP!Outstanding
  BY DEF LP!Outstanding, LP!Reading
<1>1. LoadTypeOK' /\ LocalsInv' /\ LP!ClosedQuiet'
  BY <1>0 DEF LoadTypeOK, LoadSteps, LocalsInv, LP!ClosedQuiet, Closing, LP!Idle
<1>2. WindowInv'
  BY <1>0, ShrinksWindow
<1> QED BY <1>1, <1>2

LEMMA ReleaseInv == LP!LoadAssumption /\ LoadInv /\ LP!Release => LoadInv'
<1> SUFFICES ASSUME LP!LoadAssumption, LoadInv, LP!Release PROVE LoadInv' OBVIOUS
<1> USE DEF LP!LoadAssumption, LoadInv, LP!Release
<1>0. UNCHANGED LP!Outstanding
  BY DEF LP!Outstanding, LP!Reading
<1>1. LP!Yielded \subseteq LP!Shards /\ \A s \in LP!Yielded : s <= current
  BY DEF LP!Yielded, LoadTypeOK, LocalsInv, LP!Shards
<1>2. LoadTypeOK' /\ LocalsInv' /\ LP!ClosedQuiet'
  BY <1>0, <1>1 DEF LoadTypeOK, LoadSteps, LocalsInv, LP!ClosedQuiet, Closing
<1>3. WindowInv'
  BY <1>0, ShrinksWindow
<1> QED BY <1>2, <1>3

(* A thread takes what is queued and ends what it reads.                    *)
LEMMA PoolInv ==
  ASSUME LoadInv, NEW s \in LP!Shards, LP!Pool(s)
  PROVE  LoadInv'
<1> USE DEF LoadInv
<1>0. LP!Outstanding' \subseteq LP!Outstanding /\ job' \in [LP!Shards -> Jobs]
  BY DEF LP!Pool, LP!Take, LP!Read, LP!ReadFails, LP!Outstanding, LP!Reading, LoadTypeOK, Jobs
<1>1. UNCHANGED <<at, index, nextIndex, current, pending, consumed, released, given,
                  bound, seen>>
  BY DEF LP!Pool, LP!Take, LP!Read, LP!ReadFails
<1>2. LoadTypeOK' /\ LocalsInv' /\ LP!ClosedQuiet'
  BY <1>0, <1>1 DEF LoadTypeOK, LocalsInv, LP!ClosedQuiet
<1>3. WindowInv'
  BY <1>0, <1>1, ShrinksWindow DEF WindowInv
<1> QED BY <1>2, <1>3

LEMMA LoadNextInv == LP!LoadAssumption /\ LoadInv /\ [LP!LoadNext]_lvars => LoadInv'
<1> SUFFICES ASSUME LP!LoadAssumption, LoadInv, [LP!LoadNext]_lvars PROVE LoadInv' OBVIOUS
<1>1. CASE LP!Consumer
  BY <1>1, SubmitInv, WaitedInv, OpenInv, TensorInv, ShardEndsInv, AbandonInv,
     CloseNativeInv, CancelInv, JoinInv, ReleaseInv DEF LP!Consumer
<1>2. CASE \E s \in LP!Shards : LP!Pool(s)
  BY <1>2, PoolInv
<1>3. CASE UNCHANGED lvars
  BY <1>3 DEF LoadInv, LoadTypeOK, WindowInv, LocalsInv, LP!ClosedQuiet, LP!Outstanding,
              LP!Reading, lvars
<1> QED BY <1>1, <1>2, <1>3 DEF LP!LoadNext

(* The shards between the ends of the window are no more than the depth.    *)
LEMMA WindowHolds == LP!LoadAssumption /\ LoadInv => LP!WindowBounded
<1> SUFFICES ASSUME LP!LoadAssumption, LoadInv PROVE LP!WindowBounded OBVIOUS
<1> USE DEF LP!LoadAssumption, LoadInv
<1>1. LP!Outstanding \subseteq index..(nextIndex - 1)
  BY DEF WindowInv, LoadTypeOK, LP!Outstanding, LP!Shards
<1>2. /\ IsFiniteSet(index..(nextIndex - 1))
      /\ Cardinality(index..(nextIndex - 1)) <= LoadDepth
      /\ Cardinality(index..(nextIndex - 1)) \in Nat
  <2>1. /\ index \in Int /\ nextIndex - 1 \in Int /\ LoadDepth \in Nat
        /\ (nextIndex - 1) - index + 1 <= LoadDepth
    BY DEF WindowInv, LoadTypeOK
  <2> DEFINE last == nextIndex - 1
             size == Cardinality(index..last)
  <2>2. IsFiniteSet(index..last) /\ size = IF index > last THEN 0 ELSE last - index + 1
    BY <2>1, FS_Interval
  <2>3. last \in Int /\ last - index + 1 <= LoadDepth
    BY <2>1
  <2>4. size <= LoadDepth /\ size \in Nat
    <3> HIDE DEF last, size
    <3> QED BY <2>1, <2>2, <2>3
  <2> QED BY <2>2, <2>4
<1>3. /\ Cardinality(LP!Outstanding) <= Cardinality(index..(nextIndex - 1))
      /\ IsFiniteSet(LP!Outstanding)
  BY <1>1, <1>2, FS_Subset
<1>4. Cardinality(LP!Outstanding) \in Nat
  BY <1>3, FS_CardinalityType
<1>5. Cardinality(LP!Outstanding) <= LoadDepth
  BY <1>2, <1>3, <1>4
<1>6. \A s \in LP!Outstanding : s < index + LoadDepth
  BY <1>1 DEF WindowInv, LoadTypeOK
<1> QED BY <1>5, <1>6, CountsAreSame, Zenon DEF LP!WindowBounded

LEMMA LoadInvKeeps == LP!LoadAssumption /\ LoadInv => LP!PagesKept
<1> SUFFICES ASSUME LP!LoadAssumption, LoadInv PROVE LP!PagesKept OBVIOUS
<1>1. LP!WindowBounded
  BY WindowHolds
<1>2. LP!MappedKept
  BY DEF LoadInv, LoadTypeOK, LocalsInv, LP!MappedKept, Closing, LP!Shards
<1>3. LP!AheadKept /\ LP!ClosedQuiet
  BY DEF LoadInv, LocalsInv, LP!AheadKept
<1> QED BY <1>1, <1>2, <1>3 DEF LP!PagesKept

(* Whatever the number of shards and the depth, and wherever a load is      *)
(* abandoned or a read fails: no more shards are read or queued than the    *)
(* depth, no page is given back that a local still holds or that was only   *)
(* read ahead, and close() leaves no thread behind (patch_loadclone.py).    *)
THEOREM LoadsKeepPages ==
  LP!LoadAssumption => (LP!LoadInit /\ [][LP!LoadNext]_lvars => []LP!PagesKept)
<1> SUFFICES ASSUME LP!LoadAssumption PROVE LP!LoadInit /\ [][LP!LoadNext]_lvars => []LP!PagesKept
  OBVIOUS
<1>1. LP!LoadInit => LoadInv
  BY LoadInitInv
<1>2. LoadInv /\ [LP!LoadNext]_lvars => LoadInv'
  BY LoadNextInv
<1>3. LoadInv => LP!PagesKept
  BY LoadInvKeeps
<1> QED BY <1>1, <1>2, <1>3, PTL

-----------------------------------------------------------------------------
(* A behaviour of one part leaves the others in their first state.          *)

LEMMA PartSteps ==
  [MCNext]_<<part, vars, packvars, lvars>> =>
    /\ [Next]_vars
    /\ [PB!PackNext]_packvars
    /\ [LP!LoadNext]_lvars
BY DEF MCNext, Cluster, Pack, Load

-----------------------------------------------------------------------------
LEMMA ClusterSafety == MCSpec => []IInv
<1>1. MCInit => IInv
  BY InitIInv DEF MCInit
<1>2. IInv /\ [MCNext]_<<part, vars, packvars, lvars>> => IInv'
  BY PartSteps, NextIInv
<1> QED BY <1>1, <1>2, PTL DEF MCSpec

(* However start, restart and stop interleave on the head, are killed and   *)
(* leave docker, ssh and rsync commands of theirs running: each change to   *)
(* the pair of containers is made for the one command that has the cluster  *)
(* lock, or is that of a command to the worker whose ssh an earlier owner   *)
(* lost, which takes effect once at most and never on the head; and the     *)
(* lock passes from one to the next only by being free (with_cluster_lock,  *)
(* launch_cluster and stop_containers of start.sh).                         *)
THEOREM LockFollowed == MCSpec => OwnerOnly
<1>1. MCInit => Owner!Init
  BY InitFollows DEF MCInit
<1>2. IInv /\ IInv' /\ [MCNext]_<<part, vars, packvars, lvars>>
        => [Owner!Next]_<<Holder, Built, Behind>>
  BY PartSteps, StepFollows DEF Commanded
<1> QED BY <1>1, <1>2, ClusterSafety, PTL DEF MCSpec, OwnerOnly, Owner!Spec

(* What is published and served is whole after any number of failed or      *)
(* killed builds (build_dense_h3 of start.sh).                              *)
THEOREM PackStaysWhole == MCSpec => []PackWhole
<1>1. MCInit => PackInv
  BY PackInitInv DEF MCInit
<1>2. PackInv /\ [MCNext]_<<part, vars, packvars, lvars>> => PackInv'
  BY PartSteps, PackNextInv
<1>3. PackInv => PackWhole
  BY PackInvWhole DEF PackWhole
<1> QED BY <1>1, <1>2, <1>3, PTL DEF MCSpec

(* The page cache of a load of any number of shards and any depth stays     *)
(* within its window, and what is mapped or ahead is kept, wherever the     *)
(* load is abandoned (patch_loadclone.py).                                  *)
THEOREM LoadKeepsPages == MCSpec => []PagesKept
<1>1. MCInit => LoadInv
  BY LoadParameters, LoadInitInv DEF MCInit
<1>2. LoadInv /\ [MCNext]_<<part, vars, packvars, lvars>> => LoadInv'
  BY LoadParameters, PartSteps, LoadNextInv
<1>3. LoadInv => PagesKept
  BY LoadParameters, LoadInvKeeps DEF PagesKept
<1> QED BY <1>1, <1>2, <1>3, PTL DEF MCSpec
=============================================================================
