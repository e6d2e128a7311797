---------------------------- MODULE SnapshotSync ----------------------------
(***************************************************************************)
(* sync_weights of start.sh: the snapshot to serve is chosen on the head,  *)
(* checked there, copied to the worker, checked there and then resolved    *)
(* for the launch.  A marker on the worker claims a completed copy.        *)
(* ./start.sh download takes no lock and may move refs/main at any time.   *)
(* A change of the marker whose ssh is gone may still come (Launcher).     *)
(***************************************************************************)
EXTENDS Launcher

CONSTANTS Revisions, Partial, Complete

ASSUME RevisionsAssumption == Revisions # {} /\ None \notin Revisions

VARIABLES
    pinned,     \* MODEL_SNAPSHOT of a preset, None to follow refs/main
    main,       \* refs/main of the head's cache
    have,       \* revision |-> the head's snapshot: None, Partial, Complete
    copy,       \* the revisions of which the worker has every file whole
    marker,     \* .glm53-exl3-synced on the worker
    rev,        \* command |-> the revision it syncs
    use,        \* command |-> the revision it launches
    lost        \* revisions of which the worker lost a shard

syncvars == <<pinned, main, have, copy, marker, rev, use, lost>>
vars == <<launchvars, syncvars>>

SyncInit ==
    /\ main = CHOOSE r \in Revisions : TRUE
    /\ pinned \in {None, main}
    /\ have = [r \in Revisions |-> IF r = main THEN Complete ELSE None]
    /\ copy \in SUBSET {main}
    /\ marker \in {None} \cup copy
    /\ rev = [c \in Commands |-> None] /\ use = [c \in Commands |-> None]
    /\ lost = {}

Chosen == IF pinned # None THEN pinned ELSE main

At(c, step) == pc[c] = step /\ Alive(c)
Moves(c, step) == pc' = [pc EXCEPT ![c] = step] /\ UNCHANGED kin
Dies(c) == Ends(c, "died")

(* snapshot_required_sizes on the head, before the worker is touched.      *)
Inventory(c) ==
    /\ At(c, "inventory")
    /\ rev' = [rev EXCEPT ![c] = Chosen]
    /\ IF have[Chosen] = Complete THEN Moves(c, "marker") ELSE Dies(c)
    /\ UNCHANGED <<pinned, main, have, copy, marker, use, lost>>

(* A matching marker is honoured only with the probe behind it.            *)
Honoured(c) == marker = rev[c] /\ rev[c] \in copy

(* A failed ssh reads as no marker, and so does FORCE_SYNC=1.              *)
Marker(c) ==
    /\ At(c, "marker")
    /\ \/ Honoured(c) /\ Moves(c, "resolve")
       \/ Moves(c, "clear")
    /\ UNCHANGED <<pinned, main, have, copy, marker, rev, use, lost>>

Cleared == None

(* c's own change of the marker, or an ssh that fails and ends the start:  *)
(* the change is not made, or left behind.                                 *)
Marks(value) == marker' = value /\ struck' = struck \ {"marker"} /\ UNCHANGED <<late, faults>>

MarkFails(c) ==
    /\ Dies(c)
    /\ \/ UNCHANGED <<late, faults>>
       \/ LeftBehind(c, {pc[c]}) /\ faults < MaxFaults /\ faults' = faults + 1
    /\ UNCHANGED <<marker, struck>>

(* rm -f of the marker; rsync follows.                                     *)
Clear(c) ==
    /\ At(c, "clear")
    /\ \/ /\ Marks(Cleared)
          /\ pc' = [pc EXCEPT ![c] = "rsync"]
          /\ kin' = [kin EXCEPT ![c] = @ \cup {"rsync"}]
       \/ MarkFails(c)
    /\ UNCHANGED <<pinned, main, have, copy, rev, use, lost>>

(* rsync returns, or is cut off and leaves a revision in pieces; it may    *)
(* return over a link whose target the worker never gets.  Without its     *)
(* shell nobody looks at the result.                                       *)
Rsync(c) ==
    /\ "rsync" \in kin[c]
    /\ \/ /\ copy' \in {copy, copy \cup {r \in Revisions : have[r] = Complete}}
          /\ IF Alive(c) THEN /\ pc' = [pc EXCEPT ![c] = "verify"]
                              /\ kin' = [kin EXCEPT ![c] = @ \ {"rsync"}]
             ELSE kin' = [kin EXCEPT ![c] = {}] /\ UNCHANGED pc
       \/ /\ \E r \in Revisions : have[r] # None /\ copy' = copy \ {r}
          /\ kin' = [kin EXCEPT ![c] = {}]
          /\ pc' = [pc EXCEPT ![c] = IF Alive(c) THEN "died" ELSE @]
    /\ UNCHANGED <<pinned, main, have, marker, rev, use, lost>>

(* Mutant: what rsync returned is taken for a whole copy.                  *)
Verified_Trusted(c) == TRUE

(* Every file of the inventory is there, at the head's size.               *)
Verified(c) == rev[c] \in copy

Verify(c) ==
    /\ At(c, "verify")
    /\ IF Verified(c) THEN Moves(c, "stamp") ELSE Dies(c)
    /\ UNCHANGED <<pinned, main, have, copy, marker, rev, use, lost>>

Stamp(c) ==
    /\ At(c, "stamp")
    /\ \/ Marks(rev[c]) /\ Moves(c, "resolve")
       \/ MarkFails(c)
    /\ UNCHANGED <<pinned, main, have, copy, rev, use, lost>>

(* A change of the marker that was left behind is made, whoever syncs.     *)
StraysMark(c, a) ==
    /\ <<c, a, a>> \in late
    /\ late' = late \ {<<c, a, a>>}
    /\ marker' = IF a = "clear" THEN Cleared ELSE rev[c]
    /\ struck' = struck \cup {"marker"}
    /\ UNCHANGED <<pinned, main, have, copy, rev, use, lost>>

Resolved == Chosen

(* resolve_model_dir: refs/main is read again, config.json looked for on   *)
(* the head alone.                                                         *)
Resolve(c) ==
    /\ At(c, "resolve")
    /\ use' = [use EXCEPT ![c] = Resolved]
    /\ IF have[Resolved] = None THEN Dies(c) /\ UNCHANGED todo
       ELSE Moves(c, "launch") /\ todo' = [todo EXCEPT ![c] = Launching]
    /\ UNCHANGED <<pinned, main, have, copy, marker, rev, lost>>

Sync(c) ==
    \/ Inventory(c) \/ Marker(c) \/ Rsync(c) \/ Verify(c)

(***************************************************************************)
(* The world: downloads to the head, losses on the worker's disk.          *)
(***************************************************************************)
(* The Hub client writes refs/main before the files of the revision.       *)
Download(r) ==
    /\ have[r] = None /\ faults < MaxFaults
    /\ faults' = faults + 1
    /\ main' = r
    /\ have' = [have EXCEPT ![r] = Partial]
    /\ UNCHANGED <<pinned, copy, marker, rev, use, lost>>

Downloaded(r) ==
    /\ have[r] = Partial
    /\ have' = [have EXCEPT ![r] = Complete]
    /\ UNCHANGED faults
    /\ UNCHANGED <<pinned, main, copy, marker, rev, use, lost>>

(* A shard is lost while no command is between its check and its launch.   *)
Loss(r) ==
    /\ r \in copy /\ faults < MaxFaults
    /\ \A c \in Commands : pc[c] \in {"new", "preflight", "inventory", "marker", "stop", "restart"} \cup Over
    /\ Free \/ \E c \in Commands : Alive(c)
    /\ faults' = faults + 1
    /\ copy' = copy \ {r}
    /\ lost' = lost \cup {r}
    /\ UNCHANGED <<pinned, main, have, marker, rev, use>>

World == \E r \in Revisions : Download(r) \/ Downloaded(r) \/ Loss(r)

Init == LauncherInit /\ SyncInit

Next ==
    \/ LauncherNext /\ UNCHANGED syncvars
    \/ \E c \in Commands :
         \/ Sync(c) /\ UNCHANGED <<todo, wvars, miss, noise, faults>>
         \/ (Clear(c) \/ Stamp(c)) /\ UNCHANGED <<todo, pair, miss, noise>>
         \/ Resolve(c) /\ UNCHANGED <<wvars, miss, noise, faults>>
         \/ /\ \E a \in Marking : StraysMark(c, a)
            /\ UNCHANGED <<pc, todo, kin, pair, miss, noise, faults>>
    \/ World /\ UNCHANGED <<pc, todo, kin, wvars, miss, noise>>

(* The shell goes on probing: a command is under no obligation to time     *)
(* out, nor the engine to come up.                                         *)
Fairness == \A c \in Commands : WF_vars(Check(c) /\ UNCHANGED syncvars)

Spec == Init /\ [][Next]_vars /\ Fairness

(***************************************************************************)
(* Properties.                                                             *)
(***************************************************************************)

(* A start launches on a copy the worker has whole, marker or not, loss,   *)
(* kill or download or not, as long as it launches what it checked.        *)
LaunchedWhole ==
    \A c \in Commands :
        pc[c] \in {"launch", "wait", "warm"} /\ use[c] = rev[c] => use[c] \in copy

(* A preset's pin makes it launch what it checked.                         *)
PinHolds ==
    \A c \in Commands :
        pc[c] \in {"launch", "wait", "warm"} /\ pinned # None => use[c] = rev[c]

(* No marker stands on the worker while a copy is being written there, nor *)
(* after one that was cut off, until a later one was verified; one that a  *)
(* command left behind wrote is worth nothing (and is not trusted: the     *)
(* copy behind a marker is probed).                                        *)
MarkerVouches ==
    "marker" \notin struck =>
      /\ \A c \in Commands : "rsync" \in kin[c] => marker = None
      /\ marker \notin lost \cup {None} => marker \in copy

(* What the inventory, the marker and the probe of sync_weights vouch for. *)
CopyTrusted == LaunchedWhole /\ PinHolds /\ MarkerVouches
=============================================================================
