------------------------------- MODULE PackBuild -------------------------------
(***************************************************************************)
(* The one-off build of the dense-EXL3 pair (build_dense_h3 of start.sh    *)
(* with tools/dense_overlay.py, stage_dense_h3.py and pack_profile.py):    *)
(* the quantized draft, the overlay fetched next to the downloaded         *)
(* snapshot, its staging under the revision of its own contents, and the   *)
(* reference a start selects it by.  Every step may be the last one of its *)
(* run; the next run starts from the files the earlier ones left.          *)
(*                                                                         *)
(* A directory is what can be told apart of it: the fetched tensors        *)
(* ("dense"), the configuration ("cfg") and the files of the snapshot that *)
(* are linked beside them ("links").  A revision is a hash of the files,   *)
(* so it is modelled by the contents.                                      *)
(***************************************************************************)
EXTENDS Naturals

CONSTANT MaxFaults      \* failed or killed runs (bound)

VARIABLES
    headers,    \* cache of the remote headers: none, cut or whole
    draft,      \* snapshots/<pinned draft revision> is there
    overlay,    \* snapshots/.glm53-dense-h3-build
    marker,     \* overlay.complete names the inputs of this build
    snaps,      \* published contents of the target
    ref,        \* refs/<ref>: none, cut, or contents
    rev,        \* the revision this run is staging
    pc,
    faults,
    hit,        \* this run met a fault
    torn        \* a run was killed while it removed a finished build

files == <<headers, draft, overlay, marker, snaps, ref>>
packvars == <<files, rev, pc, faults, hit, torn>>

Absent == [dense |-> "none", cfg |-> "none", links |-> "none"]
Cut == [dense |-> "cut", cfg |-> "none", links |-> "none"]

Go(label) == pc' = label
Dies == pc' = "died"
Fault == faults < MaxFaults /\ faults' = faults + 1 /\ hit' = TRUE

PackInit ==
    /\ headers = "none" /\ draft = FALSE
    /\ overlay = Absent /\ marker = FALSE
    /\ snaps = {} /\ ref = Absent
    /\ rev = Absent /\ pc = "select"
    /\ faults = 0 /\ hit = FALSE /\ torn = FALSE

(* select_dense_h3, before and after the build                             *)
Select ==
    /\ pc \in {"select", "reselect"}
    /\ IF ref \in snaps THEN Go("resolve")
       ELSE IF pc = "select" THEN Go("draft") ELSE Dies
    /\ UNCHANGED <<headers, draft, overlay, marker, snaps, ref, rev, faults, hit, torn>>

(* The draft is quantized into a work directory, copied to a staging one   *)
(* that is made anew, renamed to its revision, and compared with the pin.  *)
StageDraft ==
    /\ pc = "draft"
    /\ draft' = TRUE
    /\ Go("overlay")
    /\ UNCHANGED <<headers, overlay, marker, snaps, ref, rev, faults, hit, torn>>

(* Mutant: an overlay that is there is taken for a finished one.           *)
Reusable_Present == overlay # Absent

Reusable == overlay # Absent /\ marker

KeepOrClear ==
    /\ pc = "overlay"
    /\ IF Reusable
         THEN Go("target") /\ UNCHANGED <<overlay, marker>>
         ELSE Go("headers") /\ overlay' = Absent /\ marker' = FALSE
    /\ UNCHANGED <<headers, draft, snaps, ref, rev, faults, hit, torn>>

(* remote_headers: a cache that is there is read, whatever it holds; a     *)
(* missing one is fetched and written in place.                            *)
ReadHeaders ==
    /\ pc = "headers"
    /\ headers # "none"
    /\ IF headers = "whole" THEN Go("fetch") ELSE Dies
    /\ UNCHANGED <<headers, draft, overlay, marker, snaps, ref, rev, faults, hit, torn>>

FetchHeaders ==
    /\ pc = "headers"
    /\ headers = "none"
    /\ headers' = "cut" /\ Go("cache")
    /\ UNCHANGED <<draft, overlay, marker, snaps, ref, rev, faults, hit, torn>>

CacheHeaders ==
    /\ pc = "cache"
    /\ headers' = "whole" /\ Go("fetch")
    /\ UNCHANGED <<draft, overlay, marker, snaps, ref, rev, faults, hit, torn>>

(* link_pack, then the tensors by ranges into a file that is renamed when  *)
(* all have come; what the remote sent may not be what was pinned.         *)
LinkPack ==
    /\ pc = "fetch" /\ overlay.links = "none"
    /\ overlay' = [overlay EXCEPT !.links = "all"]
    /\ UNCHANGED <<headers, draft, marker, snaps, ref, pc, rev, faults, hit, torn>>

FetchTensors ==
    /\ pc = "fetch" /\ overlay.links = "all"
    /\ \/ overlay' = [overlay EXCEPT !.dense = "whole"] /\ UNCHANGED <<faults, hit>>
       \/ overlay' = [overlay EXCEPT !.dense = "other"] /\ Fault
    /\ Go("meta")
    /\ UNCHANGED <<headers, draft, marker, snaps, ref, rev, torn>>

(* write_pack_meta: the index, then config.json, in place.                 *)
WriteMeta ==
    /\ pc = "meta"
    /\ IF overlay.cfg = "none"
         THEN overlay' = [overlay EXCEPT !.cfg = "cut"] /\ UNCHANGED pc
         ELSE overlay' = [overlay EXCEPT !.cfg = "plain"] /\ Go("verify")
    /\ UNCHANGED <<headers, draft, marker, snaps, ref, rev, faults, hit, torn>>

(* verify and the pinned SHA-256 of the tensors                            *)
Verify ==
    /\ pc = "verify"
    /\ IF overlay.dense = "whole" THEN Go("mark") ELSE Dies
    /\ UNCHANGED <<headers, draft, overlay, marker, snaps, ref, rev, faults, hit, torn>>

Mark ==
    /\ pc = "mark"
    /\ marker' = TRUE /\ Go("target")
    /\ UNCHANGED <<headers, draft, overlay, snaps, ref, rev, faults, hit, torn>>

(* stage_target reads the configuration, then replaces it by one that      *)
(* names the paired draft.                                                 *)
ReadConfig ==
    /\ pc = "target"
    /\ IF overlay.cfg \in {"plain", "profiled"}
         THEN overlay' = [overlay EXCEPT !.cfg = "none"] /\ Go("profile")
         ELSE Dies /\ UNCHANGED overlay
    /\ UNCHANGED <<headers, draft, marker, snaps, ref, rev, faults, hit, torn>>

WriteConfig ==
    /\ pc = "profile"
    /\ IF overlay.cfg = "none"
         THEN overlay' = [overlay EXCEPT !.cfg = "cut"] /\ UNCHANGED pc
         ELSE overlay' = [overlay EXCEPT !.cfg = "profiled"] /\ Go("publish")
    /\ UNCHANGED <<headers, draft, marker, snaps, ref, rev, faults, hit, torn>>

(* publish: one rename; a build whose revision is there already is removed *)
(* instead, one file after the other.                                      *)
Rename ==
    /\ pc = "publish" /\ overlay \notin snaps
    /\ snaps' = snaps \cup {overlay} /\ overlay' = Absent
    /\ rev' = overlay /\ Go("ref")
    /\ UNCHANGED <<headers, draft, marker, ref, faults, hit, torn>>

Remove ==
    /\ pc = "publish" /\ overlay \in snaps
    /\ overlay' = Absent
    /\ rev' = overlay /\ Go("ref")
    /\ UNCHANGED <<headers, draft, marker, snaps, ref, faults, hit, torn>>

(* ref_file.write_text: truncated, then written.                           *)
WriteRef ==
    /\ pc = "ref"
    /\ IF ref # Cut THEN ref' = Cut /\ UNCHANGED pc ELSE ref' = rev /\ Go("unmark")
    /\ UNCHANGED <<headers, draft, overlay, marker, snaps, rev, faults, hit, torn>>

Unmark ==
    /\ pc = "unmark"
    /\ marker' = FALSE /\ Go("reselect")
    /\ UNCHANGED <<headers, draft, overlay, snaps, ref, rev, faults, hit, torn>>

(* resolve_pack_profile: every indexed tensor is there, the configuration  *)
(* names the pair, and the paired draft is there too.                      *)
Resolve ==
    /\ pc = "resolve"
    /\ IF ref.dense # "none" /\ ref.cfg = "profiled" /\ draft THEN Go("served") ELSE Dies
    /\ UNCHANGED <<files, rev, faults, hit, torn>>

(* The remote does not answer, or the quantization fails.                  *)
Fails ==
    /\ pc \in {"draft", "headers", "fetch"}
    /\ pc = "headers" => headers = "none"
    /\ Fault /\ Dies
    /\ UNCHANGED <<files, rev, torn>>

(* The run is killed; while it removes a finished build, with any of its   *)
(* files gone.                                                             *)
Killed ==
    /\ pc \notin {"died", "down", "served"}
    /\ Fault
    /\ Go("down")
    /\ IF pc = "publish" /\ overlay \in snaps
         THEN \E left \in [dense : {overlay.dense, "none"}, cfg : {overlay.cfg, "none"},
                          links : {overlay.links, "none"}] :
                overlay' = left /\ torn' = (torn \/ left # overlay)
         ELSE UNCHANGED <<overlay, torn>>
    /\ UNCHANGED <<headers, draft, marker, snaps, ref, rev>>

Rerun ==
    /\ pc \in {"died", "down", "served"}
    /\ Go("select") /\ hit' = FALSE /\ rev' = Absent
    /\ UNCHANGED <<files, faults, torn>>

PackNext ==
    \/ Select \/ StageDraft \/ KeepOrClear \/ ReadHeaders \/ FetchHeaders \/ CacheHeaders
    \/ LinkPack \/ FetchTensors \/ WriteMeta \/ Verify \/ Mark \/ ReadConfig \/ WriteConfig
    \/ Rename \/ Remove \/ WriteRef \/ Unmark \/ Resolve \/ Fails \/ Killed \/ Rerun

PackSpec == PackInit /\ [][PackNext]_packvars

(* Whatever runs failed or were killed before, and wherever, the pair that *)
(* is served, and any build that was published, has the pinned tensors and *)
(* the configuration that names its draft; the other files of the snapshot *)
(* are there too unless a run was killed while it removed a build it had   *)
(* published before, which nothing checks afterwards.                      *)
PackWhole ==
    /\ \A s \in snaps : ~torn => s = [dense |-> "whole", cfg |-> "profiled", links |-> "all"]
    /\ pc = "served" => ref.dense = "whole" /\ ref.cfg = "profiled" /\ draft

(* As start.sh says of a build that failed, "(re-run to retry)": a run     *)
(* that meets no fault does not end in a failure, whatever runs before it  *)
(* left.                                                                   *)
NoStuckBuild == pc = "died" => hit
=============================================================================
