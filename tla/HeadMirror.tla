----------------------------- MODULE HeadMirror -----------------------------
(***************************************************************************)
(* The head mirror of the bootstrap host, run_prepared_head_mirror in      *)
(* burn_dragon_p2p_native.rs, started with --restore-head-on-start and     *)
(* --initialize-head-on-start and restarted whenever it ends               *)
(* (deploy/terraform/aws/templates/bootstrap-head-mirror.service.tftpl).   *)
(*                                                                         *)
(* A pass syncs the promoted head, looks for a newer one among the         *)
(* announcements, and registers the newer of the two with the edge unless  *)
(* it has done so; where the newer one cannot be mirrored it falls back to *)
(* its own.                                                                *)
(***************************************************************************)
EXTENDS EdgeDirectory

VARIABLES
    mirror,       \* where the loop stands; "off" without a process
    stored,       \* the head in the mirror's storage
    view,         \* the head its node holds
    registered    \* edge_registered_head_id

mirrorVars == <<mirror, stored, view, registered>>

MirrorPc == {"off", "sync", "choose", "register"}

MirrorInit ==
    /\ mirror = "off"
    /\ stored = None
    /\ view = None
    /\ registered = None

MirrorStart ==
    /\ "mirror" \in deployed
    /\ mirror = "off"
    /\ mirror' = "sync"
    /\ UNCHANGED <<stored, view, registered, headVars, edgeVars>>

\* Restored, synced or else initialised; errors of either call count as nothing.
Adopts(restored, synced) ==
    LET selected == Selected(restored, synced)
    IN  IF selected = None THEN Genesis ELSE selected

SyncTo(restored, synced) ==
    /\ mirror = "sync"
    /\ stored' = Adopts(restored, synced)
    /\ view' = stored'
    /\ mirror' = "choose"
    /\ UNCHANGED <<registered, headVars, edgeVars>>

MirrorSync ==
    \E restored \in {None, stored}, synced \in Synced(view) :
        SyncTo(restored, synced)

\* What happens again and again: the storage is readable and the network answers.
MirrorSyncLatest == SyncTo(stored, Canonical)

\* latest_visible_promoted_head_announcement: any announced head newer than the local
\* one, promoted or not.
Visible == {h \in Known : Newer(h, stored)}

\* The head of this pass.
Candidate == IF Visible # {} THEN Newest(Visible) ELSE stored

MirrorChoose ==
    /\ mirror = "choose"
    /\ IF registered = Candidate
       THEN mirror' = "sync" /\ UNCHANGED registration
       ELSE mirror' = "register" /\ Register("mirror", Candidate)
    /\ UNCHANGED <<stored, view, registered, headVars, artifacts, live, directory,
                   rollout, writer>>

MirrorRegistered ==
    /\ mirror = "register"
    /\ At("mirror", "done")
    /\ registered' = registration["mirror"].head
    /\ Forget("mirror")
    /\ mirror' = "sync"
    /\ UNCHANGED <<stored, view, headVars, artifacts, live, directory, rollout,
                   writer>>

\* Mutant: a mirror that has registered anything does not fall back.
FallbackOnce(failed) == failed # stored /\ registered = None

\* should_register_edge_local_fallback.
ShouldFallBack(failed) == failed # stored /\ registered # stored

MirrorFallsBack ==
    /\ mirror = "register"
    /\ At("mirror", "failed")
    /\ IF ShouldFallBack(registration["mirror"].head)
       THEN Register("mirror", stored) /\ UNCHANGED mirror
       ELSE Forget("mirror") /\ mirror' = "sync"
    /\ UNCHANGED <<stored, view, registered, headVars, artifacts, live, directory,
                   rollout, writer>>

\* Killed, or ended by an error: of adopting, publishing or initialising its head, or
\* of the runtime.
MirrorEnds ==
    /\ mirror # "off"
    /\ mirror' = "off"
    /\ view' = None
    /\ registered' = None
    /\ Forget("mirror")
    /\ UNCHANGED <<stored, headVars, artifacts, live, directory,
                   rollout, writer>>

MirrorStep ==
    \/ MirrorStart \/ MirrorSync \/ MirrorChoose \/ MirrorRegistered
    \/ MirrorFallsBack
=============================================================================
