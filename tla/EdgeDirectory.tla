---------------------------- MODULE EdgeDirectory ----------------------------
(***************************************************************************)
(* How a head becomes the current head of the edge: the registration in    *)
(* burn_dragon_p2p_native.rs (register_live_head_with_edge_options) and    *)
(* the roll-out of a directory by an administrator (admin_rollout_profile  *)
(* and admin.rs).  Both fetch the directory as a whole, change their entry *)
(* and write the whole back.                                               *)
(*                                                                         *)
(* The edge is external.  A call may fail before it takes effect or after. *)
(***************************************************************************)
EXTENDS PeerHeads

Registrants == {"mirror", "trainer"}

VARIABLES
    artifacts,      \* heads whose artifact the edge has mirrored
    live,           \* the edge's head set
    directory,      \* current_head_id of the entry
    registration,   \* of each registrant: its head and the call that is next
    rollout,        \* the administrator's: the entry to write and the call that is next
    writer          \* history: who knows that the entry is its own; None after a lost answer

edgeVars == <<artifacts, live, directory, registration, rollout, writer>>

Stages == {"idle", "artifact", "live", "fetch", "rollout", "done", "failed"}

NoRegistration == [stage |-> "idle", head |-> None]
NoRollout == [stage |-> "idle", head |-> None]

EdgeInit ==
    /\ artifacts = {}
    /\ live = {}
    /\ directory = None
    /\ registration = [r \in Registrants |-> NoRegistration]
    /\ rollout = NoRollout
    /\ writer = None

\* register_live_head_with_edge_options begins.
Register(r, h) ==
    registration' = [registration EXCEPT ![r] = [stage |-> "artifact", head |-> h]]

\* The registrant has seen the result, or is gone.
Forget(r) == registration' = [registration EXCEPT ![r] = NoRegistration]

At(r, stage) == registration[r].stage = stage
Proceed(r, stage) ==
    registration' = [registration EXCEPT ![r].stage = stage]

-----------------------------------------------------------------------------
(* The effect of each call. *)

\* mirror_peer_artifact: the edge fetches the artifact from the provider of the head.
TakeArtifact(r) == artifacts' = artifacts \cup {registration[r].head}

\* register_live_head.
TakeHead(r) == live' = live \cup {registration[r].head}

\* upsert_directory_entry_current_head on the fetched entries, rolled out.
TakeEntry(r) == directory' = registration[r].head

\* Mutant: the head is registered before its artifact is mirrored.
LiveFirst(r) ==
    /\ At(r, "artifact")
    /\ TakeHead(r)
    /\ Proceed(r, "fetch")
    /\ UNCHANGED <<artifacts, directory, rollout, writer>>

MirrorArtifact(r) ==
    /\ At(r, "artifact")
    /\ registration[r].head \in reachable
    /\ TakeArtifact(r)
    /\ Proceed(r, "live")
    /\ UNCHANGED <<live, directory, rollout, writer>>

RegisterLiveHead(r) ==
    /\ At(r, "live")
    /\ TakeHead(r)
    /\ Proceed(r, "fetch")
    /\ UNCHANGED <<artifacts, directory, rollout, writer>>

\* An entry that has the head already is not rolled out.
FetchDirectory(r) ==
    /\ At(r, "fetch")
    /\ IF directory = registration[r].head
       THEN Proceed(r, "done") /\ writer' = r
       ELSE Proceed(r, "rollout") /\ UNCHANGED writer
    /\ UNCHANGED <<artifacts, live, directory, rollout>>

RolloutEntry(r) ==
    /\ At(r, "rollout")
    /\ TakeEntry(r)
    /\ writer' = r
    /\ Proceed(r, "done")
    /\ UNCHANGED <<artifacts, live, rollout>>

\* The call is lost, or only its answer.
CallFails(r) ==
    /\ registration[r].stage \in {"artifact", "live", "fetch", "rollout"}
    /\ Proceed(r, "failed")
    /\ \/ UNCHANGED <<artifacts, live, directory, writer>>
       \/ /\ At(r, "artifact")
          /\ registration[r].head \in reachable
          /\ TakeArtifact(r)
          /\ UNCHANGED <<live, directory, writer>>
       \/ /\ At(r, "live")
          /\ TakeHead(r)
          /\ UNCHANGED <<artifacts, directory, writer>>
       \/ /\ At(r, "rollout")
          /\ TakeEntry(r)
          /\ writer' = None
          /\ UNCHANGED <<artifacts, live>>
    /\ UNCHANGED rollout

EdgeCall(r) ==
    \/ MirrorArtifact(r) \/ RegisterLiveHead(r) \/ FetchDirectory(r)
    \/ RolloutEntry(r) \/ CallFails(r)

-----------------------------------------------------------------------------
(* The administrator; also anybody who writes back the entry of this experiment with
   that of another. *)

\* What is fetched is written back later.  preserve_directory_entry_current_head
\* takes the head over unless the revision's contract changes; otherwise, to reset the
\* head, recover_directory_current_head_from_visible_roots takes the root of the
\* edge's heads, which is fetched next; a reset without a root is refused.
AdminFetch ==
    /\ "admin" \in deployed
    /\ rollout.stage = "idle"
    /\ \E h \in {directory, None} \cup (live \cap {Genesis}) :
          rollout' = [stage |-> "rollout", head |-> h]
    /\ UNCHANGED <<artifacts, live, directory, registration, writer>>

AdminRollout ==
    /\ rollout.stage = "rollout"
    /\ directory' = rollout.head
    /\ writer' = "admin"
    /\ rollout' = NoRollout
    /\ UNCHANGED <<artifacts, live, registration>>

AdminStep == AdminFetch \/ AdminRollout
=============================================================================
