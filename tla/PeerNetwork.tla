---------------------------- MODULE PeerNetwork ----------------------------
(***************************************************************************)
(* The native peers of one experiment and the edge between them: the head  *)
(* mirror, a trainer daemon, train-window-once, an administrator, and the  *)
(* swarm that promotes heads.  Any process may end at any moment, any call *)
(* to the edge may fail with or without its effect, and the directory is   *)
(* fetched, changed and written back by three writers without a lock.      *)
(***************************************************************************)
EXTENDS HeadMirror, WindowTrainers

trainerVars == <<daemonVars, onceVars>>
vars == <<headVars, edgeVars, mirrorVars, trainerVars>>

Init == HeadsInit /\ EdgeInit /\ MirrorInit /\ TrainersInit

Mirror == (MirrorStep \/ MirrorEnds) /\ UNCHANGED trainerVars

Trainers == (DaemonStep \/ DaemonEnds \/ OnceStep) /\ UNCHANGED mirrorVars

Calls ==
    /\ \E r \in Registrants : EdgeCall(r)
    /\ UNCHANGED <<headVars, mirrorVars, trainerVars>>

Administrator == AdminStep /\ UNCHANGED <<headVars, mirrorVars, trainerVars>>

Swarm == Promote /\ UNCHANGED <<edgeVars, mirrorVars, trainerVars>>

Next == Mirror \/ Trainers \/ Calls \/ Administrator \/ Swarm

Spec == Init /\ [][Next]_vars

(***************************************************************************)
(* Loops go round, calls return, the service manager restarts the mirror,  *)
(* validators promote what was trained, and a sync that is made again and  *)
(* again returns the canonical head.  Nothing is promised of the trainers' *)
(* training, the administrator, or anybody's survival.                     *)
(***************************************************************************)
Fairness ==
    /\ WF_vars(MirrorStep /\ UNCHANGED trainerVars)
    /\ SF_vars(MirrorSyncLatest /\ UNCHANGED trainerVars)
    /\ WF_vars(EdgeCall("mirror") /\ UNCHANGED <<headVars, mirrorVars, trainerVars>>)
    /\ WF_vars(Swarm)
    /\ WF_vars(DaemonStep /\ UNCHANGED mirrorVars)
    /\ SF_vars(DaemonSyncLatest /\ UNCHANGED mirrorVars)

FairSpec == Spec /\ Fairness

-----------------------------------------------------------------------------
(* Properties. *)

\* The head that the directory names is in the edge's head set and the edge has its
\* artifact, whoever wrote the directory, from however old a copy, and whatever
\* failed on the way (.github/actions/wait-for-canonical-head/action.yml waits for it).
AdvertisedIsServed ==
    directory # None => directory \in live /\ directory \in artifacts

\* "waits for canonical advancement before opening the next local window"
\* (docs/p2p-production-readiness.md): while it lives, a daemon completes one window
\* for a head at most, and after one for a promoted head only windows for later ones.
\* After a window for a head that nobody has promoted, which it may have started from,
\* any canonical head counts as the advance, an older one too.
OneWindowPerBase ==
    [][daemon = "training" /\ daemon' = "settle" =>
          /\ base \notin opened
          /\ \A o \in opened \cap Promoted : o < base]_vars

\* A daemon that waits for the canonical head trains on or ends, however many heads
\* were promoted between two of its syncs.
WaitEnds == pending # None ~> (pending = None \/ daemon = "off")

\* The mirror lives and nobody else writes the directory.
Calm == mirror # "off" /\ rollout.stage = "idle" /\ once = "off"

\* A call of the mirror fails for another reason than that the provider is gone.
CallLost ==
    LET call == registration["mirror"]
    IN  /\ registration'["mirror"].stage = "failed"
        /\ call.stage # "failed"
        /\ ~(call.stage = "artifact" /\ call.head \notin reachable)

\* Neither the storage nor the network answers: the head is initialised anew.
StartsOver == stored # None /\ Newer(stored, stored')

\* Once it is calm and these faults are over, the mirror has registered a head that is
\* as new as the canonical one, and the directory's is, too, unless somebody else wrote
\* it after the mirror or the answer to the last write was lost.
MirrorCatchesUp ==
    <>[]Calm /\ <>[][~CallLost /\ ~StartsOver]_vars =>
        <>[](/\ registered # None /\ ~Newer(Canonical, registered)
             /\ writer = "mirror" => directory # None /\ ~Newer(Canonical, directory))
=============================================================================
