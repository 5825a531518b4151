--------------------------- MODULE WindowTrainers ---------------------------
(***************************************************************************)
(* The trainers of artifact windows in burn_dragon_p2p_native.rs: the      *)
(* trainer daemon (run_prepared_peer with a trainer_daemon policy) and     *)
(* train-window-once (run_prepared_train_window_once).                     *)
(***************************************************************************)
EXTENDS EdgeDirectory

CONSTANTS MaxFailures,   \* max_consecutive_failures
          MaxSteps       \* max_protocol_steps

ASSUME TrainerAssumption ==
    /\ MaxFailures \in Nat \ {0}
    /\ MaxSteps \in Nat \ {0}

VARIABLES
    daemon,      \* where the daemon's loop stands; "off" without a process
    served,      \* served_head_id, which its node holds
    pending,     \* pending_artifact_base_head
    base,        \* the head the window in hand is trained on
    failures,    \* consecutive_training_failures
    completed,   \* completed_protocol_steps
    opened,      \* history: bases of the windows this process has completed
    once,        \* where train-window-once stands
    window       \* its base, then its head

daemonVars == <<daemon, served, pending, base, failures, completed, opened>>
onceVars == <<once, window>>

DaemonPc == {"off", "sync", "limit", "train", "training", "settle"}
OncePc == {"off", "train", "settle", "register"}

TrainersInit ==
    /\ daemon = "off"
    /\ served = None
    /\ pending = None
    /\ base = None
    /\ failures = 0
    /\ completed = 0
    /\ opened = {}
    /\ once = "off"
    /\ window = None

\* What a trainer may start from: a promoted head, one that the directory names or
\* named when it last ran, or a window it announced itself and finds in its storage.
StartHeads(by) == {h \in Known : heads[h].by \in {"swarm", by} \/ h \in live}

-----------------------------------------------------------------------------
(* The daemon. *)

\* DirectoryCurrent at first, unless a head of the storage has more steps or the sync
\* fails: what is served need not be promoted.
DaemonStart ==
    /\ "daemon" \in deployed
    /\ daemon = "off"
    /\ served' \in {None} \cup StartHeads("daemon")
    /\ Serves(served', "daemon")
    /\ daemon' = "sync"
    /\ UNCHANGED <<pending, base, failures, completed, opened, onceVars, edgeVars>>

\* Mutant: any head that a sync returns counts as the advance.
AnyAdvance(latest) == latest # None

\* Mutant: only a head that was made from the pending one does.
ChildAdvance(latest) == latest # None /\ heads[latest].parent = pending

\* The sync has returned another head than the one the window was trained on.
Advanced(latest) == latest # None /\ latest # pending

SyncsTo(latest) ==
    /\ daemon = "sync"
    /\ served' = IF latest = None THEN served ELSE latest
    /\ pending' = IF pending # None /\ Advanced(latest) THEN None ELSE pending
    /\ daemon' = "limit"
    /\ UNCHANGED <<base, failures, completed, opened, onceVars, headVars, edgeVars>>

DaemonSync == \E latest \in Synced(served) : SyncsTo(latest)

DaemonSyncLatest == SyncsTo(Canonical)

\* Between two syncs the loop goes round without one, unless a window is pending.
DaemonSkipsSync ==
    /\ daemon = "sync"
    /\ pending = None
    /\ daemon' = "limit"
    /\ UNCHANGED <<served, pending, base, failures, completed, opened, onceVars,
                   headVars, edgeVars>>

LimitReached == completed >= MaxSteps /\ pending = None

\* The process is gone, and with it the provider of its windows.
DaemonGone ==
    /\ daemon' = "off"
    /\ served' = None
    /\ pending' = None
    /\ base' = None
    /\ failures' = 0
    /\ completed' = 0
    /\ opened' = {}
    /\ Leaves("daemon")
    /\ UNCHANGED <<onceVars, edgeVars>>

DaemonStops ==
    /\ daemon = "limit"
    /\ LimitReached
    /\ DaemonGone

\* trainer_daemon_step_eligible; the roles, the connections and the pause after the
\* last step are the environment's.
DaemonLooks ==
    /\ daemon = "limit"
    /\ ~LimitReached
    /\ \/ daemon' = "sync"
       \/ served # None /\ pending = None /\ daemon' = "train"
    /\ UNCHANGED <<served, pending, base, failures, completed, opened, onceVars,
                   headVars, edgeVars>>

\* train_protocol_once takes the head its node holds by then.
DaemonOpens ==
    /\ daemon = "train"
    /\ base' \in {served} \cup (Synced(served) \ {None})
    /\ served' = base'
    /\ daemon' = "training"
    /\ UNCHANGED <<pending, failures, completed, opened, onceVars, headVars, edgeVars>>

DaemonCompletes ==
    /\ daemon = "training"
    /\ Publish(base, "daemon")
    /\ opened' = opened \cup {base}
    /\ failures' = 0
    /\ completed' = completed + 1
    /\ daemon' = "settle"
    /\ UNCHANGED <<served, pending, base, onceVars, edgeVars>>

\* The error may come after the window was published.
DaemonFails ==
    /\ daemon = "training"
    /\ failures + 1 < MaxFailures
    /\ Publish(base, "daemon") \/ UNCHANGED headVars
    /\ failures' = failures + 1
    /\ base' = None
    /\ daemon' = "sync"
    /\ UNCHANGED <<served, pending, completed, opened, onceVars, edgeVars>>

DaemonGivesUp ==
    /\ daemon = "training"
    /\ failures + 1 >= MaxFailures
    /\ DaemonGone

\* advance_diffusion_steady_state promotes, or its error is put off.
DaemonSettles ==
    /\ daemon = "settle"
    /\ Promote \/ UNCHANGED headVars
    /\ pending' = base
    /\ base' = None
    /\ daemon' = "sync"
    /\ UNCHANGED <<served, failures, completed, opened, onceVars, edgeVars>>

\* Killed, or ended by an error: of a sync, of announcing its head, of the runtime.
DaemonEnds ==
    /\ daemon # "off"
    /\ DaemonGone

DaemonStep ==
    \/ DaemonStart \/ DaemonSync \/ DaemonSkipsSync \/ DaemonStops \/ DaemonLooks
    \/ DaemonOpens \/ DaemonCompletes \/ DaemonFails \/ DaemonGivesUp
    \/ DaemonSettles

-----------------------------------------------------------------------------
(* train-window-once. *)

\* wait_for_head_provider: the directory's head, one of its own storage, or a genesis
\* where the first sync fails.
OnceStart ==
    /\ "trainer" \in deployed
    /\ once = "off"
    /\ window' \in StartHeads("trainer")
    /\ Serves(window', "trainer")
    /\ once' = "train"
    /\ UNCHANGED <<daemonVars, edgeVars>>

OnceTrains ==
    /\ once = "train"
    /\ Publish(window, "trainer")
    /\ window' = Len(heads')
    /\ once' = "settle"
    /\ UNCHANGED <<daemonVars, edgeVars>>

\* After its settlement passes it registers its own head, whatever was promoted.
OnceRegisters ==
    /\ once = "settle"
    /\ Register("trainer", window)
    /\ once' = "register"
    /\ window' = None
    /\ UNCHANGED <<daemonVars, headVars, artifacts, live, directory, rollout,
                   writer>>

\* The end of the registration, or of the process at any other point.
OnceEnds ==
    /\ once # "off"
    /\ Forget("trainer")
    /\ Leaves("trainer")
    /\ once' = "off"
    /\ window' = None
    /\ UNCHANGED <<daemonVars, artifacts, live, directory, rollout, writer>>

OnceStep == OnceStart \/ OnceTrains \/ OnceRegisters \/ OnceEnds
=============================================================================
