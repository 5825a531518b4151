--------------------------- MODULE CheckpointBundle ---------------------------
(***************************************************************************)
(* The checkpoints of the dynamic trainer:                                 *)
(* train_with_dynamic_neuron_scaling_scheduler in                          *)
(* burn_dragon_language/src/train/schedule.rs, with the resolution of a    *)
(* checkpoint in burn_dragon_checkpoint/src/run.rs.                        *)
(*                                                                         *)
(* An epoch is trained, validated, saved as a bundle of files written one  *)
(* after the other, the policies look for regressions, old bundles are     *)
(* pruned, and a requested rollback loads an older bundle.  The process    *)
(* may die before any file and in the middle of one; a later one resumes   *)
(* from a bundle, exactly or as well as it can.                            *)
(***************************************************************************)
EXTENDS Naturals, Sequences

CONSTANTS MaxEpoch,    \* env.epochs
          KeepLast,    \* CHECKPOINT_KEEP_LAST
          MaxStarts,   \* bound: how often the run is started or resumed
          FewerStarts, \* bound: the same where resumes may go back or there is a teacher
          GateModes,   \* the modes asked for without a rollback
          None         \* Option::None

ASSUME BundleAssumption ==
    /\ MaxEpoch \in Nat \ {0}
    /\ KeepLast \in Nat \ {0}
    /\ MaxStarts \in Nat \ {0}
    /\ FewerStarts \in 1 .. MaxStarts
    /\ None \notin Nat

\* No resumption is none.
ASSUME NoneAssumption == None \notin {"latest", "exact"}

(***************************************************************************)
(* The files of a bundle in the order they are written.  "runtime-state"   *)
(* stands for itself and teacher-model, "optimizer" for itself, scheduler, *)
(* dynamics and model-config, "source-selection-state" for itself and the  *)
(* context routing files: the files of a group are written together.  A    *)
(* group that a crash cuts off between two files is Torn when the load     *)
(* stumbles over it, as it does over a runtime-state without its teacher,  *)
(* and otherwise like one that is complete: what lacks is skipped.         *)
(***************************************************************************)
Artifacts == <<"model", "runtime-state", "optimizer", "source-selection-state",
               "stability", "training-ecs-state">>

Kinds == {Artifacts[i] : i \in DOMAIN Artifacts}
TrainingState == 4    \* artifacts written before the policies look
Atomic == {"stability", "training-ecs-state"}   \* written aside and renamed
OptionalExact == {"optimizer"}      \* skipped when missing, in any mode

Epochs == 1 .. MaxEpoch
Missing == 0
Torn == MaxStarts + 1
Modes == GateModes \cup {"stable", "rollback"}    \* DynamicsMode

VARIABLES
    execution,   \* validation.execution of this run: "local" or "external"
    rewinds,     \* the operator may name an epoch behind a usable one
    teacher,     \* the model has a teacher; like the other two, never changes
    disk,        \* disk[e][k]: the start that wrote the file, Missing or Torn
    saved,       \* saved[e]: the control and the stability state in the files of e
    validated,   \* epochs with a validation_finished event in the log
    start,       \* how many times the run was started
    pc,          \* where the training loop stands; "off" without a process
    epoch,       \* the epoch in hand; at "train", the last one finished
    next,        \* index in Artifacts of the file to write
    trainer,     \* model and optimizer by origin, and the active control
    best_valid_epoch,
    stability,   \* best_checkpoint_epoch and best_ruliad_checkpoint_epoch
    slot,        \* DragonDynamicsControlSlot: mode and rollback_to_epoch
    exact_only,  \* history: the run was never resumed but exactly
    course,      \* history: whether the run goes on from its latest bundle
    resumed,     \* history: how the run was resumed, until it trains
    handled      \* history: where the last epoch that was completed left the trainer

BundlePc == {"off", "train", "validate", "save", "policy", "prune", "handle",
             "done"}

\* "behind": an exact resume went behind the latest bundle, of which files may still
\* be there; "stray": the run was resumed from such files, as its latest bundle.
Courses == {"latest", "behind", "stray"}

disk_vars == <<disk, saved, validated>>
history == <<exact_only, course, resumed, handled>>
config_vars == <<execution, rewinds, teacher>>
vars == <<config_vars, disk_vars, start, pc, epoch, next, trainer,
          best_valid_epoch, stability, slot, history>>

NoControl == [mode |-> None, rollback_to_epoch |-> None]
Control(mode) == [mode |-> mode, rollback_to_epoch |-> None]
Rollback(e) == [mode |-> "rollback", rollback_to_epoch |-> e]
NoStability == [best |-> None, ruliad |-> None]
FreshTrainer(s) == [model |-> <<s, 0>>, optimizer |-> <<s, 0>>, control |-> "stable"]

-----------------------------------------------------------------------------
(* What is on disk. *)

\* Path::is_file, true of a torn file as well.
IsFile(e, k) == disk[e][k] # Missing

\* find_latest_epoch and ensure_checkpoint_exists look at the model file only.
Candidates == {e \in Epochs : IsFile(e, "model")}
IsLatest(e) == \A f \in Candidates : f <= e

\* The files a loader opens without an error: all but the torn ones.
Readable(e, ks) == \A k \in ks : disk[e][k] # Torn

\* All files of e are there and from one save.
Whole(e) == \E s \in 1 .. MaxStarts : \A k \in Kinds : disk[e][k] = s

-----------------------------------------------------------------------------
(* An epoch. *)

Init ==
    /\ execution \in {"local", "external"}
    /\ rewinds \in BOOLEAN
    /\ teacher \in BOOLEAN
    /\ disk = [e \in Epochs |-> [k \in Kinds |-> Missing]]
    /\ saved = [e \in Epochs |-> [control |-> "stable", stability |-> NoStability]]
    /\ validated = {}
    /\ start = 1
    /\ pc = "train"
    /\ epoch = 0
    /\ next = 1
    /\ trainer = FreshTrainer(1)
    /\ best_valid_epoch = None
    /\ stability = NoStability
    /\ slot = NoControl
    /\ exact_only = TRUE
    /\ course = "latest"
    /\ resumed = None
    /\ handled = [epoch |-> 0, trainer |-> FreshTrainer(1)]

\* Mutant: one epoch too many.
OneMore == epoch <= MaxEpoch

EpochsLeft == epoch < MaxEpoch

\* The steps of one epoch.  The gates of the event bus may put a control without a
\* rollback into the slot at any step, and the next step applies it.
TrainEpoch ==
    /\ pc = "train"
    /\ EpochsLeft
    /\ epoch' = epoch + 1
    /\ \E mode \in GateModes \cup {trainer.control} :
          trainer' = [model |-> <<start, epoch'>>, optimizer |-> <<start, epoch'>>,
                      control |-> mode]
    /\ slot' = NoControl
    /\ resumed' = None
    /\ next' = 1
    /\ pc' = IF execution = "local" THEN "validate" ELSE "save"
    /\ UNCHANGED <<config_vars, disk_vars, start, best_valid_epoch, stability,
                   exact_only, course, handled>>

TrainingEnds ==
    /\ pc = "train"
    /\ ~EpochsLeft
    /\ pc' = "done"
    /\ UNCHANGED <<config_vars, disk_vars, start, epoch, next, trainer,
                   best_valid_epoch, stability, slot, history>>

\* should_promote_checkpoint: a first validation without a best loss is promoted
\* unless the capability gate fails.
Validate ==
    /\ pc = "validate"
    /\ validated' = validated \cup {epoch}
    /\ \E promoted \in BOOLEAN :
          /\ best_valid_epoch' = IF promoted THEN epoch ELSE best_valid_epoch
          /\ stability' = IF promoted THEN [stability EXCEPT !.best = epoch]
                                      ELSE stability
    /\ pc' = "save"
    /\ UNCHANGED <<config_vars, disk, saved, start, epoch, next, trainer, slot,
                   history>>

-----------------------------------------------------------------------------
(* Saving the bundle. *)

\* Mutant: where validation is deferred the controller's state is not saved.
SaveTrainingState ==
    /\ pc = "save"
    /\ disk' = [disk EXCEPT ![epoch][Artifacts[next]] = start]
    /\ saved' = [saved EXCEPT ![epoch] = [control |-> trainer.control,
                                          stability |-> stability]]
    /\ next' = next + 1
    /\ pc' = IF next = Len(Artifacts) THEN "prune"
             ELSE IF next = TrainingState
                  THEN (IF execution = "local" THEN "policy" ELSE "prune")
                  ELSE "save"
    /\ UNCHANGED <<config_vars, validated, start, epoch, trainer, best_valid_epoch,
                   stability, slot, history>>

SaveArtifact ==
    /\ pc = "save"
    /\ LET k == Artifacts[next]
       IN  /\ disk' = [disk EXCEPT ![epoch][k] = start]
           /\ saved' = CASE k = "optimizer" ->
                              [saved EXCEPT ![epoch].control = trainer.control]
                         [] k = "stability" ->
                              [saved EXCEPT ![epoch].stability = stability]
                         [] OTHER -> saved
    /\ next' = next + 1
    /\ pc' = IF next = Len(Artifacts) THEN "prune"
             ELSE IF next = TrainingState /\ execution = "local" THEN "policy"
             ELSE "save"
    /\ UNCHANGED <<config_vars, validated, start, epoch, trainer, best_valid_epoch,
                   stability, slot, history>>

\* The epochs a policy may roll back to: the best one after a regression of the
\* loss, the best of the recovery metric, or else the best one, after the others.
RollbackTargets(st) ==
    {st.best, IF st.ruliad # None THEN st.ruliad ELSE st.best} \ {None}

\* update_ruliad_recovery_checkpoint and apply_continual_learning_stability_policy;
\* of several controls the slot keeps the strongest, which is a rollback.
Policies ==
    /\ pc = "policy"
    /\ \E recovered \in BOOLEAN :
          stability' = IF recovered THEN [stability EXCEPT !.ruliad = epoch]
                                    ELSE stability
    /\ \/ slot' = NoControl
       \/ \E mode \in GateModes : slot' = Control(mode)
       \/ \E e \in RollbackTargets(stability') : slot' = Rollback(e)
    /\ pc' = "save"
    /\ UNCHANGED <<config_vars, disk_vars, start, epoch, next, trainer,
                   best_valid_epoch, history>>

-----------------------------------------------------------------------------
(* Pruning, one file at a time. *)

\* Mutant: an exclusive range.
ExclusiveRange(e) ==
    {f \in Epochs : f < e /\ f + KeepLast > e}

RecentEpochs(e) ==
    {f \in Epochs : f <= e /\ f + KeepLast > e}

\* Mutant: the best epoch of the recovery metric is not protected.
KeepBest(e) ==
    RecentEpochs(e) \cup (IF execution = "local" THEN {best_valid_epoch} ELSE {})

\* Mutant: no epoch is protected.
KeepRecent(e) == RecentEpochs(e)

\* External validation protects no epoch.
Kept(e) ==
    RecentEpochs(e) \cup
        (IF execution = "local" THEN {best_valid_epoch, stability.ruliad} ELSE {})

Prunable == {f \in Epochs \ Kept(epoch) : \E k \in Kinds : IsFile(f, k)}

\* What is left of a kind: a runtime-state without its teacher is an error to whoever
\* loads it, as a torn one is.
Remains(k) == IF teacher /\ k = "runtime-state" THEN {Missing, Torn} ELSE {Missing}

PruneFile ==
    /\ pc = "prune"
    /\ \E e \in Prunable, k \in Kinds : \E left \in Remains(k) :
          /\ IsFile(e, k)
          /\ disk[e][k] # left
          /\ disk' = [disk EXCEPT ![e][k] = left]
          /\ saved' = CASE k = "optimizer" -> [saved EXCEPT ![e].control = "stable"]
                        [] k = "stability" ->
                              [saved EXCEPT ![e].stability = NoStability]
                        [] OTHER -> saved
    /\ UNCHANGED <<config_vars, validated, start, pc, epoch, next, trainer,
                   best_valid_epoch, stability, slot, history>>

PruneDone ==
    /\ pc = "prune"
    /\ Prunable = {}
    /\ execution = "local"
    /\ pc' = "handle"
    /\ UNCHANGED <<config_vars, disk_vars, start, epoch, next, trainer,
                   best_valid_epoch, stability, slot, history>>

-----------------------------------------------------------------------------
(* handle_post_validation_dynamics_control. *)

\* load_dragon_training_state_checkpoint: the model must be there, the others are
\* skipped when missing, and a file that does not parse is an error.
Loads(e) == IsFile(e, "model") /\ Readable(e, {"model", "runtime-state",
                                               "optimizer"})

target == slot.rollback_to_epoch

ModelOf(e) == <<disk[e]["model"], e>>
OptimizerOf(e, current) ==
    IF IsFile(e, "optimizer") THEN <<disk[e]["optimizer"], e>> ELSE current

FinishEpoch(t) ==
    /\ trainer' = t
    /\ handled' = [epoch |-> epoch, trainer |-> t]
    /\ course' = IF course = "behind" THEN "latest" ELSE course
    /\ slot' = NoControl
    /\ pc' = "train"
    /\ UNCHANGED <<config_vars, disk_vars, start, epoch, next, best_valid_epoch,
                   stability, exact_only, resumed>>

\* External validation goes on with the next epoch at once.
Deferred ==
    /\ pc = "prune"
    /\ Prunable = {}
    /\ execution = "external"
    /\ FinishEpoch(trainer)

HandleControl ==
    /\ pc = "handle"
    /\ target = None
    /\ FinishEpoch(IF slot.mode = None THEN trainer
                   ELSE [trainer EXCEPT !.control = slot.mode])

HandleRollback ==
    /\ pc = "handle"
    /\ target # None
    /\ Loads(target)
    /\ FinishEpoch([model |-> ModelOf(target),
                    optimizer |-> OptimizerOf(target, trainer.optimizer),
                    control |-> slot.mode])

\* The memory of the process is gone.
Dies ==
    /\ pc' = "off"
    /\ epoch' = 0
    /\ next' = 1
    /\ trainer' = FreshTrainer(1)
    /\ best_valid_epoch' = None
    /\ stability' = NoStability
    /\ slot' = NoControl
    /\ resumed' = None
    /\ UNCHANGED <<config_vars, start, exact_only, course, handled>>

\* The error leaves the training loop and ends the program.
RollbackFails ==
    /\ pc = "handle"
    /\ target # None
    /\ ~Loads(target)
    /\ Dies
    /\ UNCHANGED disk_vars

-----------------------------------------------------------------------------
(* Death and resumption. *)

\* Killed, failed to write, or interrupted.  The file being written may be left
\* torn unless it is renamed into place.
Crash ==
    /\ pc \notin {"off", "done"}
    /\ \/ UNCHANGED disk
       \/ /\ pc = "save"
          /\ Artifacts[next] \notin Atomic
          /\ disk' = [disk EXCEPT ![epoch][Artifacts[next]] = Torn]
    /\ Dies
    /\ UNCHANGED <<saved, validated>>

\* historical_best_validation: the best of the validated epochs whose model file is
\* there; the last lines of the log may be lost.
HistoricalBest(e) ==
    {None} \cup {f \in validated \cap Candidates : f <= e}

\* The trainer's state after loading bundle e; a stability file that is missing is
\* made up from the log of events.
Restore(e) ==
    /\ pc = "off"
    /\ start < IF rewinds \/ teacher THEN FewerStarts ELSE MaxStarts
    /\ Loads(e)
    /\ Readable(e, Kinds)
    /\ start' = start + 1
    /\ pc' = "train"
    /\ epoch' = e
    /\ trainer' = [model |-> ModelOf(e),
                   optimizer |-> OptimizerOf(e, <<start', 0>>),
                   control |-> IF IsFile(e, "optimizer") THEN saved[e].control
                                                        ELSE "stable"]
    /\ \E best \in HistoricalBest(e) :
          IF IsFile(e, "stability")
          THEN /\ stability' = saved[e].stability
               /\ best_valid_epoch' = IF saved[e].stability.best # None
                                      THEN saved[e].stability.best ELSE best
          ELSE /\ stability' = [best |-> best, ruliad |-> None]
               /\ best_valid_epoch' = best
    /\ UNCHANGED <<config_vars, disk_vars, next, slot, handled>>

\* launch_mode = "resume_latest_checkpoint_if_present" takes no epoch.
ResumeLatest ==
    \E e \in Candidates :
        /\ IsLatest(e)
        /\ Restore(e)
        /\ exact_only' = FALSE
        /\ course' = IF course = "latest" THEN "latest" ELSE "stray"
        /\ resumed' = "latest"

\* Mutant: an exact resume skips whatever is missing.
ExactWithout(e) == TRUE

\* What an exact resume refuses to go without.
ExactAccepts(e) == \A k \in Kinds \ OptionalExact : IsFile(e, k)

\* An exact resume from e gets through.
Usable(e) ==
    /\ IsFile(e, "model")
    /\ ExactAccepts(e)
    /\ Loads(e)
    /\ Readable(e, Kinds)

\* launch_mode = "resume_exact_run", from the latest epoch or from one that is named,
\* because a crash left the latest bundle unusable or for a reason of the operator's.
ResumeExact ==
    \E e \in Candidates :
        /\ ExactAccepts(e)
        /\ Restore(e)
        /\ rewinds \/ \A f \in Candidates : Usable(f) => f <= e
        /\ course' = IF course = "stray" \/ IsLatest(e) THEN course ELSE "behind"
        /\ resumed' = "exact"
        /\ UNCHANGED exact_only

Next ==
    \/ TrainEpoch \/ TrainingEnds \/ Validate
    \/ SaveArtifact \/ Policies
    \/ PruneFile \/ PruneDone \/ Deferred
    \/ HandleControl \/ HandleRollback \/ RollbackFails
    \/ Crash \/ ResumeLatest \/ ResumeExact

Spec == Init /\ [][Next]_vars

-----------------------------------------------------------------------------
(* Properties. *)

Origins == (1 .. MaxStarts) \X (0 .. MaxEpoch)
Trainers == [model : Origins, optimizer : Origins, control : Modes]
StabilityStates == [best : Epochs \cup {None}, ruliad : Epochs \cup {None}]

\* Types.
TypeOK ==
    /\ execution \in {"local", "external"} /\ rewinds \in BOOLEAN /\ teacher \in BOOLEAN
    /\ disk \in [Epochs -> [Kinds -> 0 .. MaxStarts + 1]]
    /\ saved \in [Epochs -> [control : Modes, stability : StabilityStates]]
    /\ validated \in SUBSET Epochs
    /\ start \in 1 .. MaxStarts
    /\ pc \in BundlePc
    /\ epoch \in 0 .. MaxEpoch
    /\ next \in 1 .. Len(Artifacts) + 1
    /\ trainer \in Trainers
    /\ best_valid_epoch \in Epochs \cup {None}
    /\ stability \in StabilityStates
    /\ slot \in [mode : Modes \cup {None}, rollback_to_epoch : Epochs \cup {None}]
    /\ exact_only \in BOOLEAN /\ course \in Courses
    /\ resumed \in {None, "latest", "exact"}
    /\ handled \in [epoch : 0 .. MaxEpoch, trainer : Trainers]

\* The bundle of the last epoch that was completed is whole until a newer one is,
\* through crashes, prunes and resumptions, where nobody resumes behind the latest
\* usable bundle: a crash costs one epoch at most.
SurvivesCrash ==
    ~rewinds /\ handled.epoch > 0 =>
        \E e \in handled.epoch .. MaxEpoch : Whole(e)

\* From the first completed epoch on there is a bundle an exact resume accepts,
\* whatever epochs the run was resumed from: what is being overwritten or pruned
\* is never the last one.
Resumable ==
    handled.epoch > 0 => \E e \in Epochs : Usable(e)

\* An exact resume never mixes saves and never goes without a file, the optional
\* ones included, where nobody resumes behind the latest usable bundle: what it requires
\* is written after all it does not require, and the latest bundle is not pruned.
ExactResumeIsWhole ==
    ~rewinds /\ resumed = "exact" => Whole(epoch)

\* In a run that was only ever resumed exactly, and never from behind the latest
\* usable bundle, a rollback finds its whole bundle:
\* pruning protects whatever the policies may still ask for.
RollbackIsWhole ==
    pc = "handle" /\ target # None /\ exact_only /\ ~rewinds => Whole(target)

\* Also in a run that is resumed from its latest bundle, as well as that can be, a
\* rollback never fails and takes the training down with it, with these exceptions: the
\* operator named an epoch behind a usable bundle (pruning may then have removed the best
\* epoch); the model has a teacher (a prune that was cut short may have removed the
\* teacher of an epoch which the log then names as the best one); or an exact resume went
\* behind the latest bundle and, before the epoch after it was completed, another one
\* took that bundle up.
RollbackLoads ==
    pc = "handle" /\ target # None /\ ~rewinds /\ ~teacher /\ course # "stray" =>
        Loads(target)

\* A run resumed exactly goes on as the run that was interrupted would have.  What
\* validation asked for after the bundle was saved is in no file.
ExactResumeContinues ==
    resumed = "exact" /\ handled.epoch = epoch => trainer = handled.trainer
=============================================================================
