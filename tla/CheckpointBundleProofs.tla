------------------------ MODULE CheckpointBundleProofs ------------------------
(***************************************************************************)
(* For any number of epochs, starts and kept bundles: a crash costs one    *)
(* epoch at most, a run can always be resumed exactly, such a resume takes *)
(* up a whole bundle, and a rollback finds the files that it loads.        *)
(***************************************************************************)
EXTENDS CheckpointBundle, TLAPS

-----------------------------------------------------------------------------
(* Types. *)

\* What the policies, and nobody else, put into the slot.
Slots ==
    {NoControl} \cup {Control(m) : m \in Modes} \cup {Rollback(e) : e \in Epochs}

\* An epoch is in hand from its training to the end of its handling, and a file is
\* next to be written while there is one.
InHand == pc \in {"validate", "save", "policy", "prune", "handle"} => epoch \in Epochs
Writing ==
    /\ pc = "validate" => next = 1
    /\ pc = "save" => next \in 1 .. 6
    /\ pc = "policy" => next = 5
AtWork == InHand /\ Writing

Types == TypeOK /\ slot \in Slots /\ AtWork

LEMMA SlotsAreTyped ==
    \A s \in Slots :
        /\ s \in [mode : Modes \cup {None}, rollback_to_epoch : Epochs \cup {None}]
        /\ s.rollback_to_epoch # None => s.mode \in Modes
BY DEF Slots, NoControl, Control, Rollback, Modes

LEMMA FreshIsTyped == \A s \in 1 .. MaxStarts : FreshTrainer(s) \in Trainers
BY BundleAssumption DEF FreshTrainer, Trainers, Origins, Modes

LEMMA SomeFiles == Kinds # {} /\ \A i \in 1 .. 6 : Artifacts[i] \in Kinds
BY DEF Kinds, Artifacts

\* A file that is there and not torn was written by some start.
LEMMA WrittenByAStart ==
    ASSUME TypeOK, NEW e \in Epochs, NEW k \in Kinds,
           IsFile(e, k), disk[e][k] # Torn
    PROVE  disk[e][k] \in 1 .. MaxStarts
<1>1. disk[e][k] \in 0 .. MaxStarts + 1
  BY DEF TypeOK
<1> QED
  BY <1>1, BundleAssumption DEF IsFile, Missing, Torn

\* What a loader takes from the files of e comes from a start and from e.
LEMMA ModelsAreOrigins ==
    ASSUME TypeOK, NEW e \in Epochs, Loads(e)
    PROVE  ModelOf(e) \in Origins
<1>1. IsFile(e, "model") /\ disk[e]["model"] # Torn /\ "model" \in Kinds
  BY SomeFiles DEF Loads, Readable, Artifacts
<1>2. disk[e]["model"] \in 1 .. MaxStarts
  BY <1>1, WrittenByAStart
<1> QED
  BY <1>2, BundleAssumption DEF ModelOf, Origins, Epochs

LEMMA OptimizersAreOrigins ==
    ASSUME TypeOK, NEW e \in Epochs, Loads(e), NEW current \in Origins
    PROVE  OptimizerOf(e, current) \in Origins
<1>1. CASE IsFile(e, "optimizer")
  <2>1. disk[e]["optimizer"] # Torn /\ "optimizer" \in Kinds
    BY SomeFiles DEF Loads, Readable, Artifacts
  <2>2. disk[e]["optimizer"] \in 1 .. MaxStarts
    BY <1>1, <2>1, WrittenByAStart
  <2> QED
    BY <1>1, <2>2, BundleAssumption DEF OptimizerOf, Origins, Epochs
<1>2. CASE ~IsFile(e, "optimizer")
  BY <1>2 DEF OptimizerOf
<1> QED
  BY <1>1, <1>2

LEMMA TypesInit == Init => Types
<1> SUFFICES ASSUME Init PROVE Types
  OBVIOUS
<1> USE BundleAssumption DEF Courses
<1>1. 1 \in 1 .. MaxStarts /\ FreshTrainer(1) \in Trainers
  BY FreshIsTyped
<1>2. disk \in [Epochs -> [Kinds -> 0 .. MaxStarts + 1]]
  BY DEF Init, Missing
<1>3. saved \in [Epochs -> [control : Modes, stability : StabilityStates]]
  BY DEF Init, Modes, StabilityStates, NoStability
<1>4. slot \in Slots
  BY DEF Init, Slots
<1>5. /\ epoch \in 0 .. MaxEpoch /\ handled \in [epoch : 0 .. MaxEpoch, trainer : Trainers]
      /\ next \in 1 .. Len(Artifacts) + 1
  BY <1>1 DEF Init, Artifacts
<1> QED
  BY <1>1, <1>2, <1>3, <1>4, <1>5, SlotsAreTyped
  DEF Init, Types, AtWork, InHand, Writing, TypeOK, BundlePc, StabilityStates,
      NoStability

LEMMA TypesStep == Types /\ [Next]_vars => Types'
<1> SUFFICES ASSUME Types, [Next]_vars PROVE Types'
  OBVIOUS
<1> USE BundleAssumption DEF Types, Epochs
<1>1. CASE TrainEpoch
  <2>1. epoch' \in 1 .. MaxEpoch
    BY <1>1 DEF TrainEpoch, EpochsLeft, TypeOK
  <2>2. trainer' \in Trainers
    BY <1>1, <2>1 DEF TrainEpoch, TypeOK, Trainers, Origins, Modes
  <2>3. slot' \in Slots
    BY <1>1 DEF TrainEpoch, Slots
  <2> QED
    BY <1>1, <2>1, <2>2, <2>3, SlotsAreTyped
    DEF TrainEpoch, TypeOK, AtWork, InHand, Writing, BundlePc, config_vars, disk_vars,
        Artifacts
<1>2. CASE TrainingEnds
  BY <1>2, SlotsAreTyped
  DEF TrainingEnds, TypeOK, AtWork, InHand, Writing, BundlePc, config_vars, disk_vars,
      history
<1>3. CASE Validate
  <2>1. epoch \in Epochs
    BY <1>3 DEF Validate, TypeOK, AtWork, InHand
  <2>2. stability' \in StabilityStates /\ best_valid_epoch' \in Epochs \cup {None}
    BY <1>3, <2>1 DEF Validate, TypeOK, StabilityStates
  <2> QED
    BY <1>3, <2>1, <2>2
    DEF Validate, TypeOK, AtWork, InHand, Writing, BundlePc, config_vars, history
<1>4. CASE SaveArtifact
  <2>1. epoch \in Epochs /\ next \in 1 .. 6
    BY <1>4 DEF SaveArtifact, TypeOK, AtWork, InHand, Writing
  <2>2. disk' \in [Epochs -> [Kinds -> 0 .. MaxStarts + 1]]
    <3>1. PICK k \in Kinds : disk' = [disk EXCEPT ![epoch][k] = start]
      BY <1>4, <2>1, SomeFiles DEF SaveArtifact
    <3>2. start \in 0 .. MaxStarts + 1
      BY DEF TypeOK
    <3> QED
      BY <2>1, <3>1, <3>2 DEF TypeOK
  <2>3. saved' \in [Epochs -> [control : Modes, stability : StabilityStates]]
    <3>1. CASE saved' = saved
      BY <3>1 DEF TypeOK
    <3>2. CASE saved' = [saved EXCEPT ![epoch].control = trainer.control]
      BY <2>1, <3>2 DEF TypeOK, Trainers
    <3>3. CASE saved' = [saved EXCEPT ![epoch].stability = stability]
      BY <2>1, <3>3 DEF TypeOK
    <3> QED
      BY <1>4, <3>1, <3>2, <3>3 DEF SaveArtifact
  <2>4. next' = next + 1 /\ next' \in 2 .. Len(Artifacts) + 1
        /\ (pc' = "save" => next' \in 1 .. 6)
    BY <1>4, <2>1 DEF SaveArtifact, Artifacts, TrainingState
  <2>5. pc' \in {"prune", "policy", "save"}
        /\ (pc' = "policy" => next = 4)
    BY <1>4 DEF SaveArtifact, TrainingState
  <2> QED
    BY <1>4, <2>1, <2>2, <2>3, <2>4, <2>5
    DEF SaveArtifact, TypeOK, AtWork, InHand, Writing, BundlePc, config_vars, history
<1>5. CASE Policies
  <2>1. epoch \in Epochs
    BY <1>5 DEF Policies, TypeOK, AtWork, InHand
  <2>2. stability' \in StabilityStates
    BY <1>5, <2>1 DEF Policies, TypeOK, StabilityStates
  <2>3. RollbackTargets(stability') \subseteq Epochs
    BY <2>2 DEF RollbackTargets, StabilityStates
  <2>4. slot' \in Slots
    BY <1>5, <2>3 DEF Policies, Slots, Modes
  <2> QED
    BY <1>5, <2>1, <2>2, <2>4, SlotsAreTyped
    DEF Policies, TypeOK, AtWork, InHand, Writing, BundlePc, config_vars, disk_vars, history
<1>6. CASE PruneFile
  <2>1. PICK e \in Prunable, k \in Kinds, left \in {Missing, Torn} :
            /\ left \in Remains(k)
            /\ disk' = [disk EXCEPT ![e][k] = left]
            /\ saved' = CASE k = "optimizer" -> [saved EXCEPT ![e].control = "stable"]
                          [] k = "stability" ->
                                [saved EXCEPT ![e].stability = NoStability]
                          [] OTHER -> saved
    BY <1>6 DEF PruneFile, Remains
  <2>2. e \in Epochs
    BY DEF Prunable
  <2>3. disk' \in [Epochs -> [Kinds -> 0 .. MaxStarts + 1]]
    <3>1. left \in 0 .. MaxStarts + 1
      BY <2>1 DEF Remains, Missing, Torn
    <3> QED
      BY <2>1, <2>2, <3>1 DEF TypeOK
  <2>4. saved' \in [Epochs -> [control : Modes, stability : StabilityStates]]
    <3>1. "stable" \in Modes /\ NoStability \in StabilityStates
      BY DEF Modes, NoStability, StabilityStates
    <3> QED
      BY <2>1, <2>2, <3>1 DEF TypeOK
  <2> QED
    BY <1>6, <2>3, <2>4
    DEF PruneFile, TypeOK, AtWork, InHand, Writing, BundlePc, config_vars, history
<1>7. CASE PruneDone
  BY <1>7
  DEF PruneDone, TypeOK, AtWork, InHand, Writing, BundlePc, config_vars, disk_vars, history
<1>8. ASSUME NEW t \in Trainers, FinishEpoch(t) PROVE Types'
  <2>1. slot' \in Slots
    BY <1>8 DEF FinishEpoch, Slots
  <2>2. course' \in Courses
    BY <1>8 DEF FinishEpoch, TypeOK, Courses
  <2> QED
    BY <1>8, <2>1, <2>2, SlotsAreTyped
    DEF FinishEpoch, TypeOK, AtWork, InHand, Writing, BundlePc, config_vars, disk_vars
<1>9. CASE Deferred
  BY <1>8, <1>9 DEF Deferred, TypeOK
<1>10. CASE HandleControl
  <2>1. slot.mode # None => [trainer EXCEPT !.control = slot.mode] \in Trainers
    BY DEF TypeOK, Trainers
  <2>2. trainer \in Trainers
    BY DEF TypeOK
  <2> QED
    BY <1>8, <1>10, <2>1, <2>2 DEF HandleControl
<1>11. CASE HandleRollback
  <2>1. target \in Epochs /\ slot.mode \in Modes
    BY <1>11, SlotsAreTyped DEF HandleRollback, target
  <2>2. ModelOf(target) \in Origins
    BY <1>11, <2>1, ModelsAreOrigins DEF HandleRollback
  <2>3. OptimizerOf(target, trainer.optimizer) \in Origins
    BY <1>11, <2>1, OptimizersAreOrigins DEF HandleRollback, TypeOK, Trainers
  <2> QED
    BY <1>8, <1>11, <2>1, <2>2, <2>3 DEF HandleRollback, Trainers
<1>12. ASSUME Dies, UNCHANGED <<saved, validated>>,
              disk' \in [Epochs -> [Kinds -> 0 .. MaxStarts + 1]]
       PROVE  Types'
  <2>1. trainer' \in Trainers
    BY <1>12, FreshIsTyped DEF Dies
  <2>2. slot' \in Slots /\ stability' \in StabilityStates
    BY <1>12 DEF Dies, Slots, NoStability, StabilityStates
  <2> QED
    BY <1>12, <2>1, <2>2, SlotsAreTyped
    DEF Dies, TypeOK, AtWork, InHand, Writing, BundlePc, config_vars, Artifacts
<1>13. CASE RollbackFails \/ Crash
  <2>1. CASE UNCHANGED disk
    BY <1>12, <1>13, <2>1 DEF RollbackFails, Crash, disk_vars, TypeOK
  <2>2. CASE pc = "save" /\ disk' = [disk EXCEPT ![epoch][Artifacts[next]] = Torn]
    <3>1. epoch \in Epochs /\ Artifacts[next] \in Kinds /\ Torn \in 0 .. MaxStarts + 1
      BY <2>2, SomeFiles DEF AtWork, InHand, Writing, Torn
    <3>2. disk' \in [Epochs -> [Kinds -> 0 .. MaxStarts + 1]]
      BY <2>2, <3>1 DEF TypeOK
    <3> QED
      BY <1>12, <1>13, <2>2, <3>2 DEF RollbackFails, Crash, disk_vars, TypeOK
  <2> QED
    BY <1>13, <2>1, <2>2 DEF RollbackFails, Crash, disk_vars
<1>14. CASE ResumeLatest \/ ResumeExact
  <2>1. PICK e \in Epochs : Restore(e)
    BY <1>14 DEF ResumeLatest, ResumeExact, Candidates
  <2>2. start' = start + 1 /\ start' \in 1 .. MaxStarts
    BY <2>1 DEF Restore, TypeOK
  <2>3. ModelOf(e) \in Origins
    BY <2>1, ModelsAreOrigins DEF Restore
  <2>4. <<start', 0>> \in Origins
    BY <2>2 DEF Origins
  <2>5. OptimizerOf(e, <<start', 0>>) \in Origins
    BY <2>1, <2>4, OptimizersAreOrigins DEF Restore
  <2>6. trainer' \in Trainers
    BY <2>1, <2>3, <2>5 DEF Restore, Trainers, TypeOK, Modes
  <2>7. HistoricalBest(e) \subseteq Epochs \cup {None}
    BY DEF HistoricalBest, Candidates
  <2>8. PICK best \in HistoricalBest(e) :
            IF IsFile(e, "stability")
            THEN /\ stability' = saved[e].stability
                 /\ best_valid_epoch' = IF saved[e].stability.best # None
                                        THEN saved[e].stability.best ELSE best
            ELSE /\ stability' = [best |-> best, ruliad |-> None]
                 /\ best_valid_epoch' = best
    BY <2>1 DEF Restore
  <2>9. saved[e].stability \in StabilityStates
    BY DEF TypeOK
  <2>10. stability' \in StabilityStates /\ best_valid_epoch' \in Epochs \cup {None}
    BY <2>7, <2>8, <2>9 DEF StabilityStates
  <2>11. /\ exact_only' \in BOOLEAN /\ course' \in Courses
         /\ resumed' \in {None, "latest", "exact"}
    BY <1>14 DEF ResumeLatest, ResumeExact, TypeOK, Courses
  <2>12. pc' = "train" /\ epoch' = e
         /\ UNCHANGED <<config_vars, disk_vars, next, slot, handled>>
    BY <2>1 DEF Restore
  <2> QED
    BY <2>2, <2>6, <2>10, <2>11, <2>12
    DEF TypeOK, AtWork, InHand, Writing, BundlePc, config_vars, disk_vars
<1>15. CASE UNCHANGED vars
  BY <1>15 DEF vars, TypeOK, AtWork, InHand, Writing, config_vars, disk_vars, history
<1> QED
  BY <1>1, <1>2, <1>3, <1>4, <1>5, <1>6, <1>7, <1>9, <1>10, <1>11, <1>13, <1>14, <1>15
  DEF Next

\* The variables have their types, and there is a bundle's file to write whenever one is
\* written, for any number of epochs and starts.
THEOREM TypeCorrect == Spec => []TypeOK
BY TypesInit, TypesStep, PTL DEF Spec, Types

-----------------------------------------------------------------------------
(* A crash costs one epoch at most. *)

\* What this start has written of the bundle in hand is there.
WrittenSoFar ==
    /\ pc \in {"save", "policy"} =>
          \A j \in 1 .. next - 1 : disk[epoch][Artifacts[j]] = start
    /\ pc \in {"prune", "handle"} => \A k \in Kinds : disk[epoch][k] = start

\* The whole bundle that survives is behind the loop: never the one being written.
Behind(e) ==
    /\ Whole(e)
    /\ pc = "train" => e =< epoch
    /\ pc \in {"validate", "save", "policy"} => e < epoch
    /\ pc \in {"prune", "handle"} => e = epoch

WholeBehind ==
    ~rewinds /\ handled.epoch > 0 => \E e \in handled.epoch .. MaxEpoch : Behind(e)

BundleInv == Types /\ WrittenSoFar /\ WholeBehind

\* An exact resume gets through with a whole bundle.
LEMMA WholeIsUsable ==
    ASSUME NEW e \in Epochs, Whole(e)
    PROVE  Usable(e) /\ e \in Candidates
<1>1. \A k \in Kinds : disk[e][k] # Missing /\ disk[e][k] # Torn
  BY BundleAssumption DEF Whole, Missing, Torn
<1>2. {"model", "runtime-state", "optimizer"} \subseteq Kinds
  BY DEF Kinds, Artifacts
<1> QED
  BY <1>1, <1>2 DEF Usable, ExactAccepts, Loads, Readable, IsFile, Candidates

\* The bundle just written is among those that pruning keeps.
LEMMA KeepsTheLast ==
    ASSUME Types, pc \in {"prune", "handle"}
    PROVE  epoch \in Kept(epoch)
<1>1. epoch \in Epochs /\ epoch \in Nat
  BY BundleAssumption DEF Types, AtWork, InHand, Epochs
<1> QED
  BY <1>1, BundleAssumption DEF Kept, RecentEpochs

LEMMA WrittenStep == BundleInv /\ [Next]_vars => WrittenSoFar'
<1> SUFFICES ASSUME BundleInv, [Next]_vars PROVE WrittenSoFar'
  OBVIOUS
<1> USE DEF BundleInv
<1>1. CASE TrainEpoch \/ TrainingEnds \/ Deferred \/ HandleControl \/ HandleRollback
           \/ RollbackFails \/ Crash \/ ResumeLatest \/ ResumeExact
  <2>1. pc' \notin {"save", "policy", "prune", "handle"}
        \/ (pc' = "save" /\ next' = 1)
    BY <1>1 DEF TrainEpoch, TrainingEnds, Deferred, HandleControl, HandleRollback,
                FinishEpoch, RollbackFails, Crash, Dies, ResumeLatest, ResumeExact, Restore
  <2> QED
    BY <2>1 DEF WrittenSoFar
<1>2. CASE Validate
  <2>1. pc' = "save" /\ next' = 1
    BY <1>2 DEF Validate, Types, AtWork, Writing
  <2> QED
    BY <2>1 DEF WrittenSoFar
<1>3. CASE SaveArtifact
  <2>1. /\ epoch \in Epochs /\ next \in 1 .. 6
        /\ \A j \in 1 .. next - 1 : disk[epoch][Artifacts[j]] = start
    BY <1>3 DEF SaveArtifact, Types, AtWork, InHand, Writing, WrittenSoFar
  <2>2. /\ disk' = [disk EXCEPT ![epoch][Artifacts[next]] = start]
        /\ next' = next + 1 /\ UNCHANGED <<epoch, start>>
    BY <1>3 DEF SaveArtifact
  <2>3. disk \in [Epochs -> [Kinds -> 0 .. MaxStarts + 1]]
    BY DEF Types, TypeOK
  <2>4. \A k \in Kinds : disk'[epoch][k] =
            IF k = Artifacts[next] THEN start ELSE disk[epoch][k]
    BY <2>1, <2>2, <2>3
  <2>5. \A j \in 1 .. next : disk'[epoch][Artifacts[j]] = start
    <3> TAKE j \in 1 .. next
    <3>1. Artifacts[j] \in Kinds /\ (j = next \/ j \in 1 .. next - 1)
      BY <2>1, SomeFiles
    <3> QED
      BY <2>1, <2>4, <3>1
  <2>6. pc' \in {"prune", "policy", "save"} /\ (pc' = "prune" => next = 6)
    BY <1>3 DEF SaveArtifact, Artifacts
  <2>7. next = 6 => \A k \in Kinds : disk'[epoch][k] = start
    BY <2>5 DEF Kinds, Artifacts
  <2>8. next' - 1 = next
    BY <2>1, <2>2
  <2> QED
    BY <2>2, <2>5, <2>6, <2>7, <2>8 DEF WrittenSoFar
<1>4. CASE Policies
  BY <1>4 DEF Policies, WrittenSoFar, disk_vars
<1>5. CASE PruneFile
  <2>1. PICK e \in Prunable, k \in Kinds, left \in {Missing, Torn} :
            /\ left \in Remains(k)
            /\ disk' = [disk EXCEPT ![e][k] = left]
    BY <1>5 DEF PruneFile, Remains
  <2>2. e # epoch /\ e \in Epochs
    BY <1>5, KeepsTheLast DEF Prunable, PruneFile
  <2>3. disk'[epoch] = disk[epoch] /\ UNCHANGED <<epoch, start, pc>> /\ pc = "prune"
    BY <1>5, <2>1, <2>2 DEF PruneFile, Types, TypeOK, AtWork, InHand
  <2> QED
    BY <2>3 DEF WrittenSoFar
<1>6. CASE PruneDone
  BY <1>6 DEF PruneDone, WrittenSoFar, disk_vars
<1>7. CASE UNCHANGED vars
  BY <1>7 DEF vars, WrittenSoFar, disk_vars
<1> QED
  BY <1>1, <1>2, <1>3, <1>4, <1>5, <1>6, <1>7 DEF Next

\* A bundle of which no file is touched stays whole.
LEMMA StaysWhole ==
    ASSUME NEW e, Whole(e), disk'[e] = disk[e]
    PROVE  Whole(e)'
BY DEF Whole

LEMMA BehindStep == BundleInv /\ [Next]_vars => WholeBehind'
<1> SUFFICES ASSUME BundleInv, [Next]_vars, (~rewinds /\ handled.epoch > 0)'
             PROVE  \E e \in handled'.epoch .. MaxEpoch : Behind(e)'
  BY DEF WholeBehind
<1> USE BundleAssumption DEF BundleInv, Epochs
<1>0. /\ UNCHANGED rewinds /\ ~rewinds
      /\ epoch \in 0 .. MaxEpoch /\ handled.epoch \in 0 .. MaxEpoch
  <2>1. UNCHANGED rewinds
    BY DEF Next, TrainEpoch, TrainingEnds, Validate, SaveArtifact, Policies, PruneFile,
           PruneDone, Deferred, HandleControl, HandleRollback, RollbackFails, Crash, Dies,
           FinishEpoch, ResumeLatest, ResumeExact, Restore, config_vars, vars
  <2> QED
    BY <2>1 DEF Types, TypeOK
\* Every step but the end of an epoch keeps the bundle there was.
<1>1. ASSUME UNCHANGED handled,
             \A e \in Epochs : Behind(e) => Behind(e)'
      PROVE  \E e \in handled'.epoch .. MaxEpoch : Behind(e)'
  <2>1. PICK e \in handled.epoch .. MaxEpoch : Behind(e)
    BY <1>0, <1>1 DEF WholeBehind
  <2>2. e \in Epochs
    BY <1>0, <1>1
  <2> QED
    BY <1>1, <2>1, <2>2
<1>2. CASE TrainEpoch
  <2>1. pc = "train" /\ epoch' = epoch + 1 /\ pc' \in {"validate", "save"}
        /\ UNCHANGED <<disk, handled>>
    BY <1>2 DEF TrainEpoch, disk_vars, history
  <2> QED
    BY <1>0, <1>1, <2>1, StaysWhole DEF Behind
<1>3. CASE TrainingEnds
  <2>1. pc' = "done" /\ UNCHANGED <<disk, handled>>
    BY <1>3 DEF TrainingEnds, disk_vars, history
  <2> QED
    BY <1>1, <2>1, StaysWhole DEF Behind
<1>4. CASE Validate \/ Policies
  <2>1. /\ pc \in {"validate", "policy"} /\ pc' = "save"
        /\ UNCHANGED <<disk, handled, epoch>>
    BY <1>4 DEF Validate, Policies, disk_vars, history
  <2> QED
    BY <1>1, <2>1, StaysWhole DEF Behind
<1>5. CASE SaveArtifact
  <2>1. /\ pc = "save" /\ pc' \in {"prune", "policy", "save"}
        /\ disk' = [disk EXCEPT ![epoch][Artifacts[next]] = start]
        /\ UNCHANGED <<handled, epoch>>
    BY <1>5 DEF SaveArtifact, history
  <2>2. \A e \in Epochs : Behind(e) => e < epoch /\ Whole(e)'
    <3> TAKE e \in Epochs
    <3> HAVE Behind(e)
    <3>1. e < epoch /\ Whole(e)
      BY <2>1 DEF Behind
    <3>2. disk'[e] = disk[e]
      BY <1>0, <2>1, <3>1 DEF Types, TypeOK
    <3> QED
      BY <3>1, <3>2, StaysWhole
  <2>3. CASE pc' # "prune"
    BY <1>1, <2>1, <2>2, <2>3 DEF Behind
  <2>4. CASE pc' = "prune"
    <3>1. Whole(epoch)'
      <4>1. WrittenSoFar'
        BY WrittenStep
      <4>2. \A k \in Kinds : disk'[epoch'][k] = start'
        BY <2>4, <4>1 DEF WrittenSoFar
      <4>3. epoch' = epoch /\ start' = start
        BY <1>5 DEF SaveArtifact
      <4>4. start \in 1..MaxStarts
        BY DEF Types, TypeOK
      <4> QED
        BY <4>2, <4>3, <4>4 DEF Whole
    <3>2. PICK e \in handled.epoch .. MaxEpoch : Behind(e)
      BY <1>0, <2>1 DEF WholeBehind
    <3>3. e \in Epochs /\ e < epoch
      BY <1>0, <2>1, <2>2, <3>2
    <3>4. epoch \in handled'.epoch .. MaxEpoch
      BY <1>0, <2>1, <3>2, <3>3
    <3>5. Behind(epoch)'
      BY <2>1, <2>4, <3>1 DEF Behind
    <3>6. epoch' = epoch
      BY <2>1
    <3> QED
      BY <3>4, <3>5, <3>6
  <2> QED
    BY <2>3, <2>4
<1>6. CASE PruneFile
  <2>1. PICK f \in Prunable, k \in Kinds, left \in {Missing, Torn} :
            /\ left \in Remains(k)
            /\ disk' = [disk EXCEPT ![f][k] = left]
    BY <1>6 DEF PruneFile, Remains
  <2>2. pc = "prune" /\ UNCHANGED <<pc, handled, epoch>>
    BY <1>6 DEF PruneFile, history
  <2>3. f # epoch
    BY <2>2, KeepsTheLast DEF Prunable
  <2>4. disk'[epoch] = disk[epoch]
    BY <1>0, <2>1, <2>2, <2>3 DEF Types, TypeOK, AtWork, InHand
  <2> QED
    BY <1>1, <2>2, <2>4, StaysWhole DEF Behind
<1>7. CASE PruneDone
  <2>1. pc = "prune" /\ pc' = "handle" /\ UNCHANGED <<disk, handled, epoch>>
    BY <1>7 DEF PruneDone, disk_vars, history
  <2> QED
    BY <1>1, <2>1, StaysWhole DEF Behind
<1>8. ASSUME NEW t, FinishEpoch(t), pc \in {"prune", "handle"}
      PROVE  \E e \in handled'.epoch .. MaxEpoch : Behind(e)'
  <2>1. /\ handled'.epoch = epoch /\ pc' = "train" /\ UNCHANGED <<disk, epoch>>
    BY <1>8 DEF FinishEpoch, disk_vars
  <2>2. Whole(epoch)
    BY <1>8 DEF WrittenSoFar, Whole, Types, TypeOK
  <2>3. Behind(epoch)'
    BY <1>0, <2>1, <2>2, StaysWhole DEF Behind
  <2>4. epoch \in handled'.epoch .. MaxEpoch
    BY <1>0, <2>1
  <2> QED
    BY <2>1, <2>3, <2>4
<1>9. CASE Deferred \/ HandleControl \/ HandleRollback
  BY <1>8, <1>9 DEF Deferred, HandleControl, HandleRollback
<1>10. CASE RollbackFails \/ Crash
  <2>1. pc' = "off" /\ UNCHANGED handled
    BY <1>10 DEF RollbackFails, Crash, Dies
  <2>2. CASE UNCHANGED disk
    BY <1>1, <2>1, <2>2, StaysWhole DEF Behind
  <2>3. CASE pc = "save" /\ disk' = [disk EXCEPT ![epoch][Artifacts[next]] = Torn]
    <3>1. \A e \in Epochs : Behind(e) => Whole(e)'
      <4> TAKE e \in Epochs
      <4> HAVE Behind(e)
      <4>1. e < epoch /\ Whole(e)
        BY <2>3 DEF Behind
      <4>2. disk'[e] = disk[e]
        BY <1>0, <2>3, <4>1 DEF Types, TypeOK
      <4> QED
        BY <4>1, <4>2, StaysWhole
    <3> QED
      BY <1>1, <2>1, <3>1 DEF Behind
  <2> QED
    BY <1>10, <2>2, <2>3 DEF RollbackFails, Crash, disk_vars
<1>11. CASE ResumeLatest \/ ResumeExact
  <2>1. PICK r \in Candidates :
            /\ Restore(r)
            /\ IsLatest(r) \/ \A f \in Candidates : Usable(f) => f =< r
    BY <1>0, <1>11 DEF ResumeLatest, ResumeExact
  <2>2. epoch' = r /\ pc' = "train" /\ UNCHANGED <<disk, handled>>
    BY <2>1 DEF Restore, disk_vars
  <2>3. \A e \in Epochs : Whole(e) => e =< r
    BY <2>1, WholeIsUsable DEF IsLatest
  <2> QED
    BY <1>1, <2>2, <2>3, StaysWhole DEF Behind
<1>12. CASE UNCHANGED vars
  <2>1. UNCHANGED <<disk, handled, pc, epoch>>
    BY <1>12 DEF vars, disk_vars, history
  <2> QED
    BY <1>1, <2>1, StaysWhole DEF Behind
<1> QED
  BY <1>2, <1>3, <1>4, <1>5, <1>6, <1>7, <1>9, <1>10, <1>11, <1>12 DEF Next

LEMMA BundleInit == Init => BundleInv
<1> SUFFICES ASSUME Init PROVE BundleInv
  OBVIOUS
<1>1. WrittenSoFar /\ WholeBehind
  BY DEF Init, WrittenSoFar, WholeBehind
<1> QED
  BY <1>1, TypesInit DEF BundleInv

LEMMA BundleStep == BundleInv /\ [Next]_vars => BundleInv'
BY TypesStep, WrittenStep, BehindStep DEF BundleInv

\* The bundle of the last epoch that was completed stays whole until a newer one is,
\* through crashes at any file, prunes and resumptions from the latest bundle or the
\* latest usable one, for any number of each and however few bundles are kept.
THEOREM CrashCostsOneEpoch == Spec => []SurvivesCrash
<1>1. BundleInv => SurvivesCrash
  BY DEF BundleInv, WholeBehind, Behind, SurvivesCrash
<1> QED
  BY <1>1, BundleInit, BundleStep, PTL DEF Spec

-----------------------------------------------------------------------------
(* What each step does to the files, told apart by the place in the loop. *)

\* The place may move on; no file is touched.
Quiet ==
    /\ UNCHANGED <<disk, handled>>
    /\ \/ pc = "train" /\ pc' \in {"validate", "save"} /\ epoch' = epoch + 1
       \/ pc = "train" /\ pc' = "done" /\ UNCHANGED epoch
       \/ pc \in {"validate", "policy"} /\ pc' = "save" /\ UNCHANGED epoch
       \/ pc = "prune" /\ pc' = "handle" /\ UNCHANGED epoch
       \/ UNCHANGED <<pc, epoch>>

\* Only file k of the bundle in hand changes.
OnlyFile(k) ==
    /\ \A e \in Epochs : e # epoch => disk'[e] = disk[e]
    /\ \A j \in Kinds : j # k => disk'[epoch][j] = disk[epoch][j]

\* A file of the bundle in hand is written; the last one makes it whole.
Saves ==
    /\ pc = "save" /\ pc' \in {"save", "policy", "prune"}
    /\ epoch \in Epochs /\ next \in 1 .. 6
    /\ OnlyFile(Artifacts[next])
    /\ pc' = "prune" <=> next = 6
    /\ pc' = "prune" => Whole(epoch)'
    /\ UNCHANGED <<epoch, handled>>

\* A file of another bundle than the one in hand is removed, or the teacher of another
\* runtime-state.
Prunes ==
    /\ pc = "prune" /\ epoch \in Epochs
    /\ disk'[epoch] = disk[epoch]
    /\ \A e \in Epochs, k \in Kinds :
          \/ disk'[e][k] \in {disk[e][k], Missing}
          \/ teacher /\ k = "runtime-state" /\ IsFile(e, k) /\ disk'[e][k] = Torn
    /\ UNCHANGED <<pc, epoch, handled>>

\* The loop is through with a whole bundle.
Finishes ==
    /\ pc \in {"prune", "handle"} /\ pc' = "train"
    /\ epoch \in Epochs /\ Whole(epoch)
    /\ handled'.epoch = epoch
    /\ UNCHANGED <<disk, epoch>>

\* The process dies, perhaps in the middle of a file that is not renamed into place.
Falls ==
    /\ pc \notin {"off", "done"} /\ pc' = "off"
    /\ UNCHANGED handled
    /\ \/ UNCHANGED disk
       \/ pc = "save" /\ epoch \in Epochs /\ next \in 1 .. 5 /\ OnlyFile(Artifacts[next])

\* Another start takes up a bundle.
Restarts ==
    /\ pc = "off" /\ pc' = "train"
    /\ epoch' \in Candidates
    /\ \/ IsLatest(epoch') /\ resumed' = "latest"
       \/ /\ Usable(epoch')
          /\ rewinds \/ \A f \in Candidates : Usable(f) => f =< epoch'
    /\ UNCHANGED <<disk, handled>>

\* The run is a resumed one until it trains an epoch.
ResumedTrains == resumed # None => pc \in {"train", "done"}

LEMMA LastFileIsRenamed ==
    /\ Artifacts[6] = "training-ecs-state" /\ "training-ecs-state" \in Kinds
    /\ \A i \in 1 .. 6 : Artifacts[i] = "training-ecs-state" => i = 6
BY DEF Artifacts, Kinds

LEMMA ResumesRestart == ResumeLatest \/ ResumeExact => Restarts
<1>1. CASE ResumeLatest
  BY <1>1 DEF ResumeLatest, Restore, Restarts, disk_vars
<1>2. CASE ResumeExact
  <2>1. PICK e \in Candidates :
            /\ ExactAccepts(e) /\ Restore(e)
            /\ rewinds \/ \A f \in Candidates : Usable(f) => f =< e
    BY <1>2 DEF ResumeExact
  <2>2. Usable(e)
    BY <2>1 DEF Usable, Restore, Candidates
  <2>3. pc = "off" /\ pc' = "train" /\ epoch' = e /\ UNCHANGED <<disk, handled>>
    BY <2>1 DEF Restore, disk_vars
  <2> QED
    BY <2>1, <2>2, <2>3 DEF Restarts
<1> QED
  BY <1>1, <1>2

LEMMA SaveIsOneFile ==
    ASSUME BundleInv, SaveArtifact
    PROVE  Saves /\ disk' = [disk EXCEPT ![epoch][Artifacts[next]] = start]
<1> USE DEF BundleInv
<1>0. /\ disk \in [Epochs -> [Kinds -> 0 .. MaxStarts + 1]]
      /\ start \in 1 .. MaxStarts
  BY DEF Types, TypeOK
<1>1. /\ pc = "save" /\ pc' \in {"save", "policy", "prune"}
      /\ pc' = "prune" <=> next = 6
      /\ disk' = [disk EXCEPT ![epoch][Artifacts[next]] = start]
      /\ UNCHANGED <<epoch, start, handled>>
  BY DEF SaveArtifact, history, Artifacts
<1>2. epoch \in Epochs /\ next \in 1 .. 6 /\ Artifacts[next] \in Kinds
  BY <1>1, SomeFiles DEF Types, AtWork, InHand, Writing
<1>3. OnlyFile(Artifacts[next])
  BY <1>0, <1>1, <1>2 DEF OnlyFile
<1>4. pc' = "prune" => \A k \in Kinds : disk'[epoch][k] = start
  <2>1. [Next]_vars
    BY DEF Next
  <2> QED
    BY <1>1, <2>1, WrittenStep DEF WrittenSoFar
<1>5. pc' = "prune" => Whole(epoch)'
  BY <1>0, <1>1, <1>4 DEF Whole
<1> QED
  BY <1>1, <1>2, <1>3, <1>5 DEF Saves

LEMMA PruneIsOneFile ==
    ASSUME BundleInv, PruneFile
    PROVE  Prunes
<1> USE BundleAssumption DEF BundleInv
<1>0. /\ disk \in [Epochs -> [Kinds -> 0 .. MaxStarts + 1]]
      /\ start \in 1 .. MaxStarts
  BY DEF Types, TypeOK
<1>1. PICK f \in Prunable, k \in Kinds, left \in {Missing, Torn} :
          /\ left \in Remains(k)
          /\ IsFile(f, k)
          /\ disk' = [disk EXCEPT ![f][k] = left]
  BY DEF PruneFile, Remains
<1>2. pc = "prune" /\ UNCHANGED <<pc, epoch, handled>> /\ epoch \in Epochs
  BY DEF PruneFile, history, Types, AtWork, InHand
<1>3. f # epoch /\ f \in Epochs
  BY <1>2, KeepsTheLast DEF Prunable
<1>4. disk'[epoch] = disk[epoch]
  BY <1>0, <1>1, <1>2, <1>3
<1>5. \A e \in Epochs, j \in Kinds :
          disk'[e][j] = IF e = f /\ j = k THEN left ELSE disk[e][j]
  BY <1>0, <1>1, <1>3
<1>6. left = Missing \/ (teacher /\ k = "runtime-state" /\ left = Torn)
  BY <1>1 DEF Remains
<1> QED
  BY <1>1, <1>2, <1>4, <1>5, <1>6 DEF Prunes

LEMMA DeathTearsOneFile ==
    ASSUME BundleInv, RollbackFails \/ Crash
    PROVE  Falls
<1> USE BundleAssumption DEF BundleInv
<1>0. /\ disk \in [Epochs -> [Kinds -> 0 .. MaxStarts + 1]]
      /\ start \in 1 .. MaxStarts
  BY DEF Types, TypeOK
<1>1. pc \notin {"off", "done"} /\ pc' = "off" /\ UNCHANGED handled
  BY DEF RollbackFails, Crash, Dies
<1>2. CASE UNCHANGED disk
  BY <1>1, <1>2 DEF Falls
<1>3. CASE /\ pc = "save" /\ Artifacts[next] \notin Atomic
           /\ disk' = [disk EXCEPT ![epoch][Artifacts[next]] = Torn]
  <2>1. epoch \in Epochs /\ next \in 1 .. 6 /\ Artifacts[next] \in Kinds
    BY <1>3, SomeFiles DEF Types, AtWork, InHand, Writing
  <2>2. next # 6
    BY <1>3, LastFileIsRenamed DEF Atomic
  <2>3. OnlyFile(Artifacts[next])
    BY <1>0, <1>3, <2>1 DEF OnlyFile
  <2> QED
    BY <1>1, <1>3, <2>1, <2>2, <2>3 DEF Falls
<1> QED
  BY <1>2, <1>3 DEF RollbackFails, Crash, disk_vars

LEMMA StepKinds ==
    ASSUME BundleInv, [Next]_vars
    PROVE  Quiet \/ Saves \/ Prunes \/ Finishes \/ Falls \/ Restarts
<1> USE BundleAssumption DEF BundleInv
<1>0. /\ disk \in [Epochs -> [Kinds -> 0 .. MaxStarts + 1]]
      /\ start \in 1 .. MaxStarts
  BY DEF Types, TypeOK
<1>1. CASE TrainEpoch \/ TrainingEnds \/ Validate \/ Policies \/ PruneDone \/ UNCHANGED vars
  BY <1>1 DEF Quiet, TrainEpoch, TrainingEnds, Validate, Policies, PruneDone, disk_vars,
              history, vars
<1>2. CASE SaveArtifact
  BY <1>2, SaveIsOneFile
<1>3. CASE PruneFile
  BY <1>3, PruneIsOneFile
<1>4. CASE Deferred \/ HandleControl \/ HandleRollback
  <2>1. /\ pc \in {"prune", "handle"} /\ pc' = "train"
        /\ handled'.epoch = epoch /\ UNCHANGED <<disk, epoch>>
    BY <1>4 DEF Deferred, HandleControl, HandleRollback, FinishEpoch, disk_vars
  <2>2. epoch \in Epochs /\ Whole(epoch)
    BY <1>0, <2>1 DEF Types, AtWork, InHand, WrittenSoFar, Whole
  <2> QED
    BY <2>1, <2>2 DEF Finishes
<1>5. CASE RollbackFails \/ Crash
  BY <1>5, DeathTearsOneFile
<1>6. CASE ResumeLatest \/ ResumeExact
  BY <1>6, ResumesRestart
<1> QED
  BY <1>1, <1>2, <1>3, <1>4, <1>5, <1>6 DEF Next

-----------------------------------------------------------------------------
(* There is always a bundle to resume from. *)

\* The usable bundle is behind the loop, wherever the operator went back to.
Spare(e) ==
    /\ Usable(e)
    /\ pc = "train" => e =< epoch
    /\ pc \in {"validate", "save", "policy"} => e < epoch
    /\ pc \in {"prune", "handle"} => e = epoch

SpareInv == BundleInv /\ (handled.epoch > 0 => \E e \in Epochs : Spare(e))

LEMMA StaysUsable ==
    ASSUME NEW e, Usable(e), disk'[e] = disk[e]
    PROVE  Usable(e)'
BY DEF Usable, IsFile, ExactAccepts, Loads, Readable

LEMMA SpareStep == SpareInv /\ [Next]_vars => SpareInv'
<1> SUFFICES ASSUME SpareInv, [Next]_vars, handled'.epoch > 0
             PROVE  \E e \in Epochs : Spare(e)'
  BY BundleStep DEF SpareInv
<1> USE BundleAssumption DEF SpareInv, Epochs
<1>0. epoch \in 0 .. MaxEpoch
  BY DEF BundleInv, Types, TypeOK
\* Every step but the end of an epoch keeps the bundle there was.
<1>1. ASSUME UNCHANGED handled, \A e \in Epochs : Spare(e) => Spare(e)'
      PROVE  \E e \in Epochs : Spare(e)'
  BY <1>1
<1>2. CASE Quiet
  <2>1. UNCHANGED <<disk, handled>>
    BY <1>2 DEF Quiet
  <2>2. \A e \in Epochs : Spare(e) => Spare(e)'
    <3> TAKE e \in Epochs
    <3> HAVE Spare(e)
    <3>1. Usable(e)'
      BY <2>1, StaysUsable DEF Spare
    <3> QED
      BY <1>0, <1>2, <3>1 DEF Quiet, Spare
  <2> QED
    BY <1>1, <2>1, <2>2
<1>3. CASE Saves
  <2>1. CASE pc' = "prune"
    <3>1. Usable(epoch)'
      <4>1. Whole(epoch)'
        BY <1>3, <2>1 DEF Saves
      <4>2. \A k \in Kinds : disk'[epoch'][k] # Missing /\ disk'[epoch'][k] # Torn
        BY <4>1 DEF Whole, Missing, Torn
      <4>3. {"model", "runtime-state", "optimizer"} \subseteq Kinds
        BY DEF Kinds, Artifacts
      <4> QED
        BY <4>2, <4>3 DEF Usable, ExactAccepts, Loads, Readable, IsFile
    <3> QED
      BY <1>3, <2>1, <3>1 DEF Saves, Spare
  <2>2. CASE pc' # "prune"
    <3>1. \A e \in Epochs : Spare(e) => Spare(e)'
      <4> TAKE e \in Epochs
      <4> HAVE Spare(e)
      <4>1. e < epoch /\ Usable(e)
        BY <1>3 DEF Saves, Spare
      <4>2. Usable(e)'
        BY <1>0, <1>3, <4>1, StaysUsable DEF Saves, OnlyFile
      <4> QED
        BY <1>3, <2>2, <4>1, <4>2 DEF Saves, Spare
    <3> QED
      BY <1>1, <1>3, <3>1 DEF Saves
  <2> QED
    BY <2>1, <2>2
<1>4. CASE Prunes
  <2>1. \A e \in Epochs : Spare(e) => Spare(e)'
    <3> TAKE e \in Epochs
    <3> HAVE Spare(e)
    <3>1. e = epoch /\ Usable(e)
      BY <1>4 DEF Prunes, Spare
    <3>2. Usable(e)'
      BY <1>4, <3>1, StaysUsable DEF Prunes
    <3> QED
      BY <1>4, <3>1, <3>2 DEF Prunes, Spare
  <2> QED
    BY <1>1, <1>4, <2>1 DEF Prunes
<1>5. CASE Finishes
  <2>1. Usable(epoch) /\ epoch \in Epochs
    BY <1>5, WholeIsUsable DEF Finishes
  <2>2. Usable(epoch)'
    BY <1>5, <2>1, StaysUsable DEF Finishes
  <2> QED
    BY <1>0, <1>5, <2>1, <2>2 DEF Finishes, Spare
<1>6. CASE Falls
  <2>1. \A e \in Epochs : Spare(e) => Usable(e)'
    <3> TAKE e \in Epochs
    <3> HAVE Spare(e)
    <3>1. disk'[e] = disk[e]
      BY <1>0, <1>6 DEF Falls, OnlyFile, Spare
    <3> QED
      BY <3>1, StaysUsable DEF Spare
  <2> QED
    BY <1>1, <1>6, <2>1 DEF Falls, Spare
<1>7. CASE Restarts
  <2>1. CASE IsLatest(epoch')
    <3>1. \A e \in Epochs : Spare(e) => Spare(e)'
      <4> TAKE e \in Epochs
      <4> HAVE Spare(e)
      <4>1. e =< epoch'
        BY <2>1 DEF IsLatest, Candidates, Spare, Usable
      <4>2. Usable(e)'
        BY <1>7, StaysUsable DEF Restarts, Spare
      <4> QED
        BY <1>7, <4>1, <4>2 DEF Restarts, Spare
    <3> QED
      BY <1>1, <1>7, <3>1 DEF Restarts
  <2>2. CASE Usable(epoch')
    <3>1. epoch' \in Epochs
      BY <1>7 DEF Restarts, Candidates
    <3>2. PICK r \in Epochs : r = epoch'
      BY <3>1
    <3>3. Usable(r)'
      BY <1>7, <2>2, <3>2, StaysUsable DEF Restarts
    <3>4. Spare(r)'
      BY <1>7, <3>2, <3>3 DEF Restarts, Spare
    <3> QED
      BY <3>4
  <2> QED
    BY <1>7, <2>1, <2>2 DEF Restarts
<1> QED
  BY StepKinds, <1>2, <1>3, <1>4, <1>5, <1>6, <1>7

\* From the first completed epoch on there is a bundle that an exact resume accepts,
\* wherever the operator resumed from and however often: neither a save that starts
\* over nor the pruning that follows it touches the last usable bundle.
THEOREM AlwaysResumable == Spec => []Resumable
<1>1. Init => SpareInv
  BY BundleInit DEF SpareInv, Init
<1>2. SpareInv => Resumable
  BY DEF SpareInv, Spare, Resumable
<1> QED
  BY <1>1, <1>2, SpareStep, PTL DEF Spec

-----------------------------------------------------------------------------
(* An exact resume is whole. *)

\* The file that is written last, and required, is in no bundle after e.
NothingBeyond(e) ==
    \A f \in Epochs : f > e => disk[f]["training-ecs-state"] = Missing

\* The newest bundle with its last file is a whole one.
NewestIsWhole == NothingBeyond(0) \/ \E e \in Epochs : Whole(e) /\ NothingBeyond(e)

Newest ==
    /\ pc \in {"off", "train", "validate", "save", "policy"} => NewestIsWhole
    /\ pc \in {"train", "prune", "handle"} => NothingBeyond(epoch)
    /\ pc \in {"validate", "save", "policy"} => NothingBeyond(epoch - 1)

ExactInv ==
    /\ BundleInv
    /\ ResumedTrains
    /\ ~rewinds => Newest
    /\ ExactResumeIsWhole

LEMMA ResumedStep ==
    ASSUME ResumedTrains, [Next]_vars
    PROVE  /\ ResumedTrains' /\ UNCHANGED rewinds
           /\ resumed' # None =>
                 Restarts \/ UNCHANGED <<resumed, disk, epoch>>
<1>1. CASE TrainEpoch \/ TrainingEnds \/ Validate \/ SaveArtifact \/ Policies
  BY <1>1 DEF TrainEpoch, TrainingEnds, Validate, SaveArtifact, Policies, ResumedTrains,
              config_vars, disk_vars, history
<1>2. CASE PruneFile \/ PruneDone \/ Deferred \/ HandleControl \/ HandleRollback
  BY <1>2 DEF PruneFile, PruneDone, Deferred, HandleControl, HandleRollback, FinishEpoch,
              ResumedTrains, config_vars, disk_vars, history
<1>3. CASE RollbackFails \/ Crash
  BY <1>3 DEF RollbackFails, Crash, Dies, ResumedTrains, config_vars
<1>4. CASE ResumeLatest \/ ResumeExact
  <2>1. pc' = "train" /\ UNCHANGED rewinds
    BY <1>4 DEF ResumeLatest, ResumeExact, Restore, config_vars
  <2> QED
    BY <1>4, <2>1, ResumesRestart DEF ResumedTrains
<1>5. CASE UNCHANGED vars
  BY <1>5 DEF vars, ResumedTrains, config_vars, disk_vars, history
<1> QED
  BY <1>1, <1>2, <1>3, <1>4, <1>5 DEF Next

\* A whole bundle without anything beyond it stays so when neither it nor the last file
\* of a bundle beyond it is touched.
LEMMA StaysNewest ==
    ASSUME NewestIsWhole,
           \A e \in Epochs : disk'[e]["training-ecs-state"]
                                 \in {disk[e]["training-ecs-state"], Missing},
           \A e \in Epochs : Whole(e) => disk'[e] = disk[e]
    PROVE  NewestIsWhole'
<1>1. ASSUME NEW e, NothingBeyond(e) PROVE NothingBeyond(e)'
  BY <1>1 DEF NothingBeyond
<1>2. CASE NothingBeyond(0)
  BY <1>1, <1>2 DEF NewestIsWhole
<1>3. CASE \E e \in Epochs : Whole(e) /\ NothingBeyond(e)
  BY <1>1, <1>3, StaysWhole DEF NewestIsWhole
<1> QED
  BY <1>2, <1>3 DEF NewestIsWhole

\* A whole bundle is not beyond what has its last file.
LEMMA WholeIsNotBeyond ==
    ASSUME NEW n \in Nat, NothingBeyond(n), NEW e \in Epochs, Whole(e)
    PROVE  e =< n
<1>1. disk[e]["training-ecs-state"] # Missing
  BY LastFileIsRenamed, BundleAssumption DEF Whole, Missing
<1> QED
  BY <1>1, BundleAssumption DEF NothingBeyond, Epochs

LEMMA NewestStep ==
    ASSUME BundleInv, Newest, [Next]_vars, ~rewinds
    PROVE  Newest'
<1> USE BundleAssumption DEF Epochs
<1>0. /\ epoch \in 0 .. MaxEpoch
      /\ disk \in [Epochs -> [Kinds -> 0 .. MaxStarts + 1]]
  BY DEF BundleInv, Types, TypeOK
<1>1. ASSUME NEW n, UNCHANGED disk, NothingBeyond(n) PROVE NothingBeyond(n)'
  BY <1>1 DEF NothingBeyond
<1>2. ASSUME UNCHANGED disk, NewestIsWhole PROVE NewestIsWhole'
  BY <1>2 DEF NewestIsWhole, NothingBeyond, Whole
\* A bundle that is being written has not got its last file and is not the whole one.
<1>3. ASSUME epoch \in Epochs, next \in 1 .. 5, OnlyFile(Artifacts[next]),
             pc = "save"
      PROVE  NewestIsWhole' /\ \A f \in Epochs : f > epoch - 1 =>
                                 disk'[f]["training-ecs-state"] = Missing
  <2>1. NewestIsWhole /\ NothingBeyond(epoch - 1)
    BY <1>3 DEF Newest
  <2>2. Artifacts[next] # "training-ecs-state"
    BY <1>3, LastFileIsRenamed
  <2>3. \A e \in Epochs : disk'[e]["training-ecs-state"] = disk[e]["training-ecs-state"]
    BY <1>3, <2>2, LastFileIsRenamed DEF OnlyFile
  <2>4. \A e \in Epochs : Whole(e) => e =< epoch - 1
    <3>1. epoch - 1 \in Nat
      BY <1>0, <1>3
    <3> QED
      BY <2>1, <3>1, WholeIsNotBeyond
  <2>5. \A e \in Epochs : Whole(e) => disk'[e] = disk[e]
    BY <1>0, <1>3, <2>4 DEF OnlyFile
  <2>6. NewestIsWhole'
    BY <2>1, <2>3, <2>5, StaysNewest
  <2> QED
    BY <2>1, <2>3, <2>6 DEF NothingBeyond
<1>4. CASE Quiet
  <2>1. CASE pc = "train" /\ pc' \in {"validate", "save"} /\ epoch' = epoch + 1
    <3>1. NewestIsWhole' /\ NothingBeyond(epoch) /\ UNCHANGED disk
      BY <1>2, <1>4, <2>1 DEF Quiet, Newest
    <3>2. epoch' - 1 = epoch
      BY <1>0, <2>1
    <3>3. NothingBeyond(epoch - 1)'
      BY <3>1, <3>2 DEF NothingBeyond
    <3> QED
      BY <2>1, <3>1, <3>3 DEF Newest
  <2>2. CASE pc = "train" /\ pc' = "done"
    BY <2>2 DEF Newest
  <2>3. CASE pc \in {"validate", "policy"} /\ pc' = "save" /\ UNCHANGED epoch
    <3>1. NewestIsWhole' /\ NothingBeyond(epoch - 1) /\ UNCHANGED disk
      BY <1>2, <1>4, <2>3 DEF Quiet, Newest
    <3> QED
      BY <2>3, <3>1 DEF Newest, NothingBeyond
  <2>4. CASE pc = "prune" /\ pc' = "handle" /\ UNCHANGED epoch
    BY <1>4, <2>4 DEF Quiet, Newest, NothingBeyond
  <2>5. CASE UNCHANGED <<pc, epoch>>
    <3>1. UNCHANGED disk
      BY <1>4 DEF Quiet
    <3> QED
      BY <1>2, <2>5, <3>1 DEF Newest, NothingBeyond
  <2> QED
    BY <1>4, <2>1, <2>2, <2>3, <2>4, <2>5 DEF Quiet
<1>5. CASE Saves
  <2>1. CASE next = 6
    <3>1. pc = "save" /\ pc' = "prune" /\ UNCHANGED epoch
      BY <1>5, <2>1 DEF Saves
    <3>2. \A f \in Epochs : f > epoch => disk'[f] = disk[f]
      BY <1>0, <1>5 DEF Saves, OnlyFile
    <3>3. NothingBeyond(epoch)'
      BY <1>0, <3>1, <3>2 DEF Newest, NothingBeyond
    <3> QED
      BY <3>1, <3>3 DEF Newest
  <2>2. CASE next # 6
    <3>1. /\ epoch \in Epochs /\ next \in 1 .. 5 /\ OnlyFile(Artifacts[next])
          /\ pc = "save" /\ pc' \in {"save", "policy"} /\ UNCHANGED epoch
      BY <1>5, <2>2 DEF Saves
    <3>2. NewestIsWhole' /\ NothingBeyond(epoch - 1)'
      BY <1>3, <3>1 DEF NothingBeyond
    <3> QED
      BY <3>1, <3>2 DEF Newest
  <2> QED
    BY <2>1, <2>2
<1>6. CASE Prunes
  <2>1. pc = "prune" /\ UNCHANGED <<pc, epoch>> /\ NothingBeyond(epoch)
    BY <1>6 DEF Prunes, Newest
  <2>2. \A f \in Epochs : disk'[f]["training-ecs-state"]
                              \in {disk[f]["training-ecs-state"], Missing}
    BY <1>6, LastFileIsRenamed DEF Prunes
  <2>3. NothingBeyond(epoch)'
    BY <2>1, <2>2 DEF NothingBeyond
  <2> QED
    BY <2>1, <2>3 DEF Newest
<1>7. CASE Finishes
  <2>1. /\ pc' = "train" /\ UNCHANGED <<disk, epoch>> /\ epoch \in Epochs
        /\ Whole(epoch) /\ NothingBeyond(epoch)
    BY <1>7 DEF Finishes, Newest
  <2>2. NewestIsWhole'
    BY <1>2, <2>1 DEF NewestIsWhole
  <2> QED
    BY <2>1, <2>2 DEF Newest, NothingBeyond
<1>8. CASE Falls
  <2>1. CASE UNCHANGED disk /\ pc \in {"train", "validate", "save", "policy"}
    <3>1. NewestIsWhole'
      BY <1>2, <2>1 DEF Newest
    <3> QED
      BY <1>8, <3>1 DEF Falls, Newest
  <2>2. CASE UNCHANGED disk /\ pc \in {"prune", "handle"}
    <3>1. epoch \in Epochs /\ Whole(epoch) /\ NothingBeyond(epoch)
      BY <2>2 DEF BundleInv, Types, TypeOK, AtWork, InHand, WrittenSoFar, Whole, Newest
    <3>2. NewestIsWhole'
      BY <1>2, <2>2, <3>1 DEF NewestIsWhole
    <3> QED
      BY <1>8, <3>2 DEF Falls, Newest
  <2>3. CASE /\ pc = "save" /\ epoch \in Epochs /\ next \in 1 .. 5
             /\ OnlyFile(Artifacts[next])
    BY <1>3, <1>8, <2>3 DEF Falls, Newest
  <2>4. pc \in {"train", "validate", "save", "policy", "prune", "handle"}
    BY <1>8 DEF Falls, BundleInv, Types, TypeOK, BundlePc
  <2> QED
    BY <1>8, <2>1, <2>2, <2>3, <2>4 DEF Falls
<1>9. CASE Restarts
  <2>1. /\ pc = "off" /\ pc' = "train" /\ UNCHANGED disk /\ NewestIsWhole
        /\ epoch' \in Candidates
    BY <1>9 DEF Restarts, Newest
  <2>2. \A e \in Epochs : Whole(e) => e =< epoch'
    BY <1>9, WholeIsUsable DEF Restarts, IsLatest
  <2>3. \A f \in Epochs : f > epoch' => disk[f]["training-ecs-state"] = Missing
    BY <2>1, <2>2 DEF NewestIsWhole, NothingBeyond, Candidates
  <2>4. NewestIsWhole' /\ NothingBeyond(epoch)'
    BY <1>2, <2>1, <2>3 DEF NothingBeyond
  <2> QED
    BY <2>1, <2>4 DEF Newest
<1> QED
  BY StepKinds, <1>4, <1>5, <1>6, <1>7, <1>8, <1>9

LEMMA ExactStep == ExactInv /\ [Next]_vars => ExactInv'
<1> SUFFICES ASSUME ExactInv, [Next]_vars PROVE ExactInv'
  OBVIOUS
<1> USE BundleAssumption, NoneAssumption DEF ExactInv, Epochs
<1>1. BundleInv' /\ ResumedTrains' /\ UNCHANGED rewinds
  BY BundleStep, ResumedStep
<1>2. (~rewinds => Newest)'
  BY <1>1, NewestStep
<1>3. ASSUME ~rewinds, resumed' = "exact" PROVE Whole(epoch)'
  <2>1. Restarts \/ UNCHANGED <<resumed, disk, epoch>>
    <3>1. resumed' # None
      BY <1>3
    <3> QED
      BY <3>1, ResumedStep
  <2>2. CASE UNCHANGED <<resumed, disk, epoch>>
    BY <1>3, <2>2 DEF ExactResumeIsWhole, Whole
  <2>3. CASE Restarts
    <3>1. /\ NewestIsWhole /\ UNCHANGED disk /\ epoch' \in Epochs /\ Usable(epoch')
          /\ \A f \in Candidates : Usable(f) => f =< epoch'
      BY <1>3, <2>3 DEF Restarts, Newest, Candidates
    <3>2. disk[epoch']["training-ecs-state"] # Missing
      BY <3>1, LastFileIsRenamed DEF Usable, ExactAccepts, IsFile, OptionalExact
    <3>3. PICK e \in Epochs : Whole(e) /\ NothingBeyond(e)
      BY <3>1, <3>2 DEF NewestIsWhole, NothingBeyond
    <3>4. e = epoch'
      BY <3>1, <3>2, <3>3, WholeIsUsable DEF NothingBeyond
    <3> QED
      BY <3>1, <3>3, <3>4 DEF Whole
  <2> QED
    BY <2>1, <2>2, <2>3
<1> QED
  BY <1>1, <1>2, <1>3 DEF ExactResumeIsWhole

LEMMA ExactInit == Init => ExactInv
<1> SUFFICES ASSUME Init PROVE ExactInv
  OBVIOUS
<1>1. Newest
  BY BundleAssumption, LastFileIsRenamed
  DEF Init, Newest, NewestIsWhole, NothingBeyond
<1>2. ResumedTrains
  BY DEF Init, ResumedTrains
<1> QED
  BY <1>1, <1>2, BundleInit, NoneAssumption DEF Init, ExactInv, ExactResumeIsWhole

\* A run that is resumed exactly, and not behind the latest usable bundle, takes up a
\* whole bundle of one save: a required file is written last and renamed into place,
\* and nothing that starts over or prunes leaves a mixed bundle with that file beyond
\* the whole one.
THEOREM ExactIsWhole == Spec => []ExactResumeIsWhole
<1> QED
  BY ExactInit, ExactStep, PTL DEF Spec, ExactInv
-----------------------------------------------------------------------------
(* A rollback finds its bundle. *)

\* What is said of rollbacks is said of these runs.
OnCourse == ~rewinds /\ course # "stray" /\ (teacher => exact_only)

Alive == pc \notin {"off", "done"}
\* Torn, where only a crash can do that.
TornAt(e) == ~teacher /\ \E k \in Kinds : disk[e][k] = Torn
NoFile(e) == \A k \in Kinds : disk[e][k] = Missing

\* The epochs a policy may ask for with state st.
Targets(st) == {st.best, st.ruliad} \ {None}

\* A bundle a rollback may be asked to load: a whole one in runs resumed exactly.
Holds(e) == Loads(e) /\ (exact_only => Whole(e))
SavedHolds(e) == \A t \in Targets(saved[e].stability) : t =< e /\ Holds(t)

ExactKeepsCourse == exact_only => course # "stray"

\* Without a validation of its own the run has no best epoch to go back to.
NoneExternal ==
    execution = "external" =>
        /\ pc \notin {"validate", "policy"}
        /\ stability = NoStability /\ best_valid_epoch = None /\ validated = {}
        /\ \A e \in Epochs : saved[e].stability = NoStability

\* Torn bundles are ahead of the loop, and of everything complete.
TornAhead ==
    /\ pc \in {"train", "prune", "handle"} => \A e \in Epochs : TornAt(e) => e > epoch
    /\ pc \in {"validate", "save", "policy"} =>
          \A e \in Epochs : TornAt(e) => e >= epoch
    /\ pc = "off" => \A e \in Epochs : TornAt(e) => NothingBeyond(e - 1)

\* The epochs in memory can be loaded or are being saved, and pruning knows of them.
MemoryHolds ==
    Alive =>
        /\ stability.best \in {None, best_valid_epoch}
        /\ best_valid_epoch # None => best_valid_epoch =< epoch
        /\ \A t \in Targets(stability) :
              t =< epoch /\ (Holds(t) \/ (t = epoch /\ pc \in {"save", "policy"}))

SlotHolds ==
    target # None =>
        pc \in {"save", "policy", "prune", "handle"} /\ target \in Targets(stability)

\* So can the epochs in the files of the bundle a resume would start from.
FilesHold ==
    /\ pc \in {"off", "train", "validate", "save", "policy"} =>
          \A e \in Epochs : Whole(e) /\ NothingBeyond(e) => SavedHolds(e)
    /\ (pc = "save" /\ next = 6) \/ pc \in {"prune", "handle"} =>
          saved[epoch].stability = stability

PruneIsOver == pc = "handle" => Prunable = {}

FilesLoad(e) ==
    e > 0 /\ IsFile(e, "stability") =>
        \A t \in Targets(saved[e].stability) : t =< e /\ Loads(t)

\* n is the latest bundle, nothing is torn behind it, and the epochs in its files can
\* be loaded.
Latest(n) ==
    /\ n \in Candidates \cup {0}
    /\ \A e \in Epochs : e > n => NoFile(e)
    /\ pc = "off" => \A e \in Epochs : e < n => ~TornAt(e)
    /\ FilesLoad(n)
    /\ pc \in {"train", "prune", "handle"} => n = epoch
    /\ pc \in {"validate", "save", "policy"} =>
          /\ n = IF next = 1 THEN epoch - 1 ELSE epoch
          /\ \A j \in next .. 6 : disk[epoch][Artifacts[j]] = Missing

LatestHolds == course = "latest" /\ pc # "done" => \E n \in 0 .. MaxEpoch : Latest(n)

RollbackInv ==
    /\ ExactInv
    /\ ExactKeepsCourse /\ NoneExternal
    /\ OnCourse => /\ TornAhead /\ MemoryHolds /\ SlotHolds
                   /\ FilesHold /\ PruneIsOver /\ LatestHolds

\* What is needed of the inductive invariant before a step.
Before ==
    /\ ExactInv /\ Newest /\ ExactKeepsCourse /\ NoneExternal
    /\ TornAhead /\ MemoryHolds /\ SlotHolds
    /\ FilesHold /\ PruneIsOver /\ LatestHolds

LEMMA HoldsStays ==
    ASSUME NEW e, Holds(e), disk'[e] = disk[e], exact_only' => exact_only
    PROVE  Holds(e)'
BY DEF Holds, Loads, Whole, IsFile, Readable

\* A whole bundle holds, of whatever run.
LEMMA WholeHolds ==
    ASSUME NEW e \in Epochs, Whole(e)
    PROVE  Holds(e) /\ ~TornAt(e)
<1>1. ~TornAt(e)
  BY BundleAssumption DEF Whole, TornAt, Torn
<1> QED
  BY <1>1, WholeIsUsable DEF Usable, Holds

LEMMA WrittenHolds ==
    ASSUME NEW e \in Epochs, Whole(e)'
    PROVE  Holds(e)' /\ ~TornAt(e)'
<1>1. \A k \in Kinds : disk'[e][k] # Missing /\ disk'[e][k] # Torn
  BY BundleAssumption DEF Whole, Missing, Torn
<1>2. {"model", "runtime-state", "optimizer"} \subseteq Kinds
  BY DEF Kinds, Artifacts
<1> QED
  BY <1>1, <1>2 DEF Holds, Loads, Readable, IsFile, TornAt

LEMMA TargetsAreEpochs ==
    ASSUME NEW st \in StabilityStates
    PROVE  Targets(st) \subseteq Epochs
BY DEF Targets, StabilityStates

\* Only a resume from the latest bundle ends a run that is resumed exactly, and no step
\* leads back to the course.
LEMMA CourseStep ==
    ASSUME BundleInv, ExactKeepsCourse, [Next]_vars
    PROVE  /\ ExactKeepsCourse'
           /\ exact_only' => exact_only
           /\ OnCourse' => OnCourse
           /\ UNCHANGED config_vars
           /\ ResumeLatest \/ ResumeExact \/ UNCHANGED exact_only
<1>1. CASE TrainEpoch \/ TrainingEnds \/ Validate \/ SaveArtifact \/ Policies
  BY <1>1 DEF TrainEpoch, TrainingEnds, Validate, SaveArtifact, Policies,
              ExactKeepsCourse, OnCourse, config_vars, history
<1>2. CASE PruneFile \/ PruneDone \/ Deferred \/ HandleControl \/ HandleRollback
  BY <1>2 DEF PruneFile, PruneDone, Deferred, HandleControl, HandleRollback, FinishEpoch,
              ExactKeepsCourse, OnCourse, config_vars, history
<1>3. CASE RollbackFails \/ Crash
  BY <1>3 DEF RollbackFails, Crash, Dies, ExactKeepsCourse, OnCourse, config_vars
<1>4. CASE ResumeLatest
  BY <1>4 DEF ResumeLatest, Restore, ExactKeepsCourse, OnCourse, config_vars
<1>5. CASE ResumeExact
  BY <1>5 DEF ResumeExact, Restore, ExactKeepsCourse, OnCourse, config_vars
<1>6. CASE UNCHANGED vars
  BY <1>6 DEF vars, ExactKeepsCourse, OnCourse, config_vars, history
<1> QED
  BY <1>1, <1>2, <1>3, <1>4, <1>5, <1>6 DEF Next

LEMMA ExternalStep ==
    ASSUME BundleInv, NoneExternal, [Next]_vars
    PROVE  NoneExternal'
<1> SUFFICES ASSUME execution' = "external" PROVE NoneExternal'
  BY DEF NoneExternal
<1> DEFINE Nothing == /\ stability = NoStability /\ best_valid_epoch = None
                      /\ validated = {}
                      /\ \A e \in Epochs : saved[e].stability = NoStability
<1>0. /\ execution = "external" /\ pc # "validate" /\ pc # "policy" /\ Nothing
      /\ saved \in [Epochs -> [control : Modes, stability : StabilityStates]]
      /\ NoStability \in StabilityStates /\ trainer.control \in Modes
      /\ epoch \in 0 .. MaxEpoch
  <2>1. UNCHANGED execution
    BY DEF Next, TrainEpoch, TrainingEnds, Validate, SaveArtifact, Policies, PruneFile,
           PruneDone, Deferred, HandleControl, HandleRollback, RollbackFails, Crash, Dies,
           FinishEpoch, ResumeLatest, ResumeExact, Restore, config_vars, vars
  <2> QED
    BY <2>1 DEF NoneExternal, BundleInv, Types, TypeOK, Trainers, NoStability,
                StabilityStates
<1>1. CASE TrainEpoch \/ TrainingEnds \/ PruneDone \/ Deferred \/ HandleControl
           \/ HandleRollback \/ UNCHANGED vars
  BY <1>0, <1>1 DEF TrainEpoch, TrainingEnds, PruneDone, Deferred, HandleControl,
     HandleRollback, FinishEpoch, NoneExternal, disk_vars, vars
<1>2. CASE Validate \/ Policies
  BY <1>0, <1>2 DEF Validate, Policies
<1>3. CASE SaveArtifact
  <2>1. /\ pc' \in {"save", "prune"} /\ UNCHANGED <<validated, best_valid_epoch, stability>>
    BY <1>0, <1>3 DEF SaveArtifact
  <2>2. epoch \in Epochs
    BY <1>3 DEF SaveArtifact, BundleInv, Types, AtWork, InHand
  <2>3. \/ saved' = saved
        \/ saved' = [saved EXCEPT ![epoch].control = trainer.control]
        \/ saved' = [saved EXCEPT ![epoch].stability = stability]
    BY <1>3 DEF SaveArtifact
  <2>4. \A e \in Epochs : saved'[e].stability = NoStability
    BY <1>0, <2>2, <2>3
  <2> QED
    BY <1>0, <2>1, <2>4 DEF NoneExternal
<1>4. CASE PruneFile
  <2>1. pc' = "prune" /\ UNCHANGED <<validated, best_valid_epoch, stability>>
    BY <1>4 DEF PruneFile
  <2>2. PICK e \in Epochs : \/ saved' = saved
                            \/ saved' = [saved EXCEPT ![e].control = "stable"]
                            \/ saved' = [saved EXCEPT ![e].stability = NoStability]
    BY <1>4 DEF PruneFile, Prunable
  <2>3. \A f \in Epochs : saved'[f].stability = NoStability
    BY <1>0, <2>2
  <2> QED
    BY <1>0, <2>1, <2>3 DEF NoneExternal
<1>5. CASE RollbackFails \/ Crash
  BY <1>0, <1>5 DEF RollbackFails, Crash, Dies, NoneExternal, disk_vars
<1>6. CASE ResumeLatest \/ ResumeExact
  <2>1. PICK e \in Epochs : Restore(e)
    BY <1>6 DEF ResumeLatest, ResumeExact, Candidates
  <2>2. pc' = "train" /\ UNCHANGED <<saved, validated>>
    BY <2>1 DEF Restore, disk_vars
  <2>3. HistoricalBest(e) = {None}
    BY <1>0 DEF HistoricalBest
  <2>4. stability' = NoStability /\ best_valid_epoch' = None
    BY <1>0, <2>1, <2>3 DEF Restore, NoStability
  <2> QED
    BY <1>0, <2>2, <2>4 DEF NoneExternal
<1> QED
  BY <1>1, <1>2, <1>3, <1>4, <1>5, <1>6 DEF Next

LEMMA SlotStep ==
    ASSUME BundleInv, SlotHolds, [Next]_vars
    PROVE  SlotHolds'
<1> USE DEF SlotHolds, target
<1>1. CASE TrainEpoch \/ TrainingEnds \/ Validate
  BY <1>1 DEF TrainEpoch, TrainingEnds, Validate, NoControl
<1>2. CASE SaveArtifact
  <2>1. pc' \in {"save", "policy", "prune"} /\ UNCHANGED <<slot, stability>>
    BY <1>2 DEF SaveArtifact
  <2> QED
    BY <2>1 DEF Targets
<1>3. CASE Policies
  <2>1. stability' \in StabilityStates
    BY <1>3, TypesStep DEF BundleInv, Types, TypeOK
  <2>2. RollbackTargets(stability') \subseteq Targets(stability')
    BY DEF RollbackTargets, Targets
  <2>3. \/ slot' = NoControl
        \/ \E mode \in GateModes : slot' = Control(mode)
        \/ \E e \in Targets(stability') : slot' = Rollback(e)
    BY <1>3, <2>2 DEF Policies
  <2>4. pc' = "save"
    BY <1>3 DEF Policies
  <2> QED
    BY <2>3, <2>4 DEF NoControl, Control, Rollback, Targets
<1>4. CASE PruneFile \/ PruneDone \/ UNCHANGED vars
  BY <1>4 DEF PruneFile, PruneDone, vars, Targets
<1>5. CASE Deferred \/ HandleControl \/ HandleRollback \/ RollbackFails \/ Crash
  BY <1>5 DEF Deferred, HandleControl, HandleRollback, FinishEpoch, RollbackFails, Crash,
              Dies, NoControl
<1>6. CASE ResumeLatest \/ ResumeExact
  BY <1>6 DEF ResumeLatest, ResumeExact, Restore
<1> QED
  BY <1>1, <1>2, <1>3, <1>4, <1>5, <1>6 DEF Next

\* What pruning leaves alone, of the epochs in memory too.
LEMMA PruneSpares ==
    ASSUME Before, PruneFile, NEW e \in Epochs,
           e = epoch \/ e \in Targets(stability)
    PROVE  disk'[e] = disk[e]
<1>1. e \in Kept(epoch)
  <2>1. CASE e = epoch
    BY <2>1, KeepsTheLast DEF PruneFile, Before, ExactInv, BundleInv
  <2>2. CASE e # epoch
    <3>1. e \in Targets(stability) /\ stability.best \in {None, best_valid_epoch}
      BY <2>2 DEF PruneFile, Before, MemoryHolds, Alive
    <3>2. execution = "local"
      BY <3>1 DEF Before, NoneExternal, NoStability, Targets, ExactInv, BundleInv, Types,
                  TypeOK
    <3> QED
      BY <3>1, <3>2 DEF Kept, Targets
  <2> QED
    BY <2>1, <2>2
<1>2. PICK f \in Prunable, k \in Kinds, left \in {Missing, Torn} :
          /\ left \in Remains(k)
          /\ disk' = [disk EXCEPT ![f][k] = left]
  BY DEF PruneFile, Remains
<1>3. f # e
  BY <1>1 DEF Prunable
<1> QED
  BY <1>2, <1>3 DEF Before, ExactInv, BundleInv, Types, TypeOK

\* A bundle that an exact resume takes up is whole, and there is nothing beyond it.
LEMMA UsableIsNewest ==
    ASSUME BundleInv, Newest, pc = "off", NEW e \in Epochs, Usable(e),
           \A f \in Candidates : Usable(f) => f =< e
    PROVE  Whole(e) /\ NothingBeyond(e)
<1> USE BundleAssumption DEF Epochs
<1>1. disk[e]["training-ecs-state"] # Missing
  BY LastFileIsRenamed DEF Usable, ExactAccepts, IsFile, OptionalExact
<1>2. PICK f \in Epochs : Whole(f) /\ NothingBeyond(f)
  BY <1>1 DEF Newest, NewestIsWhole, NothingBeyond
<1>3. f = e
  BY <1>1, <1>2, WholeIsUsable DEF NothingBeyond
<1> QED
  BY <1>2, <1>3

\* The same bundle for every resume but an exact one from behind the latest.
LEMMA LatestIsLatest ==
    ASSUME LatestHolds, pc = "off", course = "latest",
           NEW e \in Candidates, IsLatest(e)
    PROVE  /\ Latest(e)
           /\ \A f \in Epochs : f # e => ~TornAt(f)
<1> USE BundleAssumption DEF Epochs
<1>1. PICK n \in 0 .. MaxEpoch : Latest(n)
  BY DEF LatestHolds
<1>2. e =< n
  BY <1>1 DEF Latest, NoFile, Candidates, IsFile, Kinds, Artifacts
<1>3. n = e
  BY <1>1, <1>2 DEF Latest, IsLatest, Candidates
<1>4. \A f \in Epochs : f # e => ~TornAt(f)
  BY <1>1, <1>3 DEF Latest, NoFile, TornAt, Candidates, Missing, Torn
<1> QED
  BY <1>1, <1>3, <1>4

LEMMA MemoryStep ==
    ASSUME Before, OnCourse', [Next]_vars
    PROVE  MemoryHolds'
<1> USE BundleAssumption DEF Epochs
<1>0. /\ epoch \in 0 .. MaxEpoch /\ stability \in StabilityStates
      /\ best_valid_epoch \in Epochs \cup {None}
      /\ Targets(stability) \subseteq Epochs
      /\ exact_only' => exact_only
  BY TargetsAreEpochs, CourseStep
  DEF Before, ExactInv, BundleInv, Types, TypeOK
<1>1. ASSUME Alive, pc \notin {"save", "policy"}, UNCHANGED <<disk, stability, best_valid_epoch>>,
             epoch' \in {epoch, epoch + 1}
      PROVE  MemoryHolds'
  <2>1. \A t \in Targets(stability) : t =< epoch /\ Holds(t)
    BY <1>1 DEF Before, MemoryHolds
  <2>2. \A t \in Targets(stability) : Holds(t)'
    BY <1>0, <1>1, <2>1, HoldsStays
  <2> QED
    BY <1>0, <1>1, <2>1, <2>2 DEF Before, MemoryHolds, Targets
<1>2. CASE TrainEpoch \/ PruneDone \/ Deferred \/ HandleControl \/ HandleRollback
  BY <1>1, <1>2 DEF TrainEpoch, PruneDone, Deferred, HandleControl, HandleRollback,
                    FinishEpoch, disk_vars, Alive
<1>3. CASE Validate
  <2>1. /\ pc = "validate" /\ pc' = "save" /\ UNCHANGED <<disk, epoch>>
        /\ \/ UNCHANGED <<stability, best_valid_epoch>>
           \/ /\ stability' = [stability EXCEPT !.best = epoch]
              /\ best_valid_epoch' = epoch
    BY <1>3 DEF Validate
  <2>2. \A t \in Targets(stability) : t =< epoch /\ Holds(t)
    BY <2>1 DEF Before, MemoryHolds, Alive
  <2>3. \A t \in Targets(stability) : Holds(t)'
    BY <1>0, <2>1, <2>2, HoldsStays
  <2>4. \A t \in Targets(stability') : t \in Targets(stability) \/ t = epoch
    BY <1>0, <2>1 DEF Targets, StabilityStates
  <2>5. /\ stability'.best \in {None, best_valid_epoch'}
        /\ best_valid_epoch' # None => best_valid_epoch' =< epoch
    BY <1>0, <2>1 DEF Before, MemoryHolds, Alive, StabilityStates
  <2> QED
    BY <1>0, <2>1, <2>2, <2>3, <2>4, <2>5 DEF MemoryHolds, Targets
<1>4. CASE SaveArtifact
  <2>1. /\ pc = "save" /\ pc' \in {"save", "policy", "prune"}
        /\ UNCHANGED <<epoch, stability, best_valid_epoch>>
    BY <1>4 DEF SaveArtifact
  <2>2. Saves
    BY <1>4, SaveIsOneFile DEF Before, ExactInv
  <2>3. \A t \in Targets(stability) : t =< epoch /\ (Holds(t) \/ t = epoch)
    BY <2>1 DEF Before, MemoryHolds, Alive
  <2>4. \A t \in Targets(stability) : t # epoch => Holds(t)'
    BY <1>0, <2>2, <2>3, HoldsStays DEF Saves, OnlyFile
  <2>5. pc' = "prune" => Holds(epoch)'
    <3> HAVE pc' = "prune"
    <3>1. epoch \in Epochs /\ Whole(epoch)' /\ epoch' = epoch
      BY <2>2 DEF Saves
    <3>2. PICK e \in Epochs : e = epoch
      BY <3>1
    <3> QED
      BY <3>1, <3>2, WrittenHolds DEF Whole
  <2> QED
    BY <2>1, <2>3, <2>4, <2>5 DEF Before, MemoryHolds, Alive, Targets
<1>5. CASE Policies
  <2>1. /\ pc = "policy" /\ pc' = "save" /\ UNCHANGED <<disk, epoch, best_valid_epoch>>
        /\ \/ stability' = stability
           \/ stability' = [stability EXCEPT !.ruliad = epoch]
    BY <1>5 DEF Policies, disk_vars
  <2>2. \A t \in Targets(stability) : t =< epoch /\ (Holds(t) \/ t = epoch)
    BY <2>1 DEF Before, MemoryHolds, Alive
  <2>3. \A t \in Targets(stability) : Holds(t) => Holds(t)'
    BY <1>0, <2>1, HoldsStays
  <2>4. \A t \in Targets(stability') : t \in Targets(stability) \/ t = epoch
    BY <1>0, <2>1 DEF Targets, StabilityStates
  <2>5. stability'.best = stability.best
    BY <1>0, <2>1 DEF StabilityStates
  <2> QED
    BY <1>0, <2>1, <2>2, <2>3, <2>4, <2>5 DEF Before, MemoryHolds, Alive, Targets
<1>6. CASE PruneFile
  <2>1. pc = "prune" /\ UNCHANGED <<pc, epoch, stability, best_valid_epoch>>
    BY <1>6 DEF PruneFile
  <2>2. \A t \in Targets(stability) : t =< epoch /\ Holds(t)
    BY <2>1 DEF Before, MemoryHolds, Alive
  <2>3. \A t \in Targets(stability) : Holds(t)'
    BY <1>0, <1>6, <2>2, PruneSpares, HoldsStays
  <2> QED
    BY <2>1, <2>2, <2>3 DEF Before, MemoryHolds, Alive, Targets
<1>7. CASE TrainingEnds \/ RollbackFails \/ Crash
  BY <1>7 DEF TrainingEnds, RollbackFails, Crash, Dies, MemoryHolds, Alive
<1>8. ASSUME NEW e \in Candidates, Restore(e),
             IsFile(e, "stability") =>
                \A t \in Targets(saved[e].stability) : t =< e /\ Holds(t)',
             ~IsFile(e, "stability") => \A f \in Candidates : f =< e => Holds(f)'
      PROVE  MemoryHolds'
  <2>1. epoch' = e /\ pc' = "train" /\ e \in Epochs
    BY <1>8 DEF Restore, Candidates
  <2>2. PICK best \in HistoricalBest(e) :
            IF IsFile(e, "stability")
            THEN /\ stability' = saved[e].stability
                 /\ best_valid_epoch' = IF saved[e].stability.best # None
                                        THEN saved[e].stability.best ELSE best
            ELSE /\ stability' = [best |-> best, ruliad |-> None]
                 /\ best_valid_epoch' = best
    BY <1>8 DEF Restore
  <2>3. best # None => best \in Candidates /\ best =< e
    BY DEF HistoricalBest
  <2>4. CASE IsFile(e, "stability")
    <3>1. stability'.best \in {None, best_valid_epoch'}
      BY <2>2, <2>4
    <3>2. best_valid_epoch' # None => best_valid_epoch' =< e
      BY <1>8, <2>2, <2>3, <2>4 DEF Targets
    <3> QED
      BY <1>8, <2>1, <2>2, <2>4, <3>1, <3>2 DEF MemoryHolds, Targets
  <2>5. CASE ~IsFile(e, "stability")
    <3>1. stability' = [best |-> best, ruliad |-> None] /\ best_valid_epoch' = best
      BY <2>2, <2>5
    <3>2. \A t \in Targets(stability') : t = best /\ t # None
      BY <3>1 DEF Targets
    <3>3. best # None => best =< e /\ Holds(best)'
      BY <1>8, <2>3, <2>5
    <3> QED
      BY <2>1, <3>1, <3>2, <3>3 DEF MemoryHolds, Targets
  <2> QED
    BY <2>4, <2>5
<1>9. CASE ResumeLatest
  <2>1. PICK e \in Candidates :
            IsLatest(e) /\ Restore(e) /\ exact_only' = FALSE /\ course = "latest"
    BY <1>9 DEF ResumeLatest, OnCourse
  <2>0. ~teacher
    BY <2>1, CourseStep DEF OnCourse, Before, ExactInv, config_vars
  <2>2. pc = "off" /\ UNCHANGED disk /\ Readable(e, Kinds) /\ Loads(e) /\ e \in Epochs
    BY <2>1 DEF Restore, disk_vars, Candidates
  <2>3. Latest(e) /\ \A f \in Epochs : f # e => ~TornAt(f)
    BY <2>1, <2>2, LatestIsLatest DEF Before
  <2>4. \A f \in Epochs : Loads(f) => Holds(f)'
    BY <2>1, <2>2 DEF Holds, Loads, IsFile, Readable
  <2>5. \A f \in Candidates : Loads(f)
    BY <2>0, <2>2, <2>3 DEF Loads, TornAt, Readable, Candidates, Kinds, Artifacts
  <2>6. saved[e].stability \in StabilityStates
    BY <2>2 DEF Before, ExactInv, BundleInv, Types, TypeOK
  <2>7. IsFile(e, "stability") =>
            \A t \in Targets(saved[e].stability) : t \in Epochs /\ t =< e /\ Loads(t)
    BY <2>2, <2>3, <2>6, TargetsAreEpochs DEF Latest, FilesLoad
  <2>8. \A f \in Candidates : f \in Epochs
    BY DEF Candidates
  <2> QED
    BY <1>8, <2>1, <2>4, <2>5, <2>7, <2>8
<1>10. CASE ResumeExact
  <2>1. PICK e \in Candidates :
            /\ ExactAccepts(e) /\ Restore(e)
            /\ \A f \in Candidates : Usable(f) => f =< e
    BY <1>10 DEF ResumeExact, OnCourse, Restore, config_vars
  <2>2. /\ pc = "off" /\ UNCHANGED <<disk>> /\ e \in Epochs /\ Usable(e)
    BY <2>1 DEF Restore, disk_vars, Candidates, Usable
  <2>3. SavedHolds(e)
    BY <2>1, <2>2, UsableIsNewest DEF Before, ExactInv, FilesHold
  <2>4. saved[e].stability \in StabilityStates
    BY <2>2 DEF Before, ExactInv, BundleInv, Types, TypeOK
  <2>5. \A t \in Targets(saved[e].stability) : t =< e /\ Holds(t)'
    BY <1>0, <2>2, <2>3, <2>4, TargetsAreEpochs, HoldsStays DEF SavedHolds
  <2>6. IsFile(e, "stability")
    BY <2>1 DEF ExactAccepts, OptionalExact, Kinds, Artifacts
  <2> QED
    BY <1>8, <2>1, <2>5, <2>6
<1>11. CASE UNCHANGED vars
  <2>1. UNCHANGED <<disk, pc, epoch, stability, best_valid_epoch>>
    BY <1>11 DEF vars, disk_vars
  <2>2. \A t \in Targets(stability) : Holds(t) => Holds(t)'
    BY <1>0, <2>1, HoldsStays
  <2> QED
    BY <2>1, <2>2 DEF Before, MemoryHolds, Alive, Targets
<1> QED
  BY <1>2, <1>3, <1>4, <1>5, <1>6, <1>7, <1>9, <1>10, <1>11 DEF Next

\* How a run restarts on its course, and from what.
LEMMA RestartsOnCourse ==
    ASSUME Before, OnCourse', [Next]_vars, Restarts
    PROVE  \/ /\ course = "latest" /\ course' = "latest"
              /\ Latest(epoch') /\ epoch' \in Candidates
              /\ \A f \in Epochs : ~TornAt(f)
           \/ course' = "behind" /\ Whole(epoch') /\ NothingBeyond(epoch')
<1>1. ResumeLatest \/ ResumeExact
  BY DEF Restarts, Next, vars, TrainEpoch, TrainingEnds, Validate, SaveArtifact, Policies,
         PruneFile, PruneDone, Deferred, HandleControl, HandleRollback, FinishEpoch,
         RollbackFails, Crash, Dies
<1>2. PICK e \in Candidates :
          /\ Restore(e)
          /\ \/ IsLatest(e) /\ course = "latest" /\ course' = "latest"
             \/ /\ ExactAccepts(e) /\ \A f \in Candidates : Usable(f) => f =< e
                /\ (IsLatest(e) /\ course' = course) \/ course' = "behind"
  <2>1. CASE ResumeLatest
    BY <2>1 DEF ResumeLatest, OnCourse
  <2>2. CASE ResumeExact
    BY <2>2 DEF ResumeExact, OnCourse, Restore, config_vars
  <2> QED
    BY <1>1, <2>1, <2>2
<1>3. pc = "off" /\ epoch' = e /\ Readable(e, Kinds) /\ Loads(e) /\ e \in Epochs
  BY <1>2 DEF Restore, Candidates
<1>4. ~TornAt(e)
  BY <1>3 DEF TornAt, Readable
<1>5. CASE IsLatest(e) /\ course = "latest" /\ course' = "latest"
  BY <1>2, <1>3, <1>4, <1>5, LatestIsLatest DEF Before
<1>6. CASE /\ ExactAccepts(e) /\ \A f \in Candidates : Usable(f) => f =< e
           /\ course' = "behind"
  <2>1. Usable(e)
    BY <1>2, <1>3, <1>6 DEF Usable, Candidates
  <2> QED
    BY <1>3, <1>6, <2>1, UsableIsNewest DEF Before, ExactInv
<1>7. course \in {"latest", "behind"}
  BY CourseStep DEF OnCourse, Before, ExactInv, BundleInv, Types, TypeOK, Courses
<1>8. CASE course = "latest"
  BY <1>2, <1>5, <1>6, <1>8
<1>9. CASE course = "behind"
  BY <1>2, <1>6, <1>9
<1> QED
  BY <1>7, <1>8, <1>9

LEMMA TornStep ==
    ASSUME Before, OnCourse', [Next]_vars
    PROVE  TornAhead'
<1> USE BundleAssumption DEF Epochs
<1>0. /\ epoch \in 0 .. MaxEpoch
      /\ disk \in [Epochs -> [Kinds -> 0 .. MaxStarts + 1]]
      /\ UNCHANGED teacher
  BY CourseStep DEF Before, ExactInv, BundleInv, Types, TypeOK, config_vars
<1>1. ASSUME UNCHANGED disk PROVE \A e \in Epochs : TornAt(e)' => TornAt(e)
  BY <1>0, <1>1 DEF TornAt
<1>2. CASE Quiet
  <2>1. \A e \in Epochs : NothingBeyond(e - 1) => NothingBeyond(e - 1)'
    BY <1>2 DEF Quiet, NothingBeyond
  <2> QED
    BY <1>0, <1>1, <1>2, <2>1 DEF Quiet, Before, TornAhead
<1>3. CASE Saves
  <2>1. \A e \in Epochs : e < epoch => ~TornAt(e)'
    <3>1. pc = "save" /\ \A e \in Epochs : TornAt(e) => e >= epoch
      BY <1>3 DEF Before, TornAhead, Saves
    <3>2. OnlyFile(Artifacts[next])
      BY <1>3 DEF Saves
    <3>3. TAKE e \in Epochs
    <3>4. HAVE e < epoch
    <3>5. e # epoch /\ ~TornAt(e)
      BY <1>0, <3>1, <3>4
    <3>6. \A k \in Kinds : disk'[e][k] = disk[e][k]
      BY <3>2, <3>5 DEF OnlyFile
    <3> QED
      BY <1>0, <3>5, <3>6 DEF TornAt
  <2>2. pc' = "prune" => ~TornAt(epoch)'
    <3> HAVE pc' = "prune"
    <3>1. epoch \in Epochs /\ Whole(epoch)' /\ epoch' = epoch
      BY <1>3 DEF Saves
    <3>2. PICK e \in Epochs : e = epoch
      BY <3>1
    <3> QED
      BY <3>1, <3>2, WrittenHolds DEF Whole, TornAt
  <2> QED
    BY <1>0, <1>3, <2>1, <2>2 DEF Saves, TornAhead
<1>4. CASE Prunes
  <2>1. \A e \in Epochs : TornAt(e)' => TornAt(e)
    BY <1>0, <1>4 DEF Prunes, TornAt, Torn, Missing
  <2> QED
    BY <1>4, <2>1 DEF Prunes, Before, TornAhead
<1>5. CASE Finishes
  BY <1>0, <1>1, <1>5 DEF Finishes, Before, TornAhead
<1>6. CASE Falls
  <2>1. \A e \in Epochs : TornAt(e)' => NothingBeyond(e - 1)
    <3>1. CASE pc \in {"train", "prune", "handle"}
      <4>1. UNCHANGED disk /\ NothingBeyond(epoch)
        BY <1>6, <3>1 DEF Falls, Before, Newest
      <4> QED
        BY <1>0, <1>1, <3>1, <4>1 DEF Before, TornAhead, NothingBeyond
    <3>2. CASE pc \in {"validate", "save", "policy"}
      <4>1. NothingBeyond(epoch - 1)
        BY <3>2 DEF Before, Newest
      <4>2. \A e \in Epochs : TornAt(e)' => e >= epoch
        BY <1>0, <1>1, <1>6, <3>2 DEF Falls, OnlyFile, Before, TornAhead, TornAt
      <4> QED
        BY <1>0, <4>1, <4>2 DEF NothingBeyond
    <3> QED
      BY <1>6, <3>1, <3>2 DEF Falls, Before, ExactInv, BundleInv, Types, TypeOK, BundlePc
  <2>2. \A e \in Epochs : disk'[e]["training-ecs-state"] = disk[e]["training-ecs-state"]
    BY <1>6, LastFileIsRenamed DEF Falls, OnlyFile
  <2> QED
    BY <1>6, <2>1, <2>2 DEF Falls, TornAhead, NothingBeyond
<1>7. CASE Restarts
  <2>1. pc = "off" /\ pc' = "train" /\ UNCHANGED disk /\ epoch' \in Epochs
    BY <1>7 DEF Restarts, Candidates
  <2>2. ASSUME Whole(epoch') PROVE \A e \in Epochs : TornAt(e) => e > epoch'
    <3>1. disk[epoch']["training-ecs-state"] # Missing
      BY <2>2, LastFileIsRenamed DEF Whole, Missing
    <3> QED
      BY <2>1, <3>1 DEF Before, TornAhead, NothingBeyond
  <2>3. \A e \in Epochs : TornAt(e) => e > epoch'
    BY <1>7, <2>2, RestartsOnCourse
  <2> QED
    BY <1>1, <2>1, <2>3 DEF TornAhead
<1> QED
  BY StepKinds, <1>2, <1>3, <1>4, <1>5, <1>6, <1>7 DEF Before, ExactInv

\* The whole bundle with nothing beyond it is one.
LEMMA NewestIsOne ==
    ASSUME NEW e \in Epochs, NEW f \in Epochs,
           Whole(e), Whole(f), NothingBeyond(f)
    PROVE  e =< f
BY WholeIsNotBeyond, BundleAssumption DEF Epochs

\* The epochs in memory are the ones in the files, from the save on.
LEMMA FilesOfMemory ==
    ASSUME Before, pc \in {"prune", "handle"}
    PROVE  epoch \in Epochs /\ Whole(epoch) /\ SavedHolds(epoch)
<1>1. epoch \in Epochs /\ Whole(epoch)
  BY DEF Before, ExactInv, BundleInv, Types, TypeOK, AtWork, InHand, WrittenSoFar, Whole
<1>2. saved[epoch].stability = stability
  BY DEF Before, FilesHold
<1>3. \A t \in Targets(stability) : t =< epoch /\ Holds(t)
  BY DEF Before, MemoryHolds, Alive
<1> QED
  BY <1>1, <1>2, <1>3 DEF SavedHolds

\* What the files of a bundle say of other bundles holds while those are not touched.
LEMMA SavedStays ==
    ASSUME Before, [Next]_vars, NEW e \in Epochs, SavedHolds(e),
           saved'[e].stability = saved[e].stability,
           \A f \in Epochs : f =< e => disk'[f] = disk[f]
    PROVE  SavedHolds(e)'
<1>1. Targets(saved[e].stability) \subseteq Epochs
  BY TargetsAreEpochs DEF Before, ExactInv, BundleInv, Types, TypeOK
<1>2. exact_only' => exact_only
  BY CourseStep DEF Before, ExactInv
<1> QED
  BY <1>1, <1>2, HoldsStays DEF SavedHolds

\* Which files of saved a step changes.
LEMMA SavedStep ==
    ASSUME BundleInv, [Next]_vars
    PROVE  /\ SaveArtifact =>
                 /\ \A e \in Epochs : e # epoch => saved'[e] = saved[e]
                 /\ next # 5 => saved'[epoch].stability = saved[epoch].stability
                 /\ next = 5 => saved'[epoch].stability = stability
           /\ PruneFile => saved'[epoch] = saved[epoch]
           /\ SaveArtifact \/ PruneFile \/ UNCHANGED saved
<1>0. /\ saved \in [Epochs -> [control : Modes, stability : StabilityStates]]
      /\ pc \in {"save", "prune"} => epoch \in Epochs
  BY DEF BundleInv, Types, TypeOK, AtWork, InHand
<1>1. ASSUME SaveArtifact
      PROVE  /\ \A e \in Epochs : e # epoch => saved'[e] = saved[e]
             /\ next # 5 => saved'[epoch].stability = saved[epoch].stability
             /\ next = 5 => saved'[epoch].stability = stability
  <2>1. epoch \in Epochs /\ next \in 1 .. 6
    BY <1>0, <1>1 DEF SaveArtifact, BundleInv, Types, AtWork, Writing
  <2>2. CASE next = 5
    <3>1. saved' = [saved EXCEPT ![epoch].stability = stability]
      BY <1>1, <2>2 DEF SaveArtifact, Artifacts
    <3> QED
      BY <1>0, <1>1, <2>1, <2>2, <3>1
  <2>3. CASE next # 5
    <3>1. saved' = saved \/ saved' = [saved EXCEPT ![epoch].control = trainer.control]
      BY <1>1, <2>1, <2>3 DEF SaveArtifact, Artifacts
    <3> QED
      BY <1>0, <1>1, <2>1, <2>3, <3>1
  <2> QED
    BY <2>2, <2>3
<1>2. ASSUME PruneFile PROVE saved'[epoch] = saved[epoch]
  <2>1. PICK e \in Epochs : /\ e # epoch
                            /\ \/ saved' = saved
                               \/ saved' = [saved EXCEPT ![e].control = "stable"]
                               \/ saved' = [saved EXCEPT ![e].stability = NoStability]
    BY <1>2, KeepsTheLast DEF PruneFile, Prunable, BundleInv
  <2> QED
    BY <1>0, <1>2, <2>1 DEF PruneFile
<1>3. ASSUME TrainEpoch \/ TrainingEnds \/ Validate \/ Policies \/ PruneDone \/ Deferred
             \/ HandleControl \/ HandleRollback \/ UNCHANGED vars
      PROVE  UNCHANGED saved
  BY <1>3 DEF TrainEpoch, TrainingEnds, Validate, Policies, PruneDone, Deferred,
              HandleControl, HandleRollback, FinishEpoch, disk_vars, vars
<1>4. ASSUME RollbackFails \/ Crash \/ ResumeLatest \/ ResumeExact PROVE UNCHANGED saved
  BY <1>4 DEF RollbackFails, Crash, ResumeLatest, ResumeExact, Restore, disk_vars
<1> QED
  BY <1>1, <1>2, <1>3, <1>4 DEF Next

\* A bundle that is being written is not the whole one with nothing beyond it.
LEMMA UnderWayIsNotWhole ==
    ASSUME Before, pc = "save", epoch \in Epochs, next \in 1 .. 5,
           OnlyFile(Artifacts[next]), NEW e \in Epochs, Whole(e)', NothingBeyond(e)'
    PROVE  e < epoch /\ Whole(e) /\ NothingBeyond(e)
<1> USE BundleAssumption DEF Epochs
<1>1. Artifacts[next] # "training-ecs-state"
  BY LastFileIsRenamed
<1>2. \A f \in Epochs : disk'[f]["training-ecs-state"] = disk[f]["training-ecs-state"]
  BY <1>1, LastFileIsRenamed DEF OnlyFile
<1>3. disk[e]["training-ecs-state"] # Missing
  BY <1>2, LastFileIsRenamed DEF Whole, Missing
<1>4. NothingBeyond(epoch - 1)
  BY DEF Before, Newest
<1>5. e < epoch
  BY <1>3, <1>4 DEF NothingBeyond
<1>6. disk'[e] = disk[e]
  BY <1>5 DEF OnlyFile
<1> QED
  BY <1>2, <1>5, <1>6 DEF Whole, NothingBeyond

LEMMA FilesStep ==
    ASSUME Before, OnCourse', [Next]_vars
    PROVE  FilesHold'
<1> USE BundleAssumption DEF Epochs
<1>0. /\ epoch \in 0 .. MaxEpoch
      /\ BundleInv /\ ExactInv
  BY DEF Before, ExactInv, BundleInv, Types, TypeOK
\* The bundle a resume would start from.
<1>1. ASSUME UNCHANGED <<disk, saved>>,
             pc \in {"off", "train", "validate", "save", "policy"},
             NEW e \in Epochs, Whole(e)', NothingBeyond(e)'
      PROVE  SavedHolds(e)'
  <2>1. Whole(e) /\ NothingBeyond(e)
    BY <1>1 DEF Whole, NothingBeyond
  <2>2. SavedHolds(e)
    BY <1>1, <2>1 DEF Before, FilesHold
  <2> QED
    BY <1>1, <2>2, SavedStays
<1>2. ASSUME UNCHANGED <<disk, saved>>, pc \in {"prune", "handle"},
             NEW e \in Epochs, Whole(e)', NothingBeyond(e)'
      PROVE  SavedHolds(e)'
  <2>1. Whole(e) /\ NothingBeyond(e)
    BY <1>2 DEF Whole, NothingBeyond
  <2>2. epoch \in Epochs /\ Whole(epoch) /\ SavedHolds(epoch) /\ NothingBeyond(epoch)
    BY <1>2, FilesOfMemory DEF Before, Newest
  <2>3. e = epoch
    BY <2>1, <2>2, NewestIsOne
  <2> QED
    BY <1>2, <2>2, <2>3, SavedStays
<1>3. ASSUME pc = "save", epoch \in Epochs, next \in 1 .. 5, OnlyFile(Artifacts[next]),
             \A e \in Epochs : e # epoch => saved'[e] = saved[e],
             NEW e \in Epochs, Whole(e)', NothingBeyond(e)'
      PROVE  SavedHolds(e)'
  <2>1. e < epoch /\ Whole(e) /\ NothingBeyond(e)
    BY <1>3, UnderWayIsNotWhole
  <2>2. SavedHolds(e)
    BY <1>3, <2>1 DEF Before, FilesHold
  <2> QED
    BY <1>0, <1>3, <2>1, <2>2, SavedStays DEF OnlyFile
<1>4. ASSUME pc' \in {"off", "train", "validate", "save", "policy"},
             NEW e \in Epochs, Whole(e)', NothingBeyond(e)'
      PROVE  SavedHolds(e)'
  <2>1. CASE UNCHANGED <<disk, saved>> /\ pc # "done"
    BY <1>0, <1>1, <1>2, <1>4, <2>1 DEF BundleInv, Types, TypeOK, BundlePc
  <2>2. CASE SaveArtifact
    <3>1. Saves
      BY <1>0, <2>2, SaveIsOneFile
    <3>2. \A f \in Epochs : f # epoch => saved'[f] = saved[f]
      BY <1>0, <2>2, SavedStep
    <3> QED
      BY <1>3, <1>4, <3>1, <3>2 DEF Saves
  <2>3. CASE RollbackFails \/ Crash
    <3>1. Falls /\ UNCHANGED saved
      BY <1>0, <2>3, DeathTearsOneFile DEF RollbackFails, Crash, disk_vars
    <3> QED
      BY <1>3, <1>4, <2>1, <3>1 DEF Falls
  <2>4. CASE TrainEpoch \/ TrainingEnds \/ Validate \/ Policies \/ PruneFile \/ PruneDone
             \/ Deferred \/ HandleControl \/ HandleRollback \/ UNCHANGED vars
    BY <1>4, <2>1, <2>4 DEF TrainEpoch, TrainingEnds, Validate, Policies, PruneFile,
       PruneDone, Deferred, HandleControl, HandleRollback, FinishEpoch, disk_vars, vars
  <2>5. CASE ResumeLatest \/ ResumeExact
    BY <2>1, <2>5 DEF ResumeLatest, ResumeExact, Restore, disk_vars
  <2> QED
    BY <2>2, <2>3, <2>4, <2>5 DEF Next
\* What is in the files of the bundle in hand.
<1>5. ASSUME (pc' = "save" /\ next' = 6) \/ pc' \in {"prune", "handle"}
      PROVE  saved'[epoch'].stability = stability'
  <2>1. CASE SaveArtifact
    <3>1. /\ pc = "save" /\ pc' \in {"save", "policy", "prune"} /\ next \in 1 .. 6
          /\ next' = next + 1 /\ (pc' = "prune" <=> next = 6)
          /\ UNCHANGED <<epoch, stability>>
      <4>1. Saves
        BY <1>0, <2>1, SaveIsOneFile
      <4>2. next' = next + 1 /\ UNCHANGED stability
        BY <2>1 DEF SaveArtifact
      <4> QED
        BY <4>1, <4>2 DEF Saves
    <3>2. next = 5 => saved'[epoch].stability = stability
      BY <1>0, <2>1, SavedStep
    <3>3. next # 5 => saved'[epoch].stability = saved[epoch].stability
      BY <1>0, <2>1, SavedStep
    <3>4. next = 6 => saved[epoch].stability = stability
      BY <3>1 DEF Before, FilesHold
    <3> QED
      BY <1>5, <3>1, <3>2, <3>3, <3>4
  <2>2. CASE PruneFile
    <3>1. pc = "prune" /\ UNCHANGED <<epoch, stability>>
      BY <2>2 DEF PruneFile
    <3>2. saved'[epoch].stability = saved[epoch].stability
      BY <1>0, <2>2, SavedStep
    <3> QED
      BY <3>1, <3>2 DEF Before, FilesHold
  <2>3. CASE PruneDone \/ UNCHANGED vars
    BY <1>5, <2>3 DEF PruneDone, Before, FilesHold, disk_vars, vars
  <2>4. CASE TrainEpoch \/ Validate \/ Policies
    BY <1>0, <1>5, <2>4 DEF TrainEpoch, Validate, Policies, BundleInv, Types, AtWork, Writing
  <2>5. CASE TrainingEnds \/ Deferred \/ HandleControl \/ HandleRollback
             \/ RollbackFails \/ Crash \/ ResumeLatest \/ ResumeExact
    BY <1>5, <2>5 DEF TrainingEnds, Deferred, HandleControl, HandleRollback, FinishEpoch,
       RollbackFails, Crash, Dies, ResumeLatest, ResumeExact, Restore
  <2> QED
    BY <2>1, <2>2, <2>3, <2>4, <2>5 DEF Next
<1> QED
  BY <1>4, <1>5 DEF FilesHold

LEMMA PruneStep ==
    ASSUME Before, [Next]_vars
    PROVE  PruneIsOver'
<1> SUFFICES ASSUME pc' = "handle" PROVE Prunable' = {}
  BY DEF PruneIsOver
<1>1. CASE PruneDone \/ UNCHANGED vars
  <2>1. Prunable = {}
    BY <1>1 DEF PruneDone, Before, PruneIsOver, vars
  <2>2. UNCHANGED <<disk, epoch, execution, best_valid_epoch, stability>>
    BY <1>1 DEF PruneDone, disk_vars, config_vars, vars
  <2> QED
    BY <2>1, <2>2 DEF Prunable, Kept, RecentEpochs, IsFile
<1>2. CASE TrainEpoch \/ TrainingEnds \/ Validate \/ SaveArtifact \/ Policies \/ PruneFile
  BY <1>2 DEF TrainEpoch, TrainingEnds, Validate, SaveArtifact, Policies, PruneFile
<1>3. CASE Deferred \/ HandleControl \/ HandleRollback \/ RollbackFails \/ Crash
           \/ ResumeLatest \/ ResumeExact
  BY <1>3 DEF Deferred, HandleControl, HandleRollback, FinishEpoch, RollbackFails, Crash,
              Dies, ResumeLatest, ResumeExact, Restore
<1> QED
  BY <1>1, <1>2, <1>3 DEF Next

\* When pruning is over there is nothing beyond the bundle in hand.
LEMMA PrunedBeyond ==
    ASSUME Before, pc \in {"prune", "handle"}, Prunable = {}
    PROVE  \A e \in Epochs : e > epoch => NoFile(e)
<1> USE BundleAssumption DEF Epochs
<1>1. /\ epoch \in Epochs /\ best_valid_epoch \in Epochs \cup {None}
      /\ stability \in StabilityStates
  BY FilesOfMemory DEF Before, ExactInv, BundleInv, Types, TypeOK
<1>2. /\ best_valid_epoch # None => best_valid_epoch =< epoch
      /\ stability.ruliad # None => stability.ruliad =< epoch
  BY DEF Before, MemoryHolds, Alive, Targets
<1>3. \A e \in Epochs : e > epoch => e \notin Kept(epoch)
  BY <1>1, <1>2 DEF Kept, RecentEpochs
<1> QED
  BY <1>3 DEF Prunable, NoFile, IsFile

LEMMA FilesDiffer == \A i, j \in 1 .. 6 : i # j => Artifacts[i] # Artifacts[j]
<1> TAKE i, j \in 1 .. 6
<1> HAVE i # j
<1>1. /\ i \in {1, 2, 3, 4, 5, 6} /\ j \in {1, 2, 3, 4, 5, 6}
  OBVIOUS
<1> QED
  BY <1>1 DEF Artifacts

LEMMA LatestStep ==
    ASSUME Before, OnCourse', [Next]_vars, BundleInv', MemoryHolds', FilesHold',
           course' = "latest", pc' # "done"
    PROVE  \E n \in 0 .. MaxEpoch : Latest(n)'
<1> USE BundleAssumption DEF Epochs
<1>0. /\ epoch \in 0 .. MaxEpoch
      /\ disk \in [Epochs -> [Kinds -> 0 .. MaxStarts + 1]]
      /\ BundleInv /\ ExactInv /\ AtWork /\ UNCHANGED teacher
      /\ \A i \in 1 .. 6 : Artifacts[i] \in Kinds
  BY SomeFiles, CourseStep DEF Before, ExactInv, BundleInv, Types, TypeOK, config_vars
\* The latest bundle stays the latest while no file changes.
<1>1. ASSUME NEW n \in 0 .. MaxEpoch, UNCHANGED <<disk, saved>>, Latest(n)
      PROVE  /\ n \in {0} \cup Candidates' /\ FilesLoad(n)'
             /\ \A e \in Epochs : e > n => NoFile(e)'
             /\ \A e \in Epochs : TornAt(e)' => TornAt(e)
  <2>1. Candidates' = Candidates /\ FilesLoad(n)'
    BY <1>1 DEF Latest, Candidates, IsFile, FilesLoad, Loads, Readable
  <2>2. /\ \A e \in Epochs : e > n => NoFile(e)'
        /\ \A e \in Epochs : TornAt(e)' => TornAt(e)
    BY <1>0, <1>1 DEF Latest, NoFile, TornAt
  <2> QED
    BY <1>1, <2>1, <2>2 DEF Latest
<1>2. CASE TrainEpoch
  <2>1. /\ pc = "train" /\ pc' \in {"validate", "save"} /\ epoch' = epoch + 1 /\ next' = 1
        /\ epoch' \in Epochs /\ UNCHANGED <<disk, saved, course>>
    BY <1>0, <1>2 DEF TrainEpoch, EpochsLeft, disk_vars
  <2>2. PICK n \in 0 .. MaxEpoch : Latest(n)
    BY <2>1 DEF Before, LatestHolds
  <2>3. n = epoch
    BY <2>1, <2>2 DEF Latest
  <2>4. NoFile(epoch') /\ n = epoch' - 1
    BY <1>0, <2>1, <2>2, <2>3 DEF Latest
  <2>5. \A j \in 1 .. 6 : disk'[epoch'][Artifacts[j]] = Missing
    BY <1>0, <2>1, <2>4 DEF NoFile
  <2> QED
    BY <1>1, <2>1, <2>2, <2>4, <2>5 DEF Latest
<1>3. CASE Validate \/ Policies
  <2>1. /\ pc \in {"validate", "policy"} /\ pc' = "save"
        /\ UNCHANGED <<disk, saved, course, epoch, next>>
    BY <1>3 DEF Validate, Policies, disk_vars, history
  <2>2. PICK n \in 0 .. MaxEpoch : Latest(n)
    BY <2>1 DEF Before, LatestHolds
  <2>3. /\ n = IF next = 1 THEN epoch - 1 ELSE epoch
        /\ \A j \in next .. 6 : disk[epoch][Artifacts[j]] = Missing
    BY <2>1, <2>2 DEF Latest
  <2> QED
    BY <1>1, <2>1, <2>2, <2>3 DEF Latest
<1>4. CASE PruneDone \/ UNCHANGED vars
  <2>1. /\ UNCHANGED <<disk, saved, course, epoch, next>>
        /\ pc' = pc \/ (pc = "prune" /\ pc' = "handle")
    BY <1>4 DEF PruneDone, disk_vars, history, vars
  <2>2. PICK n \in 0 .. MaxEpoch : Latest(n)
    BY <2>1 DEF Before, LatestHolds
  <2> QED
    BY <1>1, <2>1, <2>2 DEF Latest
<1>5. CASE Deferred \/ HandleControl \/ HandleRollback
  <2>1. /\ pc \in {"prune", "handle"} /\ pc' = "train" /\ Prunable = {}
        /\ UNCHANGED <<disk, saved, epoch, stability>>
    BY <1>5 DEF Deferred, HandleControl, HandleRollback, FinishEpoch, disk_vars, Before,
                PruneIsOver
  <2>2. epoch \in Epochs /\ Whole(epoch) /\ SavedHolds(epoch)
    BY <2>1, FilesOfMemory
  <2>3. \A e \in Epochs : e > epoch => NoFile(e)'
    BY <2>1, PrunedBeyond DEF NoFile
  <2>4. epoch \in Candidates'
    BY <2>1, <2>2, WholeIsUsable DEF Candidates, IsFile
  <2>5. FilesLoad(epoch)'
    BY <2>1, <2>2 DEF SavedHolds, FilesLoad, Holds, Loads, IsFile, Readable
  <2>6. PICK n \in 0 .. MaxEpoch : n = epoch
    BY <1>0
  <2>7. Latest(n)'
    BY <2>1, <2>3, <2>4, <2>5, <2>6 DEF Latest, FilesLoad
  <2> QED
    BY <2>7
<1>6. CASE Restarts
  <2>1. /\ pc = "off" /\ pc' = "train" /\ UNCHANGED disk /\ epoch' \in Epochs
    BY <1>6 DEF Restarts, Candidates
  <2>2. Latest(epoch')
    BY <1>6, RestartsOnCourse
  <2>3. UNCHANGED saved
    BY <1>0, <2>1, SavedStep DEF SaveArtifact, PruneFile
  <2>4. PICK n \in 0 .. MaxEpoch : n = epoch'
    BY <2>1
  <2>5. Latest(n)'
    BY <1>1, <2>1, <2>2, <2>3, <2>4 DEF Latest
  <2> QED
    BY <2>5
<1>7. CASE PruneFile
  <2>1. Prunes /\ pc = "prune" /\ pc' = "prune" /\ epoch' = epoch /\ UNCHANGED course
    BY <1>0, <1>7, PruneIsOneFile DEF PruneFile, history
  <2>2. PICK n \in 0 .. MaxEpoch : Latest(n)
    BY <2>1 DEF Before, LatestHolds
  <2>3. n = epoch /\ epoch \in Epochs
    BY <2>1, <2>2 DEF Latest, Prunes
  <2>4. n \in Candidates' /\ \A e \in Epochs : e > n => NoFile(e)'
    BY <2>1, <2>2, <2>3 DEF Latest, Prunes, Candidates, IsFile, NoFile
  <2>5. saved'[n].stability = stability'
    BY <2>1, <2>3 DEF FilesHold
  <2>6. \A t \in Targets(stability') : t =< n /\ Loads(t)'
    BY <2>1, <2>3 DEF MemoryHolds, Alive, Holds, Targets
  <2>7. FilesLoad(n)'
    BY <2>5, <2>6 DEF FilesLoad, Targets
  <2> QED
    BY <2>1, <2>3, <2>4, <2>7 DEF Latest
\* The bundle in hand, before and while it is written.
<1>8. ASSUME course = "latest", pc = "save", NEW w \in 1 .. Torn,
             disk' = [disk EXCEPT ![epoch][Artifacts[next]] = w]
      PROVE  /\ epoch \in Epochs /\ next \in 1 .. 6
             /\ epoch \in Candidates' /\ \A e \in Epochs : e > epoch => NoFile(e)'
             /\ \A j \in next + 1 .. 6 : disk'[epoch][Artifacts[j]] = Missing
  <2>1. /\ epoch \in Epochs /\ next \in 1 .. 6 /\ Artifacts[next] \in Kinds
        /\ start \in 1 .. MaxStarts
    BY <1>0, <1>8 DEF AtWork, InHand, Writing, BundleInv, Types, TypeOK
  <2>2. PICK m \in 0 .. MaxEpoch : Latest(m)
    BY <1>8 DEF Before, LatestHolds
  <2>3. m =< epoch /\ \A j \in next .. 6 : disk[epoch][Artifacts[j]] = Missing
    BY <1>0, <1>8, <2>1, <2>2 DEF Latest
  <2>4. \A e \in Epochs : e > epoch => NoFile(e)'
    <3> TAKE e \in Epochs
    <3> HAVE e > epoch
    <3>1. NoFile(e)
      BY <1>0, <2>2, <2>3 DEF Latest
    <3>2. disk'[e] = disk[e]
      BY <1>0, <1>8
    <3> QED
      BY <3>1, <3>2 DEF NoFile
  <2>5. epoch \in Candidates'
    <3>1. Artifacts[1] = "model" /\ "model" \in Kinds
      BY <1>0 DEF Artifacts
    <3>2. next # 1 => disk[epoch][Artifacts[1]] = start
      BY <1>0, <1>8, <2>1 DEF BundleInv, WrittenSoFar
    <3>3. disk'[epoch]["model"] \in {w, disk[epoch]["model"]}
          /\ (next = 1 => disk'[epoch]["model"] = w)
      BY <1>0, <1>8, <2>1, <3>1
    <3>4. w # Missing /\ start # Missing
      BY <2>1 DEF Missing, Torn
    <3> QED
      BY <2>1, <3>1, <3>2, <3>3, <3>4 DEF Candidates, IsFile
  <2>6. \A j \in next + 1 .. 6 : disk'[epoch][Artifacts[j]] = Missing
    <3> TAKE j \in next + 1 .. 6
    <3>1. j \in next .. 6 /\ j \in 1 .. 6 /\ j # next
      BY <2>1
    <3>2. Artifacts[j] # Artifacts[next] /\ Artifacts[j] \in Kinds
      BY <1>0, <2>1, <3>1, FilesDiffer
    <3> QED
      BY <1>0, <1>8, <2>1, <2>3, <3>1, <3>2
  <2> QED
    BY <2>1, <2>4, <2>5, <2>6
<1>9. CASE SaveArtifact
  <2>1. /\ pc = "save" /\ pc' \in {"save", "policy", "prune"} /\ next' = next + 1
        /\ disk' = [disk EXCEPT ![epoch][Artifacts[next]] = start]
        /\ UNCHANGED <<epoch, start, course>> /\ start \in 1 .. Torn
        /\ (pc' = "prune" <=> next = 6)
    <3>1. Saves /\ disk' = [disk EXCEPT ![epoch][Artifacts[next]] = start]
      BY <1>0, <1>9, SaveIsOneFile
    <3>2. next' = next + 1 /\ UNCHANGED <<start, course>>
      BY <1>9 DEF SaveArtifact, history
    <3>3. start \in 1 .. Torn
      BY <1>0 DEF BundleInv, Types, TypeOK, Torn
    <3> QED
      BY <3>1, <3>2, <3>3 DEF Saves
  <2>2. /\ epoch \in Epochs /\ next \in 1 .. 6
        /\ epoch \in Candidates' /\ \A e \in Epochs : e > epoch => NoFile(e)'
        /\ \A j \in next + 1 .. 6 : disk'[epoch][Artifacts[j]] = Missing
    BY <1>8, <2>1
  <2>3. PICK n \in 0 .. MaxEpoch : n = epoch
    BY <2>2
  <2>4. FilesLoad(n)'
    <3>1. CASE next \in 1 .. 4
      <4>1. disk'[n]["stability"] = Missing
        <5>1. 5 \in next + 1 .. 6 /\ Artifacts[5] = "stability"
          BY <3>1 DEF Artifacts
        <5> QED
          BY <2>2, <2>3, <5>1
      <4> QED
        BY <4>1 DEF FilesLoad, IsFile
    <3>2. CASE next \in 5 .. 6
      <4>1. saved'[n].stability = stability'
        <5>1. pc' = "policy" => next' = 5
          BY DEF BundleInv, Types, AtWork, Writing
        <5>2. next' = 6 \/ pc' = "prune"
          BY <2>1, <2>2, <3>2
        <5>3. (pc' = "save" /\ next' = 6) \/ pc' = "prune"
          BY <2>1, <5>1, <5>2
        <5> QED
          BY <2>1, <2>3, <5>3 DEF FilesHold
      <4>2. Loads(n)'
        <5>1. disk'[n]["model"] = start /\ disk'[n]["runtime-state"] = start
              /\ disk'[n]["optimizer"] = start
          <6>1. \A j \in 1 .. 3 : disk'[epoch][Artifacts[j]] = start
            <7>1. WrittenSoFar' /\ \A j \in 1 .. 3 : Artifacts[j] \in Kinds
              BY <1>0 DEF BundleInv
            <7>2. next' - 1 = next /\ \A j \in 1 .. 3 : j \in 1 .. next
              BY <2>1, <2>2, <3>2
            <7> QED
              BY <2>1, <7>1, <7>2 DEF WrittenSoFar
          <6> QED
            BY <2>3, <6>1 DEF Artifacts
        <5>2. start # Missing /\ start # Torn
          BY <1>0 DEF BundleInv, Types, TypeOK, Missing, Torn
        <5> QED
          BY <5>1, <5>2 DEF Loads, IsFile, Readable
      <4>3. \A t \in Targets(stability') : t =< n /\ Loads(t)'
        BY <2>1, <2>3, <4>2 DEF MemoryHolds, Alive, Holds, Targets
      <4> QED
        BY <4>1, <4>3 DEF FilesLoad, Targets
    <3> QED
      BY <2>2, <3>1, <3>2
  <2> QED
    BY <2>1, <2>2, <2>3, <2>4 DEF Latest
<1>10. CASE RollbackFails \/ Crash
  <2>1. pc \notin {"off", "done"} /\ pc' = "off" /\ UNCHANGED <<saved, course>>
    BY <1>10 DEF RollbackFails, Crash, Dies, disk_vars
  <2>2. CASE UNCHANGED disk
    <3>1. PICK n \in 0 .. MaxEpoch : Latest(n)
      BY <2>1 DEF Before, LatestHolds
    <3>2. \A e \in Epochs : e < n => ~TornAt(e)
      <4>1. pc \in {"train", "validate", "save", "policy", "prune", "handle"}
        BY <1>0, <2>1 DEF BundleInv, Types, TypeOK, BundlePc
      <4>2. CASE pc \in {"train", "prune", "handle"}
        BY <1>0, <3>1, <4>2 DEF Latest, Before, TornAhead
      <4>3. CASE pc \in {"validate", "save", "policy"}
        BY <1>0, <3>1, <4>3 DEF Latest, Before, TornAhead
      <4> QED
        BY <4>1, <4>2, <4>3
    <3> QED
      BY <1>1, <2>1, <2>2, <3>1, <3>2 DEF Latest
  <2>3. CASE /\ pc = "save" /\ Artifacts[next] \notin Atomic
             /\ disk' = [disk EXCEPT ![epoch][Artifacts[next]] = Torn]
    <3>1. Torn \in 1 .. Torn
      BY DEF Torn
    <3>2. /\ epoch \in Epochs /\ next \in 1 .. 6
          /\ epoch \in Candidates' /\ \A e \in Epochs : e > epoch => NoFile(e)'
          /\ \A j \in next + 1 .. 6 : disk'[epoch][Artifacts[j]] = Missing
      BY <1>8, <2>1, <2>3, <3>1
    <3>3. PICK n \in 0 .. MaxEpoch : n = epoch
      BY <3>2
    <3>4. FilesLoad(n)'
      <4>1. Artifacts[5] = "stability" /\ next \in 1 .. 4
        BY <2>3, <3>2 DEF Artifacts, Atomic
      <4>2. 5 \in next + 1 .. 6
        BY <4>1
      <4>3. disk'[n]["stability"] = Missing
        BY <3>2, <3>3, <4>1, <4>2
      <4> QED
        BY <4>3 DEF FilesLoad, IsFile
    <3>5. \A e \in Epochs : e < n => ~TornAt(e)'
      <4> TAKE e \in Epochs
      <4> HAVE e < n
      <4>1. disk'[e] = disk[e]
        BY <1>0, <2>3, <3>3
      <4>2. ~TornAt(e)
        BY <1>0, <2>3, <3>3 DEF Before, TornAhead
      <4> QED
        BY <1>0, <4>1, <4>2 DEF TornAt
    <3> QED
      BY <2>1, <3>2, <3>3, <3>4, <3>5 DEF Latest
  <2> QED
    BY <1>10, <2>2, <2>3 DEF RollbackFails, Crash, disk_vars
<1> QED
  BY <1>2, <1>3, <1>4, <1>5, <1>6, <1>7, <1>9, <1>10, ResumesRestart DEF Next, TrainingEnds

LEMMA RollbackInit == Init => RollbackInv
<1> SUFFICES ASSUME Init PROVE RollbackInv
  OBVIOUS
<1> USE BundleAssumption DEF Epochs
<1>1. ExactInv
  BY ExactInit
<1>2. \A e \in Epochs : NoFile(e) /\ ~TornAt(e)
  BY DEF Init, NoFile, TornAt, Missing, Torn
<1>3. ExactKeepsCourse /\ NoneExternal
  BY DEF Init, ExactKeepsCourse, NoneExternal, NoStability
<1>4. TornAhead
  BY <1>2 DEF Init, TornAhead
<1>5. MemoryHolds /\ SlotHolds
  BY DEF Init, MemoryHolds, SlotHolds, Targets, NoStability, NoControl, target
<1>6. FilesHold /\ PruneIsOver
  BY DEF Init, FilesHold, PruneIsOver, SavedHolds, Targets, NoStability
<1>7. Latest(0)
  BY <1>2 DEF Init, Latest, FilesLoad
<1> QED
  BY <1>1, <1>3, <1>4, <1>5, <1>6, <1>7 DEF RollbackInv, LatestHolds

LEMMA RollbackStep == RollbackInv /\ [Next]_vars => RollbackInv'
<1> SUFFICES ASSUME RollbackInv, [Next]_vars PROVE RollbackInv'
  OBVIOUS
<1>1. ExactInv' /\ BundleInv' /\ ExactInv /\ BundleInv
  BY ExactStep DEF RollbackInv, ExactInv
<1>2. ExactKeepsCourse' /\ NoneExternal' /\ (OnCourse' => OnCourse)
  BY <1>1, CourseStep, ExternalStep DEF RollbackInv
<1>3. ASSUME OnCourse'
      PROVE  (TornAhead /\ MemoryHolds /\ SlotHolds /\ FilesHold /\ PruneIsOver
              /\ LatestHolds)'
  <2>1. Before
    BY <1>2, <1>3 DEF RollbackInv, Before, OnCourse, ExactInv
  <2>2. TornAhead' /\ MemoryHolds' /\ FilesHold' /\ PruneIsOver'
    BY <1>3, <2>1, TornStep, MemoryStep, FilesStep, PruneStep
  <2>3. SlotHolds'
    BY <1>1, <2>1, SlotStep DEF Before
  <2>4. LatestHolds'
    BY <1>1, <1>3, <2>1, <2>2, LatestStep DEF LatestHolds
  <2> QED
    BY <2>2, <2>3, <2>4
<1> QED
  BY <1>1, <1>2, <1>3 DEF RollbackInv

\* In a run resumed exactly, and never from behind the latest usable bundle, a rollback
\* finds its whole bundle: what the policies may ask for is the bundle in hand or one
\* that pruning protects, and the files of the bundle a resume starts from name no other.
THEOREM RollbackFindsWhole == Spec => []RollbackIsWhole
<1>1. RollbackInv => RollbackIsWhole
  <2> SUFFICES ASSUME RollbackInv, pc = "handle", target # None, exact_only, ~rewinds
               PROVE  Whole(target)
    BY DEF RollbackIsWhole
  <2>1. MemoryHolds /\ SlotHolds
    BY DEF RollbackInv, OnCourse, ExactKeepsCourse
  <2> QED
    BY <2>1 DEF MemoryHolds, SlotHolds, Alive, Holds
<1> QED
  BY <1>1, RollbackInit, RollbackStep, PTL DEF Spec

\* Without a teacher, and while no resume goes behind the latest usable bundle, a rollback
\* never fails, with any number of epochs, starts, deaths and resumes of both kinds, unless
\* an exact resume went behind the latest bundle and another resume took that bundle up
\* before the epoch after it was completed.
THEOREM RollbackNeverFails == Spec => []RollbackLoads
<1>1. RollbackInv => RollbackLoads
  <2> SUFFICES ASSUME RollbackInv, pc = "handle", target # None, ~rewinds,
                      ~teacher, course # "stray"
               PROVE  Loads(target)
    BY DEF RollbackLoads
  <2>1. MemoryHolds /\ SlotHolds
    BY DEF RollbackInv, OnCourse
  <2> QED
    BY <2>1 DEF MemoryHolds, SlotHolds, Alive, Holds
<1> QED
  BY <1>1, RollbackInit, RollbackStep, PTL DEF Spec
=============================================================================
