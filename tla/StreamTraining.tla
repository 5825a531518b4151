---------------------------- MODULE StreamTraining ----------------------------
(***************************************************************************)
(* The training loops of burn_dragon_language/src/train/schedule.rs over   *)
(* the streaming loader: what they count, the recurrent state they carry   *)
(* from batch to batch, the losses they credit to the live sampler, and    *)
(* what of this survives a checkpoint and a resume.                        *)
(*                                                                         *)
(*   "plain"       train_with_dynamic_neuron_scaling_scheduler with one    *)
(*                 recurrent state, kept across steps (persistent TBPTT)   *)
(*   "routed"      the same loop with predictive context routing           *)
(*   "population"  the EGGROLL loop: no recurrent state, and a batch taken *)
(*                 from the loader when the process starts, to tune the    *)
(*                 size of its population chunks                           *)
(*                                                                         *)
(* Two threads: the trainer, and the event thread, which credits the       *)
(* losses it finds among the metric samples a second time.  A recurrent    *)
(* state is the document it has read and the chunk it expects next; the    *)
(* parameters of the model are left out, so that a rollback of them is     *)
(* not seen here (CheckpointBundle has it).                                *)
(***************************************************************************)
EXTENDS StreamingFeed, ContextRouting, Sequences

CONSTANTS CreditEvery,   \* source_selection_every_steps
          LogEvery,      \* log_frequency
          Accumulation,  \* gradient_accumulation_steps; 1 when routed
          MaxPosted,     \* bound: samples the event thread may be behind by
          MaxResumes     \* bound: resumes of a run

ASSUME TrainingAssumption ==
    /\ CreditEvery \in Nat \ {0}
    /\ LogEvery \in Nat \ {0}
    /\ Accumulation \in Nat \ {0}
    /\ MaxPosted \in Nat \ {0}
    /\ MaxResumes \in Nat

VARIABLES
    mode,          \* which of the three loops; never changes
    pc,            \* where the trainer is
    epoch,
    iteration,     \* batches fetched in this epoch
    accumulated,   \* accumulation_current
    stream_state,  \* the recurrent state between two plain steps, or Nothing
    posted,        \* steps of the samples the event thread has not read
    checkpoint,    \* what the last checkpoint holds
    disturbed,     \* history: the document in hand was begun under other
                   \* weights, or under another context
    resumes        \* history: resumes so far

countVars == <<pc, epoch, iteration, accumulated>>
vars == <<feedVars, routingVars, mode, countVars, stream_state, posted,
          checkpoint, disturbed, resumes>>

Modes == {"plain", "routed", "population"}
Epochs == (TotalSteps + StepsPerEpoch - 1) \div StepsPerEpoch

Routing == [known_contexts |-> known_contexts, generation |-> generation,
            current |-> current, optimizers |-> optimizers,
            stream_states |-> stream_states]

\* The step the loop believes it is training.
AbsoluteStep == (epoch - 1) * StepsPerEpoch + iteration - 1

\* epoch_end_absolute_step, in naturals: 0 batches count like one.
EpochEndStep ==
    (epoch - 1) * StepsPerEpoch + IF iteration = 0 THEN 0 ELSE iteration - 1

-----------------------------------------------------------------------------
Init ==
    /\ mode \in Modes
    /\ live \in BOOLEAN
    /\ feedback \in IF live THEN BOOLEAN ELSE {FALSE}
    /\ sidecars \in IF feedback THEN BOOLEAN ELSE {FALSE}
    /\ consumed_steps = 0
    /\ steps_total = 0 /\ step = 0 /\ epoch_index = 0
    /\ chunk_index_in_document = 0 /\ next_document_group = 0
    /\ absolute_step_offset = 0
    /\ pending = NoPending
    /\ drawn = Nothing
    /\ batch = Nothing
    /\ RoutingInit
    /\ pc = IF mode = "population" THEN "start" ELSE "epoch"
    /\ epoch = 1
    /\ iteration = 0
    /\ accumulated = 0
    /\ stream_state = Nothing
    /\ posted = << >>
    /\ checkpoint = [epoch |-> 0, offset |-> 0, stream_state |-> Nothing,
                     routing |-> Routing]
    /\ disturbed = FALSE
    /\ resumes = 0

\* autotune_eggroll_population_chunk_size: the probe's batch is not put back.
\* There is no probe when it is switched off or no batch is left.
Autotune ==
    /\ pc = "start"
    /\ \/ \E bucket \in Buckets \cup {Nothing} : TakeOne(bucket)
       \/ UNCHANGED feedVars
    /\ pc' = "epoch"
    /\ UNCHANGED <<routingVars, mode, epoch, iteration, accumulated,
                   stream_state, posted, checkpoint, disturbed, resumes>>

OpenEpoch ==
    /\ pc = "epoch"
    /\ epoch <= Epochs
    /\ Iter
    /\ iteration' = 0
    /\ accumulated' = 0
    /\ pc' = "fetch"
    /\ UNCHANGED <<routingVars, mode, epoch, stream_state, posted, checkpoint,
                   disturbed, resumes>>

Finish ==
    /\ pc = "epoch"
    /\ epoch > Epochs
    /\ pc' = "done"
    /\ UNCHANGED <<feedVars, routingVars, mode, epoch, iteration, accumulated,
                   stream_state, posted, checkpoint, disturbed, resumes>>

\* `iterator.next()`, up to the policy batch if the schedule includes the step.
Fetch ==
    /\ pc = "fetch"
    /\ \E bucket \in Buckets \cup {Nothing} : NextBatch(bucket)
    /\ iteration' = iteration + 1
    /\ disturbed' = (disturbed /\ ~batch'.reset)
    /\ pc' \in IF sidecars THEN {"policy", "train"} ELSE {"train"}
    /\ UNCHANGED <<routingVars, mode, epoch, accumulated, stream_state, posted,
                   checkpoint, resumes>>

\* The policy batch; the event thread may have come in between.
FetchPolicy ==
    /\ pc = "policy"
    /\ \E bucket \in Buckets : PolicyBatch(bucket)
    /\ pc' = "train"
    /\ UNCHANGED <<routingVars, mode, epoch, iteration, accumulated,
                   stream_state, posted, checkpoint, disturbed, resumes>>

-----------------------------------------------------------------------------
(* One step on the batch in hand. *)

CreditDue == live /\ AbsoluteStep % CreditEvery = 0

\* emit_source_selection_telemetry.
Credit ==
    IF CreditDue THEN RecordLoss(AbsoluteStep)
    ELSE UNCHANGED <<pending, drawn>>

WeightsMove == CreditDue /\ Creditable(AbsoluteStep)

Read == [document |-> batch.document, next |-> batch.chunk + 1]

\* load_step_state
LoadedState == IF batch.reset THEN Nothing ELSE stream_state

TrainPlain ==
    /\ pc = "train"
    /\ mode = "plain"
    /\ stream_state' = Read
    /\ Credit
    /\ disturbed' = (disturbed \/ WeightsMove)
    /\ pc' = "update"
    /\ UNCHANGED <<configVars, consumed_steps, iteratorVars,
                   absolute_step_offset, batch, routingVars, mode, epoch,
                   iteration, accumulated, posted, checkpoint, resumes>>

Switches == current # Nobody /\ current' # current

TrainRouted ==
    /\ pc = "train"
    /\ mode = "routed"
    /\ \E c \in Slots : RoutedStep(c, AbsoluteStep, Read)
    /\ Credit
    /\ disturbed' = (disturbed \/ WeightsMove \/ (Switches /\ ~batch.reset))
    /\ pc' = "update"
    /\ UNCHANGED <<configVars, consumed_steps, iteratorVars,
                   absolute_step_offset, batch, mode, epoch, iteration,
                   accumulated, stream_state, posted, checkpoint, resumes>>

\* The loss is known when the population was evaluated; it is posted at once.
TrainPopulation ==
    /\ pc = "train"
    /\ mode = "population"
    /\ \/ /\ Credit
          /\ disturbed' = (disturbed \/ WeightsMove)
          /\ IF CreditDue
             THEN /\ Len(posted) < MaxPosted
                  /\ posted' = Append(posted, AbsoluteStep)
             ELSE UNCHANGED posted
       \/ UNCHANGED <<pending, drawn, disturbed, posted>>
    /\ pc' = "fetch"
    /\ UNCHANGED <<configVars, consumed_steps, iteratorVars,
                   absolute_step_offset, batch, routingVars, mode, epoch,
                   iteration, accumulated, stream_state, checkpoint, resumes>>

\* apply_pending_dynamics_control: an event may be waiting, and may change the
\* weights of the sampler.  Routing excludes the dynamics.
Control ==
    \/ /\ mode = "plain"
       /\ live /\ feedback
       /\ drawn' = Nothing
       /\ disturbed' = TRUE
    \/ UNCHANGED <<drawn, disturbed>>

Logged == iteration % LogEvery = 0 \/ iteration = StepsPerEpoch

\* Accumulate, step the optimizer when there is enough, post the sample.
Update ==
    /\ pc = "update"
    /\ IF mode = "routed" \/ accumulated + 1 >= Accumulation
       THEN /\ accumulated' = 0
            /\ Control
       ELSE /\ accumulated' = accumulated + 1
            /\ UNCHANGED <<drawn, disturbed>>
    /\ IF CreditDue /\ Logged
       THEN /\ Len(posted) < MaxPosted
            /\ posted' = Append(posted, AbsoluteStep)
       ELSE UNCHANGED posted
    /\ pc' = "fetch"
    /\ UNCHANGED <<configVars, consumed_steps, iteratorVars,
                   absolute_step_offset, pending, batch, routingVars, mode,
                   epoch, iteration, stream_state, checkpoint, resumes>>

-----------------------------------------------------------------------------
(* The end of an epoch, and of the process. *)

\* The remainder of an accumulation is applied as well.
ApplyRemainder ==
    /\ accumulated' = 0
    /\ IF accumulated > 0 THEN Control ELSE UNCHANGED <<drawn, disturbed>>

EpochEnd ==
    /\ pc = "fetch"
    /\ step >= steps_total
    /\ ApplyRemainder
    /\ NoIterator
    /\ batch' = Nothing
    /\ pc' = "boundary"
    /\ UNCHANGED <<configVars, consumed_steps, absolute_step_offset, pending,
                   routingVars, mode, epoch, iteration, stream_state, posted,
                   checkpoint, resumes>>

\* The files of an epoch that carry this state, written one after the other:
\* runtime state, context routing, source selection.
Checkpoint ==
    /\ pc = "boundary"
    /\ checkpoint' = [epoch |-> epoch,
                      offset |-> IF live THEN EpochEndStep ELSE 0,
                      stream_state |-> stream_state, routing |-> Routing]
    /\ IF live THEN ExportState(EpochEndStep) ELSE UNCHANGED samplerVars
    /\ epoch' = epoch + 1
    /\ pc' = "epoch"
    /\ UNCHANGED <<configVars, consumed_steps, iteratorVars, batch,
                   routingVars, mode, iteration, accumulated, stream_state,
                   posted, disturbed, resumes>>

\* The process stops anywhere, on request, by an error or a crash; a new one
\* goes on after the last checkpoint, or starts over.
Resume ==
    /\ resumes < MaxResumes
    /\ resumes' = resumes + 1
    /\ consumed_steps' = InitialSteps(checkpoint.epoch * StepsPerEpoch)
    /\ NoIterator
    /\ absolute_step_offset' = checkpoint.offset
    /\ pending' = NoPending
    /\ drawn' = Nothing
    /\ batch' = Nothing
    /\ stream_state' = checkpoint.stream_state
    /\ RestoreRouting(checkpoint.routing)
    /\ pc' = IF mode = "population" THEN "start" ELSE "epoch"
    /\ epoch' = checkpoint.epoch + 1
    /\ iteration' = 0
    /\ accumulated' = 0
    /\ posted' = << >>
    /\ disturbed' = FALSE
    /\ UNCHANGED <<configVars, mode, checkpoint>>

\* record_ruliad_source_selection_from_loss, on the event thread.
EventThread ==
    /\ posted # << >>
    /\ RecordLoss(Head(posted))
    /\ disturbed' = (disturbed \/ Creditable(Head(posted)))
    /\ posted' = Tail(posted)
    /\ UNCHANGED <<configVars, consumed_steps, iteratorVars,
                   absolute_step_offset, batch, routingVars, mode, countVars,
                   stream_state, checkpoint, resumes>>

Trainer ==
    \/ Autotune \/ OpenEpoch \/ Finish \/ Fetch \/ FetchPolicy
    \/ TrainPlain \/ TrainRouted \/ TrainPopulation \/ Update
    \/ EpochEnd \/ Checkpoint

Next == Trainer \/ EventThread \/ Resume

Spec == Init /\ [][Next]_vars

-----------------------------------------------------------------------------
(* Properties. *)

Contexts == [slot : Slots, generation : 1 .. MaxGeneration]
Documents == [epoch : Nat, bucket : Buckets \cup {Nothing}, at : Nat]
States == [document : Documents, next : Nat]

\* Every variable has its type, and the losses waiting for credit stay within
\* the limit however long the run is.
TypeOK ==
    /\ mode \in Modes
    /\ live \in BOOLEAN /\ feedback \in BOOLEAN /\ sidecars \in BOOLEAN
    /\ consumed_steps \in 0 .. TotalSteps
    /\ steps_total \in 0 .. StepsPerEpoch
    /\ step \in 0 .. steps_total
    /\ epoch_index \in Nat
    /\ chunk_index_in_document \in Nat
    /\ next_document_group \in 0 .. NumDocuments - 1
    /\ absolute_step_offset \in Nat
    /\ DOMAIN pending \subseteq 0 .. TotalSteps - 1
    /\ Cardinality(DOMAIN pending) <= PendingLimit
    /\ \A s \in DOMAIN pending : pending[s] \in Buckets
    /\ drawn \in [epoch : Nat, at : Nat, bucket : Buckets] \cup {Nothing}
    /\ batch \in [step : Nat, document : Documents, chunk : Nat,
                  reset : BOOLEAN] \cup {Nothing}
    /\ known_contexts \in 0 .. MaxContexts
    /\ generation \in [Slots -> 0 .. MaxGeneration]
    /\ optimizers \in [Slots -> 0 .. MaxGeneration]
    /\ current \in Contexts \cup {Nobody}
    /\ stream_states \in [Slots -> States \cup {Nobody}]
    /\ stream_state \in States \cup {Nothing}
    /\ pc \in {"start", "epoch", "fetch", "policy", "train", "update",
               "boundary", "done"}
    /\ epoch \in 1 .. Epochs + 1
    /\ iteration \in 0 .. StepsPerEpoch
    /\ accumulated \in 0 .. Accumulation - 1
    /\ posted \in Seq(0 .. TotalSteps - 1)
    /\ disturbed \in BOOLEAN
    /\ resumes \in 0 .. MaxResumes

\* Training is the steps of the run in their order: the batch in hand is the
\* one of the loop's own step, or the one after it when a probe took the first,
\* and a run that is done has used up its budget, across all resumes.
WholeBudgetTrained ==
    /\ pc \in {"train", "update"} =>
           \/ batch.step = AbsoluteStep
           \/ mode = "population" /\ batch.step = AbsoluteStep + 1
    /\ pc = "done" => consumed_steps = TotalSteps

\* Seeking is walking: as long as an iterator of static documents is in the
\* epoch it was opened in, it stands where one opened now would start, so
\* that a loader built for a later step reads what the first one would have.
SeekEqualsWalk ==
    ~live /\ step < steps_total
          /\ epoch_index = consumed_steps \div StepsPerEpoch =>
        Opening(consumed_steps) = [epoch |-> epoch_index,
                                   chunk |-> chunk_index_in_document,
                                   group |-> next_document_group]

\* When a step's loss is about to be credited, the sampler has the step
\* entered, and for the bucket that is being trained: later entries, the limit
\* and policy batches have not displaced it.  The bucket is another one only
\* if a policy batch was drawn with the first chunk of a document and the
\* event thread moved the weights since the chunk itself was drawn.
CreditIsTheSteps ==
    mode # "population" /\ feedback /\ pc = "train" =>
        /\ Creditable(AbsoluteStep)
        /\ \/ pending[AbsoluteStep] = batch.document.bucket
           \/ sidecars /\ batch.reset /\ disturbed

\* A loss is credited once: what the event thread has still to read was
\* credited by the trainer.  With policy batches the selection step is entered
\* anew and can be credited a second time.
CreditedOnce ==
    ~sidecars => \A i \in DOMAIN posted : ~Creditable(posted[i])

\* Between two epochs a run that goes on agrees with a resume from the checkpoint
\* it has just written in the steps used, the sampler's offset, the recurrent
\* states and the contexts, and has no gradient waiting to be applied.  A resume
\* forgets the entries, and the file has the weights of its export: entries,
\* weights and later credits are not compared.  The probe is left out.
ResumeIsContinuation ==
    pc = "epoch" /\ mode # "population" =>
        /\ epoch = checkpoint.epoch + 1
        /\ consumed_steps = InitialSteps(checkpoint.epoch * StepsPerEpoch)
        /\ absolute_step_offset = checkpoint.offset
        /\ stream_state = checkpoint.stream_state
        /\ Routing = checkpoint.routing
        /\ accumulated = 0

\* The moments of an optimizer belong to the context that is in its slot, the
\* context in force is one of the bank's, and free slots hold nothing.
ContextOwnsItsState ==
    /\ \A c \in Slots : optimizers[c] = generation[c]
    /\ \A c \in Slots : c >= known_contexts => stream_states[c] = Nobody
    /\ current # Nobody =>
           /\ current.slot < known_contexts
           /\ current.generation = generation[current.slot]

\* The recurrent state a step starts from.
StartsFrom ==
    IF mode = "routed" THEN TakenState(current'.slot, batch.reset)
    ELSE LoadedState

Trains == pc = "train" /\ pc' = "update"

Expected == [document |-> batch.document, next |-> batch.chunk]

\* A batch that continues a document is trained from the state the chunk
\* before it left, and one that begins a document from none: unless, since
\* the document began, its weights were moved by a credit or a control, or a
\* probe changed the context.
IdentityUnlessDisturbed ==
    [][Trains => IF batch.reset THEN StartsFrom \in {Nothing, Nobody}
                 ELSE \/ StartsFrom = Expected
                      \/ disturbed
                      \/ mode = "routed" /\ Switches]_vars

\* The same without the exception, for one recurrent state.
StreamIdentity ==
    [][Trains /\ mode = "plain" /\ ~batch.reset =>
           LoadedState = Expected]_vars
=============================================================================
