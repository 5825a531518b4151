---------------------------- MODULE StreamingFeed ----------------------------
(***************************************************************************)
(* The streaming loader of burn_dragon_language/src/dataset/scheduler.rs   *)
(* (StreamingDataLoader, StreamingIterator) with the live source selection *)
(* of dataset/universality.rs (LiveSourceSelectionState) behind it.        *)
(*                                                                         *)
(* A batch is one chunk of a group of documents, BatchSize rows read side  *)
(* by side.  Static documents are cut to one length and visited in the     *)
(* order of a permutation that is new in every epoch: a document is an     *)
(* epoch and a rank.  Live documents are generated from the bucket that    *)
(* is drawn for the step at which the group begins, anew for each chunk:   *)
(* the same weights and the same step draw the same bucket.                *)
(*                                                                         *)
(* The probabilities of the sampler are abstracted to whether they have    *)
(* changed since the last draw, a window of tokens to its document and     *)
(* chunk.  The module has the operations; StreamTraining calls them.       *)
(***************************************************************************)
EXTENDS Naturals, FiniteSets

CONSTANTS StepsPerEpoch,      \* steps_per_epoch
          TotalSteps,         \* total_steps
          ChunksPerDocument,  \* chunks_per_document of a static document
          NumDocuments,       \* static documents in a split
          BatchSize,          \* rows of a batch
          Buckets,            \* source buckets of the live sampler
          LiveChunks,         \* chunks of the longest document of a bucket
          PendingLimit,       \* live_source_selection_pending_limit
          Nothing             \* Option::None

ASSUME FeedAssumption ==
    /\ StepsPerEpoch \in Nat \ {0}
    /\ TotalSteps \in Nat \ {0}
    /\ ChunksPerDocument \in Nat \ {0}
    /\ NumDocuments \in Nat \ {0}
    /\ BatchSize \in Nat \ {0}
    /\ Buckets # {}
    /\ LiveChunks \in [Buckets -> Nat \ {0}]
    /\ PendingLimit \in Nat \ {0}
    /\ Nothing \notin Buckets
    /\ Nothing \notin [epoch : Nat, at : Nat, bucket : Buckets]

VARIABLES
    live,            \* uses_live_source_selection; never changes
    feedback,        \* feedback_updates_enabled; never changes
    sidecars,        \* the policy schedule is not empty; never changes
    consumed_steps,  \* the loader's counter of steps handed out
    steps_total,     \* from here to next_document_group: the open iterator
    step,
    epoch_index,
    chunk_index_in_document,
    next_document_group,
    absolute_step_offset,
    pending,         \* step |-> bucket its loss is to be credited to
    drawn,           \* what the weights in force would draw again, or Nothing
    batch            \* the last batch drawn

configVars == <<live, feedback, sidecars>>
iteratorVars == <<steps_total, step, epoch_index, chunk_index_in_document,
                  next_document_group>>
samplerVars == <<absolute_step_offset, pending, drawn>>
feedVars == <<configVars, consumed_steps, iteratorVars, samplerVars, batch>>

Least(a, b) == IF a <= b THEN a ELSE b
NoPending == [s \in {} |-> Nothing]

-----------------------------------------------------------------------------
(* The live sampler. *)

\* Mutant: every chunk draws anew.
OwnStep == consumed_steps

\* The step the group in hand began at.
SelectionStep ==
    consumed_steps - Least(chunk_index_in_document, consumed_steps)

\* A draw is a function of the epoch, the step and the weights.
MayDraw(bucket, epoch, at) ==
    drawn # Nothing /\ drawn.epoch = epoch /\ drawn.at = at
        => drawn.bucket = bucket

Drawn(bucket, epoch, at) == [epoch |-> epoch, at |-> at, bucket |-> bucket]

\* The newest PendingLimit of a set of steps.
Newest(steps) ==
    {s \in steps : Cardinality({t \in steps : t >= s}) <= PendingLimit}

\* Mutant: the limit is forgotten.
RecordPendingAll(entries, at, bucket) ==
    [s \in DOMAIN entries \cup {at} |-> IF s = at THEN bucket ELSE entries[s]]

\* record_pending: the oldest entries make room for the new one.
RecordPending(entries, at, bucket) ==
    LET all == DOMAIN entries \cup {at}
    IN  [s \in Newest(all) |-> IF s = at THEN bucket ELSE entries[s]]

\* A draw that is to be credited enters its bucket.  The weights are read under
\* one lock and the entry is made under another; that is one step here, as are
\* the two halves of record_loss.
Entered(at, bucket) ==
    IF live /\ feedback THEN RecordPending(pending, at, bucket) ELSE pending

\* record_loss has something to do when the step has an entry.
Creditable(at) == feedback /\ at \in DOMAIN pending

\* Mutant: the entry stays.
RecordLossAgain(at) ==
    IF Creditable(at) THEN drawn' = Nothing /\ UNCHANGED pending
    ELSE UNCHANGED <<pending, drawn>>

\* record_loss: takes the entry and moves the weights.
RecordLoss(at) ==
    IF Creditable(at)
    THEN /\ pending' = [s \in DOMAIN pending \ {at} |-> pending[s]]
         /\ drawn' = Nothing
    ELSE UNCHANGED <<pending, drawn>>

\* Mutant: the offset goes to the file only.
ExportToFile(offset) == UNCHANGED samplerVars

\* export_state: the offset is stored in the file and in the live sampler.
ExportState(offset) ==
    /\ absolute_step_offset' = offset
    /\ drawn' = Nothing
    /\ UNCHANGED pending

-----------------------------------------------------------------------------
(* The loader and its iterator. *)

\* Steps of an iterator opened after `used` steps.
EpochSteps(used) ==
    IF used >= TotalSteps THEN 0
    ELSE Least(TotalSteps - used, StepsPerEpoch)

\* Mutant: groups are counted where documents are meant.
OpeningByGroups(used) ==
    LET in_epoch == used % StepsPerEpoch
    IN  [epoch |-> used \div StepsPerEpoch,
         chunk |-> IF live THEN 0 ELSE in_epoch % ChunksPerDocument,
         group |-> (in_epoch \div ChunksPerDocument) % NumDocuments]

\* Where an iterator opened after `used` steps starts.
Opening(used) ==
    LET in_epoch == used % StepsPerEpoch
    IN  [epoch |-> used \div StepsPerEpoch,
         chunk |-> IF live THEN 0 ELSE in_epoch % ChunksPerDocument,
         group |-> ((in_epoch \div ChunksPerDocument) * BatchSize)
                       % NumDocuments]

\* Mutant: a resumed loader starts one epoch late.
InitialStepsLate(steps) == Least(steps + StepsPerEpoch, TotalSteps)

\* with_initial_consumed_steps.
InitialSteps(steps) == Least(steps, TotalSteps)

NoIterator ==
    /\ steps_total' = 0
    /\ step' = 0
    /\ epoch_index' = 0
    /\ chunk_index_in_document' = 0
    /\ next_document_group' = 0

\* StreamingDataLoader::iter.
Iter ==
    LET opening == Opening(consumed_steps)
    IN  /\ steps_total' = EpochSteps(consumed_steps)
        /\ step' = 0
        /\ epoch_index' = opening.epoch
        /\ chunk_index_in_document' = opening.chunk
        /\ next_document_group' = opening.group
        /\ UNCHANGED <<configVars, consumed_steps, samplerVars, batch>>

Document(bucket) ==
    [epoch |-> epoch_index, bucket |-> bucket,
     at |-> IF live THEN SelectionStep ELSE next_document_group]

\* Whether this chunk is the last one of its documents.
DocumentComplete(bucket) ==
    chunk_index_in_document + 1
        >= IF live THEN LiveChunks[bucket] ELSE ChunksPerDocument

\* The bucket that may be drawn, if any.
Draws(epoch, at) ==
    IF live THEN {b \in Buckets : MayDraw(b, epoch, at)} ELSE {Nothing}

\* StreamingIterator::next, when it answers with a batch, without the policy
\* batch.  One iterator is open at a time and opened for the steps that are
\* left, so that the counter is never found past the limit.  The iterator's
\* place, which nobody else reads, moves on at once.
NextBatch(bucket) ==
    /\ step < steps_total
    /\ bucket \in Draws(epoch_index, SelectionStep)
    /\ consumed_steps' = consumed_steps + 1
    /\ step' = step + 1
    /\ batch' = [step |-> consumed_steps, document |-> Document(bucket),
                 chunk |-> chunk_index_in_document,
                 reset |-> chunk_index_in_document = 0]
    /\ pending' = Entered(consumed_steps, bucket)
    /\ drawn' = IF live THEN Drawn(bucket, epoch_index, SelectionStep)
                ELSE Nothing
    /\ IF DocumentComplete(bucket)
       THEN /\ chunk_index_in_document' = 0
            /\ next_document_group' =
                   (next_document_group + BatchSize) % NumDocuments
       ELSE /\ chunk_index_in_document' = chunk_index_in_document + 1
            /\ UNCHANGED next_document_group
    /\ UNCHANGED <<configVars, steps_total, epoch_index,
                   absolute_step_offset>>

\* Mutant: the policy batch is selected at the step in hand.
PolicyBatchOfItsStep(bucket) ==
    /\ bucket \in Draws(batch.document.epoch, batch.step)
    /\ pending' = Entered(batch.step, bucket)
    /\ drawn' = Drawn(bucket, batch.document.epoch, batch.step)
    /\ UNCHANGED <<configVars, consumed_steps, iteratorVars,
                   absolute_step_offset, batch>>

\* The rest of next() at a step of the policy schedule: the bucket is drawn
\* again, by the weights of that moment, for the step the documents of the
\* batch were selected at, and entered for that step.
PolicyBatch(bucket) ==
    /\ bucket \in Draws(batch.document.epoch, batch.document.at)
    /\ pending' = Entered(batch.document.at, bucket)
    /\ drawn' = Drawn(bucket, batch.document.epoch, batch.document.at)
    /\ UNCHANGED <<configVars, consumed_steps, iteratorVars,
                   absolute_step_offset, batch>>

\* `loader.iter().next()` of an iterator that is dropped at once.  Nobody moves
\* the weights then, so that a policy batch draws and enters the same again.
TakeOne(bucket) ==
    LET opening == Opening(consumed_steps)
        at == consumed_steps
                  - IF live THEN 0 ELSE Least(opening.chunk, consumed_steps)
    IN  /\ consumed_steps < TotalSteps
        /\ bucket \in Draws(opening.epoch, at)
        /\ consumed_steps' = consumed_steps + 1
        /\ pending' = Entered(consumed_steps, bucket)
        /\ drawn' = IF live THEN Drawn(bucket, opening.epoch, at)
                    ELSE Nothing
        /\ UNCHANGED <<configVars, iteratorVars, absolute_step_offset, batch>>
=============================================================================
