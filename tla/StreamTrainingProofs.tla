------------------------ MODULE StreamTrainingProofs ------------------------
(***************************************************************************)
(* Theorems about StreamTraining, for every epoch length, budget, pending  *)
(* limit, number of contexts and resumes.                                  *)
(*                                                                         *)
(* Five layers: how far loader, loop and checkpoint have come (Paced),     *)
(* whose state each routing slot holds (Owned), which losses wait for      *)
(* credit (Ledger), what the recurrent state has read (Following), and     *)
(* where the iterator is (Walks).  The first two and the types are the     *)
(* Core, which the others rest on.                                         *)
(***************************************************************************)
EXTENDS StreamTraining, TLAPS, FiniteSetTheorems, WellFoundedInduction

-----------------------------------------------------------------------------
(* The types, in groups. *)

Batches == [step : Nat, document : Documents, chunk : Nat, reset : BOOLEAN]
Draw == [epoch : Nat, at : Nat, bucket : Buckets]

FeedTypes ==
    /\ live \in BOOLEAN /\ feedback \in BOOLEAN /\ sidecars \in BOOLEAN
    /\ consumed_steps \in 0 .. TotalSteps
    /\ steps_total \in 0 .. StepsPerEpoch
    /\ step \in 0 .. steps_total
    /\ epoch_index \in Nat
    /\ chunk_index_in_document \in Nat
    /\ next_document_group \in 0 .. NumDocuments - 1
    /\ absolute_step_offset \in Nat
    /\ drawn \in Draw \cup {Nothing}
    /\ batch \in Batches \cup {Nothing}

PendingTypes ==
    /\ DOMAIN pending \subseteq 0 .. TotalSteps - 1
    /\ Cardinality(DOMAIN pending) <= PendingLimit
    /\ \A s \in DOMAIN pending : pending[s] \in Buckets

RoutingTypes ==
    /\ known_contexts \in 0 .. MaxContexts
    /\ generation \in [Slots -> 0 .. MaxGeneration]
    /\ optimizers \in [Slots -> 0 .. MaxGeneration]
    /\ current \in Contexts \cup {Nobody}
    /\ stream_states \in [Slots -> States \cup {Nobody}]

LoopTypes ==
    /\ mode \in Modes
    /\ stream_state \in States \cup {Nothing}
    /\ pc \in {"start", "epoch", "fetch", "policy", "train", "update",
               "boundary", "done"}
    /\ epoch \in 1 .. Epochs + 1
    /\ iteration \in 0 .. StepsPerEpoch
    /\ accumulated \in 0 .. Accumulation - 1
    /\ posted \in Seq(0 .. TotalSteps - 1)
    /\ disturbed \in BOOLEAN
    /\ resumes \in 0 .. MaxResumes

\* The type invariant is its four groups.
LEMMA TypesTogether ==
    TypeOK <=> FeedTypes /\ PendingTypes /\ RoutingTypes /\ LoopTypes
BY DEF TypeOK, FeedTypes, PendingTypes, RoutingTypes, LoopTypes, Batches, Draw

-----------------------------------------------------------------------------
(* Arithmetic of epochs. *)

\* Quotient and remainder of naturals.
LEMMA DivMod ==
    ASSUME NEW n \in Nat, NEW d \in Nat \ {0}
    PROVE  n \div d \in Nat /\ n % d \in 0 .. d - 1
BY SMT

\* The epochs before the next one are one epoch longer.
LEMMA NextEpoch ==
    ASSUME NEW e \in Nat, e >= 1
    PROVE  /\ (e - 1) * StepsPerEpoch \in Nat
           /\ e * StepsPerEpoch = (e - 1) * StepsPerEpoch + StepsPerEpoch
           /\ (e + 1 - 1) * StepsPerEpoch = e * StepsPerEpoch
BY FeedAssumption, SMT

\* The loop runs as many epochs as it takes to reach the budget.
LEMMA EpochsReach ==
    ASSUME NEW e \in Nat, e >= 1
    PROVE  e <= Epochs <=> (e - 1) * StepsPerEpoch < TotalSteps
<1> DEFINE S == StepsPerEpoch
           q == (TotalSteps + S - 1) \div S
           r == (TotalSteps + S - 1) % S
<1>1. S \in Nat \ {0} /\ TotalSteps \in Nat /\ TotalSteps + S - 1 \in Nat
  BY FeedAssumption
<1> HIDE DEF S
<1>2. TotalSteps + S - 1 = S * q + r /\ q \in Nat /\ r \in 0 .. S - 1
  BY <1>1, SMT
<1> HIDE DEF q, r
<1>3. e <= q <=> (e - 1) * S < TotalSteps
  BY <1>1, <1>2, SMT
<1> QED
  BY <1>3 DEF S, q, Epochs

\* The loop runs finitely many epochs.
LEMMA EpochsNat == Epochs \in Nat
<1>1. TotalSteps + StepsPerEpoch - 1 \in Nat
  BY FeedAssumption
<1> QED
  BY <1>1, DivMod, FeedAssumption DEF Epochs

\* An iterator opened after `used` steps ends at the budget or an epoch later.
LEMMA EpochStepsReach ==
    ASSUME NEW used \in 0 .. TotalSteps
    PROVE  /\ EpochSteps(used) \in 0 .. StepsPerEpoch
           /\ used + EpochSteps(used)
                 = Least(used + StepsPerEpoch, TotalSteps)
BY FeedAssumption DEF EpochSteps, Least

\* Wherever an iterator opens, it opens at a group of the split.
LEMMA OpeningTypes ==
    ASSUME NEW used \in Nat
    PROVE  /\ Opening(used).epoch \in Nat
           /\ Opening(used).chunk \in Nat
           /\ Opening(used).group \in 0 .. NumDocuments - 1
<1>1. used % StepsPerEpoch \in Nat /\ used \div StepsPerEpoch \in Nat
  BY DivMod, FeedAssumption
<1>2. /\ (used % StepsPerEpoch) % ChunksPerDocument \in Nat
      /\ (used % StepsPerEpoch) \div ChunksPerDocument \in Nat
  BY <1>1, DivMod, FeedAssumption
<1>3. ((used % StepsPerEpoch) \div ChunksPerDocument) * BatchSize \in Nat
  BY <1>2, FeedAssumption
<1>4. (((used % StepsPerEpoch) \div ChunksPerDocument) * BatchSize)
          % NumDocuments \in 0 .. NumDocuments - 1
  BY <1>3, DivMod, FeedAssumption
<1> QED
  BY <1>1, <1>2, <1>4 DEF Opening

-----------------------------------------------------------------------------
(* The entries of the sampler. *)

\* The newest PendingLimit of a set are no more than PendingLimit: the least of
\* them has all of them at or above it.
LEMMA NewestBounded ==
    ASSUME NEW n \in Nat, NEW S \in SUBSET (0 .. n)
    PROVE  IsFiniteSet(Newest(S)) /\ Cardinality(Newest(S)) <= PendingLimit
<1> DEFINE N == Newest(S)
<1>1. N \subseteq S /\ S \subseteq Nat
  BY DEF Newest
<1>2. IsFiniteSet(S)
  <2>1. 0 \in Int /\ n \in Int
    OBVIOUS
  <2>2. IsFiniteSet(0 .. n)
    BY <2>1, FS_Interval
  <2> QED
    BY <2>2, FS_Subset
<1>3. IsFiniteSet(N)
  BY <1>1, <1>2, FS_Subset
<1>4. CASE N = {}
  BY <1>3, <1>4, FS_EmptySet, FeedAssumption
<1>5. CASE N # {}
  <2> DEFINE below == {ss \in Nat \X Nat : ss[1] < ss[2]}
  <2>a. IsWellFoundedOn(below, Nat)
    BY NatLessThanWellFounded, Zenon DEF OpToRel
  <2>b. \A s, t \in Nat : s < t => <<s, t>> \in below
    OBVIOUS
  <2> HIDE DEF below
  <2>1. PICK m \in N : \A s \in N : ~(<<s, m>> \in below)
    BY <1>1, <1>5, <2>a, WFMin
  <2>2. \A s \in N : s >= m
    <3> SUFFICES ASSUME NEW s \in N, ~(s >= m) PROVE FALSE
      OBVIOUS
    <3>1. s \in Nat /\ m \in Nat
      BY <1>1
    <3>2. s < m
      BY <3>1
    <3> QED
      BY <2>1, <2>b, <3>1, <3>2
  <2> DEFINE above == {t \in S : t >= m}
  <2>3. IsFiniteSet(above)
    BY <1>2, FS_Subset
  <2>4. Cardinality(above) <= PendingLimit
    BY <2>1 DEF Newest
  <2>5. N \in SUBSET above
    BY <1>1, <2>2
  <2>6. Cardinality(N) <= Cardinality(above)
    BY <2>3, <2>5, FS_Subset
  <2>7. Cardinality(N) \in Nat /\ Cardinality(above) \in Nat
    BY <1>3, <2>3, FS_CardinalityType
  <2> QED
    BY <1>3, <2>4, <2>6, <2>7, FeedAssumption
<1> QED
  BY <1>4, <1>5

\* The greatest of a set is among its newest.
LEMMA GreatestIsNewest ==
    ASSUME NEW S \in SUBSET Nat, NEW m \in S, \A s \in S : s <= m
    PROVE  m \in Newest(S)
<1> DEFINE above == {t \in S : t >= m}
<1>1. above = {m}
  <2>1. \A t \in above : t = m
    <3> SUFFICES ASSUME NEW t \in S, t >= m PROVE t = m
      OBVIOUS
    <3> QED
      BY t \in Nat /\ m \in Nat
  <2>2. m \in above
    OBVIOUS
  <2> QED
    BY <2>1, <2>2
<1>2. Cardinality({m}) = 1
  BY FS_Singleton
<1> QED
  BY <1>1, <1>2, FeedAssumption DEF Newest

\* record_pending enters the bucket for the step, drops entries but adds no
\* other, stays within the limit and keeps the newest step.
LEMMA RecordPendingIs ==
    ASSUME NEW entries, NEW bucket \in Buckets,
           NEW n \in Nat, NEW at \in 0 .. n,
           DOMAIN entries \subseteq 0 .. n,
           \A s \in DOMAIN entries : entries[s] \in Buckets
    PROVE  LET new == RecordPending(entries, at, bucket)
           IN  /\ DOMAIN new \subseteq DOMAIN entries \cup {at}
               /\ Cardinality(DOMAIN new) <= PendingLimit
               /\ \A s \in DOMAIN new :
                      /\ new[s] \in Buckets
                      /\ new[s] = IF s = at THEN bucket ELSE entries[s]
               /\ \A m \in DOMAIN entries \cup {at} :
                      (\A s \in DOMAIN entries \cup {at} : s <= m)
                          => m \in DOMAIN new
<1> DEFINE all == DOMAIN entries \cup {at}
           new == RecordPending(entries, at, bucket)
<1>1. DOMAIN new = Newest(all)
  BY DEF RecordPending
<1>2. \A s \in Newest(all) : new[s] = IF s = at THEN bucket ELSE entries[s]
  BY DEF RecordPending
<1>3. Newest(all) \subseteq all
  BY DEF Newest
<1>4. all \in SUBSET (0 .. n)
  OBVIOUS
<1>5. Cardinality(Newest(all)) <= PendingLimit
  BY <1>4, NewestBounded
<1>6. \A m \in all : (\A s \in all : s <= m) => m \in Newest(all)
  BY <1>4, GreatestIsNewest
<1> HIDE DEF new
<1>7. \A s \in Newest(all) : new[s] \in Buckets
  BY <1>2, <1>3
<1> QED
  BY <1>1, <1>2, <1>3, <1>5, <1>6, <1>7 DEF new

-----------------------------------------------------------------------------
(* How far the run has come. *)

\* Steps in the epochs before epoch e.
Base(e) == (e - 1) * StepsPerEpoch

RoutingRecords ==
    [known_contexts : 0 .. MaxContexts,
     generation : [Slots -> 0 .. MaxGeneration],
     current : Contexts \cup {Nobody},
     optimizers : [Slots -> 0 .. MaxGeneration],
     stream_states : [Slots -> States \cup {Nobody}]]

CheckpointTypes ==
    /\ checkpoint \in [epoch : 0 .. Epochs, offset : Nat,
                       stream_state : States \cup {Nothing},
                       routing : RoutingRecords]
    /\ ~live => checkpoint.offset = 0

InEpoch == pc \in {"fetch", "policy", "train", "update"}
Holding == pc \in {"policy", "train", "update"}

\* What the loop counts as fetched: the loader of a run without a probe has
\* handed out exactly as much.
Position ==
    IF InEpoch THEN Base(epoch) + iteration
    ELSE IF pc = "boundary" THEN Least(Base(epoch + 1), TotalSteps)
    ELSE Least(Base(epoch), TotalSteps)

Paced ==
    /\ Position <= consumed_steps /\ consumed_steps <= Position + 1
    /\ mode # "population" \/ pc = "start" => consumed_steps = Position
    /\ InEpoch \/ pc = "boundary" => epoch <= Epochs
    /\ InEpoch => /\ iteration = step
                  /\ steps_total = EpochSteps(consumed_steps - step)
    /\ pc = "done" => epoch > Epochs
    /\ pc = "start" => mode = "population"
    /\ Holding => /\ iteration >= 1
                  /\ batch \in Batches
                  /\ batch.step = consumed_steps - 1
    /\ pc \in {"boundary", "epoch", "start"} => accumulated = 0
    /\ feedback => live
    /\ ~live => absolute_step_offset = 0

\* A slot's optimizer is its context's, a free slot is empty, and the context
\* in force is one the bank has.
Owned(r) ==
    /\ \A c \in Slots : r.optimizers[c] = r.generation[c]
    /\ \A c \in Slots : c >= r.known_contexts => r.stream_states[c] = Nobody
    /\ \A c \in Slots : c < r.known_contexts => r.generation[c] >= 1
    /\ r.current # Nobody =>
           /\ r.current.slot < r.known_contexts
           /\ r.current.generation = r.generation[r.current.slot]

AllOwned == Owned(Routing) /\ Owned(checkpoint.routing)

Core ==
    /\ FeedTypes /\ PendingTypes /\ RoutingTypes /\ LoopTypes
    /\ CheckpointTypes
    /\ Paced
    /\ AllOwned

\* A batch in hand that is not trained yet.
Untrained == pc \in {"policy", "train"}

\* The policy batch of a live step is of a step that was handed out: of the step
\* itself with a first chunk only.  Unless they were moved, the weights would
\* draw the batch in hand again.
Beside ==
    /\ sidecars => live
    /\ live /\ InEpoch /\ consumed_steps = 0 => chunk_index_in_document = 0
    /\ pc = "policy" =>
          /\ sidecars
          /\ batch.document.at <= batch.step
          /\ batch.document.at = batch.step => batch.reset
          /\ ~disturbed => drawn = Drawn(batch.document.bucket,
                                        batch.document.epoch, batch.document.at)

\* An epoch is run exactly when the ones before it have not used up the budget.
LEMMA BaseFacts ==
    ASSUME NEW e \in Nat, e >= 1
    PROVE  /\ Base(e) \in Nat
           /\ Base(e + 1) = Base(e) + StepsPerEpoch
           /\ e <= Epochs <=> Base(e) < TotalSteps
BY NextEpoch, EpochsReach DEF Base

\* The steps of e epochs.
LEMMA BaseOf ==
    ASSUME NEW e \in Nat
    PROVE  e * StepsPerEpoch = Base(e + 1) /\ Base(e + 1) \in Nat
BY FeedAssumption DEF Base

\* The routing variables have their types as they have them in a checkpoint.
LEMMA RoutingTyped == RoutingTypes <=> Routing \in RoutingRecords
BY DEF RoutingTypes, RoutingRecords, Routing

\* A new process starts in the core.
LEMMA CoreInit == Init => Core
<1> SUFFICES ASSUME Init PROVE Core
  OBVIOUS
<1>1. FeedTypes
  <2>1. live \in BOOLEAN /\ feedback \in BOOLEAN /\ sidecars \in BOOLEAN
    BY Zenon DEF Init
  <2>2. 0 \in 0 .. NumDocuments - 1 /\ 0 \in 0 .. TotalSteps
        /\ 0 \in 0 .. StepsPerEpoch
    BY FeedAssumption
  <2> QED
    BY <2>1, <2>2 DEF Init, FeedTypes
<1>2. PendingTypes
  <2>1. DOMAIN pending = {}
    BY DEF Init, NoPending
  <2> QED
    BY <2>1, FS_EmptySet, FeedAssumption DEF PendingTypes
<1>3. RoutingTypes
  BY RoutingAssumption DEF Init, RoutingInit, RoutingTypes
<1>4. LoopTypes
  <2>1. 1 \in 1 .. Epochs + 1
    BY EpochsNat
  <2>2. pc \in {"start", "epoch"}
    BY Zenon DEF Init
  <2>3. 0 \in 0 .. StepsPerEpoch /\ 0 \in 0 .. Accumulation - 1
        /\ 0 \in 0 .. MaxResumes
    BY FeedAssumption, TrainingAssumption
  <2>4. /\ mode \in Modes /\ epoch = 1 /\ iteration = 0 /\ accumulated = 0
        /\ stream_state = Nothing /\ posted = << >> /\ disturbed = FALSE
        /\ resumes = 0
    BY Zenon DEF Init
  <2>5. posted \in Seq(0 .. TotalSteps - 1)
    BY <2>4
  <2>6. stream_state \in States \cup {Nothing}
    BY <2>4
  <2>7. disturbed \in BOOLEAN
    BY <2>4
  <2> QED
    BY <2>1, <2>2, <2>3, <2>4, <2>5, <2>6, <2>7 DEF LoopTypes
<1>5. CheckpointTypes
  BY <1>3, RoutingTyped, EpochsNat DEF Init, CheckpointTypes
<1>6. Paced
  <2>1. Base(1) = 0
    BY FeedAssumption DEF Base
  <2>2. Least(0, TotalSteps) = 0
    BY FeedAssumption DEF Least
  <2>3. pc \in {"start", "epoch"} /\ (pc = "start" => mode = "population")
    BY Zenon DEF Init
  <2>4. Position = 0
    BY <2>1, <2>2, <2>3 DEF Init, Position, InEpoch
  <2>5. feedback => live
    BY Zenon DEF Init
  <2> QED
    BY <2>3, <2>4, <2>5 DEF Init, Paced, InEpoch, Holding
<1>7. AllOwned
  <2>1. Owned(Routing)
    BY DEF Init, RoutingInit, Owned, Routing, Slots
  <2> QED
    BY <2>1 DEF Init, AllOwned
<1> QED
  BY <1>1, <1>2, <1>3, <1>4, <1>5, <1>6, <1>7 DEF Core

-----------------------------------------------------------------------------
(* What the operations of the sampler leave of the types. *)

\* The lesser of two naturals.
LEMMA LeastNat ==
    ASSUME NEW a \in Nat, NEW b \in Nat
    PROVE  Least(a, b) \in Nat /\ Least(a, b) <= a /\ Least(a, b) <= b
BY DEF Least

\* A live sampler draws a bucket, static documents have none.
LEMMA DrawsBuckets ==
    ASSUME NEW e, NEW at, NEW bucket \in Draws(e, at)
    PROVE  /\ live => bucket \in Buckets
           /\ bucket \in Buckets \cup {Nothing}
BY DEF Draws

\* A group was selected at a step that was handed out.
LEMMA SelectionStepType ==
    ASSUME FeedTypes
    PROVE  SelectionStep \in Nat /\ SelectionStep <= consumed_steps
<1>1. consumed_steps \in Nat /\ chunk_index_in_document \in Nat
  BY FeedAssumption DEF FeedTypes
<1> QED
  BY <1>1 DEF SelectionStep, Least

\* The document of a batch is a document.
LEMMA DocumentType ==
    ASSUME FeedTypes, NEW bucket \in Buckets \cup {Nothing}
    PROVE  Document(bucket) \in Documents
<1>1. SelectionStep \in Nat /\ epoch_index \in Nat /\ next_document_group \in Nat
  BY SelectionStepType, FeedAssumption DEF FeedTypes
<1>2. (IF live THEN SelectionStep ELSE next_document_group) \in Nat
  BY <1>1
<1> QED
  BY <1>1, <1>2 DEF Document, Documents

\* A new entry is entered for a step of the run.
LEMMA RecordPendingTypes ==
    ASSUME PendingTypes, NEW bucket \in Buckets,
           NEW at \in 0 .. TotalSteps - 1
    PROVE  LET new == RecordPending(pending, at, bucket)
           IN  /\ DOMAIN new \subseteq 0 .. TotalSteps - 1
               /\ Cardinality(DOMAIN new) <= PendingLimit
               /\ \A s \in DOMAIN new : new[s] \in Buckets
<1> DEFINE n == TotalSteps - 1
<1>1. n \in Nat /\ at \in 0 .. n
  BY FeedAssumption
<1>2. DOMAIN pending \subseteq 0 .. n
  BY DEF PendingTypes
<1> HIDE DEF n
<1>3. /\ DOMAIN RecordPending(pending, at, bucket)
           \subseteq DOMAIN pending \cup {at}
      /\ Cardinality(DOMAIN RecordPending(pending, at, bucket))
           <= PendingLimit
      /\ \A s \in DOMAIN RecordPending(pending, at, bucket) :
           RecordPending(pending, at, bucket)[s] \in Buckets
  BY <1>1, <1>2, RecordPendingIs DEF PendingTypes
<1> QED
  BY <1>1, <1>2, <1>3 DEF n

\* A draw's entry keeps the limit.
LEMMA EnteredTypes ==
    ASSUME FeedTypes, PendingTypes, NEW at \in 0 .. TotalSteps - 1,
           NEW bucket, live => bucket \in Buckets
    PROVE  LET new == Entered(at, bucket)
           IN  /\ DOMAIN new \subseteq 0 .. TotalSteps - 1
               /\ Cardinality(DOMAIN new) <= PendingLimit
               /\ \A s \in DOMAIN new : new[s] \in Buckets
<1>1. CASE ~(live /\ feedback)
  BY <1>1 DEF Entered, PendingTypes
<1>2. CASE live /\ feedback
  <2>1. bucket \in Buckets
    BY <1>2
  <2> QED
    BY <1>2, <2>1, RecordPendingTypes DEF Entered
<1> QED
  BY <1>1, <1>2

\* record_loss takes entries, and changes none that it leaves.
LEMMA RecordLossTypes ==
    ASSUME PendingTypes, NEW at, RecordLoss(at)
    PROVE  /\ PendingTypes'
           /\ DOMAIN pending' \subseteq DOMAIN pending
           /\ \A s \in DOMAIN pending' : pending'[s] = pending[s]
           /\ drawn' \in {drawn, Nothing}
<1>1. CASE ~Creditable(at)
  BY <1>1 DEF RecordLoss, PendingTypes
<1>2. CASE Creditable(at)
  <2>1. pending' = [s \in DOMAIN pending \ {at} |-> pending[s]]
        /\ drawn' = Nothing
    BY <1>2 DEF RecordLoss
  <2>2. 0 \in Int /\ TotalSteps - 1 \in Int
    BY FeedAssumption
  <2>3. IsFiniteSet(0 .. TotalSteps - 1)
    BY <2>2, FS_Interval
  <2>4. IsFiniteSet(DOMAIN pending)
    BY <2>3, FS_Subset DEF PendingTypes
  <2>5. DOMAIN pending' \in SUBSET DOMAIN pending
    BY <2>1
  <2>6. /\ Cardinality(DOMAIN pending') <= Cardinality(DOMAIN pending)
        /\ Cardinality(DOMAIN pending') \in Nat
        /\ Cardinality(DOMAIN pending) \in Nat
    BY <2>4, <2>5, FS_Subset, FS_CardinalityType
  <2>7. Cardinality(DOMAIN pending') <= PendingLimit
    BY <2>6, FeedAssumption DEF PendingTypes
  <2>8. \A s \in DOMAIN pending' : pending'[s] = pending[s]
    BY <2>1
  <2> QED
    BY <2>1, <2>5, <2>7, <2>8 DEF PendingTypes
<1> QED
  BY <1>1, <1>2

\* So does the trainer's credit.
LEMMA CreditTypes ==
    ASSUME PendingTypes, Credit
    PROVE  /\ PendingTypes'
           /\ DOMAIN pending' \subseteq DOMAIN pending
           /\ \A s \in DOMAIN pending' : pending'[s] = pending[s]
           /\ drawn' \in {drawn, Nothing}
<1>1. CASE CreditDue
  BY <1>1, RecordLossTypes DEF Credit
<1>2. CASE ~CreditDue
  BY <1>2 DEF Credit, PendingTypes
<1> QED
  BY <1>1, <1>2

-----------------------------------------------------------------------------
(* Every step keeps the core. *)

\* The probe's batch moves the loader ahead of the loop and nothing else.
LEMMA CoreAutotune == Core /\ Autotune => Core'
<1> SUFFICES ASSUME Core, Autotune PROVE Core'
  OBVIOUS
<1> USE DEF Core
<1>1. /\ routingVars' = routingVars /\ mode' = mode /\ epoch' = epoch
      /\ iteration' = iteration /\ accumulated' = accumulated
      /\ stream_state' = stream_state /\ posted' = posted
      /\ checkpoint' = checkpoint /\ disturbed' = disturbed
      /\ resumes' = resumes /\ pc = "start" /\ pc' = "epoch"
  BY DEF Autotune
<1> DEFINE Onward ==
             /\ FeedTypes' /\ PendingTypes'
             /\ consumed_steps' \in {consumed_steps, consumed_steps + 1}
             /\ live' = live /\ feedback' = feedback
             /\ absolute_step_offset' = absolute_step_offset
<1>2. Onward
  <2>1. CASE UNCHANGED feedVars
    BY <2>1, FeedAssumption
       DEF FeedTypes, PendingTypes, feedVars, configVars, iteratorVars,
           samplerVars
  <2>2. ASSUME NEW bucket \in Buckets \cup {Nothing}, TakeOne(bucket)
        PROVE  Onward
    <3> DEFINE opening == Opening(consumed_steps)
               at == consumed_steps
                       - IF live THEN 0 ELSE Least(opening.chunk, consumed_steps)
    <3>1. consumed_steps \in Nat /\ TotalSteps \in Nat
      BY FeedAssumption DEF FeedTypes
    <3>2. opening.epoch \in Nat /\ opening.chunk \in Nat
      BY <3>1, OpeningTypes
    <3>3. at \in Nat
      BY <3>1, <3>2 DEF Least
    <3>4. live => bucket \in Buckets
      BY <2>2, DrawsBuckets DEF TakeOne
    <3>5. /\ consumed_steps < TotalSteps
          /\ consumed_steps' = consumed_steps + 1
          /\ pending' = Entered(consumed_steps, bucket)
          /\ drawn' = IF live THEN Drawn(bucket, opening.epoch, at) ELSE Nothing
          /\ UNCHANGED <<configVars, iteratorVars, absolute_step_offset, batch>>
      BY <2>2 DEF TakeOne
    <3> HIDE DEF opening, at
    <3>6. drawn' \in Draw \cup {Nothing}
      BY <3>2, <3>3, <3>4, <3>5 DEF Drawn, Draw
    <3>7. FeedTypes'
      BY <3>1, <3>5, <3>6 DEF FeedTypes, configVars, iteratorVars
    <3>8. consumed_steps \in 0 .. TotalSteps - 1
      BY <3>1, <3>5
    <3>9. PendingTypes'
      BY <3>4, <3>5, <3>8, EnteredTypes DEF PendingTypes
    <3> QED
      BY <3>1, <3>5, <3>7, <3>9 DEF configVars
  <2> QED
    BY <2>1, <2>2 DEF Autotune
<1>3. RoutingTypes' /\ LoopTypes' /\ CheckpointTypes' /\ AllOwned'
  BY <1>1, <1>2 DEF RoutingTypes, LoopTypes, CheckpointTypes, AllOwned, Owned,
              Routing, routingVars
<1>4. Paced'
  <2>1. Position' = Position
    BY <1>1 DEF Position, InEpoch
  <2>2. epoch \in Nat /\ epoch >= 1
    BY <1>1, EpochsNat DEF LoopTypes
  <2>3. Base(epoch) \in Nat
    BY <2>2, BaseFacts
  <2>4. Position \in Nat
    BY <1>1, <2>3, FeedAssumption DEF Position, InEpoch, Least
  <2>5. consumed_steps \in Nat
    BY FeedAssumption DEF FeedTypes
  <2>6. Position = consumed_steps /\ mode = "population" /\ accumulated = 0
        /\ (feedback => live) /\ (~live => absolute_step_offset = 0)
    BY <1>1 DEF Paced
  <2>7. Position <= consumed_steps' /\ consumed_steps' <= Position + 1
    BY <1>2, <2>4, <2>5, <2>6
  <2> QED
    BY <1>1, <1>2, <2>1, <2>6, <2>7 DEF Paced, InEpoch, Holding
<1> QED
  BY <1>2, <1>3, <1>4

\* The numbers the core speaks of are numbers.
LEMMA CoreArith ==
    ASSUME Core
    PROVE  /\ epoch \in Nat /\ epoch >= 1 /\ iteration \in Nat
           /\ step \in Nat /\ steps_total \in Nat
           /\ consumed_steps \in Nat /\ consumed_steps <= TotalSteps
           /\ StepsPerEpoch \in Nat /\ StepsPerEpoch >= 1
           /\ TotalSteps \in Nat /\ TotalSteps >= 1
           /\ Base(epoch) \in Nat
           /\ Base(epoch + 1) = Base(epoch) + StepsPerEpoch
           /\ epoch <= Epochs <=> Base(epoch) < TotalSteps
           /\ Position \in Nat
<1>1. epoch \in Nat /\ epoch >= 1 /\ iteration \in Nat
  BY EpochsNat, FeedAssumption DEF Core, LoopTypes
<1>2. /\ step \in Nat /\ steps_total \in Nat
      /\ consumed_steps \in Nat /\ consumed_steps <= TotalSteps
      /\ StepsPerEpoch \in Nat /\ StepsPerEpoch >= 1
      /\ TotalSteps \in Nat /\ TotalSteps >= 1
  BY FeedAssumption DEF Core, FeedTypes
<1>3. /\ Base(epoch) \in Nat
      /\ Base(epoch + 1) = Base(epoch) + StepsPerEpoch
      /\ epoch <= Epochs <=> Base(epoch) < TotalSteps
  BY <1>1, BaseFacts
<1>4. Base(epoch + 1) \in Nat
  BY <1>2, <1>3
<1>5. Least(Base(epoch + 1), TotalSteps) \in Nat
      /\ Least(Base(epoch), TotalSteps) \in Nat
  BY <1>2, <1>3, <1>4, LeastNat
<1>6. Position \in Nat
  BY <1>1, <1>2, <1>3, <1>5 DEF Position
<1> QED
  BY <1>1, <1>2, <1>3, <1>6

\* Steps that leave routing and checkpoint alone.
LEMMA CoreAside ==
    ASSUME Core, UNCHANGED <<routingVars, checkpoint>>, UNCHANGED configVars
    PROVE  RoutingTypes' /\ CheckpointTypes' /\ AllOwned'
BY DEF Core, RoutingTypes, CheckpointTypes, AllOwned, Owned, Routing,
       routingVars, configVars

\* An epoch opens an iterator for the steps that are left.
LEMMA CoreOpenEpoch == Core /\ OpenEpoch => Core'
<1> SUFFICES ASSUME Core, OpenEpoch PROVE Core'
  OBVIOUS
<1>1. /\ pc = "epoch" /\ pc' = "fetch" /\ epoch <= Epochs
      /\ iteration' = 0 /\ accumulated' = 0
      /\ UNCHANGED <<routingVars, checkpoint>>
      /\ UNCHANGED <<mode, epoch, stream_state, posted, disturbed, resumes>>
      /\ UNCHANGED <<configVars, consumed_steps, samplerVars, batch>>
      /\ steps_total' = EpochSteps(consumed_steps) /\ step' = 0
      /\ epoch_index' = Opening(consumed_steps).epoch
      /\ chunk_index_in_document' = Opening(consumed_steps).chunk
      /\ next_document_group' = Opening(consumed_steps).group
  BY DEF OpenEpoch, Iter
<1>2. RoutingTypes' /\ CheckpointTypes' /\ AllOwned'
  BY <1>1, CoreAside
<1>3. consumed_steps \in 0 .. TotalSteps /\ consumed_steps \in Nat
  BY CoreArith
<1>4. FeedTypes'
  <2>1. EpochSteps(consumed_steps) \in 0 .. StepsPerEpoch
    BY <1>3, EpochStepsReach
  <2>2. 0 \in 0 .. EpochSteps(consumed_steps)
    BY <2>1, FeedAssumption
  <2>3. /\ Opening(consumed_steps).epoch \in Nat
        /\ Opening(consumed_steps).chunk \in Nat
        /\ Opening(consumed_steps).group \in 0 .. NumDocuments - 1
    BY <1>3, OpeningTypes
  <2> QED
    BY <1>1, <2>1, <2>2, <2>3
       DEF Core, FeedTypes, configVars, samplerVars
<1>5. PendingTypes'
  BY <1>1 DEF Core, PendingTypes, samplerVars
<1>6. LoopTypes'
  <2>1. 0 \in 0 .. StepsPerEpoch /\ 0 \in 0 .. Accumulation - 1
    BY FeedAssumption, TrainingAssumption
  <2> QED
    BY <1>1, <2>1 DEF Core, LoopTypes
<1>7. Paced'
  <2>1. Position' = Base(epoch)
    BY <1>1, CoreArith DEF Position, InEpoch
  <2>2. Position = Base(epoch)
    BY <1>1, CoreArith DEF Position, InEpoch, Least
  <2>3. consumed_steps' - step' = consumed_steps
    BY <1>1, <1>3
  <2>4. /\ Position <= consumed_steps
        /\ consumed_steps <= Position + 1
        /\ mode # "population" => consumed_steps = Position
        /\ (feedback => live) /\ (~live => absolute_step_offset = 0)
    BY DEF Core, Paced
  <2> QED
    BY <1>1, <2>1, <2>2, <2>3, <2>4
       DEF Paced, InEpoch, Holding, configVars, samplerVars
<1> QED
  BY <1>2, <1>4, <1>5, <1>6, <1>7 DEF Core

\* The loop ends when the epochs are run.
LEMMA CoreFinish == Core /\ Finish => Core'
<1> SUFFICES ASSUME Core, Finish PROVE Core'
  OBVIOUS
<1>1. /\ pc = "epoch" /\ pc' = "done" /\ epoch > Epochs
      /\ UNCHANGED <<routingVars, checkpoint>>
      /\ UNCHANGED <<mode, epoch, iteration, accumulated, stream_state, posted,
                     disturbed, resumes>>
      /\ UNCHANGED <<configVars, consumed_steps, iteratorVars, samplerVars,
                     batch>>
  BY DEF Finish, feedVars
<1>2. RoutingTypes' /\ CheckpointTypes' /\ AllOwned'
  BY <1>1, CoreAside
<1>3. FeedTypes' /\ PendingTypes'
  BY <1>1
     DEF Core, FeedTypes, PendingTypes, configVars, iteratorVars, samplerVars
<1>4. LoopTypes'
  BY <1>1 DEF Core, LoopTypes
<1>5. Paced'
  <2>1. Position' = Position
    BY <1>1 DEF Position, InEpoch
  <2>2. /\ Position <= consumed_steps
        /\ consumed_steps <= Position + 1
        /\ mode # "population" => consumed_steps = Position
        /\ (feedback => live) /\ (~live => absolute_step_offset = 0)
    BY DEF Core, Paced
  <2> QED
    BY <1>1, <2>1, <2>2 DEF Paced, InEpoch, Holding, configVars, samplerVars
<1> QED
  BY <1>2, <1>3, <1>4, <1>5 DEF Core

\* A batch moves loader, iterator and loop by one.
LEMMA CoreFetch == Core /\ Fetch => Core'
<1> SUFFICES ASSUME Core, Fetch PROVE Core'
  OBVIOUS
<1>0. PICK bucket \in Buckets \cup {Nothing} : NextBatch(bucket)
  BY DEF Fetch
<1>1. /\ pc = "fetch" /\ pc' \in {"policy", "train"} /\ iteration' = iteration + 1
      /\ disturbed' = (disturbed /\ ~batch'.reset)
      /\ UNCHANGED <<routingVars, checkpoint>>
      /\ UNCHANGED <<mode, epoch, accumulated, stream_state, posted, resumes>>
  BY DEF Fetch
<1>2. /\ step < steps_total
      /\ bucket \in Draws(epoch_index, SelectionStep)
      /\ consumed_steps' = consumed_steps + 1
      /\ step' = step + 1
      /\ batch' = [step |-> consumed_steps, document |-> Document(bucket),
                   chunk |-> chunk_index_in_document,
                   reset |-> chunk_index_in_document = 0]
      /\ pending' = Entered(consumed_steps, bucket)
      /\ drawn' = IF live THEN Drawn(bucket, epoch_index, SelectionStep)
                  ELSE Nothing
      /\ UNCHANGED <<configVars, steps_total, epoch_index,
                     absolute_step_offset>>
  BY <1>0 DEF NextBatch
<1>3. /\ chunk_index_in_document' \in Nat
      /\ next_document_group' \in 0 .. NumDocuments - 1
  <2>1. /\ next_document_group + BatchSize \in Nat
        /\ chunk_index_in_document + 1 \in Nat
    BY FeedAssumption DEF Core, FeedTypes
  <2>2. (next_document_group + BatchSize) % NumDocuments
            \in 0 .. NumDocuments - 1
    BY <2>1, DivMod, FeedAssumption
  <2>3. next_document_group \in 0 .. NumDocuments - 1
    BY DEF Core, FeedTypes
  <2>4. CASE DocumentComplete(bucket)
    BY <1>0, <2>2, <2>4 DEF NextBatch
  <2>5. CASE ~DocumentComplete(bucket)
    BY <1>0, <2>1, <2>3, <2>5 DEF NextBatch
  <2> QED
    BY <2>4, <2>5
<1>4. /\ iteration = step /\ steps_total = EpochSteps(consumed_steps - step)
      /\ epoch <= Epochs
      /\ Position = Base(epoch) + iteration
      /\ Position <= consumed_steps
      /\ consumed_steps <= Position + 1
      /\ mode # "population" => consumed_steps = Position
      /\ (feedback => live) /\ (~live => absolute_step_offset = 0)
  BY <1>1 DEF Core, Paced, Position, InEpoch
<1>5. /\ consumed_steps < TotalSteps
      /\ consumed_steps - step \in 0 .. TotalSteps
      /\ consumed_steps + 1 - (step + 1) = consumed_steps - step
  <2> DEFINE used == consumed_steps - step
  <2>1. used \in 0 .. TotalSteps /\ consumed_steps = used + step
    BY <1>4, CoreArith
  <2>2. used + EpochSteps(used) = Least(used + StepsPerEpoch, TotalSteps)
        /\ EpochSteps(used) \in Nat
    BY <2>1, EpochStepsReach, FeedAssumption
  <2>3. Least(used + StepsPerEpoch, TotalSteps) <= TotalSteps
    BY <2>1, CoreArith DEF Least
  <2> HIDE DEF used
  <2>4. used \in Nat
    BY <2>1, CoreArith
  <2>5. steps_total = EpochSteps(used)
    BY <1>4 DEF used
  <2>6. consumed_steps < TotalSteps
    BY <1>2, <2>1, <2>2, <2>3, <2>4, <2>5, CoreArith
  <2> QED
    BY <2>1, <2>6, CoreArith DEF used
<1>6. live => bucket \in Buckets
  BY <1>2, DrawsBuckets
<1>7. batch' \in Batches /\ batch'.step = consumed_steps
      /\ batch'.reset = (chunk_index_in_document = 0)
  <2>1. Document(bucket) \in Documents
    BY DocumentType DEF Core
  <2>2. consumed_steps \in Nat /\ chunk_index_in_document \in Nat
    BY CoreArith DEF Core, FeedTypes
  <2> QED
    BY <1>2, <2>1, <2>2 DEF Batches
<1>8. FeedTypes'
  <2>1. drawn' \in Draw \cup {Nothing}
    BY <1>2, <1>6, SelectionStepType DEF Core, FeedTypes, Drawn, Draw
  <2>2. step' \in 0 .. steps_total' /\ consumed_steps' \in 0 .. TotalSteps
    BY <1>2, <1>5, CoreArith
  <2> QED
    BY <1>2, <1>3, <1>7, <2>1, <2>2 DEF Core, FeedTypes, configVars
<1>9. PendingTypes'
  <2>1. consumed_steps \in 0 .. TotalSteps - 1
    BY <1>5, CoreArith
  <2> QED
    BY <1>2, <1>6, <2>1, EnteredTypes DEF Core, PendingTypes
<1>10. RoutingTypes' /\ CheckpointTypes' /\ AllOwned'
  BY <1>1, <1>2, CoreAside
<1>11. LoopTypes'
  <2>1. iteration' \in 0 .. StepsPerEpoch
    <3>1. steps_total \in 0 .. StepsPerEpoch
      BY DEF Core, FeedTypes
    <3> QED
      BY <1>1, <1>2, <1>4, <3>1, CoreArith
  <2>2. disturbed' \in BOOLEAN
    BY <1>1
  <2> QED
    BY <1>1, <2>1, <2>2 DEF Core, LoopTypes
<1>12. Paced'
  <2>1. Position' = Base(epoch) + (iteration + 1)
    BY <1>1 DEF Position, InEpoch
  <2>2. /\ Position' <= consumed_steps' /\ consumed_steps' <= Position' + 1
        /\ mode # "population" => consumed_steps' = Position'
        /\ iteration' >= 1
        /\ consumed_steps' - 1 = consumed_steps
    BY <1>1, <1>2, <1>4, <2>1, CoreArith
  <2>3. consumed_steps' - step' = consumed_steps - step
    BY <1>2, CoreArith
  <2>4. steps_total' = EpochSteps(consumed_steps' - step')
    BY <1>2, <1>4, <2>3, Zenon
  <2>5. iteration' = step'
    BY <1>1, <1>2, <1>4
  <2> QED
    BY <1>1, <1>2, <1>4, <1>7, <2>2, <2>4, <2>5
       DEF Paced, InEpoch, Holding, configVars
<1> QED
  BY <1>8, <1>9, <1>10, <1>11, <1>12 DEF Core

\* A policy batch makes an entry and moves nothing on.
LEMMA CoreFetchPolicy == Core /\ Beside /\ FetchPolicy => Core'
<1> SUFFICES ASSUME Core, Beside, FetchPolicy PROVE Core'
  OBVIOUS
<1>0. PICK bucket \in Buckets : PolicyBatch(bucket)
  BY DEF FetchPolicy
<1>1. /\ pc = "policy" /\ pc' = "train"
      /\ UNCHANGED <<routingVars, checkpoint>>
      /\ UNCHANGED <<mode, epoch, iteration, accumulated, stream_state, posted,
                     disturbed, resumes>>
  BY DEF FetchPolicy
<1>2. /\ pending' = Entered(batch.document.at, bucket)
      /\ drawn' = Drawn(bucket, batch.document.epoch, batch.document.at)
      /\ UNCHANGED <<configVars, consumed_steps, iteratorVars,
                     absolute_step_offset, batch>>
  BY <1>0 DEF PolicyBatch
<1>3. /\ batch \in Batches /\ batch.step = consumed_steps - 1
      /\ batch.document.at <= batch.step
  BY <1>1 DEF Core, Paced, Holding, Beside
<1>4. /\ batch.document.epoch \in Nat /\ batch.document.at \in Nat
      /\ batch.step \in Nat
  BY <1>3 DEF Batches, Documents
<1>5. batch.document.at \in 0 .. TotalSteps - 1
  BY <1>3, <1>4, CoreArith
<1>6. FeedTypes'
  <2>1. drawn' \in Draw
    BY <1>2, <1>4 DEF Drawn, Draw
  <2> QED
    BY <1>2, <2>1 DEF Core, FeedTypes, configVars, iteratorVars
<1>7. PendingTypes'
  BY <1>2, <1>5, EnteredTypes DEF Core, PendingTypes
<1>8. RoutingTypes' /\ CheckpointTypes' /\ AllOwned'
  BY <1>1, <1>2, CoreAside
<1>9. LoopTypes'
  BY <1>1 DEF Core, LoopTypes
<1>10. Paced'
  <2>1. Position' = Position
    BY <1>1 DEF Position, InEpoch
  <2> QED
    BY <1>1, <1>2, <2>1
       DEF Core, Paced, InEpoch, Holding, configVars, iteratorVars
<1> QED
  BY <1>6, <1>7, <1>8, <1>9, <1>10 DEF Core

\* What a step leaves behind is a recurrent state.
LEMMA ReadType == Core /\ Holding => Read \in States
<1> SUFFICES ASSUME Core, Holding PROVE Read \in States
  OBVIOUS
<1>1. batch \in Batches
  BY DEF Core, Paced
<1>2. batch.document \in Documents /\ batch.chunk + 1 \in Nat
  BY <1>1 DEF Batches
<1> QED
  BY <1>2 DEF Read, States

\* Whatever the bank does, slots stay with their owners.
LEMMA RoutedStepOwned ==
    ASSUME RoutingTypes, Owned(Routing), NEW c \in Slots, NEW at,
           NEW state \in States, RoutedStep(c, at, state)
    PROVE  RoutingTypes' /\ Owned(Routing)'
<1>1. /\ \A s \in Slots : optimizers[s] = generation[s]
      /\ \A s \in Slots : s >= known_contexts => stream_states[s] = Nobody
      /\ \A s \in Slots : s < known_contexts => generation[s] >= 1
  BY DEF Owned, Routing
<1>2. /\ current' = Identity(c, generation'[c])
      /\ stream_states' = [stream_states EXCEPT ![c] = state]
  BY DEF RoutedStep
<1> DEFINE Kept ==
             /\ known_contexts' \in 0 .. MaxContexts
             /\ known_contexts' >= known_contexts
             /\ c < known_contexts'
             /\ generation' \in [Slots -> 0 .. MaxGeneration]
             /\ optimizers' \in [Slots -> 0 .. MaxGeneration]
             /\ \A s \in Slots : optimizers'[s] = generation'[s]
             /\ \A s \in Slots : s < known_contexts' => generation'[s] >= 1
<1>3. Kept
  <2> USE RoutingAssumption DEF RoutingTypes, Slots
  <2>1. CASE Create(c)
    BY <1>1, <2>1 DEF Create
  <2>2. CASE Replace(c)
    BY <1>1, <2>2 DEF Replace
  <2>3. CASE Select(c, at)
    BY <1>1, <2>3 DEF Select
  <2> QED
    BY <2>1, <2>2, <2>3 DEF RoutedStep
<1>4. stream_states' \in [Slots -> States \cup {Nobody}]
  BY <1>2 DEF RoutingTypes
<1>5. generation'[c] \in 1 .. MaxGeneration
  BY <1>3, RoutingAssumption
<1>6. current' \in Contexts
  BY <1>2, <1>5 DEF Identity, Contexts
<1>7. RoutingTypes'
  BY <1>3, <1>4, <1>6 DEF RoutingTypes
<1>8. \A s \in Slots : s >= known_contexts' => stream_states'[s] = Nobody
  <2> SUFFICES ASSUME NEW s \in Slots, s >= known_contexts'
               PROVE  stream_states'[s] = Nobody
    OBVIOUS
  <2>0. s \in Int /\ c \in Int /\ known_contexts \in Int
        /\ known_contexts' \in Int
    BY <1>3, RoutingAssumption DEF Slots, RoutingTypes
  <2>1. s # c /\ s >= known_contexts
    BY <1>3, <2>0
  <2> QED
    BY <1>1, <1>2, <2>1 DEF RoutingTypes
<1>9. current'.slot = c /\ current'.generation = generation'[c]
  BY <1>2 DEF Identity
<1> QED
  BY <1>3, <1>7, <1>8, <1>9 DEF Owned, Routing

\* A step of training leaves the counts alone.
LEMMA PacedTrain ==
    ASSUME Core, pc = "train", pc' \in {"update", "fetch"},
           UNCHANGED <<configVars, consumed_steps, iteratorVars,
                       absolute_step_offset, batch, mode, epoch, iteration>>
    PROVE  Paced'
<1>1. Position' = Position
  BY DEF Position, InEpoch
<1>2. /\ Position <= consumed_steps
      /\ consumed_steps <= Position + 1
      /\ mode # "population" => consumed_steps = Position
      /\ epoch <= Epochs /\ iteration = step
      /\ steps_total = EpochSteps(consumed_steps - step)
      /\ iteration >= 1 /\ batch \in Batches /\ batch.step = consumed_steps - 1
      /\ (feedback => live) /\ (~live => absolute_step_offset = 0)
  BY DEF Core, Paced, InEpoch, Holding
<1> QED
  BY <1>1, <1>2 DEF Paced, InEpoch, Holding, configVars, iteratorVars

\* Steps that leave the loader alone.
LEMMA FeedAside ==
    ASSUME Core, drawn' \in {drawn, Nothing},
           UNCHANGED <<configVars, consumed_steps, iteratorVars,
                       absolute_step_offset, batch>>
    PROVE  FeedTypes'
BY DEF Core, FeedTypes, configVars, iteratorVars

\* A step with one recurrent state.
LEMMA CoreTrainPlain == Core /\ TrainPlain => Core'
<1> SUFFICES ASSUME Core, TrainPlain PROVE Core'
  OBVIOUS
<1>1. /\ pc = "train" /\ pc' = "update" /\ stream_state' = Read /\ Credit
      /\ disturbed' = (disturbed \/ WeightsMove)
      /\ UNCHANGED <<configVars, consumed_steps, iteratorVars,
                     absolute_step_offset, batch, mode, epoch, iteration>>
      /\ UNCHANGED <<routingVars, checkpoint>>
      /\ UNCHANGED <<accumulated, posted, resumes>>
  BY DEF TrainPlain
<1>2. PendingTypes' /\ drawn' \in {drawn, Nothing}
  BY <1>1, CreditTypes DEF Core
<1>3. FeedTypes'
  BY <1>1, <1>2, FeedAside
<1>4. RoutingTypes' /\ CheckpointTypes' /\ AllOwned'
  BY <1>1, CoreAside
<1>5. LoopTypes'
  <2>1. Read \in States
    BY <1>1, ReadType DEF Holding
  <2>2. disturbed' \in BOOLEAN
    BY <1>1
  <2> QED
    BY <1>1, <2>1, <2>2 DEF Core, LoopTypes
<1>6. Paced'
  BY <1>1, PacedTrain
<1> QED
  BY <1>2, <1>3, <1>4, <1>5, <1>6 DEF Core

\* A step under a routed context.
LEMMA CoreTrainRouted == Core /\ TrainRouted => Core'
<1> SUFFICES ASSUME Core, TrainRouted PROVE Core'
  OBVIOUS
<1>1. /\ pc = "train" /\ pc' = "update" /\ Credit
      /\ \E c \in Slots : RoutedStep(c, AbsoluteStep, Read)
      /\ disturbed' = (disturbed \/ WeightsMove \/ (Switches /\ ~batch.reset))
      /\ UNCHANGED <<configVars, consumed_steps, iteratorVars,
                     absolute_step_offset, batch, mode, epoch, iteration>>
      /\ UNCHANGED <<accumulated, posted, resumes, stream_state, checkpoint>>
  BY DEF TrainRouted
<1>2. PendingTypes' /\ drawn' \in {drawn, Nothing}
  BY <1>1, CreditTypes DEF Core
<1>3. FeedTypes'
  BY <1>1, <1>2, FeedAside
<1>4. RoutingTypes' /\ Owned(Routing)'
  <2>1. Read \in States
    BY <1>1, ReadType DEF Holding
  <2> QED
    BY <1>1, <2>1, RoutedStepOwned DEF Core, AllOwned
<1>5. CheckpointTypes' /\ AllOwned'
  BY <1>1, <1>4 DEF Core, CheckpointTypes, AllOwned, Owned, configVars
<1>6. LoopTypes'
  <2>1. disturbed' \in BOOLEAN
    BY <1>1
  <2> QED
    BY <1>1, <2>1 DEF Core, LoopTypes
<1>7. Paced'
  BY <1>1, PacedTrain
<1> QED
  BY <1>2, <1>3, <1>4, <1>5, <1>6, <1>7 DEF Core

\* The step in hand is one of the run.
LEMMA AbsoluteStepType ==
    ASSUME Core, Holding
    PROVE  /\ AbsoluteStep \in 0 .. TotalSteps - 1
           /\ AbsoluteStep = Position - 1
           /\ AbsoluteStep < consumed_steps
           /\ mode # "population" => AbsoluteStep = batch.step
<1>1. /\ Position <= consumed_steps
      /\ consumed_steps <= Position + 1
      /\ mode # "population" => consumed_steps = Position
      /\ iteration >= 1 /\ batch.step = consumed_steps - 1
      /\ Position = Base(epoch) + iteration
  BY DEF Core, Paced, Position, InEpoch, Holding
<1>2. AbsoluteStep = Base(epoch) + iteration - 1
  BY DEF AbsoluteStep, Base
<1> QED
  BY <1>1, <1>2, CoreArith

\* Append, at its indices.
LEMMA AppendType ==
    ASSUME NEW S, NEW s \in Seq(S), NEW e \in S
    PROVE  /\ Append(s, e) \in Seq(S)
           /\ Len(Append(s, e)) = Len(s) + 1
           /\ \A i \in 1 .. Len(s) : Append(s, e)[i] = s[i]
           /\ Append(s, e)[Len(s) + 1] = e
OBVIOUS

\* A step of the population loop.
LEMMA CoreTrainPopulation == Core /\ TrainPopulation => Core'
<1> SUFFICES ASSUME Core, TrainPopulation PROVE Core'
  OBVIOUS
<1>1. /\ pc = "train" /\ pc' = "fetch"
      /\ UNCHANGED <<configVars, consumed_steps, iteratorVars,
                     absolute_step_offset, batch, mode, epoch, iteration>>
      /\ UNCHANGED <<routingVars, checkpoint>>
      /\ UNCHANGED <<accumulated, resumes, stream_state>>
  BY DEF TrainPopulation
<1>2. PendingTypes' /\ drawn' \in {drawn, Nothing}
      /\ disturbed' \in BOOLEAN /\ posted' \in Seq(0 .. TotalSteps - 1)
  <2>1. disturbed \in BOOLEAN /\ posted \in Seq(0 .. TotalSteps - 1)
    BY DEF Core, LoopTypes
  <2>2. AbsoluteStep \in 0 .. TotalSteps - 1
    BY <1>1, AbsoluteStepType DEF Holding
  <2>3. Append(posted, AbsoluteStep) \in Seq(0 .. TotalSteps - 1)
    BY <2>1, <2>2, AppendType
  <2>4. CASE /\ Credit
             /\ disturbed' = (disturbed \/ WeightsMove)
             /\ IF CreditDue
                THEN /\ Len(posted) < MaxPosted
                     /\ posted' = Append(posted, AbsoluteStep)
                ELSE UNCHANGED posted
    BY <2>1, <2>3, <2>4, CreditTypes DEF Core
  <2>5. CASE UNCHANGED <<pending, drawn, disturbed, posted>>
    BY <2>1, <2>5 DEF Core, PendingTypes
  <2> QED
    BY <2>4, <2>5 DEF TrainPopulation
<1>3. FeedTypes'
  BY <1>1, <1>2, FeedAside
<1>4. RoutingTypes' /\ CheckpointTypes' /\ AllOwned'
  BY <1>1, CoreAside
<1>5. LoopTypes'
  BY <1>1, <1>2 DEF Core, LoopTypes
<1>6. Paced'
  BY <1>1, PacedTrain
<1> QED
  BY <1>2, <1>3, <1>4, <1>5, <1>6 DEF Core

\* A control moves the weights or nothing.
LEMMA ControlTypes ==
    ASSUME Control, disturbed \in BOOLEAN
    PROVE  drawn' \in {drawn, Nothing} /\ disturbed' \in BOOLEAN
BY DEF Control

\* The rest of a step: accumulation, control, sample.
LEMMA CoreUpdate == Core /\ Update => Core'
<1> SUFFICES ASSUME Core, Update PROVE Core'
  OBVIOUS
<1>1. /\ pc = "update" /\ pc' = "fetch"
      /\ UNCHANGED <<configVars, consumed_steps, iteratorVars,
                     absolute_step_offset, batch>>
      /\ UNCHANGED <<routingVars, checkpoint>>
      /\ UNCHANGED <<pending, mode, epoch, iteration, resumes, stream_state>>
  BY DEF Update
<1>2. /\ drawn' \in {drawn, Nothing} /\ disturbed' \in BOOLEAN
      /\ accumulated' \in 0 .. Accumulation - 1
  <2>1. disturbed \in BOOLEAN /\ accumulated \in 0 .. Accumulation - 1
    BY DEF Core, LoopTypes
  <2>2. CASE mode = "routed" \/ accumulated + 1 >= Accumulation
    BY <2>1, <2>2, ControlTypes, TrainingAssumption DEF Update
  <2>3. CASE ~(mode = "routed" \/ accumulated + 1 >= Accumulation)
    <3>1. accumulated' = accumulated + 1 /\ UNCHANGED <<drawn, disturbed>>
      BY <2>3 DEF Update
    <3> QED
      BY <2>1, <2>3, <3>1, TrainingAssumption
  <2> QED
    BY <2>2, <2>3
<1>3. posted' \in Seq(0 .. TotalSteps - 1)
  <2>1. posted \in Seq(0 .. TotalSteps - 1)
    BY DEF Core, LoopTypes
  <2>2. AbsoluteStep \in 0 .. TotalSteps - 1
    BY <1>1, AbsoluteStepType DEF Holding
  <2>3. Append(posted, AbsoluteStep) \in Seq(0 .. TotalSteps - 1)
    BY <2>1, <2>2, AppendType
  <2> QED
    BY <2>1, <2>3 DEF Update
<1>4. FeedTypes'
  BY <1>1, <1>2, FeedAside
<1>5. PendingTypes'
  BY <1>1 DEF Core, PendingTypes
<1>6. RoutingTypes' /\ CheckpointTypes' /\ AllOwned'
  BY <1>1, CoreAside
<1>7. LoopTypes'
  BY <1>1, <1>2, <1>3 DEF Core, LoopTypes
<1>8. Paced'
  <2>1. Position' = Position
    BY <1>1 DEF Position, InEpoch
  <2>2. /\ Position <= consumed_steps
        /\ consumed_steps <= Position + 1
        /\ mode # "population" => consumed_steps = Position
        /\ epoch <= Epochs /\ iteration = step
        /\ steps_total = EpochSteps(consumed_steps - step)
        /\ (feedback => live) /\ (~live => absolute_step_offset = 0)
    BY <1>1 DEF Core, Paced, InEpoch, Holding
  <2> QED
    BY <1>1, <2>1, <2>2 DEF Paced, InEpoch, Holding, configVars, iteratorVars
<1> QED
  BY <1>4, <1>5, <1>6, <1>7, <1>8 DEF Core

\* An iterator that has run dry has come to the end of the epoch.
LEMMA EpochEndReach ==
    ASSUME Core, pc = "fetch", step >= steps_total
    PROVE  /\ Least(Base(epoch + 1), TotalSteps) <= consumed_steps
           /\ consumed_steps <= Least(Base(epoch + 1), TotalSteps) + 1
           /\ mode # "population" =>
                  consumed_steps = Least(Base(epoch + 1), TotalSteps)
           /\ Position <= Least(Base(epoch + 1), TotalSteps)
<1> DEFINE used == consumed_steps - step
<1>1. /\ Position = Base(epoch) + iteration /\ Position <= consumed_steps
      /\ consumed_steps <= Position + 1
      /\ mode # "population" => consumed_steps = Position
      /\ epoch <= Epochs /\ iteration = step
      /\ steps_total = EpochSteps(used)
  BY DEF Core, Paced, Position, InEpoch
<1>2. step <= steps_total
  BY CoreArith DEF Core, FeedTypes
<1>3. used \in 0 .. TotalSteps /\ consumed_steps = used + step
      /\ Base(epoch) <= used /\ used <= Base(epoch) + 1
      /\ (mode # "population" => used = Base(epoch))
  BY <1>1, CoreArith
<1>4. /\ EpochSteps(used) \in 0 .. StepsPerEpoch
      /\ used + EpochSteps(used) = Least(used + StepsPerEpoch, TotalSteps)
  BY <1>3, EpochStepsReach
<1>5. step = EpochSteps(used)
  BY <1>1, <1>2, CoreArith
<1> HIDE DEF used
<1>6. consumed_steps = Least(used + StepsPerEpoch, TotalSteps)
  BY <1>3, <1>4, <1>5
<1>7. used \in Nat /\ iteration <= StepsPerEpoch
  BY <1>1, <1>3, <1>4, <1>5, CoreArith
<1>8. Position <= TotalSteps /\ Position <= Base(epoch + 1)
  BY <1>1, <1>7, CoreArith
<1> QED
  BY <1>3, <1>6, <1>7, <1>8, CoreArith DEF Least

\* The end of an epoch leaves no gradient behind.
LEMMA CoreEpochEnd == Core /\ EpochEnd => Core'
<1> SUFFICES ASSUME Core, EpochEnd PROVE Core'
  OBVIOUS
<1>1. /\ pc = "fetch" /\ pc' = "boundary" /\ step >= steps_total
      /\ ApplyRemainder /\ NoIterator /\ batch' = Nothing
      /\ UNCHANGED <<configVars, consumed_steps, absolute_step_offset>>
      /\ UNCHANGED <<routingVars, checkpoint>>
      /\ UNCHANGED <<pending, mode, epoch, iteration, stream_state, posted,
                     resumes>>
  BY DEF EpochEnd
<1>2. /\ drawn' \in {drawn, Nothing} /\ disturbed' \in BOOLEAN
      /\ accumulated' = 0
  <2>1. disturbed \in BOOLEAN
    BY DEF Core, LoopTypes
  <2> QED
    BY <1>1, <2>1, ControlTypes DEF ApplyRemainder
<1>3. FeedTypes'
  <2>1. 0 \in 0 .. NumDocuments - 1 /\ 0 \in 0 .. StepsPerEpoch
    BY FeedAssumption
  <2> QED
    BY <1>1, <1>2, <2>1 DEF Core, FeedTypes, configVars, NoIterator
<1>4. PendingTypes'
  BY <1>1 DEF Core, PendingTypes
<1>5. RoutingTypes' /\ CheckpointTypes' /\ AllOwned'
  BY <1>1, CoreAside
<1>6. LoopTypes'
  <2>1. 0 \in 0 .. Accumulation - 1
    BY TrainingAssumption
  <2> QED
    BY <1>1, <1>2, <2>1 DEF Core, LoopTypes
<1>7. Paced'
  <2>1. Position' = Least(Base(epoch + 1), TotalSteps)
    BY <1>1 DEF Position, InEpoch
  <2>2. /\ epoch <= Epochs
        /\ (feedback => live) /\ (~live => absolute_step_offset = 0)
    BY <1>1 DEF Core, Paced, InEpoch
  <2>3. /\ Position' <= consumed_steps' /\ consumed_steps' <= Position' + 1
        /\ mode' # "population" => consumed_steps' = Position'
    BY <1>1, <2>1, EpochEndReach
  <2>4. pc' # "start"
    BY <1>1
  <2> QED
    BY <1>1, <1>2, <2>2, <2>3, <2>4 DEF Paced, InEpoch, Holding, configVars
<1> QED
  BY <1>3, <1>4, <1>5, <1>6, <1>7 DEF Core

\* A checkpoint is of the epoch that has ended.
LEMMA CoreCheckpoint == Core /\ Checkpoint => Core'
<1> SUFFICES ASSUME Core, Checkpoint PROVE Core'
  OBVIOUS
<1>1. /\ pc = "boundary" /\ pc' = "epoch" /\ epoch' = epoch + 1
      /\ checkpoint' = [epoch |-> epoch,
                        offset |-> IF live THEN EpochEndStep ELSE 0,
                        stream_state |-> stream_state, routing |-> Routing]
      /\ IF live THEN ExportState(EpochEndStep) ELSE UNCHANGED samplerVars
      /\ UNCHANGED <<configVars, consumed_steps, iteratorVars, batch>>
      /\ UNCHANGED routingVars
      /\ UNCHANGED <<mode, iteration, accumulated, stream_state, posted,
                     disturbed, resumes>>
  BY DEF Checkpoint
<1>2. EpochEndStep \in Nat
  <2>1. EpochEndStep = Base(epoch) + IF iteration = 0 THEN 0 ELSE iteration - 1
    BY DEF EpochEndStep, Base
  <2> QED
    BY <2>1, CoreArith
<1>3. /\ absolute_step_offset' \in Nat /\ drawn' \in {drawn, Nothing}
      /\ pending' = pending /\ (~live => absolute_step_offset' = 0)
  <2>1. absolute_step_offset \in Nat /\ (~live => absolute_step_offset = 0)
    BY DEF Core, FeedTypes, Paced
  <2>2. CASE live
    BY <1>1, <1>2, <2>2 DEF ExportState
  <2>3. CASE ~live
    BY <1>1, <2>1, <2>3 DEF samplerVars
  <2> QED
    BY <2>2, <2>3
<1>4. FeedTypes' /\ PendingTypes'
  BY <1>1, <1>3
     DEF Core, FeedTypes, PendingTypes, configVars, iteratorVars
<1>5. RoutingTypes' /\ Routing' = Routing
  BY <1>1 DEF Core, RoutingTypes, Routing, routingVars
<1>6. epoch <= Epochs /\ epoch + 1 \in 1 .. Epochs + 1 /\ epoch \in 0 .. Epochs
  <2>1. epoch <= Epochs
    BY <1>1 DEF Core, Paced
  <2> QED
    BY <2>1, CoreArith, EpochsNat
<1>7. CheckpointTypes'
  <2>1. Routing \in RoutingRecords
    BY RoutingTyped DEF Core
  <2>2. stream_state \in States \cup {Nothing}
    BY DEF Core, LoopTypes
  <2> DEFINE offset == IF live THEN EpochEndStep ELSE 0
  <2>3. offset \in Nat /\ (~live => offset = 0)
    BY <1>2
  <2>4. checkpoint' = [epoch |-> epoch, offset |-> offset,
                       stream_state |-> stream_state, routing |-> Routing]
    BY <1>1
  <2> HIDE DEF offset
  <2>5. checkpoint' \in [epoch : 0 .. Epochs, offset : Nat,
                         stream_state : States \cup {Nothing},
                         routing : RoutingRecords]
    BY <1>6, <2>1, <2>2, <2>3, <2>4
  <2>6. ~live' => checkpoint'.offset = 0
    BY <1>1, <2>3, <2>4 DEF configVars
  <2> QED
    BY <2>5, <2>6 DEF CheckpointTypes
<1>8. AllOwned'
  <2>1. Owned(Routing) /\ checkpoint'.routing = Routing
    BY <1>1 DEF Core, AllOwned
  <2> QED
    BY <1>5, <2>1 DEF AllOwned, Owned
<1>9. LoopTypes'
  BY <1>1, <1>6 DEF Core, LoopTypes
<1>10. Paced'
  <2>1. Position' = Position
    BY <1>1 DEF Position, InEpoch
  <2>2. /\ Position <= consumed_steps
        /\ consumed_steps <= Position + 1
        /\ mode # "population" => consumed_steps = Position
        /\ (feedback => live) /\ accumulated = 0
    BY <1>1 DEF Core, Paced
  <2> QED
    BY <1>1, <1>3, <2>1, <2>2 DEF Paced, InEpoch, Holding, configVars
<1> QED
  BY <1>4, <1>5, <1>7, <1>8, <1>9, <1>10 DEF Core

\* Head and Tail, at their indices.
LEMMA HeadTailType ==
    ASSUME NEW S, NEW s \in Seq(S), s # << >>
    PROVE  /\ Tail(s) \in Seq(S) /\ Len(Tail(s)) = Len(s) - 1
           /\ Head(s) \in S /\ Head(s) = s[1] /\ 1 \in DOMAIN s
           /\ \A i \in DOMAIN Tail(s) : i + 1 \in DOMAIN s
                                        /\ Tail(s)[i] = s[i + 1]
OBVIOUS

\* The event thread takes an entry and moves the weights.
LEMMA CoreEventThread == Core /\ EventThread => Core'
<1> SUFFICES ASSUME Core, EventThread PROVE Core'
  OBVIOUS
<1>1. /\ posted # << >> /\ RecordLoss(Head(posted)) /\ posted' = Tail(posted)
      /\ disturbed' = (disturbed \/ Creditable(Head(posted)))
      /\ UNCHANGED <<configVars, consumed_steps, iteratorVars,
                     absolute_step_offset, batch>>
      /\ UNCHANGED <<routingVars, checkpoint>>
      /\ UNCHANGED <<mode, pc, epoch, iteration, accumulated, stream_state,
                     resumes>>
  BY DEF EventThread, countVars
<1>2. PendingTypes' /\ drawn' \in {drawn, Nothing}
  BY <1>1, RecordLossTypes DEF Core
<1>3. FeedTypes'
  BY <1>1, <1>2, FeedAside
<1>4. RoutingTypes' /\ CheckpointTypes' /\ AllOwned'
  BY <1>1, CoreAside
<1>5. LoopTypes'
  <2>1. posted' \in Seq(0 .. TotalSteps - 1)
    BY <1>1, HeadTailType DEF Core, LoopTypes
  <2>2. disturbed' \in BOOLEAN
    BY <1>1
  <2> QED
    BY <1>1, <2>1, <2>2 DEF Core, LoopTypes
<1>6. Paced'
  <2>1. Position' = Position
    BY <1>1 DEF Position, InEpoch
  <2> QED
    BY <1>1, <2>1
       DEF Core, Paced, InEpoch, Holding, configVars, iteratorVars
<1> QED
  BY <1>2, <1>3, <1>4, <1>5, <1>6 DEF Core

\* A resume starts from the epoch after the checkpoint.
LEMMA CoreResume == Core /\ Resume => Core'
<1> SUFFICES ASSUME Core, Resume PROVE Core'
  OBVIOUS
<1>1. /\ resumes < MaxResumes /\ resumes' = resumes + 1
      /\ consumed_steps' = InitialSteps(checkpoint.epoch * StepsPerEpoch)
      /\ NoIterator /\ absolute_step_offset' = checkpoint.offset
      /\ pending' = NoPending /\ drawn' = Nothing /\ batch' = Nothing
      /\ stream_state' = checkpoint.stream_state
      /\ RestoreRouting(checkpoint.routing)
      /\ pc' = IF mode = "population" THEN "start" ELSE "epoch"
      /\ epoch' = checkpoint.epoch + 1 /\ iteration' = 0 /\ accumulated' = 0
      /\ posted' = << >> /\ disturbed' = FALSE
      /\ UNCHANGED <<configVars, mode, checkpoint>>
  BY DEF Resume
<1>2. /\ checkpoint.epoch \in 0 .. Epochs /\ checkpoint.offset \in Nat
      /\ checkpoint.stream_state \in States \cup {Nothing}
      /\ checkpoint.routing \in RoutingRecords
  BY DEF Core, CheckpointTypes
<1>3. consumed_steps' = Least(Base(epoch'), TotalSteps)
      /\ Base(epoch') \in Nat /\ consumed_steps' \in 0 .. TotalSteps
  <2>1. checkpoint.epoch \in Nat
    BY <1>2, EpochsNat
  <2> QED
    BY <1>1, <2>1, BaseOf, FeedAssumption DEF InitialSteps, Least
<1>4. FeedTypes'
  <2>1. 0 \in 0 .. NumDocuments - 1 /\ 0 \in 0 .. StepsPerEpoch
    BY FeedAssumption
  <2> QED
    BY <1>1, <1>2, <1>3, <2>1 DEF Core, FeedTypes, configVars, NoIterator
<1>5. PendingTypes'
  <2>1. DOMAIN pending' = {}
    BY <1>1 DEF NoPending
  <2> QED
    BY <2>1, FS_EmptySet, FeedAssumption DEF PendingTypes
<1>6. RoutingTypes' /\ Routing' = checkpoint.routing
  BY <1>1, <1>2
     DEF RestoreRouting, RoutingTypes, RoutingRecords, Routing
<1>7. CheckpointTypes' /\ AllOwned'
  <2>1. /\ Owned(checkpoint.routing)
        /\ checkpoint' = checkpoint /\ live' = live
    BY <1>1 DEF Core, AllOwned, configVars
  <2> QED
    BY <1>6, <2>1 DEF Core, CheckpointTypes, AllOwned, Owned
<1>8. pc' \in {"start", "epoch"} /\ (pc' = "start" => mode = "population")
  BY <1>1
<1>9. LoopTypes'
  <2>1. 0 \in 0 .. StepsPerEpoch /\ 0 \in 0 .. Accumulation - 1
    BY FeedAssumption, TrainingAssumption
  <2>4. resumes \in 0 .. MaxResumes
    BY DEF Core, LoopTypes
  <2>5. resumes + 1 \in 0 .. MaxResumes
    BY <1>1, <2>4, TrainingAssumption
  <2>6. checkpoint.epoch + 1 \in 1 .. Epochs + 1
    BY <1>2, EpochsNat
  <2>2. << >> \in Seq(0 .. TotalSteps - 1)
    OBVIOUS
  <2>3. mode \in Modes
    BY DEF Core, LoopTypes
  <2> QED
    BY <1>1, <1>2, <1>8, <2>1, <2>2, <2>3, <2>5, <2>6 DEF LoopTypes
<1>10. Paced'
  <2>1. Position' = Least(Base(epoch'), TotalSteps)
    BY <1>8 DEF Position, InEpoch
  <2>2. /\ Position' = consumed_steps' /\ Position' <= consumed_steps'
        /\ consumed_steps' <= Position' + 1
    BY <1>3, <2>1
  <2>3. ~live => checkpoint.offset = 0
    BY DEF Core, CheckpointTypes
  <2>4. feedback => live
    BY DEF Core, Paced
  <2> QED
    BY <1>1, <1>8, <2>2, <2>3, <2>4 DEF Paced, InEpoch, Holding, configVars
<1> QED
  BY <1>4, <1>5, <1>6, <1>7, <1>9, <1>10 DEF Core
\* Nothing happens.
LEMMA CoreStutter == Core /\ UNCHANGED vars => Core'
<1> SUFFICES ASSUME Core, UNCHANGED vars PROVE Core'
  OBVIOUS
<1>1. /\ UNCHANGED <<configVars, consumed_steps, iteratorVars, samplerVars,
                     batch>>
      /\ UNCHANGED <<routingVars, checkpoint>>
      /\ UNCHANGED <<mode, pc, epoch, iteration, accumulated, stream_state,
                     posted, disturbed, resumes>>
  BY DEF vars, feedVars, countVars
<1>2. RoutingTypes' /\ CheckpointTypes' /\ AllOwned'
  BY <1>1, CoreAside
<1>3. FeedTypes' /\ PendingTypes' /\ LoopTypes'
  BY <1>1
     DEF Core, FeedTypes, PendingTypes, LoopTypes, configVars, iteratorVars,
         samplerVars
<1>4. Paced'
  <2>1. Position' = Position
    BY <1>1 DEF Position, InEpoch
  <2> QED
    BY <1>1, <2>1
       DEF Core, Paced, InEpoch, Holding, configVars, iteratorVars, samplerVars
<1> QED
  BY <1>2, <1>3, <1>4 DEF Core

\* The core is inductive, with what is known beside a policy batch.
LEMMA CoreStep == Core /\ Beside /\ [Next]_vars => Core'
<1> SUFFICES ASSUME Core, Beside, [Next]_vars PROVE Core'
  OBVIOUS
<1>1. CASE Trainer
  BY <1>1, CoreAutotune, CoreOpenEpoch, CoreFinish, CoreFetch, CoreFetchPolicy,
     CoreTrainPlain, CoreTrainRouted, CoreTrainPopulation, CoreUpdate, CoreEpochEnd,
     CoreCheckpoint
     DEF Trainer
<1>2. CASE EventThread
  BY <1>2, CoreEventThread
<1>3. CASE Resume
  BY <1>3, CoreResume
<1>4. CASE UNCHANGED vars
  BY <1>4, CoreStutter
<1> QED
  BY <1>1, <1>2, <1>3, <1>4 DEF Next

\* A batch is drawn for the step its group began at.
LEMMA BesideFetch == Core /\ Beside /\ Fetch => Beside'
<1> SUFFICES ASSUME Core, Beside, Fetch PROVE Beside'
  OBVIOUS
<1>0. PICK bucket \in Buckets \cup {Nothing} : NextBatch(bucket)
  BY DEF Fetch
<1>1. /\ pc = "fetch" /\ pc' \in IF sidecars THEN {"policy", "train"} ELSE {"train"}
      /\ consumed_steps' = consumed_steps + 1
      /\ batch' = [step |-> consumed_steps, document |-> Document(bucket),
                   chunk |-> chunk_index_in_document,
                   reset |-> chunk_index_in_document = 0]
      /\ drawn' = IF live THEN Drawn(bucket, epoch_index, SelectionStep)
                  ELSE Nothing
      /\ sidecars' = sidecars /\ live' = live
  BY <1>0 DEF Fetch, NextBatch, configVars
<1>2. /\ sidecars => live
      /\ live /\ consumed_steps = 0 => chunk_index_in_document = 0
  BY <1>1 DEF Beside, InEpoch
<1>3. consumed_steps \in Nat /\ chunk_index_in_document \in Nat
  BY CoreArith DEF Core, FeedTypes
<1>4. consumed_steps' # 0
  BY <1>1, <1>3
<1>5. /\ SelectionStep <= consumed_steps
      /\ SelectionStep = consumed_steps /\ live => chunk_index_in_document = 0
  BY <1>2, <1>3 DEF SelectionStep, Least
<1>6. live => Document(bucket) = [epoch |-> epoch_index, bucket |-> bucket,
                                  at |-> SelectionStep]
  BY DEF Document
<1>7. /\ batch'.step = consumed_steps /\ batch'.document = Document(bucket)
      /\ batch'.reset = (chunk_index_in_document = 0)
  BY <1>1
<1>8. ASSUME pc' = "policy"
      PROVE  /\ sidecars' /\ batch'.document.at <= batch'.step
             /\ batch'.document.at = batch'.step => batch'.reset
             /\ drawn' = Drawn(batch'.document.bucket, batch'.document.epoch,
                               batch'.document.at)
  <2>1. sidecars /\ live
    BY <1>1, <1>2, <1>8
  <2>2. /\ batch'.document.at = SelectionStep
        /\ batch'.document.epoch = epoch_index
        /\ batch'.document.bucket = bucket
    BY <1>6, <1>7, <2>1
  <2> QED
    BY <1>1, <1>5, <1>7, <2>1, <2>2
<1> QED
  BY <1>1, <1>2, <1>4, <1>8 DEF Beside, Drawn

\* No other step of the trainer goes on to a policy batch.
LEMMA BesideTrainer == Beside /\ Trainer /\ ~Fetch => Beside'
<1> SUFFICES ASSUME Beside, Trainer, ~Fetch PROVE Beside'
  OBVIOUS
<1>1. CASE OpenEpoch
  <2>1. /\ pc' = "fetch" /\ UNCHANGED configVars
        /\ consumed_steps' = consumed_steps
        /\ live => chunk_index_in_document' = 0
    BY <1>1 DEF OpenEpoch, Iter, Opening
  <2> QED
    BY <2>1 DEF Beside, configVars
<1>2. CASE FetchPolicy \/ TrainPlain \/ TrainRouted \/ TrainPopulation \/ Update
  <2>1. /\ InEpoch /\ pc' # "policy" /\ UNCHANGED configVars
        /\ UNCHANGED <<consumed_steps, iteratorVars>>
    BY <1>2
       DEF FetchPolicy, PolicyBatch, TrainPlain, TrainRouted, TrainPopulation,
           Update, InEpoch
  <2> QED
    BY <2>1 DEF Beside, configVars, iteratorVars
<1>3. CASE Autotune \/ Finish \/ EpochEnd \/ Checkpoint
  <2>1. pc' \in {"epoch", "done", "boundary"} /\ UNCHANGED configVars
    BY <1>3
       DEF Autotune, TakeOne, Finish, EpochEnd, Checkpoint, feedVars
  <2> QED
    BY <2>1 DEF Beside, InEpoch, configVars
<1> QED
  BY <1>1, <1>2, <1>3 DEF Trainer

\* What is known beside a policy batch is inductive, too.
LEMMA BesideStep == Core /\ Beside /\ [Next]_vars => Beside'
<1> SUFFICES ASSUME Core, Beside, [Next]_vars PROVE Beside'
  OBVIOUS
<1>1. CASE EventThread \/ UNCHANGED vars
  <2>1. /\ UNCHANGED configVars /\ UNCHANGED iteratorVars
        /\ UNCHANGED <<consumed_steps, batch, pc>>
    BY <1>1 DEF EventThread, vars, feedVars, countVars
  <2>2. EventThread => (~disturbed' => ~disturbed /\ drawn' = drawn)
    <3> SUFFICES ASSUME EventThread
                 PROVE  ~disturbed' => ~disturbed /\ drawn' = drawn
      OBVIOUS
    <3>1. /\ RecordLoss(Head(posted))
          /\ disturbed' = (disturbed \/ Creditable(Head(posted)))
      BY DEF EventThread
    <3> QED
      BY <3>1 DEF RecordLoss
  <2>3. UNCHANGED vars => disturbed' = disturbed /\ drawn' = drawn
    BY DEF vars, feedVars, samplerVars
  <2>4. ~disturbed' => ~disturbed /\ drawn' = drawn
    BY <1>1, <2>2, <2>3
  <2> QED
    BY <2>1, <2>4 DEF Beside, InEpoch, Drawn, configVars, iteratorVars
<1>2. CASE Resume
  <2>1. pc' \in {"start", "epoch"} /\ UNCHANGED configVars
    BY <1>2 DEF Resume
  <2> QED
    BY <2>1 DEF Beside, InEpoch, configVars
<1> QED
  BY <1>1, <1>2, BesideFetch, BesideTrainer DEF Next, Trainer

\* A run begins with no policy batch.
LEMMA BesideInit == Init => Beside
<1> SUFFICES ASSUME Init PROVE Beside
  OBVIOUS
<1>1. (sidecars => live) /\ pc \in {"start", "epoch"}
  BY Zenon DEF Init
<1> QED
  BY <1>1 DEF Beside, InEpoch

\* Both hold in every state of every run.
LEMMA CoreAlways == Spec => [](Core /\ Beside)
<1>1. Init => Core /\ Beside
  BY CoreInit, BesideInit
<1>2. Core /\ Beside /\ [Next]_vars => (Core /\ Beside)'
  BY CoreStep, BesideStep
<1> QED
  BY <1>1, <1>2, PTL DEF Spec

-----------------------------------------------------------------------------
(* The theorems about the core. *)

\* Every variable keeps its type; above all the entries that wait for credit
\* stay within the sampler's limit (record_pending), for every limit and budget.
THEOREM TypeCorrect == Spec => []TypeOK
<1>1. Core => TypeOK
  BY TypesTogether DEF Core
<1> QED
  BY <1>1, CoreAlways, PTL

\* The loop trains the steps of the run in their order and, over all resumes,
\* uses up its budget, however the epochs divide it.
THEOREM WholeBudget == Spec => []WholeBudgetTrained
<1>1. Core => WholeBudgetTrained
  <2> SUFFICES ASSUME Core PROVE WholeBudgetTrained
    OBVIOUS
  <2>1. ASSUME pc \in {"train", "update"}
        PROVE  \/ batch.step = AbsoluteStep
               \/ mode = "population" /\ batch.step = AbsoluteStep + 1
    <3>1. /\ batch.step = consumed_steps - 1 /\ Position = Base(epoch) + iteration
          /\ Position <= consumed_steps /\ consumed_steps <= Position + 1
          /\ mode # "population" => consumed_steps = Position
      BY <2>1 DEF Core, Paced, Position, InEpoch, Holding
    <3>2. AbsoluteStep = Base(epoch) + iteration - 1
      BY DEF AbsoluteStep, Base
    <3> QED
      BY <3>1, <3>2, CoreArith
  <2>2. ASSUME pc = "done" PROVE consumed_steps = TotalSteps
    <3>1. epoch > Epochs /\ Position <= consumed_steps
      BY <2>2 DEF Core, Paced
    <3>2. Position = Least(Base(epoch), TotalSteps)
      BY <2>2 DEF Position, InEpoch
    <3>3. ~(Base(epoch) < TotalSteps)
      BY <3>1, CoreArith, EpochsNat
    <3> QED
      BY <3>1, <3>2, <3>3, CoreArith DEF Least
  <2> QED
    BY <2>1, <2>2 DEF WholeBudgetTrained
<1> QED
  BY <1>1, CoreAlways, PTL

\* A slot of the routing bank that changes hands takes neither the moments nor
\* the recurrent state of its last context along, nor does a resume.
THEOREM ContextsOwned == Spec => []ContextOwnsItsState
<1>1. Core => ContextOwnsItsState
  BY DEF Core, AllOwned, Owned, Routing, ContextOwnsItsState
<1> QED
  BY <1>1, CoreAlways, PTL
\* A run begins where a resume from no checkpoint would put it.
LEMMA ContinuationInit == Init => ResumeIsContinuation
<1> SUFFICES ASSUME Init PROVE ResumeIsContinuation
  OBVIOUS
<1>1. /\ epoch = 1 /\ consumed_steps = 0 /\ absolute_step_offset = 0
      /\ stream_state = Nothing /\ accumulated = 0
      /\ checkpoint = [epoch |-> 0, offset |-> 0, stream_state |-> Nothing,
                       routing |-> Routing]
  BY Zenon DEF Init
<1>2. InitialSteps(0 * StepsPerEpoch) = 0
  BY FeedAssumption DEF InitialSteps, Least
<1> QED
  BY <1>1, <1>2 DEF ResumeIsContinuation

\* The checkpoint is what the run goes on with.
LEMMA ContinuationCheckpoint ==
    Core /\ Checkpoint => ResumeIsContinuation'
<1> SUFFICES ASSUME Core, Checkpoint, mode # "population"
             PROVE  ResumeIsContinuation'
  BY DEF ResumeIsContinuation, Checkpoint
<1>1. /\ pc = "boundary" /\ epoch' = epoch + 1
      /\ checkpoint' = [epoch |-> epoch,
                        offset |-> IF live THEN EpochEndStep ELSE 0,
                        stream_state |-> stream_state, routing |-> Routing]
      /\ IF live THEN ExportState(EpochEndStep) ELSE UNCHANGED samplerVars
      /\ UNCHANGED routingVars
      /\ UNCHANGED <<consumed_steps, accumulated, stream_state>>
  BY DEF Checkpoint
<1>2. /\ consumed_steps = Position /\ accumulated = 0
      /\ ~live => absolute_step_offset = 0
  BY <1>1 DEF Core, Paced
<1>3. consumed_steps = InitialSteps(epoch * StepsPerEpoch)
  <2>1. Position = Least(Base(epoch + 1), TotalSteps)
    BY <1>1 DEF Position, InEpoch
  <2>2. epoch * StepsPerEpoch = Base(epoch + 1)
    BY CoreArith, BaseOf
  <2> QED
    BY <1>2, <2>1, <2>2 DEF InitialSteps
<1>4. absolute_step_offset' = checkpoint'.offset
  <2>1. CASE live
    BY <1>1, <2>1 DEF ExportState
  <2>2. CASE ~live
    BY <1>1, <1>2, <2>2 DEF samplerVars
  <2> QED
    BY <2>1, <2>2
<1>5. Routing' = Routing
  BY <1>1 DEF Routing, routingVars
<1> QED
  BY <1>1, <1>2, <1>3, <1>4, <1>5 DEF ResumeIsContinuation

\* A resume is what the checkpoint holds.
LEMMA ContinuationResume == Core /\ Resume => ResumeIsContinuation'
<1> SUFFICES ASSUME Core, Resume PROVE ResumeIsContinuation'
  OBVIOUS
<1>1. /\ consumed_steps' = InitialSteps(checkpoint.epoch * StepsPerEpoch)
      /\ absolute_step_offset' = checkpoint.offset
      /\ stream_state' = checkpoint.stream_state
      /\ RestoreRouting(checkpoint.routing)
      /\ epoch' = checkpoint.epoch + 1 /\ accumulated' = 0
      /\ checkpoint' = checkpoint
  BY DEF Resume
<1>2. checkpoint.routing \in RoutingRecords
  BY DEF Core, CheckpointTypes
<1>3. Routing' = checkpoint.routing
  BY <1>1, <1>2 DEF RestoreRouting, RoutingRecords, Routing
<1> QED
  BY <1>1, <1>3 DEF ResumeIsContinuation

\* No other step comes to the boundary of two epochs.
LEMMA ContinuationStep ==
    Core /\ ResumeIsContinuation /\ [Next]_vars => ResumeIsContinuation'
<1> SUFFICES ASSUME Core, ResumeIsContinuation, [Next]_vars
             PROVE  ResumeIsContinuation'
  OBVIOUS
<1>1. CASE Autotune
  <2>1. mode' = "population"
    BY <1>1 DEF Autotune, Core, Paced
  <2> QED
    BY <2>1 DEF ResumeIsContinuation
<1>2. CASE OpenEpoch \/ Finish \/ Fetch \/ FetchPolicy \/ TrainPlain
           \/ TrainRouted \/ TrainPopulation \/ Update \/ EpochEnd
  <2>1. pc' # "epoch"
    BY <1>2
       DEF OpenEpoch, Finish, Fetch, FetchPolicy, TrainPlain, TrainRouted,
           TrainPopulation, Update, EpochEnd
  <2> QED
    BY <2>1 DEF ResumeIsContinuation
<1>3. CASE Checkpoint
  BY <1>3, ContinuationCheckpoint
<1>4. CASE Resume
  BY <1>4, ContinuationResume
<1>5. CASE EventThread \/ UNCHANGED vars
  <2>1. /\ UNCHANGED <<pc, mode, epoch, consumed_steps, absolute_step_offset,
                       stream_state, accumulated, checkpoint>>
        /\ UNCHANGED routingVars
    BY <1>5 DEF EventThread, vars, feedVars, samplerVars, countVars
  <2>2. Routing' = Routing
    BY <2>1 DEF Routing, routingVars
  <2> QED
    BY <2>1, <2>2 DEF ResumeIsContinuation
<1> QED
  BY <1>1, <1>2, <1>3, <1>4, <1>5 DEF Next, Trainer

\* A run that goes on and one that resumes from the checkpoint it has just
\* written agree in the loader's place, the sampler's offset (export_state), the
\* recurrent states and the contexts, for every length of epoch and budget.
THEOREM ResumeContinues == Spec => []ResumeIsContinuation
<1> QED
  BY ContinuationInit, ContinuationStep, CoreAlways, PTL DEF Spec
-----------------------------------------------------------------------------
(* Which losses wait for credit. *)

Posts == {posted[i] : i \in DOMAIN posted}

EnteredBefore == \A s \in DOMAIN pending : s < consumed_steps

\* A sample is posted when its step is done.
PostedBefore ==
    \A p \in Posts : p + (IF Holding THEN 1 ELSE 0) < Position

\* The trainer has credited the step it is about to post.
Settled == pc = "update" /\ CreditDue => ~Creditable(AbsoluteStep)

\* The step in hand has its entry as soon as it is drawn, and until its policy
\* batch is drawn it is the entry of its own bucket.
InHand ==
    mode # "population" /\ feedback /\ Untrained =>
        /\ Creditable(AbsoluteStep)
        /\ \/ pending[AbsoluteStep] = batch.document.bucket
           \/ pc = "train" /\ sidecars /\ batch.reset /\ disturbed

Ledger ==
    /\ EnteredBefore /\ PostedBefore /\ Settled
    /\ InHand /\ CreditedOnce

\* CreditedOnce by values in place of indices.
LEMMA OnceByPosts ==
    CreditedOnce <=> (~sidecars => \A p \in Posts : ~Creditable(p))
BY DEF CreditedOnce, Posts

\* Posted steps are numbers.
LEMMA PostsTyped ==
    ASSUME LoopTypes
    PROVE  \A p \in Posts : p \in Int
BY FeedAssumption DEF LoopTypes, Posts

\* What is posted after one more sample.
LEMMA PostsAppend ==
    ASSUME LoopTypes, NEW e \in 0 .. TotalSteps - 1,
           posted' = Append(posted, e)
    PROVE  \A p \in Posts' : p \in Posts \/ p = e
<1>1. posted \in Seq(0 .. TotalSteps - 1)
  BY DEF LoopTypes
<1>2. /\ Len(posted') = Len(posted) + 1
      /\ posted' \in Seq(0 .. TotalSteps - 1)
      /\ \A i \in 1 .. Len(posted) : posted'[i] = posted[i]
      /\ posted'[Len(posted) + 1] = e
  BY <1>1, AppendType
<1>3. DOMAIN posted = 1 .. Len(posted) /\ DOMAIN posted' = 1 .. Len(posted')
      /\ Len(posted) \in Nat
  BY <1>1, <1>2
<1> SUFFICES ASSUME NEW i \in DOMAIN posted'
             PROVE  posted'[i] \in Posts \/ posted'[i] = e
  BY DEF Posts
<1>4. CASE i \in DOMAIN posted
  BY <1>2, <1>3, <1>4 DEF Posts
<1>5. CASE i \notin DOMAIN posted
  <2>1. i = Len(posted) + 1
    BY <1>2, <1>3, <1>5
  <2> QED
    BY <1>2, <2>1
<1> QED
  BY <1>4, <1>5

\* What is posted after the event thread has read one.
LEMMA PostsTail ==
    ASSUME LoopTypes, posted # << >>, posted' = Tail(posted)
    PROVE  Posts' \subseteq Posts /\ Head(posted) \in Posts
<1>1. posted \in Seq(0 .. TotalSteps - 1)
  BY DEF LoopTypes
<1>2. /\ Head(posted) = posted[1] /\ 1 \in DOMAIN posted
      /\ \A i \in DOMAIN posted' : i + 1 \in DOMAIN posted
                                   /\ posted'[i] = posted[i + 1]
  BY <1>1, HeadTailType
<1> QED
  BY <1>2 DEF Posts

\* A new process has entered and posted nothing.
LEMMA LedgerInit == Init => Ledger
<1> SUFFICES ASSUME Init PROVE Ledger
  OBVIOUS
<1>1. pending = NoPending /\ posted = << >> /\ pc \in {"start", "epoch"}
  BY Zenon DEF Init
<1>2. DOMAIN pending = {} /\ Posts = {}
  BY <1>1 DEF NoPending, Posts
<1> QED
  BY <1>1, <1>2, OnceByPosts
     DEF Ledger, EnteredBefore, PostedBefore, Settled, InHand, Untrained

\* The position of the next state is a number.
LEMMA PositionNat == (Core => Position \in Nat)'
<1>1. Core => Position \in Nat
  BY CoreArith
<1> QED
  BY <1>1, PTL

\* Steps that touch neither entries nor samples, outside training.
LEMMA LedgerAside ==
    ASSUME Core, Core', Ledger,
           UNCHANGED <<configVars, consumed_steps, pending, posted>>,
           Position' >= Position,
           ~Holding, pc' \notin {"policy", "train", "update"}
    PROVE  Ledger'
<1>1. Posts' = Posts
  BY DEF Posts
<1>2. \A p \in Posts : p \in Int /\ p < Position
  BY PostsTyped DEF Core, Ledger, PostedBefore, Holding
<1>3. PostedBefore'
  <2>1. Position \in Nat /\ Position' \in Nat
    BY CoreArith, PositionNat
  <2> QED
    BY <1>1, <1>2, <2>1 DEF PostedBefore, Holding
<1>4. CreditedOnce'
  BY DEF Ledger, CreditedOnce, Creditable, configVars
<1> QED
  BY <1>3, <1>4
     DEF Ledger, EnteredBefore, Settled, InHand, Untrained, configVars

\* Opening, ending and saving an epoch enter and post nothing.
LEMMA LedgerQuiet ==
    ASSUME Core, Core', Ledger, OpenEpoch \/ Finish \/ EpochEnd \/ Checkpoint
    PROVE  Ledger'
<1>1. UNCHANGED <<configVars, consumed_steps, pending, posted>>
  <2>1. CASE OpenEpoch
    BY <2>1 DEF OpenEpoch, Iter, samplerVars
  <2>2. CASE Finish
    BY <2>2 DEF Finish, feedVars, samplerVars
  <2>3. CASE EpochEnd
    BY <2>3 DEF EpochEnd
  <2>4. CASE Checkpoint
    BY <2>4 DEF Checkpoint, ExportState, samplerVars
  <2> QED
    BY <2>1, <2>2, <2>3, <2>4
<1>2. Position' >= Position
  <2>1. CASE OpenEpoch
    <3>1. /\ pc = "epoch" /\ pc' = "fetch" /\ epoch <= Epochs
          /\ epoch' = epoch /\ iteration' = 0
      BY <2>1 DEF OpenEpoch
    <3>2. Position = Base(epoch)
      BY <3>1, CoreArith DEF Position, InEpoch, Least
    <3>3. Position' = Base(epoch)
      BY <3>1, CoreArith DEF Position, InEpoch
    <3> QED
      BY <3>2, <3>3, CoreArith
  <2>2. CASE Finish
    <3>1. Position' = Position
      BY <2>2 DEF Finish, Position, InEpoch
    <3> QED
      BY <3>1, CoreArith
  <2>3. CASE EpochEnd
    <3>1. /\ pc = "fetch" /\ pc' = "boundary" /\ epoch' = epoch
          /\ step >= steps_total
      BY <2>3 DEF EpochEnd
    <3>2. Position' = Least(Base(epoch + 1), TotalSteps)
      BY <3>1 DEF Position, InEpoch
    <3> QED
      BY <3>1, <3>2, EpochEndReach, CoreArith DEF Least
  <2>4. CASE Checkpoint
    <3>1. pc = "boundary" /\ pc' = "epoch" /\ epoch' = epoch + 1
      BY <2>4 DEF Checkpoint
    <3>2. Position' = Position
      BY <3>1 DEF Position, InEpoch
    <3> QED
      BY <3>2, CoreArith
  <2> QED
    BY <2>1, <2>2, <2>3, <2>4
<1>3. ~Holding /\ pc' \notin {"policy", "train", "update"}
  BY DEF OpenEpoch, Finish, EpochEnd, Checkpoint, Holding
<1> QED
  BY <1>1, <1>2, <1>3, LedgerAside
\* The probe enters the step it takes, which nobody has posted.
LEMMA LedgerAutotune == Core /\ Core' /\ Ledger /\ Autotune => Ledger'
<1> SUFFICES ASSUME Core, Core', Ledger, Autotune PROVE Ledger'
  OBVIOUS
<1>1. /\ pc = "start" /\ pc' = "epoch" /\ epoch' = epoch /\ posted' = posted
      /\ mode = "population" /\ mode' = mode
  BY DEF Autotune, Core, Paced
<1>2. Posts' = Posts /\ Position' = Position
  BY <1>1 DEF Posts, Position, InEpoch
<1>3. \A p \in Posts : p \in Int /\ p < Position
  BY <1>1, PostsTyped DEF Core, Ledger, PostedBefore, Holding
<1>4. Position \in Nat /\ consumed_steps \in Nat /\ Position <= consumed_steps
  BY CoreArith DEF Core, Paced
<1> DEFINE Grown ==
             /\ consumed_steps' \in Nat /\ consumed_steps' >= consumed_steps
             /\ feedback' = feedback /\ sidecars' = sidecars
             /\ \A s \in DOMAIN pending' :
                    \/ s \in DOMAIN pending
                    \/ s = consumed_steps /\ consumed_steps' > consumed_steps
<1>5. Grown
  <2>1. CASE UNCHANGED feedVars
    BY <1>4, <2>1 DEF feedVars, configVars, samplerVars
  <2>2. ASSUME NEW bucket \in Buckets \cup {Nothing}, TakeOne(bucket)
        PROVE  Grown
    <3>1. /\ consumed_steps' = consumed_steps + 1
          /\ pending' = IF live /\ feedback
                        THEN RecordPending(pending, consumed_steps, bucket)
                        ELSE pending
          /\ UNCHANGED configVars
      BY <2>2 DEF TakeOne, Entered
    <3>2. DOMAIN RecordPending(pending, consumed_steps, bucket)
              \subseteq DOMAIN pending \cup {consumed_steps}
      BY DEF RecordPending, Newest
    <3>3. consumed_steps' \in Nat /\ consumed_steps' > consumed_steps
      BY <1>4, <3>1
    <3>4. \A s \in DOMAIN pending' : s \in DOMAIN pending \/ s = consumed_steps
      BY <3>1, <3>2
    <3> QED
      BY <1>4, <3>1, <3>3, <3>4 DEF configVars
  <2> QED
    BY <2>1, <2>2 DEF Autotune
<1>6. EnteredBefore'
  <2>1. \A s \in DOMAIN pending : s \in Int /\ s < consumed_steps
    BY FeedAssumption DEF Core, PendingTypes, Ledger, EnteredBefore
  <2> QED
    BY <1>4, <1>5, <2>1 DEF EnteredBefore
<1>7. PostedBefore'
  BY <1>1, <1>2, <1>3 DEF PostedBefore, Holding
<1>8. CreditedOnce'
  <2>1. \A p \in Posts : p # consumed_steps
    BY <1>3, <1>4
  <2>2. \A p \in Posts : p \in DOMAIN pending' => p \in DOMAIN pending
    BY <1>5, <2>1
  <2>3. ~sidecars' => \A p \in Posts' : ~Creditable(p)'
    BY <1>2, <1>5, <2>2, OnceByPosts DEF Ledger, Creditable
  <2> QED
    BY <1>2, <2>3 DEF CreditedOnce, Creditable, Posts
<1> QED
  BY <1>1, <1>6, <1>7, <1>8 DEF Ledger, Settled, InHand, Untrained

\* A batch that is handed out is entered for its own step, which is later than
\* any that was posted.
LEMMA LedgerFetch == Core /\ Core' /\ Ledger /\ Fetch => Ledger'
<1> SUFFICES ASSUME Core, Core', Ledger, Fetch PROVE Ledger'
  OBVIOUS
<1>0. PICK bucket \in Buckets \cup {Nothing} : NextBatch(bucket)
  BY DEF Fetch
<1>1. /\ pc = "fetch" /\ pc' \in {"policy", "train"} /\ iteration' = iteration + 1
      /\ UNCHANGED <<mode, epoch, posted>>
  BY DEF Fetch
<1>2. /\ bucket \in Draws(epoch_index, SelectionStep)
      /\ consumed_steps' = consumed_steps + 1
      /\ batch' = [step |-> consumed_steps, document |-> Document(bucket),
                   chunk |-> chunk_index_in_document,
                   reset |-> chunk_index_in_document = 0]
      /\ pending' = Entered(consumed_steps, bucket)
      /\ UNCHANGED configVars
  BY <1>0 DEF NextBatch
<1>3. /\ Position = Base(epoch) + iteration /\ Position <= consumed_steps
      /\ mode # "population" => consumed_steps = Position
      /\ Position' = Position + 1
      /\ feedback => live
  <2>1. /\ Position = Base(epoch) + iteration /\ Position <= consumed_steps
        /\ mode # "population" => consumed_steps = Position
        /\ feedback => live
    BY <1>1 DEF Core, Paced, Position, InEpoch
  <2>2. Position' = Base(epoch) + (iteration + 1)
    BY <1>1 DEF Position, InEpoch
  <2> QED
    BY <2>1, <2>2, CoreArith
<1>4. /\ Position \in Nat /\ consumed_steps \in Nat
      /\ SelectionStep \in Nat /\ SelectionStep <= consumed_steps
  BY CoreArith, SelectionStepType DEF Core
<1>5. \A s \in DOMAIN pending : s \in Nat /\ s < consumed_steps
  BY FeedAssumption DEF Core, PendingTypes, Ledger, EnteredBefore
<1>6. \A p \in Posts : p \in Int /\ p < Position
  BY <1>1, PostsTyped DEF Core, Ledger, PostedBefore, Holding
<1>7. Posts' = Posts
  BY <1>1 DEF Posts
<1> DEFINE own == RecordPending(pending, consumed_steps, bucket)
<1>8. DOMAIN own \subseteq DOMAIN pending \cup {consumed_steps}
  BY DEF RecordPending, Newest
<1>9. pending' = IF feedback THEN own ELSE pending
  BY <1>2, <1>3 DEF Entered
<1>10. feedback => bucket \in Buckets
  BY <1>2, <1>3, DrawsBuckets
<1> HIDE DEF own
<1>11. EnteredBefore'
  <2>1. \A s \in DOMAIN pending' : s \in Nat /\ s <= consumed_steps
    BY <1>4, <1>5, <1>8, <1>9
  <2> QED
    BY <1>2, <1>4, <2>1 DEF EnteredBefore
<1>12. PostedBefore'
  BY <1>1, <1>3, <1>4, <1>6, <1>7 DEF PostedBefore, Holding
<1>13. CreditedOnce'
  <2>1. \A p \in Posts : p # consumed_steps
    BY <1>3, <1>4, <1>6
  <2>2. \A p \in Posts : p \in DOMAIN pending' => p \in DOMAIN pending
    BY <1>8, <1>9, <2>1
  <2>3. ~sidecars' => \A p \in Posts : ~(feedback' /\ p \in DOMAIN pending')
    BY <1>2, <2>2, OnceByPosts DEF Ledger, Creditable, configVars
  <2> QED
    BY <1>1, <2>3 DEF CreditedOnce, Creditable, Posts
<1>14. InHand'
  <2> SUFFICES ASSUME mode # "population", feedback
               PROVE  /\ consumed_steps \in DOMAIN pending'
                      /\ pending'[consumed_steps] = bucket
    <3>1. AbsoluteStep' = Base(epoch) + (iteration + 1) - 1
      BY <1>1 DEF AbsoluteStep, Base
    <3>2. mode # "population" => AbsoluteStep' = consumed_steps
      BY <1>3, <3>1, CoreArith
    <3>3. batch'.document.bucket = bucket
      BY <1>2 DEF Document
    <3> QED
      BY <1>1, <1>2, <3>2, <3>3 DEF InHand, Creditable, configVars
  <2>1. bucket \in Buckets /\ consumed_steps \in 0 .. consumed_steps
        /\ DOMAIN pending \subseteq 0 .. consumed_steps
        /\ \A s \in DOMAIN pending : pending[s] \in Buckets
    BY <1>4, <1>5, <1>10 DEF Core, PendingTypes
  <2>2. /\ \A s \in DOMAIN own :
               own[s] = IF s = consumed_steps THEN bucket ELSE pending[s]
        /\ \A m \in DOMAIN pending \cup {consumed_steps} :
               (\A s \in DOMAIN pending \cup {consumed_steps} : s <= m)
                   => m \in DOMAIN own
    BY <1>4, <2>1, RecordPendingIs DEF own
  <2>3. \A s \in DOMAIN pending \cup {consumed_steps} : s <= consumed_steps
    BY <1>4, <1>5
  <2>4. consumed_steps \in DOMAIN own /\ own[consumed_steps] = bucket
    BY <2>2, <2>3
  <2> QED
    BY <1>9, <2>4
<1> QED
  BY <1>1, <1>11, <1>12, <1>13, <1>14 DEF Ledger, Settled

\* A policy batch enters a step that is not later than the one in hand, and
\* the same bucket if it is the one in hand and the weights have not moved.
LEMMA LedgerFetchPolicy ==
    Core /\ Beside /\ Ledger /\ FetchPolicy => Ledger'
<1> SUFFICES ASSUME Core, Beside, Ledger, FetchPolicy PROVE Ledger'
  OBVIOUS
<1>0. PICK bucket \in Buckets : PolicyBatch(bucket)
  BY DEF FetchPolicy
<1> DEFINE at == batch.document.at
           n == batch.step
<1>1. /\ pc = "policy" /\ pc' = "train" /\ disturbed' = disturbed
      /\ UNCHANGED <<mode, epoch, iteration, posted>>
  BY DEF FetchPolicy
<1>2. /\ bucket \in Draws(batch.document.epoch, at)
      /\ pending' = Entered(at, bucket)
      /\ UNCHANGED <<configVars, consumed_steps, batch>>
  BY <1>0 DEF PolicyBatch
<1>3. /\ Posts' = Posts /\ Position' = Position /\ AbsoluteStep' = AbsoluteStep
  BY <1>1 DEF Posts, Position, InEpoch, AbsoluteStep
<1>4. /\ sidecars /\ live /\ at <= batch.step
      /\ at = batch.step => batch.reset
      /\ ~disturbed => drawn = Drawn(batch.document.bucket,
                                    batch.document.epoch, at)
  BY <1>1 DEF Beside
<1>5. /\ batch.step = consumed_steps - 1 /\ consumed_steps \in Nat
      /\ batch.step \in Nat /\ at \in Nat
      /\ mode # "population" => AbsoluteStep = batch.step
  <2>1. /\ batch \in Batches /\ batch.step = consumed_steps - 1
        /\ mode # "population" => consumed_steps = Position
    BY <1>1 DEF Core, Paced, Holding
  <2>2. Position = Base(epoch) + iteration
    BY <1>1 DEF Position, InEpoch
  <2>3. AbsoluteStep = Base(epoch) + iteration - 1
    BY DEF AbsoluteStep, Base
  <2>4. batch.step \in Nat /\ at \in Nat
    BY <2>1 DEF Batches, Documents
  <2> QED
    BY <2>1, <2>2, <2>3, <2>4, CoreArith
<1>6. \A s \in DOMAIN pending : s \in Nat /\ s <= batch.step
  <2>1. \A s \in DOMAIN pending : s \in Nat /\ s < consumed_steps
    BY FeedAssumption DEF Core, PendingTypes, Ledger, EnteredBefore
  <2> QED
    BY <1>5, <2>1
<1> DEFINE new == RecordPending(pending, at, bucket)
<1>7. DOMAIN new \subseteq DOMAIN pending \cup {at}
  BY DEF RecordPending, Newest
<1>8. pending' = IF feedback THEN new ELSE pending
  BY <1>2, <1>4 DEF Entered
<1> HIDE DEF new, at
<1>9. EnteredBefore'
  <2>1. \A s \in DOMAIN pending' : s \in Nat /\ s <= batch.step
    BY <1>4, <1>5, <1>6, <1>7, <1>8
  <2>2. \A s \in DOMAIN pending' : s < consumed_steps
    BY <1>5, <2>1
  <2> QED
    BY <1>2, <2>2 DEF EnteredBefore
<1>10. PostedBefore'
  BY <1>1, <1>3 DEF Ledger, PostedBefore, Holding
<1>11. CreditedOnce'
  BY <1>2, <1>4 DEF CreditedOnce, configVars
<1>12. InHand'
  <2> SUFFICES ASSUME mode # "population", feedback
               PROVE  /\ batch.step \in DOMAIN new
                      /\ \/ new[batch.step] = batch.document.bucket
                         \/ batch.reset /\ disturbed
    BY <1>1, <1>2, <1>3, <1>4, <1>5, <1>8 DEF InHand, Creditable, configVars
  <2>1. /\ batch.step \in DOMAIN pending
        /\ pending[batch.step] = batch.document.bucket
    BY <1>1, <1>5 DEF Ledger, InHand, Untrained, Creditable
  <2>2. /\ at \in 0 .. batch.step /\ DOMAIN pending \subseteq 0 .. batch.step
        /\ \A s \in DOMAIN pending : pending[s] \in Buckets
    BY <1>4, <1>5, <1>6 DEF Core, PendingTypes
  <2>3. /\ \A s \in DOMAIN new : new[s] = IF s = at THEN bucket ELSE pending[s]
        /\ \A m \in DOMAIN pending \cup {at} :
               (\A s \in DOMAIN pending \cup {at} : s <= m) => m \in DOMAIN new
    <3>1. n \in Nat /\ at \in 0 .. n /\ DOMAIN pending \subseteq 0 .. n
      BY <1>5, <2>2
    <3> HIDE DEF n
    <3> QED
      BY <2>2, <3>1, RecordPendingIs DEF new
  <2>4. \A s \in DOMAIN pending \cup {at} : s <= batch.step
    BY <1>4, <1>6
  <2>5. batch.step \in DOMAIN new
    BY <2>1, <2>3, <2>4
  <2>6. CASE at # batch.step
    BY <2>1, <2>3, <2>5, <2>6
  <2>7. CASE at = batch.step /\ disturbed
    BY <1>4, <2>5, <2>7
  <2>8. CASE at = batch.step /\ ~disturbed
    <3>1. drawn = Drawn(batch.document.bucket, batch.document.epoch, at)
      BY <1>4, <2>8
    <3>2. drawn # Nothing
      <4>1. drawn \in Draw
        <5>1. batch.document \in Documents /\ batch.document.bucket \in Buckets
          BY <1>1, <2>1, <2>2 DEF Core, Paced, Holding, Batches
        <5> QED
          BY <1>5, <3>1, <5>1 DEF Drawn, Draw, Documents
      <4> QED
        BY <4>1, FeedAssumption DEF Draw
    <3>3. /\ drawn.epoch = batch.document.epoch /\ drawn.at = at
          /\ drawn.bucket = batch.document.bucket
      BY <3>1 DEF Drawn
    <3>4. MayDraw(bucket, batch.document.epoch, at)
      BY <1>2, <1>4 DEF Draws
    <3>5. bucket = batch.document.bucket
      BY <3>2, <3>3, <3>4 DEF MayDraw
    <3> QED
      BY <2>3, <2>5, <2>8, <3>5
  <2> QED
    BY <2>5, <2>6, <2>7, <2>8
<1> QED
  BY <1>1, <1>9, <1>10, <1>11, <1>12 DEF Ledger, Settled

\* The trainer credits the step in hand, if one is due, and no other.
LEMMA LedgerTrain ==
    Core /\ Core' /\ Ledger /\ (TrainPlain \/ TrainRouted) => Ledger'
<1> SUFFICES ASSUME Core, Core', Ledger, TrainPlain \/ TrainRouted PROVE Ledger'
  OBVIOUS
<1>1. /\ pc = "train" /\ pc' = "update" /\ Credit
      /\ UNCHANGED <<mode, epoch, iteration, posted, consumed_steps>>
      /\ UNCHANGED configVars
  BY DEF TrainPlain, TrainRouted
<1>2. Posts' = Posts /\ Position' = Position /\ AbsoluteStep' = AbsoluteStep
      /\ CreditDue' = CreditDue
  BY <1>1 DEF Posts, Position, InEpoch, AbsoluteStep, CreditDue, configVars
<1>3. DOMAIN pending' \subseteq DOMAIN pending
  BY <1>1, CreditTypes DEF Core
<1>4. EnteredBefore'
  BY <1>1, <1>3 DEF Ledger, EnteredBefore
<1>5. PostedBefore'
  BY <1>1, <1>2 DEF Ledger, PostedBefore, Holding
<1>6. CreditedOnce'
  BY <1>1, <1>3 DEF Ledger, CreditedOnce, Creditable, configVars
<1>7. Settled'
  <2>1. CreditDue => ~(feedback /\ AbsoluteStep \in DOMAIN pending')
    BY <1>1 DEF Credit, RecordLoss, Creditable
  <2> QED
    BY <1>1, <1>2, <2>1 DEF Settled, Creditable, configVars
<1> QED
  BY <1>1, <1>4, <1>5, <1>6, <1>7 DEF Ledger, InHand, Untrained

\* The population loop credits and posts in one step.
LEMMA LedgerPopulation ==
    Core /\ Core' /\ Ledger /\ TrainPopulation => Ledger'
<1> SUFFICES ASSUME Core, Core', Ledger, TrainPopulation PROVE Ledger'
  OBVIOUS
<1>1. /\ pc = "train" /\ pc' = "fetch"
      /\ UNCHANGED <<mode, epoch, iteration, consumed_steps>>
      /\ UNCHANGED configVars
  BY DEF TrainPopulation
<1>2. Position' = Position /\ AbsoluteStep < Position
      /\ AbsoluteStep \in 0 .. TotalSteps - 1 /\ Position \in Nat
  <2>1. AbsoluteStep = Position - 1 /\ AbsoluteStep \in 0 .. TotalSteps - 1
    BY <1>1, AbsoluteStepType DEF Holding
  <2>2. Position' = Position
    BY <1>1 DEF Position, InEpoch
  <2> QED
    BY <2>1, <2>2, CoreArith
<1>3. \A p \in Posts : p \in Int /\ p < Position
  <2>1. \A p \in Posts : p \in Int /\ p + 1 < Position
    BY <1>1, PostsTyped DEF Core, Ledger, PostedBefore, Holding
  <2> QED
    BY <1>2, <2>1
<1>4. /\ DOMAIN pending' \subseteq DOMAIN pending
      /\ \A p \in Posts' :
             \/ p \in Posts
             \/ p = AbsoluteStep /\ (feedback => p \notin DOMAIN pending')
  <2>1. CASE UNCHANGED <<pending, drawn, disturbed, posted>>
    BY <2>1 DEF Posts
  <2>2. CASE /\ Credit
             /\ IF CreditDue
                THEN /\ Len(posted) < MaxPosted
                     /\ posted' = Append(posted, AbsoluteStep)
                ELSE UNCHANGED posted
    <3>1. DOMAIN pending' \subseteq DOMAIN pending
      BY <2>2, CreditTypes DEF Core
    <3>2. CASE CreditDue
      <4>1. feedback => AbsoluteStep \notin DOMAIN pending'
        BY <2>2, <3>2 DEF Credit, RecordLoss, Creditable
      <4>2. \A p \in Posts' : p \in Posts \/ p = AbsoluteStep
        BY <1>2, <2>2, <3>2, PostsAppend DEF Core
      <4> QED
        BY <3>1, <4>1, <4>2
    <3>3. CASE ~CreditDue
      BY <2>2, <3>1, <3>3 DEF Posts
    <3> QED
      BY <3>2, <3>3
  <2> QED
    BY <2>1, <2>2 DEF TrainPopulation
<1>5. EnteredBefore'
  BY <1>1, <1>4 DEF Ledger, EnteredBefore
<1>6. PostedBefore'
  <2>1. \A p \in Posts' : p \in Int /\ p < Position
    BY <1>2, <1>3, <1>4
  <2> QED
    BY <1>1, <1>2, <2>1 DEF PostedBefore, Holding
<1>7. CreditedOnce'
  <2>1. ~sidecars => \A p \in Posts : ~(feedback /\ p \in DOMAIN pending)
    BY OnceByPosts DEF Ledger, Creditable
  <2>2. ~sidecars' => \A p \in Posts' : ~(feedback' /\ p \in DOMAIN pending')
    BY <1>1, <1>4, <2>1 DEF configVars
  <2> QED
    BY <2>2 DEF CreditedOnce, Creditable, Posts
<1> QED
  BY <1>1, <1>5, <1>6, <1>7 DEF Ledger, Settled, InHand, Untrained

\* A step is posted after it was credited, so that the sample has no entry.
LEMMA LedgerUpdate == Core /\ Core' /\ Ledger /\ Update => Ledger'
<1> SUFFICES ASSUME Core, Core', Ledger, Update PROVE Ledger'
  OBVIOUS
<1>1. /\ pc = "update" /\ pc' = "fetch"
      /\ UNCHANGED <<mode, epoch, iteration, consumed_steps, pending>>
      /\ UNCHANGED configVars
      /\ IF CreditDue /\ Logged
         THEN /\ Len(posted) < MaxPosted
              /\ posted' = Append(posted, AbsoluteStep)
         ELSE UNCHANGED posted
  BY DEF Update
<1>2. Position' = Position /\ AbsoluteStep < Position
      /\ AbsoluteStep \in 0 .. TotalSteps - 1 /\ Position \in Nat
  <2>1. AbsoluteStep = Position - 1 /\ AbsoluteStep \in 0 .. TotalSteps - 1
    BY <1>1, AbsoluteStepType DEF Holding
  <2>2. Position' = Position
    BY <1>1 DEF Position, InEpoch
  <2> QED
    BY <2>1, <2>2, CoreArith
<1>3. \A p \in Posts : p \in Int /\ p < Position
  <2>1. \A p \in Posts : p \in Int /\ p + 1 < Position
    BY <1>1, PostsTyped DEF Core, Ledger, PostedBefore, Holding
  <2> QED
    BY <1>2, <2>1
<1>4. \A p \in Posts' : p \in Posts \/ (p = AbsoluteStep /\ CreditDue)
  <2>1. CASE CreditDue /\ Logged
    BY <1>1, <1>2, <2>1, PostsAppend DEF Core
  <2>2. CASE ~(CreditDue /\ Logged)
    BY <1>1, <2>2 DEF Posts
  <2> QED
    BY <2>1, <2>2
<1>5. PostedBefore'
  <2>1. \A p \in Posts' : p \in Int /\ p < Position
    BY <1>2, <1>3, <1>4
  <2> QED
    BY <1>1, <1>2, <2>1 DEF PostedBefore, Holding
<1>6. CreditedOnce'
  <2>1. ~sidecars => \A p \in Posts : ~Creditable(p)
    BY OnceByPosts DEF Ledger
  <2>2. CreditDue => ~Creditable(AbsoluteStep)
    BY <1>1 DEF Ledger, Settled
  <2>3. ~sidecars' => \A p \in Posts' : ~(feedback' /\ p \in DOMAIN pending')
    BY <1>1, <1>4, <2>1, <2>2 DEF configVars, Creditable
  <2> QED
    BY <2>3 DEF CreditedOnce, Creditable, Posts
<1>7. EnteredBefore'
  BY <1>1 DEF Ledger, EnteredBefore
<1> QED
  BY <1>1, <1>5, <1>6, <1>7 DEF Ledger, Settled, InHand, Untrained

\* The event thread is behind: what it credits is never the step in hand.
LEMMA LedgerEventThread == Core /\ Core' /\ Ledger /\ EventThread => Ledger'
<1> SUFFICES ASSUME Core, Core', Ledger, EventThread PROVE Ledger'
  OBVIOUS
<1>1. /\ posted # << >> /\ RecordLoss(Head(posted)) /\ posted' = Tail(posted)
      /\ UNCHANGED <<mode, pc, epoch, iteration, consumed_steps, batch>>
      /\ disturbed => disturbed'
      /\ UNCHANGED configVars
  BY DEF EventThread, countVars
<1>2. /\ Position' = Position /\ AbsoluteStep' = AbsoluteStep
      /\ CreditDue' = CreditDue
  BY <1>1 DEF Position, InEpoch, AbsoluteStep, CreditDue, configVars
<1>3. Posts' \subseteq Posts /\ Head(posted) \in Posts
  BY <1>1, PostsTail DEF Core
<1>4. /\ DOMAIN pending' \subseteq DOMAIN pending
      /\ \A s \in DOMAIN pending' : pending'[s] = pending[s]
  BY <1>1, RecordLossTypes DEF Core
<1>5. \A s \in DOMAIN pending : s # Head(posted) => s \in DOMAIN pending'
  BY <1>1 DEF RecordLoss
<1>6. EnteredBefore'
  BY <1>1, <1>4 DEF Ledger, EnteredBefore
<1>7. PostedBefore'
  BY <1>1, <1>2, <1>3 DEF Ledger, PostedBefore, Holding
<1>8. CreditedOnce'
  <2>1. ~sidecars => \A p \in Posts : ~(feedback /\ p \in DOMAIN pending)
    BY OnceByPosts DEF Ledger, Creditable
  <2>2. ~sidecars' => \A p \in Posts' : ~(feedback' /\ p \in DOMAIN pending')
    BY <1>1, <1>3, <1>4, <2>1 DEF configVars
  <2> QED
    BY <2>2 DEF CreditedOnce, Creditable, Posts
<1>9. Settled'
  BY <1>1, <1>2, <1>4 DEF Ledger, Settled, Creditable, configVars
<1>10. InHand'
  <2> DEFINE Moved == pc = "train" /\ sidecars /\ batch.reset /\ disturbed
  <2> SUFFICES ASSUME mode # "population", feedback, Untrained
               PROVE  /\ AbsoluteStep \in DOMAIN pending'
                      /\ \/ pending'[AbsoluteStep] = batch.document.bucket
                         \/ Moved
    BY <1>1, <1>2 DEF InHand, Untrained, Creditable, configVars
  <2>1. /\ AbsoluteStep \in DOMAIN pending
        /\ pending[AbsoluteStep] = batch.document.bucket \/ Moved
    BY DEF Ledger, InHand, Creditable
  <2> HIDE DEF Moved
  <2>2. Head(posted) # AbsoluteStep
    <3>1. Head(posted) \in Int /\ Head(posted) + 1 < Position
      BY <1>3, PostsTyped DEF Core, Ledger, PostedBefore, Holding, Untrained
    <3>2. AbsoluteStep = Position - 1
      BY AbsoluteStepType DEF Holding, Untrained
    <3> QED
      BY <3>1, <3>2, CoreArith
  <2> QED
    BY <1>4, <1>5, <2>1, <2>2
<1> QED
  BY <1>6, <1>7, <1>8, <1>9, <1>10 DEF Ledger

\* A resume forgets entries and samples.
LEMMA LedgerResume == Core' /\ Resume => Ledger'
<1> SUFFICES ASSUME Core', Resume PROVE Ledger'
  OBVIOUS
<1>1. pending' = NoPending /\ posted' = << >> /\ pc' \in {"start", "epoch"}
  BY DEF Resume
<1>2. DOMAIN pending' = {} /\ Posts' = {}
  BY <1>1 DEF NoPending, Posts
<1>3. CreditedOnce'
  BY <1>2 DEF CreditedOnce, Posts
<1> QED
  BY <1>1, <1>2, <1>3
     DEF Ledger, EnteredBefore, PostedBefore, Settled, InHand, Untrained

\* Nothing happens.
LEMMA LedgerStutter == Ledger /\ UNCHANGED vars => Ledger'
<1> SUFFICES ASSUME Ledger, UNCHANGED vars PROVE Ledger'
  OBVIOUS
<1>1. /\ UNCHANGED <<consumed_steps, pending, batch, mode, pc, epoch,
                     iteration, posted, disturbed>>
      /\ UNCHANGED configVars
  BY DEF vars, feedVars, samplerVars, countVars
<1>2. /\ Position' = Position /\ AbsoluteStep' = AbsoluteStep
      /\ CreditDue' = CreditDue /\ Posts' = Posts
  BY <1>1 DEF Position, InEpoch, AbsoluteStep, CreditDue, Posts, configVars
<1> QED
  BY <1>1, <1>2
     DEF Ledger, EnteredBefore, PostedBefore, Settled, InHand, Untrained,
         CreditedOnce, Creditable, Holding, configVars

\* The ledger is in order in every state of every run.
LEMMA LedgerAlways == Spec => []Ledger
<1>1. Core /\ Beside /\ Core' /\ Ledger /\ [Next]_vars => Ledger'
  BY LedgerAutotune, LedgerQuiet, LedgerFetch, LedgerFetchPolicy, LedgerTrain,
     LedgerPopulation, LedgerUpdate, LedgerEventThread, LedgerResume,
     LedgerStutter
     DEF Next, Trainer
<1> QED
  BY LedgerInit, <1>1, CoreAlways, PTL DEF Spec

\* Neither the limit of the entries nor a policy batch nor the event thread takes
\* the entry of the step in hand away (record_pending), whatever the limit is;
\* and only a policy batch of a first chunk, drawn after the weights moved
\* between the two draws of the step, makes it one of another bucket.
THEOREM CreditGoesToItsStep == Spec => []CreditIsTheSteps
<1>1. Ledger => CreditIsTheSteps
  BY DEF Ledger, InHand, Untrained, CreditIsTheSteps
<1> QED
  BY <1>1, LedgerAlways, PTL

\* Without policy batches no loss moves the weights twice, however far the
\* event thread is behind the trainer.
THEOREM NoDoubleCredit == Spec => []CreditedOnce
<1>1. Ledger => CreditedOnce
  BY DEF Ledger
<1> QED
  BY <1>1, LedgerAlways, PTL
-----------------------------------------------------------------------------
(* What the recurrent state has read. *)

\* The state a step of the context in force would continue.
Held == IF mode = "routed" THEN stream_states[current.slot] ELSE stream_state

\* The group in hand would be drawn again: its next chunk is of the document
\* the last batch was of.
SameDraw ==
    /\ batch.document = Document(batch.document.bucket)
    /\ IF live
       THEN /\ drawn # Nothing
            /\ drawn = Drawn(batch.document.bucket, epoch_index, SelectionStep)
       ELSE batch.document.bucket = Nothing

\* Between two chunks of a document: the state has read the chunks so far.
Continues ==
    chunk_index_in_document # 0 =>
        /\ ~disturbed => SameDraw
        /\ ~Untrained =>
              /\ mode = "routed" => current # Nobody
              /\ ~disturbed => Held = [document |-> batch.document,
                                       next |-> chunk_index_in_document]

\* A chunk in hand that is not the first: the state is the one it expects.
Fits ==
    Untrained =>
        /\ ~batch.reset =>
              /\ mode = "routed" => current # Nobody
              /\ ~disturbed => Held = Expected
        /\ chunk_index_in_document # 0 =>
              chunk_index_in_document = batch.chunk + 1

Following == mode # "population" /\ InEpoch => Continues /\ Fits

\* The first step of an epoch is at the start of a group.
LEMMA EpochStart ==
    ASSUME NEW k \in Nat
    PROVE  (k * StepsPerEpoch) % StepsPerEpoch = 0
<1> DEFINE S == StepsPerEpoch
           q == (k * S) \div S
           r == (k * S) % S
<1>1. S \in Nat \ {0} /\ k * S \in Nat
  BY FeedAssumption
<1> HIDE DEF S
<1>2. k * S = S * q + r /\ q \in Nat /\ r \in 0 .. S - 1
  BY <1>1, SMT
<1> HIDE DEF q, r
<1>3. (k - q) * S = r
  BY <1>1, <1>2, SMT
<1> DEFINE d == k - q
<1>4. d \in Int /\ d * S = r
  BY <1>2, <1>3
<1> HIDE DEF d
<1>5. d >= 1 => d * S >= S
  BY <1>1, <1>4, SMT
<1>6. d <= 0 => d * S <= 0
  BY <1>1, <1>4, SMT
<1>7. r = 0
  BY <1>1, <1>2, <1>4, <1>5, <1>6, SMT
<1> QED
  BY <1>7 DEF r, S

\* Without a probe an epoch opens at the first chunk of a group.
LEMMA OpeningAtStart ==
    ASSUME NEW e \in Nat, e >= 1
    PROVE  Opening(Base(e)).chunk = 0
<1>1. Base(e) % StepsPerEpoch = 0
  <2>1. e - 1 \in Nat
    OBVIOUS
  <2> QED
    BY <2>1, EpochStart DEF Base
<1>2. 0 % ChunksPerDocument = 0
  BY FeedAssumption, SMT
<1> QED
  BY <1>1, <1>2 DEF Opening

\* No document is in hand when an epoch opens.
LEMMA FollowingOpenEpoch == Core /\ OpenEpoch => Following'
<1> SUFFICES ASSUME Core, OpenEpoch, mode # "population"
             PROVE  Continues' /\ Fits'
  BY DEF Following, OpenEpoch
<1>1. /\ pc = "epoch" /\ pc' = "fetch" /\ epoch <= Epochs
      /\ chunk_index_in_document' = Opening(consumed_steps).chunk
  BY DEF OpenEpoch, Iter
<1>2. consumed_steps = Base(epoch)
  <2>1. consumed_steps = Position
    BY DEF Core, Paced
  <2>2. Position = Least(Base(epoch), TotalSteps)
    BY <1>1 DEF Position, InEpoch
  <2> QED
    BY <1>1, <2>1, <2>2, CoreArith DEF Least
<1>3. chunk_index_in_document' = 0
  BY <1>1, <1>2, OpeningAtStart, CoreArith
<1> QED
  BY <1>1, <1>3 DEF Continues, Fits, Untrained

\* With the weights of its first chunk, the next chunk of a group is of the same
\* document.
LEMMA FollowingFetch == Core /\ Core' /\ Following /\ Fetch => Following'
<1> SUFFICES ASSUME Core, Core', Following, Fetch, mode # "population"
             PROVE  Continues' /\ Fits'
  BY DEF Following, Fetch
<1>0. PICK bucket \in Buckets \cup {Nothing} : NextBatch(bucket)
  BY DEF Fetch
<1>1. /\ pc = "fetch" /\ pc' \in {"policy", "train"}
      /\ disturbed' = (disturbed /\ ~batch'.reset)
      /\ UNCHANGED <<mode, stream_state>> /\ UNCHANGED routingVars
  BY DEF Fetch
<1>2. /\ bucket \in Draws(epoch_index, SelectionStep)
      /\ consumed_steps' = consumed_steps + 1
      /\ batch' = [step |-> consumed_steps, document |-> Document(bucket),
                   chunk |-> chunk_index_in_document,
                   reset |-> chunk_index_in_document = 0]
      /\ drawn' = IF live THEN Drawn(bucket, epoch_index, SelectionStep)
                  ELSE Nothing
      /\ UNCHANGED configVars /\ epoch_index' = epoch_index
  BY <1>0 DEF NextBatch
<1>3. \/ chunk_index_in_document' = 0
      \/ /\ chunk_index_in_document' = chunk_index_in_document + 1
         /\ next_document_group' = next_document_group
  BY <1>0 DEF NextBatch
<1>4. /\ batch'.document = Document(bucket)
      /\ batch'.chunk = chunk_index_in_document
      /\ batch'.reset <=> chunk_index_in_document = 0
      /\ batch'.document.bucket = bucket
  BY <1>2 DEF Document
<1>5. /\ live => bucket \in Buckets
      /\ ~live => bucket = Nothing
  BY <1>2 DEF Draws
<1>6. live => drawn' # Nothing
  <2>1. epoch_index \in Nat /\ SelectionStep \in Nat
    BY SelectionStepType DEF Core, FeedTypes
  <2>2. live => drawn' \in Draw
    BY <1>2, <1>5, <2>1 DEF Drawn, Draw
  <2> QED
    BY <2>2, FeedAssumption DEF Draw
<1>7. ASSUME chunk_index_in_document' # 0 PROVE SameDraw'
  <2>1. SelectionStep' = SelectionStep
    <3>1. consumed_steps \in Nat /\ chunk_index_in_document \in Nat
      BY CoreArith DEF Core, FeedTypes
    <3>2. chunk_index_in_document' = chunk_index_in_document + 1
      BY <1>3, <1>7
    <3>3. consumed_steps' = consumed_steps + 1
      BY <1>2
    <3> QED
      BY <3>1, <3>2, <3>3 DEF SelectionStep, Least
  <2>2. Document(bucket)' = Document(bucket)
    BY <1>2, <1>3, <1>7, <2>1 DEF Document, configVars
  <2> QED
    BY <1>2, <1>4, <1>5, <1>6, <2>1, <2>2 DEF SameDraw, configVars, Document, Drawn
<1>8. ASSUME chunk_index_in_document # 0, ~disturbed
      PROVE  Document(bucket) = batch.document
  <2>1. SameDraw
    BY <1>1, <1>8 DEF Following, InEpoch, Continues, Untrained
  <2>2. bucket = batch.document.bucket
    BY <1>2, <1>5, <2>1 DEF SameDraw, Draws, MayDraw, Drawn
  <2> QED
    BY <2>1, <2>2 DEF SameDraw
<1>9. Held' = Held
  BY <1>1 DEF Held, routingVars
<1>10. ASSUME chunk_index_in_document # 0
       PROVE  /\ mode = "routed" => current # Nobody
              /\ ~disturbed => Held = [document |-> batch.document,
                                       next |-> chunk_index_in_document]
  BY <1>1, <1>10 DEF Following, InEpoch, Continues, Untrained
<1>11. Continues'
  BY <1>1, <1>7 DEF Continues, Untrained
<1>12. Fits'
  <2>1. ASSUME ~batch'.reset
        PROVE  /\ mode' = "routed" => current' # Nobody
               /\ ~disturbed' => Held' = Expected'
    <3>1. chunk_index_in_document # 0
      BY <1>4, <2>1
    <3>2. ~disturbed' => ~disturbed
      BY <1>1, <2>1
    <3>3. Expected' = [document |-> Document(bucket),
                       next |-> chunk_index_in_document]
      BY <1>4 DEF Expected
    <3> QED
      BY <1>1, <1>8, <1>9, <1>10, <3>1, <3>2, <3>3 DEF routingVars
  <2>2. chunk_index_in_document' # 0
            => chunk_index_in_document' = batch'.chunk + 1
    BY <1>3, <1>4
  <2> QED
    BY <2>1, <2>2 DEF Fits
<1> QED
  BY <1>11, <1>12

\* The draw depends on loader, weights and configuration only.
LEMMA SameDrawStays ==
    ASSUME UNCHANGED <<configVars, consumed_steps, iteratorVars, batch>>,
           UNCHANGED drawn
    PROVE  SameDraw' <=> SameDraw
BY DEF SameDraw, Document, Drawn, SelectionStep, configVars, iteratorVars

\* A policy batch leaves the next chunk of the group where it was.
LEMMA FollowingFetchPolicy ==
    Core /\ Beside /\ Following /\ FetchPolicy => Following'
<1> SUFFICES ASSUME Core, Beside, Following, FetchPolicy, mode # "population"
             PROVE  Continues' /\ Fits'
  BY DEF Following, FetchPolicy
<1>0. PICK bucket \in Buckets : PolicyBatch(bucket)
  BY DEF FetchPolicy
<1>1. /\ pc = "policy" /\ pc' = "train" /\ disturbed' = disturbed
      /\ UNCHANGED <<mode, stream_state>> /\ UNCHANGED routingVars
  BY DEF FetchPolicy
<1>2. /\ bucket \in Draws(batch.document.epoch, batch.document.at)
      /\ drawn' = Drawn(bucket, batch.document.epoch, batch.document.at)
      /\ UNCHANGED <<configVars, consumed_steps, iteratorVars, batch>>
  BY <1>0 DEF PolicyBatch
<1>3. Continues /\ Fits /\ live
  BY <1>1 DEF Following, InEpoch, Beside
<1>4. ASSUME chunk_index_in_document # 0, ~disturbed PROVE UNCHANGED drawn
  <2>1. /\ drawn # Nothing
        /\ drawn = Drawn(batch.document.bucket, batch.document.epoch,
                         batch.document.at)
    BY <1>1, <1>3, <1>4 DEF Continues, SameDraw, Beside
  <2>2. bucket = batch.document.bucket
    BY <1>2, <1>3, <2>1 DEF Draws, MayDraw, Drawn
  <2> QED
    BY <1>2, <2>1, <2>2
<1>5. /\ chunk_index_in_document' = chunk_index_in_document
      /\ Held' = Held /\ current' = current /\ batch' = batch
      /\ Expected' = Expected
  BY <1>1, <1>2 DEF Held, Expected, iteratorVars, routingVars
<1>6. chunk_index_in_document # 0 /\ ~disturbed => SameDraw'
  BY <1>2, <1>3, <1>4, SameDrawStays DEF Continues
<1> QED
  BY <1>1, <1>3, <1>5, <1>6 DEF Continues, Fits, Untrained

\* The state follows the chunk that was read.
LEMMA FollowingTrainPlain == Core /\ Following /\ TrainPlain => Following'
<1> SUFFICES ASSUME Core, Following, TrainPlain PROVE Continues' /\ Fits'
  BY DEF Following
<1>1. /\ pc = "train" /\ pc' = "update" /\ mode = "plain" /\ mode' = mode
      /\ stream_state' = Read /\ Credit
      /\ disturbed' = (disturbed \/ WeightsMove)
      /\ UNCHANGED <<configVars, consumed_steps, iteratorVars, batch>>
  BY DEF TrainPlain
<1>2. Continues /\ Fits
  BY <1>1 DEF Following, InEpoch
<1>3. ~WeightsMove => UNCHANGED drawn
  BY <1>1 DEF Credit, WeightsMove, RecordLoss
<1>4. chunk_index_in_document' = chunk_index_in_document /\ batch' = batch
  BY <1>1 DEF iteratorVars
<1>5. chunk_index_in_document # 0 =>
          Held' = [document |-> batch.document,
                   next |-> chunk_index_in_document]
  BY <1>1, <1>2 DEF Held, Read, Fits, Untrained
<1>6. chunk_index_in_document # 0 /\ ~disturbed' => SameDraw'
  BY <1>1, <1>2, <1>3, SameDrawStays DEF Continues
<1> QED
  BY <1>1, <1>4, <1>5, <1>6 DEF Continues, Fits, Untrained

\* The state of the routed context follows the chunk that was read.
LEMMA FollowingTrainRouted ==
    Core /\ Core' /\ Following /\ TrainRouted => Following'
<1> SUFFICES ASSUME Core, Core', Following, TrainRouted
             PROVE  Continues' /\ Fits'
  BY DEF Following
<1>1. /\ pc = "train" /\ pc' = "update" /\ mode = "routed" /\ mode' = mode
      /\ Credit
      /\ disturbed' = (disturbed \/ WeightsMove \/ (Switches /\ ~batch.reset))
      /\ UNCHANGED <<configVars, consumed_steps, iteratorVars, batch>>
  BY DEF TrainRouted
<1>2. PICK c \in Slots : RoutedStep(c, AbsoluteStep, Read)
  BY DEF TrainRouted
<1>3. Continues /\ Fits
  BY <1>1 DEF Following, InEpoch
<1>4. ~WeightsMove => UNCHANGED drawn
  BY <1>1 DEF Credit, WeightsMove, RecordLoss
<1>5. chunk_index_in_document' = chunk_index_in_document /\ batch' = batch
  BY <1>1 DEF iteratorVars
<1>6. /\ current' = Identity(c, generation'[c])
      /\ stream_states' = [stream_states EXCEPT ![c] = Read]
  BY <1>2 DEF RoutedStep
<1>7. current'.slot = c /\ stream_states'[c] = Read
  BY <1>6 DEF Identity, Core, RoutingTypes
<1>8. current' # Nobody
  <2>1. c \in Nat /\ generation'[c] \in Nat
    BY RoutingAssumption DEF Slots, Core, RoutingTypes
  <2>2. current' \in [slot : Nat, generation : Nat]
    BY <1>6, <2>1 DEF Identity
  <2> QED
    BY <2>2, RoutingAssumption
<1>9. chunk_index_in_document # 0 =>
          Held' = [document |-> batch.document,
                   next |-> chunk_index_in_document]
  BY <1>1, <1>3, <1>7 DEF Held, Read, Fits, Untrained
<1>10. chunk_index_in_document # 0 /\ ~disturbed' => SameDraw'
  BY <1>1, <1>3, <1>4, SameDrawStays DEF Continues
<1> QED
  BY <1>1, <1>5, <1>8, <1>9, <1>10 DEF Continues, Fits, Untrained

\* A control that moves the weights disturbs the document.
LEMMA FollowingUpdate == Core /\ Following /\ Update => Following'
<1> SUFFICES ASSUME Core, Following, Update, mode # "population"
             PROVE  Continues' /\ Fits'
  BY DEF Following, Update
<1>1. /\ pc = "update" /\ pc' = "fetch"
      /\ UNCHANGED <<mode, stream_state>> /\ UNCHANGED routingVars
      /\ UNCHANGED <<configVars, consumed_steps, iteratorVars, batch>>
  BY DEF Update
<1>2. Continues
  BY <1>1 DEF Following, InEpoch
<1>3. ~disturbed' => ~disturbed /\ UNCHANGED drawn
  BY DEF Update, Control
<1>4. /\ chunk_index_in_document' = chunk_index_in_document
      /\ Held' = Held /\ current' = current /\ batch' = batch
  BY <1>1 DEF Held, iteratorVars, routingVars
<1>5. chunk_index_in_document # 0 /\ ~disturbed' => SameDraw'
  BY <1>1, <1>2, <1>3, SameDrawStays DEF Continues
<1> QED
  BY <1>1, <1>2, <1>3, <1>4, <1>5 DEF Continues, Fits, Untrained

\* A credit on the event thread disturbs the document as well.
LEMMA FollowingEventThread == Core /\ Following /\ EventThread => Following'
<1> SUFFICES ASSUME Core, Following, EventThread, mode # "population", InEpoch
             PROVE  Continues' /\ Fits'
  BY DEF Following, EventThread, InEpoch, countVars
<1>1. /\ RecordLoss(Head(posted))
      /\ disturbed' = (disturbed \/ Creditable(Head(posted)))
      /\ UNCHANGED <<mode, pc, stream_state>> /\ UNCHANGED routingVars
      /\ UNCHANGED <<configVars, consumed_steps, iteratorVars, batch>>
  BY DEF EventThread, countVars
<1>2. Continues /\ Fits
  BY DEF Following
<1>3. ~disturbed' => ~disturbed /\ UNCHANGED drawn
  BY <1>1 DEF RecordLoss
<1>4. /\ chunk_index_in_document' = chunk_index_in_document
      /\ Held' = Held /\ current' = current /\ batch' = batch
      /\ Expected' = Expected
  BY <1>1 DEF Held, Expected, iteratorVars, routingVars
<1>5. chunk_index_in_document # 0 /\ ~disturbed' => SameDraw'
  BY <1>1, <1>2, <1>3, SameDrawStays DEF Continues
<1> QED
  BY <1>1, <1>2, <1>3, <1>4, <1>5 DEF Continues, Fits, Untrained

\* Nothing happens.
LEMMA FollowingStutter == Following /\ UNCHANGED vars => Following'
<1> SUFFICES ASSUME Following, UNCHANGED vars PROVE Following'
  OBVIOUS
<1>1. /\ UNCHANGED <<mode, pc, stream_state, disturbed, drawn>>
      /\ UNCHANGED routingVars
      /\ UNCHANGED <<configVars, consumed_steps, iteratorVars, batch>>
  BY DEF vars, feedVars, samplerVars, countVars
<1>2. SameDraw' <=> SameDraw
  BY <1>1, SameDrawStays
<1>3. /\ chunk_index_in_document' = chunk_index_in_document
      /\ Held' = Held /\ current' = current /\ batch' = batch
      /\ Expected' = Expected
  BY <1>1 DEF Held, Expected, iteratorVars, routingVars
<1> QED
  BY <1>1, <1>2, <1>3 DEF Following, InEpoch, Continues, Fits, Untrained

\* The state follows the chunks in every state of every run.
LEMMA FollowingAlways == Spec => []Following
<1>1. Init => Following
  <2>1. Init => ~InEpoch
    BY Zenon DEF Init, InEpoch
  <2> QED
    BY <2>1 DEF Following
<1>2. Core /\ Core' /\ Beside /\ Following /\ [Next]_vars => Following'
  <2> SUFFICES ASSUME Core, Core', Beside, Following, [Next]_vars
               PROVE  Following'
    OBVIOUS
  <2>1. CASE Autotune \/ Finish \/ EpochEnd \/ Checkpoint \/ Resume
    <3>1. pc' \notin {"fetch", "policy", "train", "update"}
      BY <2>1 DEF Autotune, Finish, EpochEnd, Checkpoint, Resume
    <3> QED
      BY <3>1 DEF Following, InEpoch
  <2>2. CASE TrainPopulation
    BY <2>2 DEF Following, TrainPopulation
  <2> QED
    BY <2>1, <2>2, FollowingOpenEpoch, FollowingFetch, FollowingFetchPolicy,
       FollowingTrainPlain, FollowingTrainRouted, FollowingUpdate, FollowingEventThread,
       FollowingStutter
       DEF Next, Trainer
<1> QED
  BY <1>1, <1>2, CoreAlways, PTL DEF Spec

\* Only two actions train with a recurrent state.
LEMMA TrainsIs ==
    Core /\ [Next]_vars /\ Trains => TrainPlain \/ TrainRouted
<1> SUFFICES ASSUME Core, [Next]_vars, pc = "train", pc' = "update"
             PROVE  TrainPlain \/ TrainRouted
  BY DEF Trains
<1>1. CASE Trainer
  BY <1>1
     DEF Trainer, Autotune, OpenEpoch, Finish, Fetch, FetchPolicy,
         TrainPopulation, Update, EpochEnd, Checkpoint
<1>2. CASE EventThread \/ UNCHANGED vars
  <2>1. pc' = pc
    BY <1>2 DEF EventThread, vars, countVars
  <2> QED
    BY <2>1
<1>3. CASE Resume
  <2>1. pc' \in {"start", "epoch"}
    BY <1>3 DEF Resume
  <2> QED
    BY <2>1
<1> QED
  BY <1>1, <1>2, <1>3 DEF Next

StartsRight ==
    IF batch.reset THEN StartsFrom \in {Nothing, Nobody}
    ELSE \/ StartsFrom = Expected
         \/ disturbed
         \/ mode = "routed" /\ Switches

\* What a step with one recurrent state starts from.
LEMMA PlainStarts == Core /\ Following /\ TrainPlain => StartsRight
<1> SUFFICES ASSUME Core, Following, TrainPlain PROVE StartsRight
  OBVIOUS
<1>1. pc = "train" /\ mode = "plain"
  BY DEF TrainPlain
<1>2. ~batch.reset /\ ~disturbed => stream_state = Expected
  BY <1>1 DEF Following, InEpoch, Fits, Untrained, Held
<1>3. StartsFrom = IF batch.reset THEN Nothing ELSE stream_state
  BY <1>1 DEF StartsFrom, LoadedState
<1> QED
  BY <1>2, <1>3 DEF StartsRight

\* What a routed step starts from: a context that is kept keeps its state.
LEMMA RoutedStarts == Core /\ Following /\ TrainRouted => StartsRight
<1> SUFFICES ASSUME Core, Following, TrainRouted PROVE StartsRight
  OBVIOUS
<1>1. pc = "train" /\ mode = "routed"
  BY DEF TrainRouted
<1>2. StartsFrom = IF batch.reset THEN Nobody ELSE KeptStateOf(current'.slot)
  BY <1>1 DEF StartsFrom, TakenState
<1>3. CASE batch.reset
  BY <1>2, <1>3 DEF StartsRight
<1>4. ASSUME ~batch.reset, ~disturbed, ~Switches
      PROVE  StartsFrom = Expected
  <2>1. current # Nobody /\ stream_states[current.slot] = Expected
    BY <1>1, <1>4 DEF Following, InEpoch, Fits, Untrained, Held
  <2>2. current' = current
    BY <1>4, <2>1 DEF Switches
  <2>3. PICK c \in Slots : current' = Identity(c, generation'[c])
    BY DEF TrainRouted, RoutedStep
  <2>4. current'.slot = c /\ current'.generation = generation'[c]
    BY <2>3 DEF Identity
  <2>5. current.generation = generation[current.slot]
    BY <2>1 DEF Core, AllOwned, Owned, Routing
  <2>6. KeptStateOf(current'.slot) = stream_states[current.slot]
    BY <2>2, <2>4, <2>5 DEF KeptStateOf
  <2> QED
    BY <1>2, <1>4, <2>1, <2>6
<1> QED
  BY <1>1, <1>3, <1>4 DEF StartsRight

\* A batch that continues a document is trained from the state the chunk before
\* it left, under every schedule of the two threads, as long as no credit, no
\* control and no probe has come between; after a resume from the start of the
\* next epoch, with no document half read.
THEOREM IdentityFollows == Spec => IdentityUnlessDisturbed
<1>1. Core /\ Following /\ [Next]_vars => [Trains => StartsRight]_vars
  BY TrainsIs, PlainStarts, RoutedStarts
<1>2. IdentityUnlessDisturbed <=> [][Trains => StartsRight]_vars
  BY PTL DEF IdentityUnlessDisturbed, StartsRight
<1> QED
  BY <1>1, <1>2, CoreAlways, FollowingAlways, PTL DEF Spec
-----------------------------------------------------------------------------
(* Seeking and walking. *)

\* Division with remainder has one answer.
LEMMA DivModUnique ==
    ASSUME NEW n \in Nat, NEW d \in Nat \ {0}, NEW q \in Nat,
           NEW r \in 0 .. d - 1, n = d * q + r
    PROVE  n \div d = q /\ n % d = r
<1> DEFINE p == n \div d
           s == n % d
           k == p - q
<1>1. n = d * p + s /\ p \in Nat /\ s \in 0 .. d - 1
  BY SMT
<1> HIDE DEF p, s
<1>2. k \in Int /\ k * d = r - s
  BY <1>1, SMT
<1>3. p = q + k
  BY <1>1
<1> HIDE DEF k
<1>4. k >= 1 => k * d >= d
  BY <1>2, SMT
<1>5. k <= -1 => k * d <= -d
  BY <1>2, SMT
<1>6. k = 0
  BY <1>1, <1>2, <1>4, <1>5, SMT
<1>7. p = q /\ s = r
  BY <1>1, <1>2, <1>3, <1>6, SMT
<1> QED
  BY <1>7 DEF p, s

\* A step further: in the same row, or at the start of the next one.
LEMMA NextDivMod ==
    ASSUME NEW n \in Nat, NEW d \in Nat \ {0}
    PROVE  IF (n % d) + 1 < d
           THEN (n + 1) \div d = n \div d /\ (n + 1) % d = (n % d) + 1
           ELSE (n + 1) \div d = n \div d + 1 /\ (n + 1) % d = 0
<1> DEFINE q == n \div d
           r == n % d
<1>1. n = d * q + r /\ q \in Nat /\ r \in 0 .. d - 1
  BY SMT
<1> HIDE DEF q, r
<1>2. CASE r + 1 < d
  <2>1. r + 1 \in 0 .. d - 1 /\ n + 1 = d * q + (r + 1)
    BY <1>1, <1>2, SMT
  <2>2. (n + 1) \div d = q /\ (n + 1) % d = r + 1
    BY <1>1, <2>1, DivModUnique
  <2> QED
    BY <1>2, <2>2 DEF q, r
<1>3. CASE ~(r + 1 < d)
  <2>1. r + 1 = d
    BY <1>1, <1>3
  <2>2. q + 1 \in Nat /\ 0 \in 0 .. d - 1 /\ n + 1 = d * (q + 1) + 0
    BY <1>1, <2>1, SMT
  <2>3. (n + 1) \div d = q + 1 /\ (n + 1) % d = 0
    BY <2>2, DivModUnique
  <2> QED
    BY <1>3, <2>3 DEF q, r
<1> QED
  BY <1>2, <1>3

\* A remainder may be taken early.
LEMMA ModAdd ==
    ASSUME NEW a \in Nat, NEW b \in Nat, NEW d \in Nat \ {0}
    PROVE  ((a % d) + b) % d = (a + b) % d
<1> DEFINE q == a \div d
           r == a % d
<1>1. a = d * q + r /\ q \in Nat /\ r \in 0 .. d - 1
  BY SMT
<1> HIDE DEF q, r
<1> DEFINE m == r + b
           p == m \div d
           s == m % d
<1>2. m \in Nat
  BY <1>1
<1> HIDE DEF m
<1>3. m = d * p + s /\ p \in Nat /\ s \in 0 .. d - 1
  BY <1>2, SMT
<1> HIDE DEF p, s
<1>4. a + b = d * (q + p) + s /\ q + p \in Nat
  BY <1>1, <1>3, SMT DEF m
<1>5. (a + b) % d = s
  BY <1>3, <1>4, DivModUnique
<1> QED
  BY <1>5 DEF r, s, m

\* The opening of the next step, from the opening of this one.
LEMMA OpeningNext ==
    ASSUME ~live, NEW n \in Nat,
           (n + 1) \div StepsPerEpoch = n \div StepsPerEpoch
    PROVE  LET now == Opening(n)
               next == Opening(n + 1)
           IN  /\ next.epoch = now.epoch
               /\ IF now.chunk + 1 >= ChunksPerDocument
                  THEN /\ next.chunk = 0
                       /\ next.group = (now.group + BatchSize) % NumDocuments
                  ELSE /\ next.chunk = now.chunk + 1
                       /\ next.group = now.group
<1> DEFINE k == n % StepsPerEpoch
           q == k \div ChunksPerDocument
<1>1. k \in Nat /\ n \div StepsPerEpoch \in Nat
  BY DivMod, FeedAssumption
<1>2. (n + 1) % StepsPerEpoch = k + 1
  BY <1>1, NextDivMod, FeedAssumption
<1> HIDE DEF k
<1>3. q \in Nat /\ k % ChunksPerDocument \in 0 .. ChunksPerDocument - 1
  BY <1>1, DivMod, FeedAssumption
<1> HIDE DEF q
<1>4. /\ Opening(n) = [epoch |-> n \div StepsPerEpoch,
                       chunk |-> k % ChunksPerDocument,
                       group |-> (q * BatchSize) % NumDocuments]
      /\ Opening(n + 1) =
             [epoch |-> (n + 1) \div StepsPerEpoch,
              chunk |-> (k + 1) % ChunksPerDocument,
              group |-> (((k + 1) \div ChunksPerDocument) * BatchSize)
                            % NumDocuments]
  BY <1>2 DEF Opening, k, q
<1>5. CASE (k % ChunksPerDocument) + 1 >= ChunksPerDocument
  <2>1. /\ (k + 1) \div ChunksPerDocument = q + 1
        /\ (k + 1) % ChunksPerDocument = 0
    BY <1>1, <1>3, <1>5, NextDivMod, FeedAssumption DEF q
  <2>2. q * BatchSize \in Nat /\ (q + 1) * BatchSize = q * BatchSize + BatchSize
    BY <1>3, FeedAssumption, SMT
  <2>3. (((q * BatchSize) % NumDocuments) + BatchSize) % NumDocuments
            = (q * BatchSize + BatchSize) % NumDocuments
    BY <2>2, ModAdd, FeedAssumption
  <2> QED
    BY <1>4, <1>5, <2>1, <2>2, <2>3
<1>6. CASE ~((k % ChunksPerDocument) + 1 >= ChunksPerDocument)
  <2>1. /\ (k + 1) \div ChunksPerDocument = q
        /\ (k + 1) % ChunksPerDocument = (k % ChunksPerDocument) + 1
    BY <1>1, <1>3, <1>6, NextDivMod, FeedAssumption DEF q
  <2> QED
    BY <1>4, <1>6, <2>1
<1> QED
  BY <1>5, <1>6

\* Outside an epoch there is no iterator; inside, it is in the epoch it was
\* opened in and where that epoch would be opened now, or past it.
Walks ==
    /\ ~InEpoch => steps_total = 0 /\ step = 0
    /\ ~live /\ InEpoch =>
          /\ epoch_index <= consumed_steps \div StepsPerEpoch
          /\ epoch_index = consumed_steps \div StepsPerEpoch =>
                 Opening(consumed_steps) = [epoch |-> epoch_index,
                                            chunk |-> chunk_index_in_document,
                                            group |-> next_document_group]

\* An iterator that walks goes where the next step would be opened.
LEMMA WalksFetch == Core /\ Walks /\ Fetch => Walks'
<1> SUFFICES ASSUME Core, Walks, Fetch PROVE Walks'
  OBVIOUS
<1>0. PICK bucket \in Buckets \cup {Nothing} : NextBatch(bucket)
  BY DEF Fetch
<1> DEFINE n == consumed_steps
           S == StepsPerEpoch
<1>1. /\ pc = "fetch" /\ pc' \in {"policy", "train"} /\ consumed_steps' = n + 1
      /\ epoch_index' = epoch_index /\ live' = live
  BY <1>0 DEF Fetch, NextBatch, configVars
<1>2. n \in Nat /\ S \in Nat \ {0} /\ n \div S \in Nat /\ epoch_index \in Nat
  BY CoreArith, DivMod, FeedAssumption DEF Core, FeedTypes
<1> SUFFICES ASSUME ~live
             PROVE  /\ epoch_index <= (n + 1) \div S
                    /\ epoch_index = (n + 1) \div S =>
                         Opening(n + 1) = [epoch |-> epoch_index,
                                           chunk |-> chunk_index_in_document',
                                           group |-> next_document_group']
  <2>1. Opening(consumed_steps)' = Opening(n + 1)
    BY <1>1 DEF Opening
  <2> QED
    BY <1>1, <2>1 DEF Walks, InEpoch
<1>3. /\ epoch_index <= n \div S
      /\ epoch_index = n \div S =>
             Opening(n) = [epoch |-> epoch_index,
                           chunk |-> chunk_index_in_document,
                           group |-> next_document_group]
  BY <1>1 DEF Walks, InEpoch
<1>4. (n + 1) \div S \in {n \div S, n \div S + 1}
  BY <1>2, NextDivMod
<1>5. CASE (n + 1) \div S = n \div S + 1
  BY <1>2, <1>3, <1>5
<1>6. CASE (n + 1) \div S = n \div S /\ epoch_index # n \div S
  BY <1>2, <1>3, <1>6
<1>7. CASE (n + 1) \div S = n \div S /\ epoch_index = n \div S
  <2> DEFINE now == Opening(n)
             next == Opening(n + 1)
  <2>1. /\ now.epoch = epoch_index /\ now.chunk = chunk_index_in_document
        /\ now.group = next_document_group
    BY <1>3, <1>7
  <2>2. /\ next.epoch = now.epoch
        /\ IF now.chunk + 1 >= ChunksPerDocument
           THEN /\ next.chunk = 0
                /\ next.group = (now.group + BatchSize) % NumDocuments
           ELSE /\ next.chunk = now.chunk + 1
                /\ next.group = now.group
    BY <1>2, <1>7, OpeningNext
  <2>3. next = [epoch |-> next.epoch, chunk |-> next.chunk, group |-> next.group]
    BY DEF Opening
  <2> HIDE DEF now, next
  <2>4. IF chunk_index_in_document + 1 >= ChunksPerDocument
        THEN /\ chunk_index_in_document' = 0
             /\ next_document_group' =
                    (next_document_group + BatchSize) % NumDocuments
        ELSE /\ chunk_index_in_document' = chunk_index_in_document + 1
             /\ next_document_group' = next_document_group
    BY <1>0 DEF NextBatch, DocumentComplete
  <2>5. /\ next.chunk = chunk_index_in_document'
        /\ next.group = next_document_group' /\ next.epoch = epoch_index
    BY <2>1, <2>2, <2>4
  <2>6. next = [epoch |-> epoch_index, chunk |-> chunk_index_in_document',
                group |-> next_document_group']
    BY <2>3, <2>5
  <2> QED
    BY <1>2, <1>7, <2>6 DEF next
<1> QED
  BY <1>4, <1>5, <1>6, <1>7

\* Everything else leaves the iterator alone or drops it.
LEMMA WalksStep == Core /\ Walks /\ [Next]_vars => Walks'
<1> SUFFICES ASSUME Core, Walks, [Next]_vars PROVE Walks'
  OBVIOUS
<1>1. CASE OpenEpoch
  <2>1. /\ pc' = "fetch" /\ consumed_steps' = consumed_steps
        /\ epoch_index' = Opening(consumed_steps).epoch
        /\ chunk_index_in_document' = Opening(consumed_steps).chunk
        /\ next_document_group' = Opening(consumed_steps).group
        /\ live' = live
    BY <1>1 DEF OpenEpoch, Iter, configVars
  <2>2. Opening(consumed_steps)' = Opening(consumed_steps)
    BY <2>1 DEF Opening
  <2>3. /\ Opening(consumed_steps).epoch = consumed_steps \div StepsPerEpoch
        /\ Opening(consumed_steps)
             = [epoch |-> Opening(consumed_steps).epoch,
                chunk |-> Opening(consumed_steps).chunk,
                group |-> Opening(consumed_steps).group]
    BY DEF Opening
  <2>4. consumed_steps \div StepsPerEpoch \in Nat
    BY CoreArith, DivMod, FeedAssumption
  <2>5. epoch_index' = consumed_steps' \div StepsPerEpoch
    BY <2>1, <2>3
  <2>6. epoch_index' <= consumed_steps' \div StepsPerEpoch
    BY <2>1, <2>4, <2>5
  <2> QED
    BY <2>1, <2>2, <2>3, <2>6 DEF Walks, InEpoch
<1>2. CASE Fetch
  BY <1>2, WalksFetch
<1>3. CASE EpochEnd \/ Resume
  <2>1. pc' \in {"boundary", "start", "epoch"} /\ NoIterator
    BY <1>3 DEF EpochEnd, Resume
  <2> QED
    BY <2>1 DEF Walks, InEpoch, NoIterator
<1>4. CASE Autotune \/ Finish \/ Checkpoint
  <2>1. /\ pc \in {"start", "epoch", "boundary"} /\ pc' \in {"epoch", "done"}
        /\ steps_total' = steps_total /\ step' = step
    BY <1>4
       DEF Autotune, TakeOne, Finish, Checkpoint, feedVars, iteratorVars
  <2> QED
    BY <2>1 DEF Walks, InEpoch
<1>5. CASE FetchPolicy \/ TrainPlain \/ TrainRouted \/ TrainPopulation
           \/ Update \/ EventThread \/ UNCHANGED vars
  <2>1. /\ UNCHANGED <<live, consumed_steps, iteratorVars>>
        /\ (pc' \in {"fetch", "policy", "train", "update"})
              <=> (pc \in {"fetch", "policy", "train", "update"})
    BY <1>5
       DEF FetchPolicy, PolicyBatch, TrainPlain, TrainRouted, TrainPopulation, Update, EventThread, vars,
           feedVars, configVars, countVars
  <2>2. Opening(consumed_steps)' = Opening(consumed_steps)
    BY <2>1 DEF Opening
  <2> QED
    BY <2>1, <2>2 DEF Walks, InEpoch, iteratorVars
<1> QED
  BY <1>1, <1>2, <1>3, <1>4, <1>5 DEF Next, Trainer

\* A loader that seeks to a step (iter) stands where one that walked there
\* stands, for every length of epoch and document, every batch and every number
\* of documents, whether or not they divide one another.
THEOREM SeekIsWalk == Spec => []SeekEqualsWalk
<1>1. Init => Walks
  <2>1. Init => ~InEpoch /\ steps_total = 0 /\ step = 0
    BY Zenon DEF Init, InEpoch
  <2> QED
    BY <2>1 DEF Walks
<1>2. Core /\ Walks => SeekEqualsWalk
  <2> SUFFICES ASSUME Core, Walks, ~live, step < steps_total
               PROVE  epoch_index = consumed_steps \div StepsPerEpoch =>
                        Opening(consumed_steps) =
                            [epoch |-> epoch_index,
                             chunk |-> chunk_index_in_document,
                             group |-> next_document_group]
    BY DEF SeekEqualsWalk
  <2>1. InEpoch
    BY DEF Walks
  <2> QED
    BY <2>1 DEF Walks
<1> QED
  BY <1>1, <1>2, WalksStep, CoreAlways, PTL DEF Spec

=============================================================================
