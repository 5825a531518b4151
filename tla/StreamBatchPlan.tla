---------------------------- MODULE StreamBatchPlan ----------------------------
(***************************************************************************)
(* How the records of a dataset get to a peer of the network and in which  *)
(* order it trains them: window_records_from_dataset of                    *)
(* burn_dragon_p2p/src/experiments/common.rs exports them, burn_p2p packs  *)
(* whole segments into shards, and the plan_..._stream_batches functions   *)
(* of stream_batch.rs, which native and browser peers share, order a shard *)
(* and choose the batches of a window.                                     *)
(*                                                                         *)
(* A record is the lane it was cut from, [group, row, chunk], or Nothing   *)
(* when it names none; its tokens are left out.  A recurrent state is the  *)
(* place it has read up to: the group, the chunk and the rows.             *)
(***************************************************************************)
EXTENDS Naturals, Sequences, FiniteSets, FiniteSetsExt

CONSTANTS NumDocuments,       \* documents of the exported split
          ChunksPerDocument,  \* chunks_per_document
          BatchSize,          \* batch_size of the exporter
          BatchSizes,         \* values of batch_size of a peer
          Limits,             \* values of max_train_batches, of the exporter and of a peer
          MaxRecords,         \* values of max_records
          Foreign,            \* shards of other origin: sequences of records
          MaxWindow,          \* bound: window ids
          Nothing             \* Option::None

ASSUME PlanAssumption ==
    /\ NumDocuments \in Nat \ {0}
    /\ ChunksPerDocument \in Nat \ {0}
    /\ BatchSize \in Nat \ {0}
    /\ BatchSizes \subseteq Nat \ {0}
    /\ Limits \subseteq Nat \ {0}
    /\ MaxRecords \subseteq Nat
    /\ MaxWindow \in Nat \ {0}

Records == [group : Nat, row : Nat, chunk : Nat]
States == [group : Nat, chunk : Nat, rows : SUBSET Nat]

ASSUME RecordAssumption ==
    /\ Foreign \subseteq Seq(Records \cup {Nothing})
    /\ Nothing \notin Records
    /\ Nothing \notin [group : Nat, chunk : Nat]
    /\ Nothing \notin States

VARIABLES
    exported,    \* the shard comes from the exporter; never changes
    leased,      \* the peer trains under a lease; never changes
    shard,       \* the records the peer has; never changes
    batch_size,  \* of the peer; never changes
    limit,       \* max_train_batches of the peer; never changes
    window,      \* id of the window in hand
    selected,    \* its batches, as far as they are not trained yet
    state,       \* the recurrent state, or Nothing
    failed,      \* the planner has refused the shard
    streak,      \* history: windows in a row, this one included
    trained      \* history: records trained in the streak

rigidVars == <<exported, leased, shard, batch_size, limit>>
vars == <<rigidVars, window, selected, state, failed, streak, trained>>

Before(k, l) == \/ k.group < l.group
                \/ k.group = l.group /\ k.chunk < l.chunk

RecordBefore(r, s) == \/ Before(r, s)
                      \/ ~Before(s, r) /\ r.row < s.row

\* The elements of a set in an order (SetToSortSeq is slow in TLC).
InOrder(S, Less(_, _)) ==
    [n \in 1 .. Cardinality(S) |->
        CHOOSE x \in S : Cardinality({y \in S : Less(y, x)}) = n - 1]

-----------------------------------------------------------------------------
(* window_records_from_dataset *)

Groups == 0 .. ((NumDocuments - 1) \div BatchSize)
GroupRows(group) ==
    {row \in 0 .. BatchSize - 1 : group * BatchSize + row < NumDocuments}
ExportKeys == [group : Groups, chunk : 0 .. ChunksPerDocument - 1]

RecordsOf(keys) ==
    UNION {[group : {k.group}, chunk : {k.chunk}, row : GroupRows(k.group)] :
           k \in keys}

\* The chunks with something to learn, up to the first that does not fit.
ExportedKeys(supervised, max) ==
    {k \in supervised :
         Cardinality(RecordsOf({l \in supervised : ~Before(k, l)})) <= max}

\* Mutant: the row of a record in place of its group.
SegmentByRow(record, chunks) == <<record.row, record.chunk \div chunks>>

\* stream_segment_partition_key
Segment(record, chunks) == <<record.group, record.chunk \div chunks>>

SegmentsOf(records, chunks) == {Segment(r, chunks) : r \in records}
InSegments(records, chunks, segments) ==
    {r \in records : Segment(r, chunks) \in segments}

\* burn_p2p puts whole segments into a shard, some of them into this one.
Leased(records, chunks) ==
    {InSegments(records, chunks, segments) :
        segments \in SUBSET SegmentsOf(records, chunks)}

\* Without a lease a browser reads segments, in an order of its own, up to so many
\* records, wherever in the last segment that is.
Truncated(records, chunks, size) ==
    {kept \in {InSegments(records, chunks, segments)
                   \cup {r \in records : /\ Segment(r, chunks) = Segment(last, chunks)
                                         /\ ~RecordBefore(last, r)} :
                  segments \in SUBSET SegmentsOf(records, chunks), last \in records} :
        Cardinality(kept) = size}

\* A browser without a lease reads no more than it may train.
Supplies(records, chunks) ==
    IF leased THEN Leased(records, chunks)
    ELSE Truncated(records, chunks, limit * batch_size)
         \cup {kept \in Leased(records, chunks) : Cardinality(kept) < limit * batch_size}

ExportedRecords ==
    {RecordsOf(ExportedKeys(supervised, max)) :
        supervised \in SUBSET ExportKeys, max \in MaxRecords}

ExportedShards ==
    {InOrder(kept, RecordBefore) :
        kept \in UNION {Supplies(records, chunks) :
                            records \in ExportedRecords, chunks \in Limits}}

-----------------------------------------------------------------------------
(* plan_stream_aligned_batches *)

Indices == DOMAIN shard
Legacy == \E i \in Indices : shard[i] = Nothing

\* Records without lanes: cut up as they come.
LegacyPlan ==
    [b \in 1 .. (Len(shard) + batch_size - 1) \div batch_size |->
        [records |-> {i \in Indices : (i - 1) \div batch_size = b - 1},
         key |-> Nothing, reset |-> TRUE]]

Key(i) == [group |-> shard[i].group, chunk |-> shard[i].chunk]

\* The order of the BTreeMap.
Keys == InOrder({Key(i) : i \in Indices}, Before)

At(key) == {i \in Indices : Key(i) = key}
Rows(key) == {shard[i].row : i \in At(key)}

\* The chunk that follows the one of the batch before.
Contiguous(keys, n) ==
    /\ n > 1
    /\ keys[n].group = keys[n - 1].group
    /\ keys[n].chunk = keys[n - 1].chunk + 1

Resets(keys, n) == ~Contiguous(keys, n) \/ keys[n].chunk = 0

\* The three errors: too many rows, a row twice, other rows than before.
Refused ==
    ~Legacy /\ LET keys == Keys
               IN  \E n \in DOMAIN keys :
                       \/ Cardinality(At(keys[n])) > batch_size
                       \/ Cardinality(Rows(keys[n]))
                              < Cardinality(At(keys[n]))
                       \/ /\ ~Resets(keys, n)
                          /\ Rows(keys[n]) # Rows(keys[n - 1])

AlignedPlan ==
    LET keys == Keys
    IN  [n \in DOMAIN keys |-> [records |-> At(keys[n]), key |-> keys[n],
                                reset |-> Resets(keys, n)]]

Plan == IF Legacy THEN LegacyPlan ELSE AlignedPlan

-----------------------------------------------------------------------------
(* plan_windowed_stream_batches *)

\* Mutant: windows advance by one batch.
StartByOne(plan, id, count) == (id - 1) % Len(plan)

\* Where window `id` starts in the plan, from 0.
Start(plan, id, count) == ((id - 1) * count) % Len(plan)

\* Mutant: a window goes on with the state it finds.
WindowUnmarked(plan, id) ==
    LET count == Min({limit, Len(plan)})
    IN  [n \in 1 .. count |->
            plan[((Start(plan, id, count) + n - 1) % Len(plan)) + 1]]

\* The batches of window `id`: the plan is a ring, and a window that is not the
\* whole plan resets at its first batch and where the ring closes.
Window(plan, id) ==
    LET count == Min({limit, Len(plan)})
        from == Start(plan, id, count)
        place(n) == (from + n - 1) % Len(plan)
    IN  IF count = Len(plan) THEN plan
        ELSE [n \in 1 .. count |->
                 LET next == plan[place(n) + 1]
                 IN  IF n = 1 \/ place(n) = 0
                     THEN [next EXCEPT !.reset = TRUE] ELSE next]

-----------------------------------------------------------------------------
(* The peer. *)

Init ==
    /\ exported \in BOOLEAN
    /\ leased \in BOOLEAN
    /\ limit \in Limits
    /\ batch_size \in BatchSizes
    /\ shard \in IF exported THEN ExportedShards ELSE Foreign
    /\ shard # << >>
    /\ window = 0
    /\ selected = << >>
    /\ state = Nothing
    /\ failed = FALSE
    /\ streak = 0
    /\ trained = {}

\* A window is handed to the peer: the next one, or a later one when it was busy;
\* without a lease there is only one.  The recurrent state of the last window is
\* still there.
TakeWindow(id) ==
    /\ ~failed
    /\ selected = << >>
    /\ id \in IF leased THEN window + 1 .. MaxWindow ELSE {1}
    /\ window' = id
    /\ IF Refused
       THEN failed' = TRUE /\ UNCHANGED <<selected, streak, trained>>
       ELSE /\ selected' = Window(Plan, id)
            /\ streak' = IF id = window + 1 THEN streak + 1 ELSE 1
            /\ trained' = IF id = window + 1 THEN trained ELSE {}
            /\ UNCHANGED failed
    /\ UNCHANGED <<rigidVars, state>>

StateAfter(next) ==
    IF next.key = Nothing THEN Nothing
    ELSE [group |-> next.key.group, chunk |-> next.key.chunk,
          rows |-> Rows(next.key)]

TrainBatch ==
    /\ selected # << >>
    /\ state' = StateAfter(Head(selected))
    /\ trained' = trained \cup Head(selected).records
    /\ selected' = Tail(selected)
    /\ UNCHANGED <<rigidVars, window, failed, streak>>

\* A browser leaves the rest of a window when its time is up.
OutOfBudget ==
    /\ selected # << >>
    /\ selected' = << >>
    /\ streak' = 0
    /\ trained' = {}
    /\ UNCHANGED <<rigidVars, window, state, failed>>

Next == \/ \E id \in 1 .. MaxWindow : TakeWindow(id)
        \/ TrainBatch
        \/ OutOfBudget

Spec == Init /\ [][Next]_vars

-----------------------------------------------------------------------------
(* Properties. *)

\* A batch that is not marked to reset finds the state of the chunk before it,
\* of the same group and the same rows: never that of another stream, of a
\* chunk with a gap after it or of the window before.
ContinuesItsStream ==
    [][TrainBatch /\ ~Head(selected).reset =>
           /\ state # Nothing
           /\ state.group = Head(selected).key.group
           /\ state.chunk + 1 = Head(selected).key.chunk
           /\ state.rows = Rows(Head(selected).key)]_vars

WindowsPerRound == (Len(Plan) + limit - 1) \div limit

\* Windows in a row tile the ring: once a peer has trained as many, each to its
\* end, as it takes to go round, it has trained every record of its shard.
RotationCovers ==
    streak >= WindowsPerRound /\ selected = << >> /\ ~failed
                             /\ window > 0 =>
        trained = Indices

\* A chunk has more rows than a batch of this peer.
TooWide == \E i \in Indices : Cardinality(Rows(Key(i))) > batch_size

\* A chunk lacks rows of its group.
Incomplete == \E i \in Indices : Rows(Key(i)) # GroupRows(shard[i].group)

\* What is exported can be planned: whatever chunks have nothing to learn, wherever
\* the exporter's limits cut and whichever segments meet in a shard, a planner refuses
\* it only because the peer's batches are smaller than the exporter's, or because,
\* without a lease, it stopped reading in the middle of a chunk.
ExportIsPlanned == exported /\ failed => TooWide \/ (~leased /\ Incomplete)
=============================================================================
