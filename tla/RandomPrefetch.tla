--------------------------- MODULE RandomPrefetch ---------------------------
(***************************************************************************)
(* RandomDataLoader with its persistent prefetch pool                      *)
(* (burn_dragon_language/src/dataset/scheduler.rs).                        *)
(*                                                                         *)
(* Worker threads claim absolute steps from one atomic counter, build the  *)
(* batch of a step and push it into a bounded channel, in whatever order   *)
(* they finish.  The training thread opens an iterator per epoch and puts  *)
(* the batches back in order: a batch that arrives early waits in          *)
(* `pending`.  The pool outlives the epochs; the loader's consumed_steps   *)
(* decides where an epoch begins and how long it is.                       *)
(*                                                                         *)
(* A batch is represented by the absolute step it was built for.           *)
(***************************************************************************)
EXTENDS Naturals, Sequences, FiniteSets

CONSTANTS Workers,        \* prefetch worker threads
          Faulty,         \* the workers whose batch construction may panic
          Depth,          \* prefetch depth; 0 turns the pool off
          StepsPerEpoch,  \* steps_per_epoch
          Start,          \* with_initial_consumed_steps
          Limit           \* total_steps, which every training loader is given

ASSUME PrefetchAssumption ==
    /\ IsFiniteSet(Workers)
    /\ Workers # {}
    /\ Faulty \subseteq Workers
    /\ Depth \in Nat
    /\ StepsPerEpoch \in Nat \ {0}
    /\ Start \in Nat
    /\ Limit \in Nat
    /\ Start <= Limit

VARIABLES
    next_task,       \* the workers' shared AtomicUsize
    wpc,             \* where each worker stands
    task,            \* the step each worker claimed last
    channel,         \* the sync_channel
    pending,         \* RandomPrefetch.pending
    next_index,      \* RandomPrefetch.next_index
    cpc,             \* where the training thread stands
    prefetching,     \* RandomIterator.prefetch.is_some()
    step,            \* RandomIterator.step
    steps_total,     \* RandomIterator.steps_total
    consumed_steps,  \* the counter shared by the loader's iterators
    delivered        \* history: the steps whose batches reached training

poolVars == <<next_task, wpc, task, channel>>
iterVars == <<prefetching, step, steps_total>>
vars == <<next_task, wpc, task, channel, pending, next_index, cpc,
          prefetching, step, steps_total, consumed_steps, delivered>>

Larger(a, b) == IF a > b THEN a ELSE b
Smaller(a, b) == IF a < b THEN a ELSE b

Capacity == Larger(Depth, Cardinality(Workers))
PrimeTarget == Smaller(Cardinality(Workers), Larger(Depth, 1))

\* "none" before the pool is spawned; "done" has left the worker loop, "dead"
\* has panicked.
WorkerPc == {"none", "claim", "build", "send", "done", "dead"}

\* "prime" is inside spawn, "ready" between two next() calls, "recv" inside
\* next(), "joining" inside RandomPrefetch::drop.
ConsumerPc == {"idle", "prime", "ready", "recv", "joining", "gone"}

Spawned == \A w \in Workers : wpc[w] # "none"
ReceiverDropped == cpc \in {"joining", "gone"}
\* Mutant: a panicking worker leaks its sender.
LeakySender(w) == wpc[w] \in {"none", "done"}

Exited(w) == wpc[w] \in {"none", "done", "dead"}
WorkerLost == \E w \in Workers : wpc[w] = "dead"

Init ==
    /\ next_task = 0
    /\ wpc = [w \in Workers |-> "none"]
    /\ task = [w \in Workers |-> 0]
    /\ channel = <<>>
    /\ pending = {}
    /\ next_index = 0
    /\ cpc = "idle"
    /\ prefetching = FALSE
    /\ step = 0
    /\ steps_total = 0
    /\ consumed_steps = Start
    /\ delivered = <<>>

-----------------------------------------------------------------------------
(* The worker threads. *)

Claim(w) ==
    /\ wpc[w] = "claim"
    /\ next_task' = next_task + 1
    /\ IF next_task >= Limit
       THEN /\ wpc' = [wpc EXCEPT ![w] = "done"]
            /\ UNCHANGED task
       ELSE /\ wpc' = [wpc EXCEPT ![w] = "build"]
            /\ task' = [task EXCEPT ![w] = next_task]
    /\ UNCHANGED <<channel, pending, next_index, cpc, iterVars,
                   consumed_steps, delivered>>

Build(w) ==
    /\ wpc[w] = "build"
    /\ wpc' = [wpc EXCEPT ![w] = "send"]
    /\ UNCHANGED <<next_task, task, channel, pending, next_index, cpc,
                   iterVars, consumed_steps, delivered>>

\* An assertion of the dataset fails: the thread unwinds, its sender goes with
\* it, and the step it had claimed is built by nobody.
BuildPanics(w) ==
    /\ wpc[w] = "build"
    /\ w \in Faulty
    /\ wpc' = [wpc EXCEPT ![w] = "dead"]
    /\ UNCHANGED <<next_task, task, channel, pending, next_index, cpc,
                   iterVars, consumed_steps, delivered>>

\* Mutant: an unbounded channel.
UnboundedChannel == TRUE

ChannelHasRoom == Len(channel) < Capacity

Send(w) ==
    /\ wpc[w] = "send"
    /\ ~ReceiverDropped
    /\ ChannelHasRoom
    /\ channel' = Append(channel, task[w])
    /\ wpc' = [wpc EXCEPT ![w] = "claim"]
    /\ UNCHANGED <<next_task, task, pending, next_index, cpc, iterVars,
                   consumed_steps, delivered>>

\* sender.send returns an error, also to a thread that was blocked in it.
SendFails(w) ==
    /\ wpc[w] = "send"
    /\ ReceiverDropped
    /\ wpc' = [wpc EXCEPT ![w] = "done"]
    /\ UNCHANGED <<next_task, task, channel, pending, next_index, cpc,
                   iterVars, consumed_steps, delivered>>

WorkerStep(w) ==
    Claim(w) \/ Build(w) \/ BuildPanics(w) \/ Send(w) \/ SendFails(w)

-----------------------------------------------------------------------------
(* The training thread. *)

\* Mutant: the epoch length forgets the steps already consumed.
FullEpochs == StepsPerEpoch

EpochSteps ==
    IF consumed_steps >= Limit THEN 0
    ELSE Smaller(Limit - consumed_steps, StepsPerEpoch)

UsePersistentPrefetch == Depth > 0 /\ EpochSteps > 1

NewIterator ==
    /\ step' = 0
    /\ steps_total' = EpochSteps
    /\ prefetching' = UsePersistentPrefetch

\* RandomDataLoader::iter
IterDirect ==
    /\ cpc = "idle"
    /\ ~UsePersistentPrefetch
    /\ NewIterator
    /\ cpc' = "ready"
    /\ UNCHANGED <<poolVars, pending, next_index, consumed_steps, delivered>>

IterSpawn ==
    /\ cpc = "idle"
    /\ UsePersistentPrefetch
    /\ ~Spawned
    /\ NewIterator
    /\ next_task' = consumed_steps
    /\ next_index' = consumed_steps
    /\ wpc' = [w \in Workers |-> "claim"]
    /\ cpc' = "prime"
    /\ UNCHANGED <<task, channel, pending, consumed_steps, delivered>>

\* Mutant: seeking discards the batches that arrived early.
SeekAndClear(absolute_step) ==
    /\ next_index' = absolute_step
    /\ pending' = {}

SeekTo(absolute_step) ==
    /\ next_index' = absolute_step
    /\ pending' = {i \in pending : i >= absolute_step}

IterSeek ==
    /\ cpc = "idle"
    /\ UsePersistentPrefetch
    /\ Spawned
    /\ NewIterator
    /\ SeekTo(consumed_steps)
    /\ cpc' = "ready"
    /\ UNCHANGED <<poolVars, consumed_steps, delivered>>

\* Mutant: the channel counts as closed as soon as one worker has left.
ClosedByOne == channel = <<>> /\ \E w \in Workers : Exited(w)

\* receiver.recv() fails once every sender is gone and the channel is drained.
ChannelClosed == channel = <<>> /\ \A w \in Workers : Exited(w)

Primed == \A i \in next_index .. (next_index + PrimeTarget - 1) : i \in pending

PrimeRecv ==
    /\ cpc = "prime"
    /\ ~Primed
    /\ channel # <<>>
    /\ pending' = pending \cup {Head(channel)}
    /\ channel' = Tail(channel)
    /\ UNCHANGED <<next_task, wpc, task, next_index, cpc, iterVars,
                   consumed_steps, delivered>>

PrimeDone ==
    /\ cpc = "prime"
    /\ Primed \/ ChannelClosed
    /\ cpc' = "ready"
    /\ UNCHANGED <<poolVars, pending, next_index, iterVars, consumed_steps,
                   delivered>>

\* RandomIterator::next is called and there is a step left in this epoch.
CallNext ==
    /\ cpc = "ready"
    /\ step < steps_total
    /\ cpc' = "recv"
    /\ UNCHANGED <<poolVars, pending, next_index, iterVars, consumed_steps,
                   delivered>>

\* The end of next(): the step is counted before the batch is handed out, and a
\* step beyond the limit ends the epoch instead.
Count(batch) ==
    /\ consumed_steps' = consumed_steps + 1
    /\ IF consumed_steps >= Limit
       THEN /\ cpc' = "idle"
            /\ UNCHANGED <<step, delivered>>
       ELSE /\ cpc' = "ready"
            /\ step' = step + 1
            /\ delivered' = Append(delivered, batch)
    /\ UNCHANGED <<prefetching, steps_total>>

SampleDirect ==
    /\ cpc = "recv"
    /\ ~prefetching
    /\ Count(consumed_steps)
    /\ UNCHANGED <<poolVars, pending, next_index>>

TakePending ==
    /\ cpc = "recv"
    /\ prefetching
    /\ next_index \in pending
    /\ pending' = pending \ {next_index}
    /\ next_index' = next_index + 1
    /\ Count(next_index)
    /\ UNCHANGED poolVars

\* Mutant: the batch that arrives first is the batch that is handed out.
RecvFirst ==
    /\ cpc = "recv"
    /\ prefetching
    /\ next_index \notin pending
    /\ channel # <<>>
    /\ channel' = Tail(channel)
    /\ next_index' = next_index + 1
    /\ Count(Head(channel))
    /\ UNCHANGED <<next_task, wpc, task, pending>>

RecvMatch ==
    /\ cpc = "recv"
    /\ prefetching
    /\ next_index \notin pending
    /\ channel # <<>>
    /\ Head(channel) = next_index
    /\ channel' = Tail(channel)
    /\ next_index' = next_index + 1
    /\ Count(Head(channel))
    /\ UNCHANGED <<next_task, wpc, task, pending>>

RecvEarly ==
    /\ cpc = "recv"
    /\ prefetching
    /\ next_index \notin pending
    /\ channel # <<>>
    /\ Head(channel) # next_index
    /\ channel' = Tail(channel)
    /\ pending' = pending \cup {Head(channel)}
    /\ UNCHANGED <<next_task, wpc, task, next_index, cpc, iterVars,
                   consumed_steps, delivered>>

\* recv() gives None: next() gives None and the epoch ends early, with no error.
RecvClosed ==
    /\ cpc = "recv"
    /\ prefetching
    /\ next_index \notin pending
    /\ ChannelClosed
    /\ cpc' = "idle"
    /\ UNCHANGED <<poolVars, pending, next_index, iterVars, consumed_steps,
                   delivered>>

\* next() gives None at the end of the epoch, or the iterator is dropped early
\* (an interruption, a stop request, the one-batch autotune probe).
DropIterator ==
    /\ cpc = "ready"
    /\ cpc' = "idle"
    /\ UNCHANGED <<poolVars, pending, next_index, iterVars, consumed_steps,
                   delivered>>

\* The loader goes away: RandomPrefetch::drop takes the receiver, then joins.
DropLoader ==
    /\ cpc = "idle"
    /\ cpc' = "joining"
    /\ channel' = <<>>
    /\ UNCHANGED <<next_task, wpc, task, pending, next_index, iterVars,
                   consumed_steps, delivered>>

Joined ==
    /\ cpc = "joining"
    /\ \A w \in Workers : Exited(w)
    /\ cpc' = "gone"
    /\ UNCHANGED <<poolVars, pending, next_index, iterVars, consumed_steps,
                   delivered>>

Recv == SampleDirect \/ TakePending \/ RecvMatch \/ RecvEarly \/ RecvClosed

Iter == IterDirect \/ IterSpawn \/ IterSeek

Next ==
    \/ \E w \in Workers : WorkerStep(w)
    \/ Iter
    \/ PrimeRecv
    \/ PrimeDone
    \/ CallNext
    \/ Recv
    \/ DropIterator
    \/ DropLoader
    \/ Joined

Spec == Init /\ [][Next]_vars

(***************************************************************************)
(* The operating system runs every worker thread that can run, and the     *)
(* training thread inside a call it has made.  Whether another call is     *)
(* made, an iterator dropped or a loader dropped is up to the program.     *)
(***************************************************************************)
Fairness ==
    /\ \A w \in Workers : WF_vars(WorkerStep(w))
    /\ WF_vars(PrimeRecv \/ PrimeDone)
    /\ WF_vars(Recv)
    /\ WF_vars(Joined)

FairSpec == Spec /\ Fairness

-----------------------------------------------------------------------------
(* Properties. *)

\* Types and ranges; the channel never holds more than its capacity.
TypeOK ==
    /\ next_task \in Nat
    /\ wpc \in [Workers -> WorkerPc]
    /\ task \in [Workers -> Nat]
    /\ channel \in Seq(Nat)
    /\ Len(channel) <= Capacity
    /\ pending \in SUBSET Nat
    /\ next_index \in Nat
    /\ cpc \in ConsumerPc
    /\ prefetching \in BOOLEAN
    /\ step \in Nat
    /\ steps_total \in Nat
    /\ consumed_steps \in Nat
    /\ delivered \in Seq(Nat)

\* Whatever the order in which the workers finish, and however the epochs are
\* cut, the k-th batch training receives is the batch of step Start + k - 1:
\* none is skipped, repeated or swapped, across epochs and the direct path.
InOrder == \A k \in DOMAIN delivered : delivered[k] = Start + k - 1

Busy(w) == wpc[w] \in {"build", "send"}
InHand(i) == \E w \in Workers : Busy(w) /\ task[w] = i
Lost(i) == \E w \in Workers : wpc[w] = "dead" /\ task[w] = i
InChannel(i) == \E k \in DOMAIN channel : channel[k] = i

\* A claimed step that training has not received yet is with a worker, in the
\* channel, waiting in `pending`, or died with its worker.
NoStepLost ==
    \A i \in next_index .. (next_task - 1) :
        i < Limit => InHand(i) \/ Lost(i) \/ InChannel(i) \/ i \in pending

\* No step is claimed by two workers or built twice, and nothing that is still
\* on its way was delivered before.
NoStepTwice ==
    /\ \A v, w \in Workers :
          Busy(v) /\ Busy(w) /\ task[v] = task[w] => v = w
    /\ \A k, l \in DOMAIN channel : channel[k] = channel[l] => k = l
    /\ \A w \in Workers : Busy(w) =>
          /\ task[w] \in next_index .. (next_task - 1)
          /\ task[w] \notin pending
          /\ ~InChannel(task[w])
    /\ \A k \in DOMAIN channel :
          channel[k] >= next_index /\ channel[k] \notin pending
    /\ \A i \in pending : i >= next_index

\* Every step of the pool is accounted for, exactly once, until the receiver is
\* dropped: a lost one would block or end training, a doubled one stay forever.
Accounting == Spawned /\ ~ReceiverDropped => NoStepLost /\ NoStepTwice

\* next() ends an epoch before its length only when a worker has died: the
\* channel closes under a waiting training thread for no other reason.
ShortEpochMeansLostWorker ==
    [][cpc = "recv" /\ cpc' = "idle" => WorkerLost]_vars

\* Every call the training thread makes returns: priming the pool, next(), also
\* when workers die, and dropping the loader while workers are blocked sending.
CallsReturn ==
    \A s \in {"prime", "recv", "joining"} : (cpc = s) ~> (cpc # s)

Phase == IF cpc \in {"prime", "ready"} THEN "open"
         ELSE IF cpc = "recv" THEN "asked" ELSE "idle"
Left == steps_total - step

Feed == INSTANCE OrderedFeed WITH
    feed <- delivered, left <- Left, phase <- Phase, failed <- WorkerLost

\* The pool keeps the loader's promise: it implements the ordered feed, which
\* knows of no threads, channel or pending batches (safety, then with fairness).
FeedSafety == Feed!Spec
FeedSpec == Feed!FairSpec
=============================================================================
