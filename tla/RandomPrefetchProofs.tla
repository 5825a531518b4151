------------------------ MODULE RandomPrefetchProofs ------------------------
(***************************************************************************)
(* Theorems about RandomPrefetch, for every number of workers, depth,      *)
(* epoch length, starting step and limit, and for any set of workers that  *)
(* may panic.                                                              *)
(***************************************************************************)
EXTENDS RandomPrefetch, FiniteSetTheorems, SequenceTheorems, TLAPS

Iterating == cpc \in {"prime", "ready", "recv"}

\* The history and the counter move together and stay within the limit.
Ordered ==
    /\ InOrder
    /\ consumed_steps = Start + Len(delivered)
    /\ consumed_steps <= Limit

\* An open epoch never asks for more steps than the limit leaves.
EpochRoom ==
    /\ Iterating => /\ step <= steps_total
                    /\ consumed_steps + (steps_total - step) <= Limit
    /\ cpc = "recv" => step < steps_total

\* The pool is at the loader's position whenever an iterator uses it; it falls
\* behind only when the direct path takes the very last step.
PoolPosition ==
    /\ (\A w \in Workers : wpc[w] = "none") \/ Spawned
    /\ ~Spawned => channel = <<>> /\ pending = {}
    /\ Spawned => /\ Depth > 0
                  /\ StepsPerEpoch > 1
                  /\ next_index = consumed_steps \/ consumed_steps = Limit
    /\ Iterating /\ prefetching => Spawned /\ next_index = consumed_steps
    /\ cpc = "prime" => prefetching
    /\ Iterating /\ Spawned /\ ~prefetching /\ step < steps_total
          => consumed_steps + 1 = Limit

PoolInv == Ordered /\ EpochRoom /\ PoolPosition

\* Everything claimed lies below the shared counter, and a worker leaves its
\* loop, while the receiver is there, only when the counter has reached the limit.
Claimed ==
    /\ \A w \in Workers :
          /\ wpc[w] \in {"build", "send", "dead"} =>
                task[w] < next_task /\ task[w] < Limit
          /\ wpc[w] = "done" /\ ~ReceiverDropped => next_task >= Limit
    /\ \A k \in DOMAIN channel : channel[k] < next_task
    /\ \A i \in pending : i < next_task
    /\ Spawned => next_index <= next_task

-----------------------------------------------------------------------------
(* Type correctness. *)

\* The bounds used by the actions are natural numbers.
LEMMA BoundsAreNat ==
    ASSUME TypeOK
    PROVE  Capacity \in Nat /\ EpochSteps \in Nat
<1>1. Cardinality(Workers) \in Nat
  BY FS_CardinalityType, PrefetchAssumption
<1>2. QED
  BY <1>1, PrefetchAssumption DEF TypeOK, Capacity, EpochSteps, Larger, Smaller

\* What taking a message off the channel gives and leaves.
LEMMA Dequeue ==
    ASSUME NEW s \in Seq(Nat), s # <<>>
    PROVE  /\ Head(s) \in Nat
           /\ Head(s) = s[1]
           /\ 1 \in DOMAIN s
           /\ Tail(s) \in Seq(Nat)
           /\ Len(Tail(s)) = Len(s) - 1
           /\ \A k \in DOMAIN Tail(s) : k + 1 \in DOMAIN s /\ Tail(s)[k] = s[k + 1]
           /\ \A k \in DOMAIN s : k # 1 => k - 1 \in DOMAIN Tail(s)
<1>1. /\ Len(s) \in Nat \ {0}
      /\ DOMAIN s = 1 .. Len(s)
  BY EmptySeq, LenProperties
<1>2. /\ Head(s) \in Nat
      /\ Tail(s) \in Seq(Nat)
      /\ Len(Tail(s)) = Len(s) - 1
      /\ \A k \in 1 .. Len(Tail(s)) : Tail(s)[k] = s[k + 1]
  BY HeadTailProperties
<1>3. DOMAIN Tail(s) = 1 .. (Len(s) - 1)
  BY <1>2, LenProperties
<1>4. QED
  BY <1>1, <1>2, <1>3

\* What pushing a message onto the channel gives.
LEMMA Enqueue ==
    ASSUME NEW s \in Seq(Nat), NEW e \in Nat
    PROVE  /\ Append(s, e) \in Seq(Nat)
           /\ Len(Append(s, e)) = Len(s) + 1
           /\ DOMAIN Append(s, e) = DOMAIN s \cup {Len(s) + 1}
           /\ Len(s) + 1 \notin DOMAIN s
           /\ \A k \in DOMAIN s : Append(s, e)[k] = s[k]
           /\ Append(s, e)[Len(s) + 1] = e
<1>1. /\ Len(s) \in Nat
      /\ DOMAIN s = 1 .. Len(s)
  BY LenProperties
<1>2. /\ Append(s, e) \in Seq(Nat)
      /\ Len(Append(s, e)) = Len(s) + 1
      /\ \A k \in 1 .. Len(s) : Append(s, e)[k] = s[k]
      /\ Append(s, e)[Len(s) + 1] = e
  BY AppendProperties
<1>3. DOMAIN Append(s, e) = 1 .. (Len(s) + 1)
  BY <1>2, LenProperties
<1>4. QED
  BY <1>1, <1>2, <1>3

\* What counting a step does to the iterator and the history.
LEMMA CountType ==
    ASSUME TypeOK, NEW STATE b, b \in Nat, Count(b)
    PROVE  /\ cpc' \in {"idle", "ready"}
           /\ step' \in Nat
           /\ consumed_steps' = consumed_steps + 1
           /\ delivered' \in Seq(Nat)
           /\ UNCHANGED <<prefetching, steps_total>>
<1>1. Append(delivered, b) \in Seq(Nat)
  BY AppendProperties DEF TypeOK
<1>2. delivered' = Append(delivered, b) \/ delivered' = delivered
  BY DEF Count
<1>3. delivered' \in Seq(Nat)
  BY <1>1, <1>2 DEF TypeOK
<1>4. QED
  BY <1>3 DEF Count, TypeOK

\* The initial state is well typed.
LEMMA TypeInit == Init => TypeOK
<1>1. Cardinality(Workers) \in Nat
  BY FS_CardinalityType, PrefetchAssumption
<1>2. <<>> \in Seq(Nat) /\ Len(<<>>) = 0
  BY EmptySeq
<1>3. Capacity \in Nat
  BY <1>1, PrefetchAssumption DEF Capacity, Larger
<1>4. SUFFICES ASSUME Init
               PROVE  TypeOK
  OBVIOUS
<1>5. /\ channel \in Seq(Nat)
      /\ Len(channel) <= Capacity
      /\ delivered \in Seq(Nat)
  BY <1>2, <1>3, <1>4 DEF Init
<1>6. QED
  BY <1>4, <1>5, PrefetchAssumption DEF Init, TypeOK, WorkerPc, ConsumerPc

\* No action of a worker or of the training thread leaves the types.
LEMMA TypeStep == TypeOK /\ [Next]_vars => TypeOK'
<1> SUFFICES ASSUME TypeOK, [Next]_vars
             PROVE  TypeOK'
  OBVIOUS
<1> USE PrefetchAssumption, BoundsAreNat
    DEF TypeOK, WorkerPc, ConsumerPc, poolVars, iterVars
<1>1. ASSUME NEW w \in Workers, WorkerStep(w)
      PROVE  TypeOK'
  <2>1. CASE Claim(w)
    BY <2>1 DEF Claim
  <2>2. CASE Build(w)
    BY <2>2 DEF Build
  <2>3. CASE BuildPanics(w)
    BY <2>3 DEF BuildPanics
  <2>4. CASE Send(w)
    BY <2>4, Enqueue DEF Send, ChannelHasRoom
  <2>5. CASE SendFails(w)
    BY <2>5 DEF SendFails
  <2>6. QED
    BY <1>1, <2>1, <2>2, <2>3, <2>4, <2>5 DEF WorkerStep
<1>2. CASE Iter
  <2>1. CASE IterDirect
    BY <2>1 DEF IterDirect, NewIterator, UsePersistentPrefetch
  <2>2. CASE IterSpawn
    BY <2>2 DEF IterSpawn, NewIterator, UsePersistentPrefetch
  <2>3. CASE IterSeek
    BY <2>3 DEF IterSeek, NewIterator, SeekTo, UsePersistentPrefetch
  <2>4. QED
    BY <1>2, <2>1, <2>2, <2>3 DEF Iter
<1>3. CASE PrimeRecv
  <2>1. Head(channel) \in Nat /\ Tail(channel) \in Seq(Nat)
        /\ Len(Tail(channel)) = Len(channel) - 1 /\ Len(channel) \in Nat
    BY <1>3, Dequeue DEF PrimeRecv
  <2>2. channel' \in Seq(Nat) /\ Len(channel') <= Capacity
    BY <1>3, <2>1 DEF PrimeRecv
  <2>3. pending' \in SUBSET Nat
    BY <1>3, <2>1 DEF PrimeRecv
  <2>4. QED
    BY <1>3, <2>2, <2>3 DEF PrimeRecv
<1>4. CASE PrimeDone
  BY <1>4 DEF PrimeDone
<1>5. CASE CallNext
  BY <1>5 DEF CallNext
<1>6. CASE Recv
  <2>1. CASE SampleDirect
    <3>1. Count(consumed_steps) /\ consumed_steps \in Nat
      BY <2>1 DEF SampleDirect
    <3>2. /\ cpc' \in {"idle", "ready"}
          /\ step' \in Nat
          /\ consumed_steps' = consumed_steps + 1
          /\ delivered' \in Seq(Nat)
          /\ UNCHANGED <<prefetching, steps_total>>
      BY <3>1, CountType
    <3>3. QED
      BY <2>1, <3>2 DEF SampleDirect
  <2>2. CASE TakePending
    <3>1. Count(next_index) /\ next_index \in Nat
      BY <2>2 DEF TakePending
    <3>2. /\ cpc' \in {"idle", "ready"}
          /\ step' \in Nat
          /\ consumed_steps' = consumed_steps + 1
          /\ delivered' \in Seq(Nat)
          /\ UNCHANGED <<prefetching, steps_total>>
      BY <3>1, CountType
    <3>3. QED
      BY <2>2, <3>2 DEF TakePending
  <2>3. CASE RecvMatch
    <3>1. Head(channel) \in Nat /\ Tail(channel) \in Seq(Nat)
          /\ Len(Tail(channel)) = Len(channel) - 1 /\ Len(channel) \in Nat
      BY <2>3, Dequeue DEF RecvMatch
    <3>2. channel' \in Seq(Nat) /\ Len(channel') <= Capacity
      BY <2>3, <3>1 DEF RecvMatch
    <3>3. Count(Head(channel))
      BY <2>3 DEF RecvMatch
    <3>4. /\ cpc' \in {"idle", "ready"}
          /\ step' \in Nat
          /\ consumed_steps' = consumed_steps + 1
          /\ delivered' \in Seq(Nat)
          /\ UNCHANGED <<prefetching, steps_total>>
      BY <3>1, <3>3, CountType
    <3>5. QED
      BY <2>3, <3>2, <3>4 DEF RecvMatch
  <2>4. CASE RecvEarly
    <3>1. Head(channel) \in Nat /\ Tail(channel) \in Seq(Nat)
          /\ Len(Tail(channel)) = Len(channel) - 1 /\ Len(channel) \in Nat
      BY <2>4, Dequeue DEF RecvEarly
    <3>2. channel' \in Seq(Nat) /\ Len(channel') <= Capacity
      BY <2>4, <3>1 DEF RecvEarly
    <3>3. pending' \in SUBSET Nat
      BY <2>4, <3>1 DEF RecvEarly
    <3>4. QED
      BY <2>4, <3>2, <3>3 DEF RecvEarly
  <2>5. CASE RecvClosed
    BY <2>5 DEF RecvClosed
  <2>6. QED
    BY <1>6, <2>1, <2>2, <2>3, <2>4, <2>5 DEF Recv
<1>7. CASE DropIterator
  BY <1>7 DEF DropIterator
<1>8. CASE DropLoader
  BY <1>8 DEF DropLoader
<1>9. CASE Joined
  BY <1>9 DEF Joined
<1>10. CASE UNCHANGED vars
  BY <1>10 DEF vars, Capacity
<1>11. QED
  BY <1>1, <1>2, <1>3, <1>4, <1>5, <1>6, <1>7, <1>8, <1>9, <1>10 DEF Next

\* Every reachable state of the pool and its iterator is well typed, and the
\* channel stays within its capacity.
THEOREM TypeCorrect == Spec => []TypeOK
<1>1. QED
  BY TypeInit, TypeStep, PTL DEF Spec

-----------------------------------------------------------------------------
(* Order of delivery and position of the pool. *)

\* A batch counted below the limit is delivered; the batch of the next step
\* keeps the history in order.
LEMMA CountInOrder ==
    ASSUME TypeOK, Ordered, consumed_steps < Limit,
           NEW STATE b, b = consumed_steps, Count(b)
    PROVE  /\ Ordered'
           /\ cpc' = "ready"
           /\ step' = step + 1
           /\ consumed_steps' = consumed_steps + 1
           /\ UNCHANGED <<prefetching, steps_total>>
<1>1. /\ delivered' = Append(delivered, b)
      /\ cpc' = "ready"
      /\ step' = step + 1
      /\ consumed_steps' = consumed_steps + 1
      /\ UNCHANGED <<prefetching, steps_total>>
  BY PrefetchAssumption DEF Count, TypeOK
<1>2. /\ Len(delivered) \in Nat
      /\ DOMAIN delivered = 1 .. Len(delivered)
  BY LenProperties DEF TypeOK
<1>3. /\ Len(delivered') = Len(delivered) + 1
      /\ DOMAIN delivered' = DOMAIN delivered \cup {Len(delivered) + 1}
      /\ \A k \in DOMAIN delivered : delivered'[k] = delivered[k]
      /\ delivered'[Len(delivered) + 1] = b
  <2>1. b \in Nat
    BY DEF TypeOK
  <2>2. QED
    BY <1>1, <2>1, Enqueue DEF TypeOK
<1>4. InOrder'
  <2>1. \A k \in DOMAIN delivered : delivered[k] = Start + k - 1
    BY DEF Ordered, InOrder
  <2>2. \A k \in DOMAIN delivered' : delivered'[k] = Start + k - 1
    BY <1>2, <1>3, <2>1, PrefetchAssumption DEF Ordered
  <2>3. QED
    BY <2>2 DEF InOrder
<1>5. consumed_steps' = Start + Len(delivered') /\ consumed_steps' <= Limit
  BY <1>1, <1>2, <1>3, PrefetchAssumption DEF Ordered, TypeOK
<1>6. QED
  BY <1>1, <1>4, <1>5 DEF Ordered

\* The fresh loader is in order and has no pool.
LEMMA PoolInit == Init => PoolInv
<1> SUFFICES ASSUME Init
             PROVE  PoolInv
  OBVIOUS
<1>1. /\ Len(delivered) = 0
      /\ DOMAIN delivered = {}
  BY DEF Init
<1>2. Ordered
  BY <1>1, PrefetchAssumption DEF Init, Ordered, InOrder
<1>3. EpochRoom
  BY DEF Init, EpochRoom, Iterating
<1>4. PoolPosition
  BY PrefetchAssumption DEF Init, PoolPosition, Iterating, Spawned
<1>5. QED
  BY <1>2, <1>3, <1>4 DEF PoolInv

\* A waiting training thread is owed a step below the limit.
LEMMA OwedStep ==
    ASSUME TypeOK, PoolInv, cpc = "recv"
    PROVE  /\ consumed_steps < Limit
           /\ step < steps_total
           /\ consumed_steps + (steps_total - step) <= Limit
  BY PrefetchAssumption DEF TypeOK, PoolInv, EpochRoom, Iterating

\* The three ways next() obtains a batch keep the pool's position.
LEMMA PoolDeliver ==
    ASSUME TypeOK, PoolInv, SampleDirect \/ TakePending \/ RecvMatch
    PROVE  PoolInv'
<1>1. cpc = "recv"
  BY DEF SampleDirect, TakePending, RecvMatch
<1>2. /\ consumed_steps < Limit
      /\ step < steps_total
      /\ consumed_steps + (steps_total - step) <= Limit
  BY <1>1, OwedStep
<1>3. Count(consumed_steps)
  <2>1. prefetching => next_index = consumed_steps
    BY <1>1 DEF PoolInv, PoolPosition, Iterating
  <2>2. QED
    BY <2>1 DEF SampleDirect, TakePending, RecvMatch
<1>4. /\ Ordered'
      /\ cpc' = "ready"
      /\ step' = step + 1
      /\ consumed_steps' = consumed_steps + 1
      /\ UNCHANGED <<prefetching, steps_total>>
  BY <1>2, <1>3, CountInOrder DEF PoolInv
<1>5. EpochRoom'
  BY <1>2, <1>4, PrefetchAssumption DEF EpochRoom, TypeOK
<1>6. wpc' = wpc
  BY DEF SampleDirect, TakePending, RecvMatch, poolVars
<1>7. CASE ~prefetching
  <2>1. next_index' = next_index /\ channel' = channel /\ pending' = pending
    BY <1>7 DEF SampleDirect, TakePending, RecvMatch, poolVars
  <2>2. Spawned => consumed_steps' = Limit
    BY <1>1, <1>2, <1>4, <1>7 DEF PoolInv, PoolPosition, Iterating
  <2>3. Spawned /\ step' < steps_total' => FALSE
    BY <1>2, <1>4, <2>2, PrefetchAssumption DEF TypeOK
  <2>4. PoolPosition'
    BY <1>4, <1>6, <1>7, <2>1, <2>2, <2>3
       DEF PoolInv, PoolPosition, Iterating, Spawned
  <2>5. QED
    BY <1>4, <1>5, <2>4 DEF PoolInv
<1>8. CASE prefetching
  <2>1. Spawned /\ next_index = consumed_steps
    BY <1>1, <1>8 DEF PoolInv, PoolPosition, Iterating
  <2>2. next_index' = next_index + 1
    BY <1>8 DEF SampleDirect, TakePending, RecvMatch
  <2>3. PoolPosition'
    BY <1>4, <1>6, <1>8, <2>1, <2>2
       DEF PoolInv, PoolPosition, Iterating, Spawned
  <2>4. QED
    BY <1>4, <1>5, <2>3 DEF PoolInv
<1>9. QED
  BY <1>7, <1>8 DEF TypeOK

\* Opening an iterator: the length of the epoch, and where the pool stands.
LEMMA PoolIter ==
    ASSUME TypeOK, PoolInv, Iter
    PROVE  PoolInv'
<1>1. /\ step' = 0
      /\ steps_total' = EpochSteps
      /\ prefetching' = UsePersistentPrefetch
      /\ UNCHANGED <<consumed_steps, delivered>>
  BY DEF Iter, IterDirect, IterSpawn, IterSeek, NewIterator
<1>2. Ordered'
  BY <1>1 DEF PoolInv, Ordered, InOrder
<1>3. /\ EpochSteps \in Nat
      /\ consumed_steps + EpochSteps <= Limit
      /\ StepsPerEpoch > 1 /\ 0 < EpochSteps /\ EpochSteps <= 1
            => consumed_steps + 1 = Limit
      /\ EpochSteps > 1 => StepsPerEpoch > 1
      /\ consumed_steps = Limit => EpochSteps = 0
  <2>1. consumed_steps \in Nat /\ consumed_steps <= Limit
    BY DEF PoolInv, Ordered, TypeOK
  <2>2. CASE consumed_steps >= Limit
    BY <2>1, <2>2, PrefetchAssumption DEF EpochSteps
  <2>3. CASE ~(consumed_steps >= Limit) /\ Limit - consumed_steps < StepsPerEpoch
    <3>1. EpochSteps = Limit - consumed_steps
      BY <2>3 DEF EpochSteps, Smaller
    <3>2. QED
      BY <2>1, <2>3, <3>1, PrefetchAssumption
  <2>4. CASE ~(consumed_steps >= Limit) /\ ~(Limit - consumed_steps < StepsPerEpoch)
    <3>1. EpochSteps = StepsPerEpoch
      BY <2>4 DEF EpochSteps, Smaller
    <3>2. QED
      BY <2>1, <2>4, <3>1, PrefetchAssumption
  <2>5. QED
    BY <2>2, <2>3, <2>4
<1>4. cpc' \in {"prime", "ready"}
  BY DEF Iter, IterDirect, IterSpawn, IterSeek
<1>5. EpochRoom'
  BY <1>1, <1>3, <1>4, PrefetchAssumption DEF EpochRoom, TypeOK
<1>6. CASE IterDirect
  <2>1. /\ ~UsePersistentPrefetch
        /\ cpc' = "ready"
        /\ UNCHANGED <<wpc, channel, pending, next_index>>
    BY <1>6 DEF IterDirect, poolVars
  <2>2. Spawned /\ step' < steps_total' => consumed_steps' + 1 = Limit
    BY <1>1, <1>3, <2>1, PrefetchAssumption
       DEF PoolInv, PoolPosition, UsePersistentPrefetch
  <2>3. PoolPosition'
    BY <1>1, <2>1, <2>2 DEF PoolInv, PoolPosition, Iterating, Spawned
  <2>4. QED
    BY <1>2, <1>5, <2>3 DEF PoolInv
<1>7. CASE IterSpawn
  <2>1. /\ UsePersistentPrefetch
        /\ wpc' = [w \in Workers |-> "claim"]
        /\ next_index' = consumed_steps
    BY <1>7 DEF IterSpawn
  <2>2. Spawned'
    BY <2>1 DEF Spawned
  <2>3. Depth > 0 /\ StepsPerEpoch > 1
    BY <1>3, <2>1 DEF UsePersistentPrefetch
  <2>4. PoolPosition'
    BY <1>1, <2>1, <2>2, <2>3 DEF PoolPosition, Spawned
  <2>5. QED
    BY <1>2, <1>5, <2>4 DEF PoolInv
<1>8. CASE IterSeek
  <2>1. /\ UsePersistentPrefetch
        /\ Spawned
        /\ next_index' = consumed_steps
        /\ cpc' = "ready"
        /\ UNCHANGED <<wpc, channel>>
    BY <1>8 DEF IterSeek, SeekTo, poolVars
  <2>2. PoolPosition'
    BY <1>1, <2>1 DEF PoolInv, PoolPosition, Spawned
  <2>3. QED
    BY <1>2, <1>5, <2>2 DEF PoolInv
<1>9. QED
  BY <1>6, <1>7, <1>8 DEF Iter

\* The steps of the worker threads touch neither the iterator nor the position.
LEMMA PoolWorker ==
    ASSUME TypeOK, PoolInv, NEW w \in Workers, WorkerStep(w)
    PROVE  PoolInv'
<1>1. /\ wpc[w] \in {"claim", "build", "send"}
      /\ \E pc \in WorkerPc \ {"none"} : wpc' = [wpc EXCEPT ![w] = pc]
      /\ UNCHANGED <<pending, next_index, cpc, iterVars, consumed_steps, delivered>>
  BY DEF WorkerStep, Claim, Build, BuildPanics, Send, SendFails, WorkerPc
<1>2. Spawned
  BY <1>1 DEF PoolInv, PoolPosition
<1>3. Spawned'
  BY <1>1, <1>2 DEF Spawned, TypeOK
<1>4. QED
  BY <1>1, <1>2, <1>3
     DEF PoolInv, Ordered, InOrder, EpochRoom, PoolPosition, Iterating, iterVars

\* Every step keeps the order and the position.
LEMMA PoolStep == TypeOK /\ PoolInv /\ [Next]_vars => PoolInv'
<1> SUFFICES ASSUME TypeOK, PoolInv, [Next]_vars
             PROVE  PoolInv'
  OBVIOUS
<1> USE DEF PoolInv, Ordered, InOrder, EpochRoom, PoolPosition, Iterating,
            Spawned, iterVars, poolVars
<1>1. CASE \E w \in Workers : WorkerStep(w)
  BY <1>1, PoolWorker
<1>2. CASE Iter
  BY <1>2, PoolIter
<1>3. CASE PrimeRecv
  <2>1. Spawned
    BY <1>3 DEF PrimeRecv
  <2>2. QED
    BY <1>3, <2>1 DEF PrimeRecv
<1>4. CASE PrimeDone
  BY <1>4 DEF PrimeDone
<1>5. CASE CallNext
  BY <1>5 DEF CallNext
<1>6. CASE Recv
  <2>1. CASE SampleDirect \/ TakePending \/ RecvMatch
    BY <2>1, PoolDeliver
  <2>2. CASE RecvEarly
    <3>1. Spawned
      BY <2>2 DEF RecvEarly
    <3>2. QED
      BY <2>2, <3>1 DEF RecvEarly
  <2>3. CASE RecvClosed
    BY <2>3 DEF RecvClosed
  <2>4. QED
    BY <1>6, <2>1, <2>2, <2>3 DEF Recv
<1>7. CASE DropIterator
  BY <1>7 DEF DropIterator
<1>8. CASE DropLoader
  BY <1>8 DEF DropLoader
<1>9. CASE Joined
  BY <1>9 DEF Joined
<1>10. CASE UNCHANGED vars
  BY <1>10 DEF vars
<1>11. QED
  BY <1>1, <1>2, <1>3, <1>4, <1>5, <1>6, <1>7, <1>8, <1>9, <1>10 DEF Next

LEMMA PoolCorrect == Spec => []PoolInv
<1>1. QED
  BY TypeCorrect, PoolInit, PoolStep, PTL DEF Spec

\* However the workers interleave, die, and however the epochs are cut, training
\* receives the batches of Start, Start + 1, ... in order and exactly once.
THEOREM DeliveryInOrder == Spec => []InOrder
<1>1. PoolInv => InOrder
  BY DEF PoolInv, Ordered
<1>2. QED
  BY <1>1, PoolCorrect, PTL

-----------------------------------------------------------------------------
(* Every claimed step is accounted for. *)

AccountInv == Claimed /\ Accounting

LEMMA AccountInit == Init => AccountInv
<1> SUFFICES ASSUME Init
             PROVE  AccountInv
  OBVIOUS
<1>1. /\ DOMAIN channel = {}
      /\ pending = {}
      /\ \A w \in Workers : wpc[w] = "none"
  BY DEF Init
<1>2. ~Spawned
  BY <1>1, PrefetchAssumption DEF Spawned
<1>3. QED
  BY <1>1, <1>2 DEF AccountInv, Claimed, Accounting

\* A step that leaves the pool, the channel and the position alone.
LEMMA AccountQuiet ==
    ASSUME AccountInv, UNCHANGED <<poolVars, pending, next_index>>,
           ReceiverDropped => ReceiverDropped'
    PROVE  AccountInv'
  BY DEF AccountInv, Claimed, Accounting, NoStepLost, NoStepTwice, InHand, Busy,
         Lost, InChannel, Spawned, poolVars

\* A claim takes a number nobody else has.
LEMMA AccountClaim ==
    ASSUME TypeOK, PoolInv, AccountInv, NEW w \in Workers, Claim(w)
    PROVE  AccountInv'
<1> USE PrefetchAssumption
<1>1. /\ wpc[w] = "claim"
      /\ next_task' = next_task + 1
      /\ UNCHANGED <<channel, pending, next_index, cpc>>
      /\ next_task \in Nat
      /\ Spawned <=> Spawned'
      /\ ReceiverDropped <=> ReceiverDropped'
  BY DEF Claim, TypeOK, PoolInv, PoolPosition, Spawned, ReceiverDropped
<1>2. CASE next_task >= Limit
  <2>1. wpc' = [wpc EXCEPT ![w] = "done"] /\ task' = task
    BY <1>2 DEF Claim
  <2>2. Claimed'
    BY <1>1, <1>2, <2>1 DEF AccountInv, Claimed, TypeOK
  <2>3. ASSUME Spawned', ~ReceiverDropped'
        PROVE  NoStepLost' /\ NoStepTwice'
    <3>1. NoStepLost /\ NoStepTwice
      BY <1>1, <2>3 DEF AccountInv, Accounting
    <3>2. NoStepLost'
      <4>1. \A v \in Workers : /\ Busy(v) => Busy(v)' /\ task'[v] = task[v]
                               /\ wpc[v] = "dead" => wpc'[v] = "dead"
        BY <1>1, <2>1 DEF Busy, TypeOK
      <4>2. \A i : InHand(i) => InHand(i)'
        BY <4>1 DEF InHand
      <4>3. \A i : Lost(i) => Lost(i)'
        BY <4>1, <2>1 DEF Lost
      <4>4. \A i : InChannel(i) => InChannel(i)'
        BY <1>1 DEF InChannel
      <4>5. \A i \in next_index' .. (next_task' - 1) : i < Limit =>
               i \in next_index .. (next_task - 1)
        BY <1>1, <1>2 DEF TypeOK
      <4>6. QED
        BY <1>1, <3>1, <4>2, <4>3, <4>4, <4>5 DEF NoStepLost
    <3>3. \A v \in Workers : Busy(v)' => Busy(v) /\ task'[v] = task[v]
      BY <1>1, <2>1 DEF Busy, TypeOK
    <3>4. NoStepTwice'
      BY <1>1, <3>1, <3>3 DEF NoStepTwice, InChannel, TypeOK
    <3>5. QED
      BY <3>2, <3>4
  <2>4. QED
    BY <2>2, <2>3 DEF AccountInv, Accounting
<1>3. CASE ~(next_task >= Limit)
  <2>1. /\ wpc' = [wpc EXCEPT ![w] = "build"]
        /\ task' = [task EXCEPT ![w] = next_task]
    BY <1>3 DEF Claim
  <2>2. Claimed'
    BY <1>1, <1>3, <2>1 DEF AccountInv, Claimed, TypeOK
  <2>3. ASSUME Spawned', ~ReceiverDropped'
        PROVE  NoStepLost' /\ NoStepTwice'
    <3>1. NoStepLost /\ NoStepTwice
      BY <1>1, <2>3 DEF AccountInv, Accounting
    <3>2. next_index <= next_task
      BY <1>1, <1>3, <2>3 DEF AccountInv, Claimed
    <3>3. NoStepLost'
      <4>1. \A v \in Workers : /\ Busy(v) => Busy(v)' /\ task'[v] = task[v]
                               /\ wpc[v] = "dead" => wpc'[v] = "dead" /\ task'[v] = task[v]
        BY <1>1, <2>1 DEF Busy, TypeOK
      <4>2. \A i : InHand(i) => InHand(i)'
        BY <4>1 DEF InHand
      <4>3. \A i : Lost(i) => Lost(i)'
        BY <4>1 DEF Lost
      <4>4. \A i : InChannel(i) => InChannel(i)'
        BY <1>1 DEF InChannel
      <4>5. \A n : n = next_task => InHand(n)'
        BY <1>1, <2>1 DEF InHand, Busy, TypeOK
      <4>6. \A i \in next_index' .. (next_task' - 1) :
               i = next_task \/ i \in next_index .. (next_task - 1)
        BY <1>1 DEF TypeOK
      <4>7. QED
        BY <1>1, <3>1, <4>2, <4>3, <4>4, <4>5, <4>6 DEF NoStepLost
    <3>4. \A v \in Workers : Busy(v)' =>
             IF v = w THEN task'[v] = next_task
             ELSE Busy(v) /\ task'[v] = task[v] /\ task[v] < next_task
      BY <1>1, <2>1 DEF Busy, TypeOK, AccountInv, Claimed
    <3>5. /\ \A k \in DOMAIN channel : channel[k] # next_task
          /\ next_task \notin pending
      BY <1>1 DEF AccountInv, Claimed
    <3>6. NoStepTwice'
      <4>1. \A v \in Workers : Busy(v)' =>
               /\ task'[v] \in next_index .. (next_task' - 1)
               /\ task'[v] \notin pending
               /\ ~InChannel(task'[v])
        BY <1>1, <3>1, <3>2, <3>4, <3>5 DEF NoStepTwice, InChannel, TypeOK
      <4>2. \A u, v \in Workers :
               Busy(u)' /\ Busy(v)' /\ task'[u] = task'[v] => u = v
        BY <1>1, <3>1, <3>4 DEF NoStepTwice, TypeOK
      <4>3. QED
        BY <1>1, <3>1, <4>1, <4>2 DEF NoStepTwice, InChannel
    <3>7. QED
      BY <3>3, <3>6
  <2>4. QED
    BY <2>2, <2>3 DEF AccountInv, Accounting
<1>4. QED
  BY <1>2, <1>3

\* Building, dying, sending and giving up move a step or leave it where it is.
LEMMA AccountWorker ==
    ASSUME TypeOK, PoolInv, AccountInv, NEW w \in Workers, WorkerStep(w)
    PROVE  AccountInv'
<1> USE PrefetchAssumption
<1>1. CASE Claim(w)
  BY <1>1, AccountClaim
<1>2. CASE Build(w)
  <2>1. /\ UNCHANGED <<next_task, task, channel, pending, next_index, cpc>>
        /\ wpc[w] = "build"
        /\ wpc' = [wpc EXCEPT ![w] = "send"]
    BY <1>2 DEF Build
  <2>2. \A v \in Workers : /\ Busy(v)' <=> Busy(v)
                           /\ wpc'[v] = "dead" <=> wpc[v] = "dead"
                           /\ wpc'[v] = "done" <=> wpc[v] = "done"
                           /\ wpc'[v] = "none" <=> wpc[v] = "none"
    BY <2>1 DEF Busy, TypeOK
  <2>3. Claimed'
    BY <2>1, <2>2 DEF AccountInv, Claimed, ReceiverDropped, Spawned, Busy
  <2>4. Accounting'
    BY <2>1, <2>2 DEF AccountInv, Accounting, NoStepLost, NoStepTwice, InHand,
                      Lost, InChannel, Spawned, ReceiverDropped
  <2>5. QED
    BY <2>3, <2>4 DEF AccountInv
<1>3. CASE BuildPanics(w)
  <2>1. /\ UNCHANGED <<next_task, task, channel, pending, next_index, cpc>>
        /\ wpc[w] = "build"
        /\ wpc' = [wpc EXCEPT ![w] = "dead"]
    BY <1>3 DEF BuildPanics
  <2>2. \A v \in Workers : /\ Busy(v)' => Busy(v)
                           /\ Busy(v) => Busy(v)' \/ wpc'[v] = "dead"
                           /\ wpc[v] = "dead" => wpc'[v] = "dead"
                           /\ wpc'[v] = "dead" => wpc[v] \in {"build", "dead"}
                           /\ wpc'[v] = "done" => wpc[v] = "done"
                           /\ wpc'[v] = "none" <=> wpc[v] = "none"
    BY <2>1 DEF Busy, TypeOK
  <2>3. Claimed'
    BY <2>1, <2>2 DEF AccountInv, Claimed, ReceiverDropped, Spawned, Busy
  <2>4. ASSUME Spawned', ~ReceiverDropped'
        PROVE  NoStepLost' /\ NoStepTwice'
    <3>1. NoStepLost /\ NoStepTwice
      BY <2>1, <2>2, <2>4 DEF AccountInv, Accounting, Spawned, ReceiverDropped
    <3>2. \A i : InHand(i) \/ Lost(i) => InHand(i)' \/ Lost(i)'
      BY <2>1, <2>2 DEF InHand, Lost
    <3>3. NoStepLost'
      BY <2>1, <3>1, <3>2 DEF NoStepLost, InChannel
    <3>4. NoStepTwice'
      BY <2>1, <2>2, <3>1 DEF NoStepTwice, InChannel
    <3>5. QED
      BY <3>3, <3>4
  <2>5. QED
    BY <2>3, <2>4 DEF AccountInv, Accounting
<1>4. CASE Send(w)
  <2> DEFINE i0 == task[w]
             n == Len(channel) + 1
  <2>1. /\ UNCHANGED <<next_task, task, pending, next_index, cpc>>
        /\ wpc[w] = "send"
        /\ ~ReceiverDropped
        /\ wpc' = [wpc EXCEPT ![w] = "claim"]
        /\ channel' = Append(channel, i0)
    BY <1>4 DEF Send
  <2>2. /\ DOMAIN channel' = DOMAIN channel \cup {n}
        /\ n \notin DOMAIN channel
        /\ \A k \in DOMAIN channel : channel'[k] = channel[k]
        /\ channel'[n] = i0
    <3>1. i0 \in Nat /\ channel \in Seq(Nat)
      BY DEF TypeOK
    <3>2. QED
      BY <2>1, <3>1, Enqueue
  <2>3. \A v \in Workers : /\ Busy(v)' <=> Busy(v) /\ v # w
                           /\ wpc'[v] = "dead" <=> wpc[v] = "dead"
                           /\ wpc'[v] = "done" <=> wpc[v] = "done"
                           /\ wpc'[v] = "none" <=> wpc[v] = "none"
    BY <2>1 DEF Busy, TypeOK
  <2>4. Busy(w) /\ Spawned
    BY <2>1 DEF Busy, PoolInv, PoolPosition
  <2>5. i0 < next_task
    BY <2>1 DEF AccountInv, Claimed
  <2> HIDE DEF i0, n
  <2>6. Claimed'
    BY <2>1, <2>2, <2>3, <2>5
       DEF AccountInv, Claimed, ReceiverDropped, Spawned, Busy
  <2>7. NoStepLost /\ NoStepTwice
    BY <2>1, <2>4 DEF AccountInv, Accounting
  <2>8. NoStepLost'
    <3>1. \A i : InChannel(i) \/ i = i0 => InChannel(i)'
      BY <2>2 DEF InChannel
    <3>2. \A i : InHand(i) => InHand(i)' \/ i = i0
      BY <2>1, <2>3 DEF InHand, i0
    <3>3. \A i : Lost(i) => Lost(i)'
      BY <2>1, <2>3 DEF Lost
    <3>4. QED
      BY <2>1, <2>7, <3>1, <3>2, <3>3 DEF NoStepLost
  <2>9. NoStepTwice'
    <3>1. i0 >= next_index /\ i0 \notin pending /\ ~InChannel(i0)
      BY <2>4, <2>7 DEF NoStepTwice, i0, TypeOK
    <3>2. \A v \in Workers : Busy(v)' => Busy(v) /\ task[v] # i0
      BY <2>3, <2>4, <2>7 DEF NoStepTwice, i0
    <3>3. \A k \in DOMAIN channel : channel[k] # i0
      BY <3>1 DEF InChannel
    <3>4. \A i : InChannel(i)' => InChannel(i) \/ i = i0
      BY <2>2 DEF InChannel
    <3>5. QED
      BY <2>1, <2>2, <2>7, <3>1, <3>2, <3>3, <3>4 DEF NoStepTwice
  <2>10. QED
    BY <2>6, <2>8, <2>9 DEF AccountInv, Accounting
<1>5. CASE SendFails(w)
  <2>1. /\ UNCHANGED <<next_task, task, channel, pending, next_index, cpc>>
        /\ wpc[w] = "send"
        /\ ReceiverDropped
        /\ wpc' = [wpc EXCEPT ![w] = "done"]
    BY <1>5 DEF SendFails
  <2>2. ReceiverDropped'
    BY <2>1 DEF ReceiverDropped
  <2>3. \A v \in Workers :
           /\ wpc'[v] \in {"build", "send", "dead"} =>
                 wpc[v] \in {"build", "send", "dead"}
           /\ wpc'[v] = "none" <=> wpc[v] = "none"
    BY <2>1 DEF TypeOK
  <2>4. Claimed'
    BY <2>1, <2>2, <2>3 DEF AccountInv, Claimed, Spawned
  <2>5. QED
    BY <2>2, <2>4 DEF AccountInv, Accounting
<1>6. QED
  BY <1>1, <1>2, <1>3, <1>4, <1>5 DEF WorkerStep

\* A message taken off the channel and kept in `pending` changes place only.
LEMMA AccountStash ==
    ASSUME TypeOK, PoolInv, AccountInv, PrimeRecv \/ RecvEarly
    PROVE  AccountInv'
<1> DEFINE h == Head(channel)
<1>1. /\ UNCHANGED <<next_task, wpc, task, next_index, cpc>>
      /\ cpc \in {"prime", "recv"}
      /\ channel # <<>>
      /\ channel' = Tail(channel)
      /\ pending' = pending \cup {h}
  BY DEF PrimeRecv, RecvEarly
<1>2. /\ h \in Nat
      /\ 1 \in DOMAIN channel
      /\ h = channel[1]
      /\ DOMAIN channel \subseteq Nat
      /\ \A k \in DOMAIN channel' :
            k \in Nat \ {0} /\ k + 1 \in DOMAIN channel /\ channel'[k] = channel[k + 1]
      /\ \A k \in DOMAIN channel : k # 1 => k - 1 \in DOMAIN channel'
  <2>1. channel \in Seq(Nat) /\ Tail(channel) \in Seq(Nat)
    BY <1>1, Dequeue DEF TypeOK
  <2>2. DOMAIN channel \subseteq Nat /\ DOMAIN Tail(channel) \subseteq Nat \ {0}
    BY <2>1, LenProperties
  <2>3. QED
    BY <1>1, <2>1, <2>2, Dequeue
<1> HIDE DEF h
<1>3. /\ ~ReceiverDropped
      /\ Spawned
      /\ NoStepLost /\ NoStepTwice
  <2>1. ~ReceiverDropped
    BY <1>1 DEF ReceiverDropped
  <2>2. Spawned
    BY <1>1, <1>2 DEF PoolInv, PoolPosition
  <2>3. QED
    BY <2>1, <2>2 DEF AccountInv, Accounting
<1>4. Claimed'
  BY <1>1, <1>2 DEF AccountInv, Claimed, ReceiverDropped, Spawned
<1>5. \A i : InChannel(i) => InChannel(i)' \/ i = h
  BY <1>2 DEF InChannel
<1>6. \A i : InChannel(i)' => InChannel(i)
  BY <1>2 DEF InChannel
<1>7. InChannel(h)
  BY <1>2 DEF InChannel
<1>8. NoStepLost'
  BY <1>1, <1>3, <1>5 DEF NoStepLost, InHand, Lost, Busy
<1>9. NoStepTwice'
  <2>1. \A k, l \in DOMAIN channel' : channel'[k] = channel'[l] => k = l
    BY <1>2, <1>3 DEF NoStepTwice
  <2>2. \A k \in DOMAIN channel' :
           channel'[k] >= next_index' /\ channel'[k] \notin pending'
    <3>1. SUFFICES ASSUME NEW k \in DOMAIN channel'
                   PROVE  channel'[k] >= next_index' /\ channel'[k] \notin pending'
      OBVIOUS
    <3>2. channel[k + 1] >= next_index /\ channel[k + 1] \notin pending
      BY <1>2, <1>3, <3>1 DEF NoStepTwice
    <3>3. channel'[k] # h
      BY <1>2, <1>3, <3>1 DEF NoStepTwice
    <3>4. QED
      BY <1>1, <1>2, <3>1, <3>2, <3>3
  <2>3. h >= next_index
    BY <1>2, <1>3 DEF NoStepTwice
  <2>4. \A w \in Workers : Busy(w) => task[w] # h
    BY <1>3, <1>7 DEF NoStepTwice
  <2>5. QED
    BY <1>1, <1>3, <1>6, <2>1, <2>2, <2>3, <2>4 DEF NoStepTwice, Busy
<1>10. QED
  BY <1>4, <1>8, <1>9 DEF AccountInv, Accounting

\* The batch the training thread takes was at one place, and leaves it.
LEMMA AccountTake ==
    ASSUME TypeOK, PoolInv, AccountInv, TakePending \/ RecvMatch
    PROVE  AccountInv'
<1>1. /\ UNCHANGED <<next_task, wpc, task>>
      /\ cpc = "recv"
      /\ prefetching
      /\ next_index' = next_index + 1
      /\ cpc' \in {"idle", "ready"}
      /\ next_index \in Nat /\ next_task \in Nat
  BY DEF TakePending, RecvMatch, Count, poolVars, TypeOK
<1>2. /\ ~ReceiverDropped /\ ~ReceiverDropped'
      /\ Spawned /\ Spawned'
      /\ NoStepLost /\ NoStepTwice
  <2>1. ~ReceiverDropped /\ ~ReceiverDropped'
    BY <1>1 DEF ReceiverDropped
  <2>2. Spawned
    BY <1>1 DEF PoolInv, PoolPosition, Iterating
  <2>3. Spawned'
    BY <1>1, <2>2 DEF Spawned
  <2>4. QED
    BY <2>1, <2>2, <2>3 DEF AccountInv, Accounting
<1>3. CASE TakePending
  <2>1. /\ channel' = channel
        /\ next_index \in pending
        /\ pending' = pending \ {next_index}
    BY <1>3 DEF TakePending, poolVars
  <2>2. Claimed'
    BY <1>1, <1>2, <2>1 DEF AccountInv, Claimed, TypeOK
  <2>3. NoStepLost'
    BY <1>1, <1>2, <2>1 DEF NoStepLost, InHand, Lost, InChannel, Busy
  <2>4. NoStepTwice'
    <3>1. \A w \in Workers : Busy(w) => task[w] # next_index
      BY <1>2, <2>1 DEF NoStepTwice
    <3>2. \A k \in DOMAIN channel : channel[k] # next_index /\ channel[k] \in Nat
      <4>1. channel \in [1 .. Len(channel) -> Nat]
        BY LenProperties DEF TypeOK
      <4>2. QED
        BY <1>2, <2>1, <4>1 DEF NoStepTwice
    <3>3. \A w \in Workers : task[w] \in Nat
      BY DEF TypeOK
    <3>4. pending \subseteq Nat
      BY DEF TypeOK
    <3>5. QED
      BY <1>1, <1>2, <2>1, <3>1, <3>2, <3>3, <3>4 DEF NoStepTwice, Busy, InChannel
  <2>5. QED
    BY <2>2, <2>3, <2>4 DEF AccountInv, Accounting
<1>4. CASE RecvMatch
  <2>1. /\ channel # <<>>
        /\ channel' = Tail(channel)
        /\ Head(channel) = next_index
        /\ next_index \notin pending
        /\ pending' = pending
    BY <1>4 DEF RecvMatch
  <2>2. /\ 1 \in DOMAIN channel
        /\ channel[1] = next_index
        /\ DOMAIN channel \subseteq Nat
        /\ \A k \in DOMAIN channel : channel[k] \in Nat
        /\ \A k \in DOMAIN channel' :
              k \in Nat \ {0} /\ k + 1 \in DOMAIN channel /\ channel'[k] = channel[k + 1]
        /\ \A k \in DOMAIN channel : k # 1 => k - 1 \in DOMAIN channel'
    <3>1. channel \in Seq(Nat) /\ Tail(channel) \in Seq(Nat)
      BY <2>1, Dequeue DEF TypeOK
    <3>2. /\ DOMAIN channel \subseteq Nat
          /\ DOMAIN Tail(channel) \subseteq Nat \ {0}
          /\ \A k \in DOMAIN channel : channel[k] \in Nat
      BY <3>1, LenProperties
    <3>3. QED
      BY <2>1, <3>1, <3>2, Dequeue
  <2>3. Claimed'
    BY <1>1, <1>2, <2>1, <2>2 DEF AccountInv, Claimed
  <2>4. \A i : InChannel(i) => InChannel(i)' \/ i = next_index
    BY <2>2 DEF InChannel
  <2>5. \A i : InChannel(i)' => InChannel(i)
    BY <2>2 DEF InChannel
  <2>6. NoStepLost'
    BY <1>1, <1>2, <2>1, <2>4 DEF NoStepLost, InHand, Lost, Busy
  <2>7. NoStepTwice'
    <3>1. InChannel(next_index)
      BY <2>2 DEF InChannel
    <3>2. \A w \in Workers : Busy(w) => task[w] # next_index /\ task[w] \in Nat
      BY <1>2, <3>1 DEF NoStepTwice, TypeOK
    <3>3. \A k, l \in DOMAIN channel' : channel'[k] = channel'[l] => k = l
      BY <1>2, <2>2 DEF NoStepTwice
    <3>4. \A k \in DOMAIN channel' :
             channel'[k] >= next_index + 1 /\ channel'[k] \notin pending
      <4>1. SUFFICES ASSUME NEW k \in DOMAIN channel'
                     PROVE  channel'[k] >= next_index + 1 /\ channel'[k] \notin pending
        OBVIOUS
      <4>2. /\ channel'[k] = channel[k + 1]
            /\ channel[k + 1] >= next_index
            /\ channel[k + 1] \notin pending
            /\ channel[k + 1] # next_index
            /\ channel[k + 1] \in Nat
        BY <1>2, <2>2, <4>1 DEF NoStepTwice
      <4>3. QED
        BY <1>1, <4>2
    <3>5. \A i \in pending : i >= next_index + 1
      BY <1>1, <1>2, <2>1 DEF NoStepTwice, TypeOK
    <3>6. QED
      BY <1>1, <1>2, <2>1, <2>5, <3>2, <3>3, <3>4, <3>5 DEF NoStepTwice, Busy
  <2>8. QED
    BY <2>3, <2>6, <2>7 DEF AccountInv, Accounting
<1>5. QED
  BY <1>3, <1>4

\* Opening an iterator: spawning starts an empty pool at the loader's position,
\* and seeking finds the pool there already.
LEMMA AccountIter ==
    ASSUME TypeOK, PoolInv, AccountInv, Iter
    PROVE  AccountInv'
<1>1. CASE IterDirect
  <2>1. /\ UNCHANGED <<poolVars, pending, next_index>>
        /\ ~ReceiverDropped
    BY <1>1 DEF IterDirect, ReceiverDropped
  <2>2. QED
    BY <2>1, AccountQuiet
<1>2. CASE IterSpawn
  <2>1. /\ ~Spawned
        /\ next_task' = consumed_steps
        /\ next_index' = consumed_steps
        /\ wpc' = [w \in Workers |-> "claim"]
        /\ UNCHANGED <<task, channel, pending>>
    BY <1>2 DEF IterSpawn
  <2>2. /\ pending' = {}
        /\ DOMAIN channel' = {}
        /\ consumed_steps \in Nat
    BY <2>1 DEF PoolInv, PoolPosition, TypeOK
  <2>3. Claimed'
    BY <2>1, <2>2 DEF Claimed
  <2>4. NoStepLost'
    BY <2>1, <2>2 DEF NoStepLost
  <2>5. NoStepTwice'
    BY <2>1, <2>2 DEF NoStepTwice, Busy
  <2>6. QED
    BY <2>3, <2>4, <2>5 DEF AccountInv, Accounting
<1>3. CASE IterSeek
  <2>1. /\ cpc = "idle" /\ cpc' = "ready"
        /\ Spawned
        /\ EpochSteps > 1
        /\ next_index' = consumed_steps
        /\ pending' = {i \in pending : i >= consumed_steps}
        /\ UNCHANGED poolVars
    BY <1>3 DEF IterSeek, SeekTo, UsePersistentPrefetch
  <2>2. consumed_steps # Limit
    BY <2>1, PrefetchAssumption DEF EpochSteps, TypeOK
  <2>3. next_index' = next_index
    BY <2>1, <2>2 DEF PoolInv, PoolPosition
  <2>4. ~ReceiverDropped /\ ~ReceiverDropped'
    BY <2>1 DEF ReceiverDropped
  <2>5. pending' = pending
    BY <2>1, <2>3, <2>4 DEF AccountInv, Accounting, NoStepTwice
  <2>6. QED
    BY <2>1, <2>3, <2>4, <2>5, AccountQuiet
<1>4. QED
  BY <1>1, <1>2, <1>3 DEF Iter

\* Every step keeps the account.
LEMMA AccountStep == TypeOK /\ PoolInv /\ AccountInv /\ [Next]_vars => AccountInv'
<1> SUFFICES ASSUME TypeOK, PoolInv, AccountInv, [Next]_vars
             PROVE  AccountInv'
  OBVIOUS
<1>1. CASE \E w \in Workers : WorkerStep(w)
  BY <1>1, AccountWorker
<1>2. CASE Iter
  BY <1>2, AccountIter
<1>3. CASE PrimeRecv \/ RecvEarly
  BY <1>3, AccountStash
<1>4. CASE TakePending \/ RecvMatch
  BY <1>4, AccountTake
<1>5. CASE PrimeDone \/ CallNext \/ SampleDirect \/ RecvClosed \/ DropIterator
  <2>1. UNCHANGED <<poolVars, pending, next_index>> /\ ~ReceiverDropped
    BY <1>5 DEF PrimeDone, CallNext, SampleDirect, RecvClosed, DropIterator,
                ReceiverDropped
  <2>2. QED
    BY <2>1, AccountQuiet
<1>6. CASE DropLoader
  <2>1. /\ ReceiverDropped'
        /\ DOMAIN channel' = {}
        /\ UNCHANGED <<next_task, wpc, task, pending, next_index>>
        /\ ~ReceiverDropped
    BY <1>6 DEF DropLoader, ReceiverDropped
  <2>2. Claimed'
    BY <2>1 DEF AccountInv, Claimed, Spawned
  <2>3. QED
    BY <2>1, <2>2 DEF AccountInv, Accounting
<1>7. CASE Joined
  <2>1. UNCHANGED <<poolVars, pending, next_index>> /\ ReceiverDropped'
    BY <1>7 DEF Joined, ReceiverDropped
  <2>2. QED
    BY <2>1, AccountQuiet
<1>8. CASE UNCHANGED vars
  <2>1. UNCHANGED <<poolVars, pending, next_index>> /\ UNCHANGED cpc
    BY <1>8 DEF vars, poolVars
  <2>2. QED
    BY <2>1, AccountQuiet DEF ReceiverDropped
<1>9. QED
  BY <1>1, <1>2, <1>3, <1>4, <1>5, <1>6, <1>7, <1>8 DEF Next, Recv

LEMMA AccountCorrect == Spec => []AccountInv
<1>1. QED
  BY TypeCorrect, PoolCorrect, AccountInit, AccountStep, PTL DEF Spec

\* As long as the loader exists, every step a worker has claimed and training has
\* not received is at exactly one place, or died with the worker that had it.
THEOREM StepsAccountedFor == Spec => []Accounting
<1>1. AccountInv => Accounting
  BY DEF AccountInv
<1>2. QED
  BY <1>1, AccountCorrect, PTL

-----------------------------------------------------------------------------
(* When an epoch may end short, and the promise the pool implements. *)

\* If the channel closes under a waiting training thread, the step it waits for
\* was claimed by a worker that died.
LEMMA ClosedMeansLost ==
    ASSUME TypeOK, PoolInv, AccountInv, RecvClosed
    PROVE  WorkerLost
<1> SUFFICES ASSUME ~WorkerLost
             PROVE  FALSE
  OBVIOUS
<1>1. /\ cpc = "recv"
      /\ prefetching
      /\ next_index \notin pending
      /\ channel = <<>>
      /\ \A w \in Workers : Exited(w)
  BY DEF RecvClosed, ChannelClosed
<1>2. Spawned /\ next_index = consumed_steps /\ ~ReceiverDropped
  BY <1>1 DEF PoolInv, PoolPosition, Iterating, ReceiverDropped
<1>3. next_index < Limit
  BY <1>1, <1>2, OwedStep
<1>4. \A w \in Workers : wpc[w] = "done"
  BY <1>1, <1>2 DEF Exited, Spawned, WorkerLost
<1>5. next_task >= Limit
  BY <1>2, <1>4, PrefetchAssumption DEF AccountInv, Claimed
<1>6. next_index \in next_index .. (next_task - 1)
  BY <1>3, <1>5, PrefetchAssumption DEF TypeOK
<1>7. InHand(next_index) \/ Lost(next_index) \/ InChannel(next_index)
  BY <1>1, <1>2, <1>3, <1>6 DEF AccountInv, Accounting, NoStepLost
<1>8. QED
  BY <1>1, <1>4, <1>7 DEF InHand, Lost, InChannel, Busy

\* next() never ends an epoch before its length unless a worker has died.
THEOREM ShortEpochOnlyAfterPanic == Spec => ShortEpochMeansLostWorker
<1>1. TypeOK /\ PoolInv /\ AccountInv /\ [Next]_vars
        => [cpc = "recv" /\ cpc' = "idle" => WorkerLost]_vars
  <2> SUFFICES ASSUME TypeOK, PoolInv, AccountInv, Next,
                      cpc = "recv", cpc' = "idle"
               PROVE  WorkerLost
    OBVIOUS
  <2>1. CASE RecvClosed
    BY <2>1, ClosedMeansLost
  <2>2. CASE SampleDirect \/ TakePending \/ RecvMatch
    <3>1. consumed_steps < Limit
      BY OwedStep
    <3>2. cpc' = "ready"
      BY <2>2, <3>1, PrefetchAssumption
         DEF SampleDirect, TakePending, RecvMatch, Count, TypeOK
    <3>3. QED
      BY <3>2
  <2>3. QED
    BY <2>1, <2>2
       DEF Next, WorkerStep, Claim, Build, BuildPanics, Send, SendFails, Iter,
           IterDirect, IterSpawn, IterSeek, PrimeRecv, PrimeDone, CallNext,
           Recv, RecvEarly, DropIterator, DropLoader, Joined
<1>2. QED
  BY <1>1, TypeCorrect, PoolCorrect, AccountCorrect, PTL
     DEF Spec, ShortEpochMeansLostWorker

LEMMA FeedInit == Init => Feed!Init
  BY PrefetchAssumption DEF Init, Feed!Init, Phase, Left, WorkerLost

\* A delivery of the pool is an answer of the feed.
LEMMA FeedAnswer ==
    ASSUME TypeOK, PoolInv, SampleDirect \/ TakePending \/ RecvMatch
    PROVE  Feed!Answer
<1>1. cpc = "recv" /\ wpc' = wpc
  BY DEF SampleDirect, TakePending, RecvMatch, poolVars
<1>2. consumed_steps < Limit /\ step < steps_total
  BY <1>1, OwedStep
<1>3. Count(consumed_steps)
  <2>1. prefetching => next_index = consumed_steps
    BY <1>1 DEF PoolInv, PoolPosition, Iterating
  <2>2. QED
    BY <2>1 DEF SampleDirect, TakePending, RecvMatch
<1>4. /\ delivered' = Append(delivered, consumed_steps)
      /\ step' = step + 1
      /\ cpc' = "ready"
      /\ steps_total' = steps_total
  BY <1>2, <1>3, PrefetchAssumption DEF Count, TypeOK
<1>5. delivered' = Append(delivered, Feed!Position)
  BY <1>4 DEF PoolInv, Ordered, Feed!Position
<1>6. Left' = Left - 1
  BY <1>4 DEF Left, TypeOK
<1>7. Phase = "asked" /\ Phase' = "open" /\ WorkerLost' = WorkerLost
  BY <1>1, <1>4 DEF Phase, WorkerLost
<1>8. QED
  BY <1>5, <1>6, <1>7 DEF Feed!Answer

\* Opening an iterator opens an epoch of the feed, of the same length.
LEMMA FeedOpen ==
    ASSUME TypeOK, PoolInv, Iter
    PROVE  Feed!Open
<1>1. /\ cpc = "idle"
      /\ cpc' \in {"prime", "ready"}
      /\ step' = 0
      /\ steps_total' = EpochSteps
      /\ delivered' = delivered
  BY DEF Iter, IterDirect, IterSpawn, IterSeek, NewIterator
<1>2. WorkerLost' = WorkerLost
  <2>1. CASE IterSpawn
    <3>1. \A w \in Workers : wpc[w] = "none" /\ wpc'[w] = "claim"
      BY <2>1 DEF IterSpawn, PoolInv, PoolPosition
    <3>2. QED
      BY <3>1 DEF WorkerLost
  <2>2. CASE IterDirect \/ IterSeek
    BY <2>2 DEF IterDirect, IterSeek, poolVars, WorkerLost
  <2>3. QED
    BY <2>1, <2>2 DEF Iter
<1>3. consumed_steps = Feed!Position /\ consumed_steps <= Limit
  BY DEF PoolInv, Ordered, Feed!Position
<1>4. EpochSteps = Feed!EpochLength
  BY <1>3, PrefetchAssumption DEF EpochSteps, Smaller, Feed!EpochLength, TypeOK
<1>5. Left' = Feed!EpochLength
  <2>1. EpochSteps \in Nat
    BY BoundsAreNat
  <2>2. QED
    BY <1>1, <1>4, <2>1 DEF Left
<1>6. Phase = "idle" /\ Phase' = "open"
  BY <1>1 DEF Phase
<1>7. QED
  BY <1>1, <1>2, <1>5, <1>6 DEF Feed!Open

\* Every step of the pool is a step of the feed or leaves the feed unchanged.
LEMMA FeedStep ==
    TypeOK /\ PoolInv /\ AccountInv /\ [Next]_vars => [Feed!Next]_(Feed!vars)
<1> SUFFICES ASSUME TypeOK, PoolInv, AccountInv, [Next]_vars
             PROVE  Feed!Next \/ UNCHANGED Feed!vars
  BY DEF Feed!vars
<1> USE DEF Phase, Left, Feed!vars
<1>1. ASSUME NEW w \in Workers, WorkerStep(w)
      PROVE  Feed!Next \/ UNCHANGED Feed!vars
  <2>1. UNCHANGED <<delivered, step, steps_total, cpc>>
    BY <1>1 DEF WorkerStep, Claim, Build, BuildPanics, Send, SendFails, iterVars
  <2>2. CASE BuildPanics(w)
    <3>1. WorkerLost'
      BY <2>2 DEF BuildPanics, WorkerLost, TypeOK
    <3>2. WorkerLost => UNCHANGED WorkerLost
      BY <3>1 DEF WorkerLost
    <3>3. ~WorkerLost => Feed!Fail
      BY <2>1, <3>1 DEF Feed!Fail
    <3>4. QED
      BY <2>1, <3>2, <3>3 DEF Feed!Next
  <2>3. CASE Claim(w) \/ Build(w) \/ Send(w) \/ SendFails(w)
    <3>1. \A v \in Workers : wpc'[v] = "dead" <=> wpc[v] = "dead"
      BY <2>3 DEF Claim, Build, Send, SendFails, TypeOK
    <3>2. WorkerLost' = WorkerLost
      BY <3>1 DEF WorkerLost
    <3>3. QED
      BY <2>1, <3>2
  <2>4. QED
    BY <1>1, <2>2, <2>3 DEF WorkerStep
<1>2. CASE Iter
  BY <1>2, FeedOpen DEF Feed!Next
<1>3. CASE SampleDirect \/ TakePending \/ RecvMatch
  BY <1>3, FeedAnswer DEF Feed!Next
<1>4. CASE CallNext
  <2>1. Feed!Ask
    BY <1>4 DEF CallNext, Feed!Ask, WorkerLost, poolVars, iterVars, TypeOK
  <2>2. QED
    BY <2>1 DEF Feed!Next
<1>5. CASE RecvClosed
  <2>1. WorkerLost
    BY <1>5, ClosedMeansLost
  <2>2. Feed!CutShort
    BY <1>5, <2>1 DEF RecvClosed, Feed!CutShort, WorkerLost, poolVars, iterVars
  <2>3. QED
    BY <2>2 DEF Feed!Next
<1>6. CASE DropIterator
  <2>1. Feed!Close
    BY <1>6 DEF DropIterator, Feed!Close, WorkerLost, poolVars, iterVars
  <2>2. QED
    BY <2>1 DEF Feed!Next
<1>7. CASE PrimeRecv \/ PrimeDone \/ RecvEarly \/ DropLoader \/ Joined
  BY <1>7 DEF PrimeRecv, PrimeDone, RecvEarly, DropLoader, Joined, WorkerLost,
              poolVars, iterVars
<1>8. CASE UNCHANGED vars
  BY <1>8 DEF vars, WorkerLost
<1>9. QED
  BY <1>1, <1>2, <1>3, <1>4, <1>5, <1>6, <1>7, <1>8 DEF Next, Recv

\* The pool of threads implements the sequential feed: a user of the loader
\* cannot tell the two apart by what it is handed.
THEOREM PoolImplementsFeed == Spec => FeedSafety
<1>1. QED
  BY FeedInit, FeedStep, TypeCorrect, PoolCorrect, AccountCorrect, PTL
     DEF Spec, FeedSafety, Feed!Spec

-----------------------------------------------------------------------------
(* No deadlock. *)

\* What one of the threads inside a call, or one of the workers, can do next.
WorkerCanGo ==
    \E w \in Workers :
        \/ wpc[w] \in {"claim", "build"}
        \/ wpc[w] = "send" /\ (ReceiverDropped \/ ChannelHasRoom)
PrimingCanGo == Primed \/ channel # << >> \/ ChannelClosed
NextCanGo ==
    ~prefetching \/ next_index \in pending \/ channel # << >> \/ ChannelClosed
DropCanGo == \A w \in Workers : Exited(w)

\* Whatever the training thread is inside of, it or a worker can go on.
NeverStuck ==
    /\ cpc = "prime" => WorkerCanGo \/ PrimingCanGo
    /\ cpc = "recv" => WorkerCanGo \/ NextCanGo
    /\ cpc = "joining" => WorkerCanGo \/ DropCanGo

\* Priming, next() and drop never leave everybody waiting for everybody, for any number
\* of workers and depth and whoever panics: a full channel has a receiver that takes
\* from it or that is gone, and an empty one a worker that can fill it or no sender.
THEOREM PoolNeverDeadlocks == Spec => []NeverStuck
<1>1. TypeOK => NeverStuck
  <2> SUFFICES ASSUME TypeOK, ~WorkerCanGo
               PROVE  NeverStuck
    BY DEF NeverStuck
  <2>1. \A w \in Workers :
            Exited(w) \/ (wpc[w] = "send" /\ ~ReceiverDropped /\ ~ChannelHasRoom)
    BY DEF WorkerCanGo, Exited, TypeOK, WorkerPc
  <2>2. CASE \A w \in Workers : Exited(w)
    BY <2>2 DEF NeverStuck, PrimingCanGo, NextCanGo, DropCanGo, ChannelClosed
  <2>3. CASE ~ReceiverDropped /\ ~ChannelHasRoom
    <3>1. Capacity \in Nat /\ Capacity > 0
      <4>1. Cardinality(Workers) \in Nat \ {0}
        BY FS_CardinalityType, FS_EmptySet, PrefetchAssumption
      <4> QED
        BY <4>1, PrefetchAssumption DEF Capacity, Larger
    <3>2. Len(channel) > 0
      BY <2>3, <3>1 DEF ChannelHasRoom, TypeOK
    <3>3. channel # << >>
      BY <3>2
    <3> QED
      BY <2>3, <3>3 DEF NeverStuck, PrimingCanGo, NextCanGo, ReceiverDropped
  <2> QED
    BY <2>1, <2>2, <2>3
<1> QED
  BY <1>1, TypeCorrect, PTL

=============================================================================
