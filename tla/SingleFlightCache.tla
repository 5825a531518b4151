-------------------------- MODULE SingleFlightCache --------------------------
(***************************************************************************)
(* The two in-memory caches of generated Ruliad documents                  *)
(* (burn_dragon_language/src/dataset/universality.rs): without source      *)
(* selection the epoch document cache, which prefetch threads fill ahead   *)
(* of time; with it the live document batch cache.  Both are a map behind  *)
(* a mutex, a `building` set that makes generation single-flight, and a    *)
(* condition variable on which the other callers of the same key wait.     *)
(* Generation runs outside the lock and may panic.  Documents are          *)
(* deterministic in their key, so a cached value is represented by it.     *)
(***************************************************************************)
EXTENDS Naturals, Sequences, FiniteSets, SequencesExt

CONSTANTS Threads,      \* threads that ask for documents
          Keys,         \* epochs, or (step, bucket) pairs
          Faulty,       \* keys whose generation may panic in a calling thread
          FaultyAhead,  \* keys whose generation may panic in a prefetch thread
          Size,         \* documents (or bytes) of a key's value
          SizeLimit,    \* cache_limit, or byte_limit
          EntryLimit    \* entry_limit of the live batch cache

ASSUME CacheAssumption ==
    /\ Keys # {}
    /\ Faulty \subseteq Keys
    /\ FaultyAhead \subseteq Keys
    /\ Size \in [Keys -> Nat]
    /\ SizeLimit \in Nat
    /\ EntryLimit \in Nat \ {0}

VARIABLES
    source_selection,  \* source_selection.is_some(): the live batch cache
    entries,    \* the cached keys, least recently used first
    total,      \* total_cached_documents, or total_bytes
    building,   \* the keys being generated
    pc,         \* where each thread stands
    want,       \* the key each thread asks for
    prefetcher  \* the keys a prefetch thread is generating

cacheVars == <<entries, total, building, pc, want, prefetcher>>
vars == <<source_selection, cacheVars>>

\* "lookup": about to take the lock; "wait": in Condvar::wait; "build": generating
\* outside the lock; "spawn": key claimed, prefetch thread not yet started;
\* "dead": the thread has panicked.
ThreadPc == {"idle", "lookup", "wait", "build", "spawn", "dead"}

Cached == {entries[i] : i \in DOMAIN entries}

Init ==
    /\ source_selection \in BOOLEAN
    /\ entries = <<>>
    /\ total = 0
    /\ building = {}
    /\ pc = [t \in Threads |-> "idle"]
    /\ want = [t \in Threads |-> CHOOSE k \in Keys : TRUE]  \* read by no idle thread
    /\ prefetcher = {}

-----------------------------------------------------------------------------
(* Recency and eviction. *)

\* Mutant: a use appends the key and leaves its old place in the order.
Reappend(s, k) == Append(s, k)

\* A key is in the map once: its new tick takes the place of the old one.
Touch(s, k) == Append(RemoveFirst(s, k), k)

\* The sizes of the values in s, one key at a time.
TotalSize(s) ==
    LET sum[i \in 0 .. Len(s)] == IF i = 0 THEN 0 ELSE sum[i - 1] + Size[s[i]]
    IN  sum[Len(s)]

\* Mutant: the cache is trimmed only when it is over by more than one.
LaxLimit(s, size) == size > SizeLimit + 1

\* When the while loop goes on, for a cache that holds s and counts `size`.
Overfull(s, size) ==
    IF source_selection
    THEN Len(s) > EntryLimit \/ (size > SizeLimit /\ Len(s) > 1)
    ELSE size > SizeLimit

\* The total once the first i entries are gone (saturating_sub).
Remaining(s, i, size) ==
    LET gone == TotalSize(SubSeq(s, 1, i))
    IN  IF gone > size THEN 0 ELSE size - gone

\* How many least recently used entries the while loop drops. The entry just
\* stored can be one of them.
Evicted(s, size) ==
    LET fits(i) == ~Overfull(SubSeq(s, i + 1, Len(s)), Remaining(s, i, size))
    IN  CHOOSE i \in 0 .. Len(s) : fits(i) /\ \A j \in 0 .. i - 1 : ~fits(j)

-----------------------------------------------------------------------------
(* Condvar::notify_all, when thread t itself moves to `next`. *)

WakeAll(t, next) ==
    pc' = [u \in Threads |-> IF u = t THEN next
                             ELSE IF pc[u] = "wait" THEN "lookup" ELSE pc[u]]

WakeAllFromOutside ==
    pc' = [u \in Threads |-> IF pc[u] = "wait" THEN "lookup" ELSE pc[u]]

-----------------------------------------------------------------------------
(* epoch_documents, and generate_source_bucket_documents up to its build. *)

Call(t, k) ==
    /\ pc[t] = "idle"
    /\ pc' = [pc EXCEPT ![t] = "lookup"]
    /\ want' = [want EXCEPT ![t] = k]
    /\ UNCHANGED <<entries, total, building, prefetcher>>

Hit(t) ==
    /\ pc[t] = "lookup"
    /\ want[t] \in Cached
    /\ entries' = Touch(entries, want[t])
    /\ pc' = [pc EXCEPT ![t] = "idle"]
    /\ UNCHANGED <<total, building, want, prefetcher>>

\* Mutant: a miss builds even though another thread is building the key.
BuildAnyway(t) ==
    /\ pc[t] = "lookup"
    /\ want[t] \notin Cached
    /\ building' = building \cup {want[t]}
    /\ pc' = [pc EXCEPT ![t] = "build"]
    /\ UNCHANGED <<entries, total, want, prefetcher>>

StartBuild(t) ==
    /\ pc[t] = "lookup"
    /\ want[t] \notin Cached
    /\ want[t] \notin building
    /\ building' = building \cup {want[t]}
    /\ pc' = [pc EXCEPT ![t] = "build"]
    /\ UNCHANGED <<entries, total, want, prefetcher>>

Wait(t) ==
    /\ pc[t] = "lookup"
    /\ want[t] \notin Cached
    /\ want[t] \in building
    /\ pc' = [pc EXCEPT ![t] = "wait"]
    /\ UNCHANGED <<entries, total, building, want, prefetcher>>

SpuriousWakeup(t) ==
    /\ pc[t] = "wait"
    /\ pc' = [pc EXCEPT ![t] = "lookup"]
    /\ UNCHANGED <<entries, total, building, want, prefetcher>>

\* Mutant: what is evicted is not taken off the total.
InsertUncounted(k) ==
    LET stored == Touch(entries, k)
        size   == TotalSize(stored)
    IN  /\ building' = building \ {k}
        /\ entries' = SubSeq(stored, Evicted(stored, size) + 1, Len(stored))
        /\ total' = size

\* The value is stored as the most recent entry, the cache trimmed, and every
\* waiting thread woken, in one critical section. The epoch cache recounts its
\* documents; the live batch cache adds to its running total.
Insert(k) ==
    LET stored  == Touch(entries, k)
        replaced == IF k \in Cached THEN Size[k] ELSE 0
        size    == IF source_selection
                   THEN (IF replaced > total THEN 0 ELSE total - replaced) + Size[k]
                   ELSE TotalSize(stored)
        dropped == Evicted(stored, size)
    IN  /\ building' = building \ {k}
        /\ entries' = SubSeq(stored, dropped + 1, Len(stored))
        /\ total' = Remaining(stored, dropped, size)

\* The builder returns the documents it generated, whatever eviction did.
Store(t) ==
    /\ pc[t] = "build"
    /\ Insert(want[t])
    /\ WakeAll(t, "idle")
    /\ UNCHANGED <<want, prefetcher>>

\* Mutant: the panic handler forgets the key in `building`.
PanicLeavesMark(t) ==
    /\ pc[t] = "build"
    /\ want[t] \in Faulty
    /\ WakeAll(t, "dead")
    /\ UNCHANGED <<entries, total, building, want, prefetcher>>

\* Mutant: the panic handler wakes nobody.
PanicSilently(t) ==
    /\ pc[t] = "build"
    /\ want[t] \in Faulty
    /\ building' = building \ {want[t]}
    /\ pc' = [pc EXCEPT ![t] = "dead"]
    /\ UNCHANGED <<entries, total, want, prefetcher>>

\* catch_unwind, clear_building_epoch, resume_unwind.
BuildPanics(t) ==
    /\ pc[t] = "build"
    /\ want[t] \in Faulty
    /\ building' = building \ {want[t]}
    /\ WakeAll(t, "dead")
    /\ UNCHANGED <<entries, total, want, prefetcher>>

-----------------------------------------------------------------------------
(* prefetch_epoch and the thread it spawns. *)

\* Mutant: only the mark is looked at before a prefetch.
PrefetchAnyway(t, k) ==
    /\ ~source_selection
    /\ pc[t] = "idle"
    /\ k \notin building
    /\ building' = building \cup {k}
    /\ want' = [want EXCEPT ![t] = k]
    /\ pc' = [pc EXCEPT ![t] = "spawn"]
    /\ UNCHANGED <<entries, total, prefetcher>>

\* Nothing to do when the epoch is cached or being built.
CallPrefetch(t, k) ==
    /\ ~source_selection
    /\ pc[t] = "idle"
    /\ k \notin Cached
    /\ k \notin building
    /\ building' = building \cup {k}
    /\ want' = [want EXCEPT ![t] = k]
    /\ pc' = [pc EXCEPT ![t] = "spawn"]
    /\ UNCHANGED <<entries, total, prefetcher>>

Spawn(t) ==
    /\ pc[t] = "spawn"
    /\ prefetcher' = prefetcher \cup {want[t]}
    /\ pc' = [pc EXCEPT ![t] = "idle"]
    /\ UNCHANGED <<entries, total, building, want>>

\* thread::Builder::spawn fails: the key is cleared and the caller panics.
SpawnFails(t) ==
    /\ pc[t] = "spawn"
    /\ want[t] \in Faulty
    /\ building' = building \ {want[t]}
    /\ WakeAll(t, "dead")
    /\ UNCHANGED <<entries, total, want, prefetcher>>

PrefetchStore(k) ==
    /\ k \in prefetcher
    /\ Insert(k)
    /\ prefetcher' = prefetcher \ {k}
    /\ WakeAllFromOutside
    /\ UNCHANGED want

\* The prefetch thread dies; nobody joins it.
PrefetchPanics(k) ==
    /\ k \in prefetcher
    /\ k \in FaultyAhead
    /\ building' = building \ {k}
    /\ prefetcher' = prefetcher \ {k}
    /\ WakeAllFromOutside
    /\ UNCHANGED <<entries, total, want>>

Lookup(t) == Hit(t) \/ StartBuild(t) \/ Wait(t)
Finish(t) == Store(t) \/ BuildPanics(t)
FinishSpawn(t) == Spawn(t) \/ SpawnFails(t)
FinishPrefetch(k) == PrefetchStore(k) \/ PrefetchPanics(k)

Next ==
    /\ \/ \E t \in Threads, k \in Keys : Call(t, k) \/ CallPrefetch(t, k)
       \/ \E t \in Threads :
             Lookup(t) \/ Finish(t) \/ FinishSpawn(t) \/ SpuriousWakeup(t)
       \/ \E k \in Keys : FinishPrefetch(k)
    /\ UNCHANGED source_selection

Spec == Init /\ [][Next]_vars

(***************************************************************************)
(* Generation terminates and the lock is eventually granted.  Whether a    *)
(* thread makes another call is up to it.                                  *)
(***************************************************************************)
Fairness ==
    /\ \A t \in Threads :
          WF_cacheVars(Lookup(t) \/ Finish(t) \/ FinishSpawn(t))
    /\ \A k \in Keys : WF_cacheVars(FinishPrefetch(k))

FairSpec == Spec /\ Fairness

-----------------------------------------------------------------------------
(* Properties. *)

\* Types; no key is cached twice.
TypeOK ==
    /\ source_selection \in BOOLEAN
    /\ entries \in Seq(Keys)
    /\ \A i, j \in DOMAIN entries : entries[i] = entries[j] => i = j
    /\ total \in Nat
    /\ building \in SUBSET Keys
    /\ pc \in [Threads -> ThreadPc]
    /\ want \in [Threads -> Keys]
    /\ prefetcher \in SUBSET Keys

Builders(k) ==
    {t \in Threads : pc[t] \in {"build", "spawn"} /\ want[t] = k}

\* A key is marked exactly while one thread, caller or prefetcher, is busy with
\* it: no document set is generated twice at once, and no mark outlives its
\* builder, whichever way the builder ends.
SingleFlight ==
    \A k \in Keys :
        /\ \A t, u \in Builders(k) : t = u
        /\ k \in prefetcher => Builders(k) = {}
        /\ k \in building <=> (k \in prefetcher \/ Builders(k) # {})

\* A thread sleeps only while its key is being built: the wakeup is never lost
\* and a panicking builder leaves nobody asleep.
NoOrphanWait == \A t \in Threads : pc[t] = "wait" => want[t] \in building

\* Between critical sections the cache is within its limit; a live batch cache
\* may exceed the byte limit with the single entry it always keeps.
WithinLimit ==
    \/ Len(entries) <= 1 /\ source_selection
    \/ /\ TotalSize(entries) <= SizeLimit
       /\ source_selection => Len(entries) <= EntryLimit

\* The running total is the size of what is cached: the saturating arithmetic
\* never hides a drift that would evict too much, or too little, from then on.
TotalIsExact == total = TotalSize(entries)

\* A key being built is not in the cache: eviction, and not a second copy, is the
\* only reason to generate documents again.
NeverRebuiltWhileCached == building \cap Cached = {}

\* Documents are lost: dropped from the cache, too large to stay in it, or never
\* made because their builder panicked.
Loses ==
    \/ ~(Cached \subseteq Cached')
    \/ ~(building \subseteq building' \cup Cached')

\* Every call returns, or its own thread panics, unless documents are lost again
\* and again: the death of another builder, a spurious wakeup or a full cache
\* delays a caller and never strands it.
CallsReturn ==
    <>[][~Loses]_vars =>
        \A t \in Threads :
            (pc[t] \notin {"idle", "dead"}) ~> (pc[t] \in {"idle", "dead"})
=============================================================================
