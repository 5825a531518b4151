----------------------- MODULE SingleFlightCacheProofs -----------------------
(***************************************************************************)
(* Theorems about SingleFlightCache, for any threads, keys, sizes and      *)
(* limits: however callers, prefetch threads and panics interleave, a key  *)
(* is generated by one thread at a time and nobody sleeps for nothing; and *)
(* the cache stays within its limits, with an exact total.                 *)
(***************************************************************************)
EXTENDS SingleFlightCache, WellFoundedInduction, TLAPS

\* The types of the variables the marks are about.
FlightTypes ==
    /\ building \in SUBSET Keys
    /\ pc \in [Threads -> ThreadPc]
    /\ want \in [Threads -> Keys]
    /\ prefetcher \in SUBSET Keys

\* The thread has the key marked for itself.
Builds(t) == pc[t] \in {"build", "spawn"}

\* The steps by what they do to the marks.

\* A thread claims a key that nobody has marked.
Claims(t, k, next) ==
    /\ ~Builds(t)
    /\ k \notin building
    /\ building' = building \cup {k}
    /\ pc' = [pc EXCEPT ![t] = next]
    /\ next \in {"build", "spawn"}
    /\ want' = [want EXCEPT ![t] = k]
    /\ UNCHANGED prefetcher

\* A builder gives its key up, whether it has the documents or has panicked.
Releases(t, next) ==
    /\ Builds(t)
    /\ building' = building \ {want[t]}
    /\ WakeAll(t, next)
    /\ next \in {"idle", "dead"}
    /\ UNCHANGED <<want, prefetcher>>

\* A prefetch thread gives its key up.
ReleasesAhead(k) ==
    /\ k \in prefetcher
    /\ building' = building \ {k}
    /\ prefetcher' = prefetcher \ {k}
    /\ WakeAllFromOutside
    /\ UNCHANGED want

\* A thread goes on without touching a mark.
Moves(t, next) ==
    /\ ~Builds(t)
    /\ next \in {"lookup", "idle", "wait"}
    /\ pc' = [pc EXCEPT ![t] = next]
    /\ next = "wait" => want[t] \in building /\ UNCHANGED want
    /\ want' \in [Threads -> Keys]
    /\ \A u \in Threads \ {t} : want'[u] = want[u]
    /\ UNCHANGED <<building, prefetcher>>

-----------------------------------------------------------------------------
(* Every step is of one of these kinds. *)

\* What each action of the cache does to the marks.
LEMMA StepKinds ==
    ASSUME FlightTypes, Next
    PROVE  \/ \E t \in Threads, k \in Keys, p \in {"build", "spawn"} : Claims(t, k, p)
           \/ \E t \in Threads, p \in {"idle", "dead"} : Releases(t, p)
           \/ \E k \in Keys : ReleasesAhead(k)
           \/ \E t \in Threads : Spawn(t)
           \/ \E t \in Threads, p \in {"lookup", "idle", "wait"} : Moves(t, p)
<1> USE DEF FlightTypes
<1>1. ASSUME NEW t \in Threads, NEW k \in Keys, Call(t, k)
      PROVE  Moves(t, "lookup")
  BY <1>1 DEF Call, Moves, Builds
<1>2. ASSUME NEW t \in Threads, NEW k \in Keys, CallPrefetch(t, k)
      PROVE  Claims(t, k, "spawn")
  BY <1>2 DEF CallPrefetch, Claims, Builds
<1>3. ASSUME NEW t \in Threads, Hit(t)
      PROVE  Moves(t, "idle")
  BY <1>3 DEF Hit, Moves, Builds
<1>4. ASSUME NEW t \in Threads, StartBuild(t)
      PROVE  Claims(t, want[t], "build")
  BY <1>4 DEF StartBuild, Claims, Builds
<1>5. ASSUME NEW t \in Threads, Wait(t)
      PROVE  Moves(t, "wait")
  BY <1>5 DEF Wait, Moves, Builds
<1>6. ASSUME NEW t \in Threads, SpuriousWakeup(t)
      PROVE  Moves(t, "lookup")
  BY <1>6 DEF SpuriousWakeup, Moves, Builds
<1>7. ASSUME NEW t \in Threads, Store(t)
      PROVE  Releases(t, "idle")
  <2>1. building' = building \ {want[t]}
    BY <1>7 DEF Store, Insert
  <2>2. QED
    BY <1>7, <2>1 DEF Store, Releases, Builds
<1>8. ASSUME NEW t \in Threads, BuildPanics(t) \/ SpawnFails(t)
      PROVE  Releases(t, "dead")
  BY <1>8 DEF BuildPanics, SpawnFails, Releases, Builds
<1>9. ASSUME NEW k \in Keys, FinishPrefetch(k)
      PROVE  ReleasesAhead(k)
  <2>1. building' = building \ {k}
    BY <1>9 DEF FinishPrefetch, PrefetchStore, PrefetchPanics, Insert
  <2>2. QED
    BY <1>9, <2>1 DEF FinishPrefetch, PrefetchStore, PrefetchPanics, ReleasesAhead
<1>10. ASSUME NEW t \in Threads, StartBuild(t)
       PROVE  want[t] \in Keys
  OBVIOUS
<1>11. QED
  BY <1>1, <1>2, <1>3, <1>4, <1>5, <1>6, <1>7, <1>8, <1>9, <1>10
     DEF Next, Lookup, Finish, FinishSpawn

-----------------------------------------------------------------------------
(* Types. *)

LEMMA TypesInit == Init => FlightTypes
<1>1. Keys # {}
  BY CacheAssumption
<1>2. (CHOOSE k \in Keys : TRUE) \in Keys
  BY <1>1
<1>3. QED
  BY <1>2 DEF Init, FlightTypes, ThreadPc

LEMMA TypesStep == FlightTypes /\ [Next]_vars => FlightTypes'
<1>1. ASSUME FlightTypes, Next
      PROVE  FlightTypes'
  <2> USE <1>1 DEF FlightTypes, ThreadPc
  <2>1. ASSUME NEW t \in Threads, NEW k \in Keys, NEW p \in {"build", "spawn"},
               Claims(t, k, p)
        PROVE  FlightTypes'
    BY <2>1 DEF Claims
  <2>2. ASSUME NEW t \in Threads, NEW p \in {"idle", "dead"}, Releases(t, p)
        PROVE  FlightTypes'
    BY <2>2 DEF Releases, WakeAll
  <2>3. ASSUME NEW k \in Keys, ReleasesAhead(k)
        PROVE  FlightTypes'
    BY <2>3 DEF ReleasesAhead, WakeAllFromOutside
  <2>4. ASSUME NEW t \in Threads, Spawn(t)
        PROVE  FlightTypes'
    BY <2>4 DEF Spawn
  <2>5. ASSUME NEW t \in Threads, NEW p \in {"lookup", "idle", "wait"}, Moves(t, p)
        PROVE  FlightTypes'
    BY <2>5 DEF Moves
  <2>6. QED
    BY <2>1, <2>2, <2>3, <2>4, <2>5, StepKinds
<1>2. ASSUME FlightTypes, UNCHANGED vars
      PROVE  FlightTypes'
  BY <1>2 DEF FlightTypes, vars, cacheVars
<1>3. QED
  BY <1>1, <1>2

-----------------------------------------------------------------------------
(* One builder at a time. *)

LEMMA FlightInit == Init => SingleFlight
BY DEF Init, SingleFlight, Builders

\* A mark appears and disappears together with its builder.
LEMMA FlightStep == FlightTypes /\ SingleFlight /\ [Next]_vars => SingleFlight'
<1>1. ASSUME FlightTypes, SingleFlight, Next
      PROVE  SingleFlight'
  <2> USE <1>1 DEF FlightTypes, SingleFlight, Builders
  <2>1. ASSUME NEW t \in Threads, NEW k \in Keys, NEW p \in {"build", "spawn"},
               Claims(t, k, p)
        PROVE  SingleFlight'
    BY <2>1 DEF Claims, Builds
  <2>2. ASSUME NEW t \in Threads, NEW p \in {"idle", "dead"}, Releases(t, p)
        PROVE  SingleFlight'
    BY <2>2 DEF Releases, WakeAll, Builds
  <2>3. ASSUME NEW k \in Keys, ReleasesAhead(k)
        PROVE  SingleFlight'
    BY <2>3 DEF ReleasesAhead, WakeAllFromOutside
  <2>4. ASSUME NEW t \in Threads, Spawn(t)
        PROVE  SingleFlight'
    BY <2>4 DEF Spawn
  <2>5. ASSUME NEW t \in Threads, NEW p \in {"lookup", "idle", "wait"}, Moves(t, p)
        PROVE  SingleFlight'
    BY <2>5 DEF Moves, Builds
  <2>6. QED
    BY <2>1, <2>2, <2>3, <2>4, <2>5, StepKinds
<1>2. ASSUME SingleFlight, UNCHANGED vars
      PROVE  SingleFlight'
  BY <1>2 DEF SingleFlight, Builders, vars, cacheVars
<1>3. QED
  BY <1>1, <1>2

\* At most one thread generates a key, and a key is marked exactly as long as one
\* does: two callers that miss at once, a prefetch thread that is overtaken and a
\* panic on any path included.
THEOREM OneBuilderPerKey == Spec => []SingleFlight
<1>1. Init => FlightTypes /\ SingleFlight
  BY TypesInit, FlightInit
<1>2. FlightTypes /\ SingleFlight /\ [Next]_vars => (FlightTypes /\ SingleFlight)'
  BY TypesStep, FlightStep
<1>3. QED
  BY <1>1, <1>2, PTL DEF Spec

-----------------------------------------------------------------------------
(* Nobody sleeps for nothing. *)

LEMMA WaitInit == Init => NoOrphanWait
BY DEF Init, NoOrphanWait

\* Whoever takes a mark away wakes every sleeper in the same critical section.
LEMMA WaitStep == FlightTypes /\ NoOrphanWait /\ [Next]_vars => NoOrphanWait'
<1>1. ASSUME FlightTypes, NoOrphanWait, Next
      PROVE  NoOrphanWait'
  <2> USE <1>1 DEF FlightTypes, NoOrphanWait
  <2>1. ASSUME NEW t \in Threads, NEW k \in Keys, NEW p \in {"build", "spawn"},
               Claims(t, k, p)
        PROVE  NoOrphanWait'
    BY <2>1 DEF Claims
  <2>2. ASSUME NEW t \in Threads, NEW p \in {"idle", "dead"}, Releases(t, p)
        PROVE  NoOrphanWait'
    BY <2>2 DEF Releases, WakeAll
  <2>3. ASSUME NEW k \in Keys, ReleasesAhead(k)
        PROVE  NoOrphanWait'
    BY <2>3 DEF ReleasesAhead, WakeAllFromOutside
  <2>4. ASSUME NEW t \in Threads, Spawn(t)
        PROVE  NoOrphanWait'
    BY <2>4 DEF Spawn
  <2>5. ASSUME NEW t \in Threads, NEW p \in {"lookup", "idle", "wait"}, Moves(t, p)
        PROVE  NoOrphanWait'
    BY <2>5 DEF Moves
  <2>6. QED
    BY <2>1, <2>2, <2>3, <2>4, <2>5, StepKinds
<1>2. ASSUME NoOrphanWait, UNCHANGED vars
      PROVE  NoOrphanWait'
  BY <1>2 DEF NoOrphanWait, vars, cacheVars
<1>3. QED
  BY <1>1, <1>2

\* A thread that waits on the condition variable waits for a key that somebody is
\* building: no wakeup is lost, and no panic leaves a thread asleep.
THEOREM SleepersHaveABuilder == Spec => []NoOrphanWait
<1>1. Init => FlightTypes /\ NoOrphanWait
  BY TypesInit, WaitInit
<1>2. FlightTypes /\ NoOrphanWait /\ [Next]_vars => (FlightTypes /\ NoOrphanWait)'
  BY TypesStep, WaitStep
<1>3. QED
  BY <1>1, <1>2, PTL DEF Spec

\* What a waiting thread waits for is at work: a builder outside the lock, a caller
\* about to spawn the prefetch thread, or that thread.
WaitersAreServed ==
    \A t \in Threads : pc[t] = "wait" =>
        want[t] \in prefetcher \/ \E u \in Threads \ {t} : Builds(u) /\ want[u] = want[t]

\* Nobody waits for a thread that waits: the caches cannot deadlock, although the
\* locked section, the generation outside of it and the prefetch threads depend on one
\* another.
THEOREM WaitingEndsInWork == Spec => []WaitersAreServed
<1>1. FlightTypes /\ SingleFlight /\ NoOrphanWait => WaitersAreServed
  <2> SUFFICES ASSUME FlightTypes, SingleFlight, NoOrphanWait,
                      NEW t \in Threads, pc[t] = "wait"
               PROVE  \/ want[t] \in prefetcher
                      \/ \E u \in Threads \ {t} : Builds(u) /\ want[u] = want[t]
    BY DEF WaitersAreServed
  <2>1. want[t] \in Keys /\ want[t] \in building
    BY DEF FlightTypes, NoOrphanWait
  <2>2. want[t] \in prefetcher \/ Builders(want[t]) # {}
    BY <2>1 DEF SingleFlight
  <2>3. \A u \in Builders(want[t]) :
            u \in Threads \ {t} /\ Builds(u) /\ want[u] = want[t]
    BY DEF Builders, Builds
  <2> QED
    BY <2>2, <2>3
<1>2. Spec => []FlightTypes
  <2>1. FlightTypes /\ [Next]_vars => FlightTypes'
    BY TypesStep
  <2> QED
    BY <2>1, TypesInit, PTL DEF Spec
<1> QED
  BY <1>1, <1>2, OneBuilderPerKey, SleepersHaveABuilder, PTL

-----------------------------------------------------------------------------
(* Sums of sizes. *)

\* Induction, with the property given as the set of the numbers that have it.
LEMMA SetInduction ==
    ASSUME NEW T, 0 \in T, \A n \in Nat : n \in T => n + 1 \in T
    PROVE  Nat \subseteq T
<1> DEFINE U == Nat \ T
<1> SUFFICES ASSUME U # {} PROVE FALSE
  OBVIOUS
<1>1. PICK m \in U : \A k \in U : <<k, m>> \notin OpToRel(<, Nat)
  BY WFMin, NatLessThanWellFounded, Zenon
<1>2. \A k \in U : ~(k < m)
  BY <1>1, Zenon DEF OpToRel
<1>3. m \in Nat \ {0}
  OBVIOUS
<1>4. m - 1 \in Nat /\ m - 1 < m /\ (m - 1) + 1 = m
  BY <1>3
<1>5. m - 1 \in T
  BY <1>2, <1>4
<1> QED
  BY <1>4, <1>5

LEMMA LeastNumber ==
    ASSUME NEW U \in SUBSET Nat, U # {}
    PROVE  \E m \in U : \A k \in U : ~(k < m)
<1>1. PICK m \in U : \A k \in U : <<k, m>> \notin OpToRel(<, Nat)
  BY WFMin, NatLessThanWellFounded, Zenon
<1>2. \A k \in U : ~(k < m)
  BY <1>1, Zenon DEF OpToRel
<1> QED
  BY <1>2

\* f[i] is the size of the first i entries.
SumsUp(f, s, n) ==
    /\ f \in [0 .. n -> Nat]
    /\ f[0] = 0
    /\ \A i \in 1 .. n : f[i] = f[i - 1] + Size[s[i]]

\* Two sums with the same terms grow by the same amount.
LEMMA SameTerms ==
    ASSUME NEW n \in Nat, NEW f \in [0 .. n -> Nat], NEW g \in [0 .. n -> Nat],
           \A i \in 1 .. n : f[i] - f[i - 1] = g[i] - g[i - 1]
    PROVE  f[n] - f[0] = g[n] - g[0]
<1> DEFINE T == {m \in Nat : m <= n => f[m] - f[0] = g[m] - g[0]}
<1>1. 0 \in T
  OBVIOUS
<1>2. ASSUME NEW m \in Nat, m \in T
      PROVE  m + 1 \in T
  <2> SUFFICES ASSUME m + 1 <= n PROVE f[m + 1] - f[0] = g[m + 1] - g[0]
    OBVIOUS
  <2>1. m + 1 \in 1 .. n /\ m \in 0 .. n /\ m + 1 \in 0 .. n /\ 0 \in 0 .. n
        /\ (m + 1) - 1 = m
    OBVIOUS
  <2>2. f[m] - f[0] = g[m] - g[0]
    BY <1>2, <2>1
  <2>3. f[m + 1] - f[m] = g[m + 1] - g[m]
    BY <2>1
  <2>4. /\ f[m] \in Nat /\ f[0] \in Nat /\ f[m + 1] \in Nat
        /\ g[m] \in Nat /\ g[0] \in Nat /\ g[m + 1] \in Nat
    BY <2>1
  <2> DEFINE a == f[m]
             b == f[0]
             c == g[m]
             d == g[0]
             x == f[m + 1]
             y == g[m + 1]
  <2>5. /\ a \in Nat /\ b \in Nat /\ c \in Nat /\ d \in Nat /\ x \in Nat /\ y \in Nat
        /\ a - b = c - d /\ x - a = y - c
    BY <2>2, <2>3, <2>4
  <2> HIDE DEF a, b, c, d, x, y
  <2>6. x - b = y - d
    BY <2>5
  <2> QED
    BY <2>6 DEF x, b, y, d
<1> HIDE DEF T
<1>3. n \in T
  BY <1>1, <1>2, SetInduction
<1> QED
  BY <1>3 DEF T

\* The recursion of TotalSize has a solution,
LEMMA SumExists ==
    ASSUME NEW s \in Seq(Keys)
    PROVE  \E f : SumsUp(f, s, Len(s))
<1> DEFINE T == {n \in Nat : n <= Len(s) => \E f : SumsUp(f, s, n)}
<1>1. \A i \in 1 .. Len(s) : Size[s[i]] \in Nat
  BY CacheAssumption
<1>2. 0 \in T
  <2>1. SumsUp([i \in 0 .. 0 |-> 0], s, 0)
    BY DEF SumsUp
  <2> QED
    BY <2>1
<1>3. ASSUME NEW n \in Nat, n \in T
      PROVE  n + 1 \in T
  <2> SUFFICES ASSUME n + 1 <= Len(s) PROVE \E f : SumsUp(f, s, n + 1)
    OBVIOUS
  <2>1. n <= Len(s) /\ n + 1 \in 1 .. Len(s)
    OBVIOUS
  <2>2. PICK f : SumsUp(f, s, n)
    BY <1>3, <2>1
  <2> DEFINE g == [i \in 0 .. n + 1 |->
                       IF i = n + 1 THEN f[n] + Size[s[n + 1]] ELSE f[i]]
  <2>3. g \in [0 .. n + 1 -> Nat]
    <3>1. f[n] + Size[s[n + 1]] \in Nat
      BY <1>1, <2>1, <2>2 DEF SumsUp
    <3>2. \A i \in 0 .. n + 1 : i # n + 1 => f[i] \in Nat
      BY <2>2 DEF SumsUp
    <3> QED
      BY <3>1, <3>2
  <2>4. g[0] = 0
    BY <2>2 DEF SumsUp
  <2>5. ASSUME NEW i \in 1 .. n + 1
        PROVE  g[i] = g[i - 1] + Size[s[i]]
    <3>1. CASE i = n + 1
      <4>1. i - 1 = n /\ i - 1 \in 0 .. n + 1 /\ i - 1 # n + 1
        BY <3>1
      <4>2. g[i - 1] = f[n] /\ g[i] = f[n] + Size[s[i]]
        BY <3>1, <4>1
      <4> QED
        BY <4>2
    <3>2. CASE i # n + 1
      <4>1. i \in 1 .. n /\ i - 1 \in 0 .. n /\ i \in 0 .. n + 1
            /\ i - 1 \in 0 .. n + 1 /\ i - 1 # n + 1
        BY <3>2
      <4>2. g[i - 1] = f[i - 1] /\ g[i] = f[i]
        BY <3>2, <4>1
      <4> QED
        BY <2>2, <4>1, <4>2 DEF SumsUp
    <3> QED
      BY <3>1, <3>2
  <2> HIDE DEF g
  <2>6. SumsUp(g, s, n + 1)
    BY <2>3, <2>4, <2>5 DEF SumsUp
  <2> QED
    BY <2>6
<1> HIDE DEF T
<1>4. Len(s) \in T
  BY <1>2, <1>3, SetInduction
<1> QED
  BY <1>4 DEF T

\* and TotalSize is its last value.
LEMMA TotalIs ==
    ASSUME NEW s \in Seq(Keys)
    PROVE  \E f : SumsUp(f, s, Len(s)) /\ TotalSize(s) = f[Len(s)]
<1> DEFINE n == Len(s)
           Rec(f) == [i \in 0 .. n |-> IF i = 0 THEN 0 ELSE f[i - 1] + Size[s[i]]]
           sum == CHOOSE f : f = Rec(f)
<1>1. n \in Nat
  OBVIOUS
<1>2. TotalSize(s) = sum[n]
  BY DEF TotalSize
<1> HIDE DEF n
<1>3. PICK f : SumsUp(f, s, n)
  BY SumExists DEF n
<1>4. f = Rec(f)
  <2>1. \A i \in 0 .. n : f[i] = IF i = 0 THEN 0 ELSE f[i - 1] + Size[s[i]]
    <3> TAKE i \in 0 .. n
    <3>1. i # 0 => i \in 1 .. n
      BY <1>1
    <3> QED
      BY <1>3, <3>1 DEF SumsUp
  <2>2. f = [i \in 0 .. n |-> f[i]]
    BY <1>3 DEF SumsUp
  <2> QED
    BY <2>1, <2>2
<1>5. sum = Rec(sum)
  BY <1>4
<1> HIDE DEF sum
<1>6. /\ sum[0] = 0
      /\ \A i \in 1 .. n : sum[i] = sum[i - 1] + Size[s[i]]
  <2>1. 0 \in 0 .. n /\ \A i \in 1 .. n : i \in 0 .. n /\ i # 0
    BY <1>1
  <2>2. \A i \in 0 .. n : Rec(sum)[i] = IF i = 0 THEN 0 ELSE sum[i - 1] + Size[s[i]]
    OBVIOUS
  <2> HIDE DEF Rec
  <2> QED
    BY <1>5, <2>1, <2>2
<1> DEFINE T == {m \in Nat : m <= n => sum[m] = f[m]}
<1>7. 0 \in T
  BY <1>3, <1>6 DEF SumsUp
<1>8. ASSUME NEW m \in Nat, m \in T
      PROVE  m + 1 \in T
  <2> SUFFICES ASSUME m + 1 <= n PROVE sum[m + 1] = f[m + 1]
    OBVIOUS
  <2>1. m + 1 \in 1 .. n /\ (m + 1) - 1 = m /\ m <= n
    BY <1>1
  <2>2. sum[m] = f[m]
    BY <1>8, <2>1
  <2> QED
    BY <1>3, <1>6, <2>1, <2>2 DEF SumsUp
<1> HIDE DEF T
<1>9. n \in T
  BY <1>1, <1>7, <1>8, SetInduction
<1>10. sum[n] = f[n]
  BY <1>1, <1>9 DEF T
<1> QED
  BY <1>2, <1>3, <1>10 DEF n

\* The first n entries of u are those of s from an offset on.
Repeats(u, n, s, d) == \A i \in 1 .. n : u[i] = s[d + i]

\* The total of a sequence that repeats the entries of another.
LEMMA SamePart ==
    ASSUME NEW s \in Seq(Keys), NEW u \in Seq(Keys),
           NEW f, NEW g, SumsUp(f, s, Len(s)), SumsUp(g, u, Len(u))
    PROVE  \A d, n \in Nat :
               d + n <= Len(s) /\ n <= Len(u) /\ Repeats(u, n, s, d) =>
                   f[d + n] - f[d] = g[n]
<1> SUFFICES ASSUME NEW d \in Nat, NEW n \in Nat,
                    d + n <= Len(s), n <= Len(u), Repeats(u, n, s, d)
             PROVE  f[d + n] - f[d] = g[n]
  OBVIOUS
<1> DEFINE a == [i \in 0 .. n |-> f[d + i]]
           b == [i \in 0 .. n |-> g[i]]
<1>1. Len(s) \in Nat /\ Len(u) \in Nat
  OBVIOUS
<1>2. \A i \in 0 .. n : d + i \in 0 .. Len(s) /\ i \in 0 .. Len(u)
  BY <1>1
<1>3. a \in [0 .. n -> Nat] /\ b \in [0 .. n -> Nat]
  BY <1>2 DEF SumsUp
<1>4. \A i \in 1 .. n : a[i] - a[i - 1] = b[i] - b[i - 1]
  <2> TAKE i \in 1 .. n
  <2>1. /\ i \in 0 .. n /\ i - 1 \in 0 .. n /\ d + (i - 1) = (d + i) - 1
        /\ d + i \in 1 .. Len(s) /\ i \in 1 .. Len(u)
    BY <1>1
  <2>2. f[d + i] = f[(d + i) - 1] + Size[s[d + i]]
    BY <2>1 DEF SumsUp
  <2>3. g[i] = g[i - 1] + Size[u[i]]
    BY <2>1 DEF SumsUp
  <2>4. Size[u[i]] = Size[s[d + i]] /\ Size[u[i]] \in Nat
    BY <2>1, CacheAssumption DEF Repeats
  <2>5. a[i] = a[i - 1] + Size[u[i]] /\ b[i] = b[i - 1] + Size[u[i]]
    BY <2>1, <2>2, <2>3, <2>4
  <2>6. a[i - 1] \in Nat /\ b[i - 1] \in Nat
    BY <1>3, <2>1
  <2> DEFINE x == a[i - 1]
             y == b[i - 1]
             z == Size[u[i]]
  <2>7. a[i] = x + z /\ b[i] = y + z /\ x \in Nat /\ y \in Nat /\ z \in Nat
    BY <2>4, <2>5, <2>6
  <2> HIDE DEF a, b, x, y, z
  <2>8. a[i] - x = b[i] - y
    BY <2>7
  <2> QED
    BY <2>8 DEF x, y
<1>5. a[n] = f[d + n] /\ a[0] = f[d] /\ b[n] = g[n] /\ b[0] = 0
  BY DEF SumsUp
<1>6. b[n] \in Nat
  BY <1>3
<1> HIDE DEF a, b
<1>7. a[n] - a[0] = b[n] - b[0]
  BY <1>3, <1>4, SameTerms
<1> QED
  BY <1>5, <1>6, <1>7

\* A total is a number, 0 of no entries, and the totals of two parts add up.
LEMMA TotalOfParts ==
    ASSUME NEW s \in Seq(Keys), NEW u \in Seq(Keys), NEW v \in Seq(Keys)
    PROVE  /\ Len(s) = Len(u) + Len(v)
           /\ Repeats(u, Len(u), s, 0)
           /\ Repeats(v, Len(v), s, Len(u))
           => TotalSize(s) = TotalSize(u) + TotalSize(v)
<1>1. PICK f : SumsUp(f, s, Len(s)) /\ TotalSize(s) = f[Len(s)]
  BY TotalIs
<1>2. PICK g : SumsUp(g, u, Len(u)) /\ TotalSize(u) = g[Len(u)]
  BY TotalIs
<1>3. PICK h : SumsUp(h, v, Len(v)) /\ TotalSize(v) = h[Len(v)]
  BY TotalIs
<1>4. \A d, k \in Nat : d + k <= Len(s) /\ k <= Len(u) /\ Repeats(u, k, s, d) =>
                           f[d + k] - f[d] = g[k]
  BY <1>1, <1>2, SamePart
<1>5. \A d, k \in Nat : d + k <= Len(s) /\ k <= Len(v) /\ Repeats(v, k, s, d) =>
                           f[d + k] - f[d] = h[k]
  BY <1>1, <1>3, SamePart
<1> SUFFICES ASSUME Len(s) = Len(u) + Len(v), Repeats(u, Len(u), s, 0),
                    Repeats(v, Len(v), s, Len(u))
             PROVE  TotalSize(s) = TotalSize(u) + TotalSize(v)
  OBVIOUS
<1> DEFINE m == Len(u)
           n == Len(v)
<1>6. m \in Nat /\ n \in Nat /\ Len(s) = m + n
  OBVIOUS
<1>7. f[0 + m] - f[0] = g[m]
  BY <1>4, <1>6
<1>8. f[m + n] - f[m] = h[n]
  BY <1>5, <1>6
<1>9. f[0] = 0 /\ f[m] \in Nat /\ f[m + n] \in Nat
  BY <1>1, <1>6 DEF SumsUp
<1>10. f[m] = g[m]
  BY <1>6, <1>7, <1>9
<1> QED
  BY <1>1, <1>2, <1>3, <1>6, <1>8, <1>9, <1>10

LEMMA TotalIsNat ==
    ASSUME NEW s \in Seq(Keys)
    PROVE  TotalSize(s) \in Nat /\ (s = << >> => TotalSize(s) = 0)
<1>1. PICK f : SumsUp(f, s, Len(s)) /\ TotalSize(s) = f[Len(s)]
  BY TotalIs
<1>2. Len(s) \in Nat /\ (s = << >> => Len(s) = 0)
  OBVIOUS
<1> QED
  BY <1>1, <1>2 DEF SumsUp

\* One more entry adds its size.
LEMMA TotalOfAppend ==
    ASSUME NEW s \in Seq(Keys), NEW k \in Keys
    PROVE  TotalSize(Append(s, k)) = TotalSize(s) + Size[k]
<1> DEFINE u == Append(s, k)
<1>1. u \in Seq(Keys) /\ Len(u) = Len(s) + 1 /\ Len(s) \in Nat
      /\ u[Len(s) + 1] = k /\ \A i \in 1 .. Len(s) : s[i] = u[i]
  OBVIOUS
<1> HIDE DEF u
<1>2. PICK f : SumsUp(f, u, Len(u)) /\ TotalSize(u) = f[Len(u)]
  BY <1>1, TotalIs
<1>3. PICK g : SumsUp(g, s, Len(s)) /\ TotalSize(s) = g[Len(s)]
  BY TotalIs
<1> DEFINE n == Len(s)
<1>4. f[0 + n] - f[0] = g[n]
  <2>1. \A d, m \in Nat : d + m <= Len(u) /\ m <= Len(s) /\ Repeats(s, m, u, d) =>
                             f[d + m] - f[d] = g[m]
    BY <1>1, <1>2, <1>3, SamePart
  <2>2. Repeats(s, n, u, 0)
    BY <1>1 DEF Repeats
  <2> QED
    BY <1>1, <2>1, <2>2
<1>5. n + 1 \in 1 .. Len(u) /\ (n + 1) - 1 = n
  BY <1>1
<1>6. f[n + 1] = f[n] + Size[k]
  BY <1>1, <1>2, <1>5 DEF SumsUp
<1>7. f[0] = 0 /\ f[n] \in Nat /\ 0 + n = n
  BY <1>1, <1>2 DEF SumsUp
<1>8. f[n] = g[n]
  BY <1>4, <1>7
<1> QED
  BY <1>1, <1>2, <1>3, <1>6, <1>8 DEF u

-----------------------------------------------------------------------------
(* Recency and eviction. *)

Once(s) == \A i, j \in DOMAIN s : s[i] = s[j] => i = j
Within(s) == {s[i] : i \in DOMAIN s}

\* A key that is there is taken out of its place.
LEMMA RemoveFirstIs ==
    ASSUME NEW s \in Seq(Keys), Once(s), NEW i \in 1 .. Len(s)
    PROVE  RemoveFirst(s, s[i]) = SubSeq(s, 1, i - 1) \o SubSeq(s, i + 1, Len(s))
<1> DEFINE I == {j \in 1 .. Len(s) : s[j] = s[i]}
<1>1. I = {i}
  BY DEF Once
<1>2. Min(I) = i
  <2>1. i <= i /\ i \in I
    BY <1>1
  <2>2. \A x \in I : x = i
    BY <1>1
  <2> HIDE DEF I
  <2> QED
    BY <2>1, <2>2 DEF Min
<1>3. SelectInSeq(s, LAMBDA v : v = s[i]) = i
  BY <1>1, <1>2 DEF SelectInSeq
<1>4. \E j \in 1 .. Len(s) : s[j] = s[i]
  OBVIOUS
<1> QED
  BY <1>3, <1>4 DEF RemoveFirst, RemoveAt

\* What is left keeps its order, and the total loses the size of the key.
LEMMA RemoveKeeps ==
    ASSUME NEW s \in Seq(Keys), Once(s), NEW i \in 1 .. Len(s)
    PROVE  LET r == SubSeq(s, 1, i - 1) \o SubSeq(s, i + 1, Len(s))
           IN  /\ r \in Seq(Keys) /\ Len(r) = Len(s) - 1 /\ Once(r)
               /\ Within(r) = Within(s) \ {s[i]}
               /\ TotalSize(s) = TotalSize(r) + Size[s[i]]
<1> DEFINE u == SubSeq(s, 1, i - 1)
           v == SubSeq(s, i + 1, Len(s))
           r == u \o v
           w == SubSeq(s, i, Len(s))
           k == <<s[i]>>
<1>1. Len(s) \in Nat /\ i \in Nat
  OBVIOUS
<1>2. u \in Seq(Keys) /\ Len(u) = i - 1 /\ \A j \in 1 .. i - 1 : u[j] = s[j]
  BY <1>1
<1>3. v \in Seq(Keys) /\ Len(v) = Len(s) - i
      /\ \A j \in 1 .. Len(s) - i : v[j] = s[i + j]
  BY <1>1
<1>4. w \in Seq(Keys) /\ Len(w) = Len(s) - i + 1
      /\ \A j \in 1 .. Len(s) - i + 1 : w[j] = s[(i - 1) + j]
  BY <1>1
<1>5. k \in Seq(Keys) /\ Len(k) = 1 /\ k[1] = s[i]
  OBVIOUS
<1> HIDE DEF u, v, w, k
<1>6. /\ r \in Seq(Keys) /\ Len(r) = Len(s) - 1
      /\ \A j \in 1 .. i - 1 : r[j] = s[j]
      /\ \A j \in i .. Len(s) - 1 : r[j] = s[j + 1]
  <2>1. u \in Seq(Keys) /\ v \in Seq(Keys)
    BY <1>2, <1>3
  <2>2. r \in Seq(Keys) /\ Len(r) = Len(u) + Len(v)
    BY <2>1
  <2>3. \A j \in 1 .. i - 1 : r[j] = s[j]
    BY <1>1, <1>2, <1>3
  <2>4. \A j \in i .. Len(s) - 1 : r[j] = s[j + 1]
    <3> TAKE j \in i .. Len(s) - 1
    <3>1. j - (i - 1) \in 1 .. Len(s) - i /\ j > Len(u) /\ j <= Len(u) + Len(v)
          /\ j \in Nat /\ j - Len(u) = j - (i - 1) /\ i + (j - (i - 1)) = j + 1
      BY <1>1, <1>2, <1>3
    <3>2. r[j] = v[j - Len(u)]
      BY <1>2, <1>3, <3>1
    <3> QED
      BY <1>3, <3>1, <3>2
  <2> QED
    BY <1>1, <1>2, <1>3, <2>2, <2>3, <2>4
<1> HIDE DEF r
<1>7. Once(r)
  <2> SUFFICES ASSUME NEW a \in 1 .. Len(s) - 1, NEW b \in 1 .. Len(s) - 1,
                      r[a] = r[b]
               PROVE  a = b
    BY <1>6 DEF Once
  <2>1. /\ r[a] = s[IF a < i THEN a ELSE a + 1]
        /\ r[b] = s[IF b < i THEN b ELSE b + 1]
    BY <1>1, <1>6
  <2> DEFINE c == IF a < i THEN a ELSE a + 1
             d == IF b < i THEN b ELSE b + 1
  <2>2. c \in 1 .. Len(s) /\ d \in 1 .. Len(s)
    BY <1>1
  <2>3. s[c] = s[d]
    BY <2>1
  <2> HIDE DEF c, d
  <2>4. c = d
    BY <2>2, <2>3 DEF Once
  <2> QED
    BY <1>1, <2>4 DEF c, d
<1>8. Within(r) = Within(s) \ {s[i]}
  <2>1. \A j \in 1 .. Len(s) - 1 :
            \E b \in 1 .. Len(s) : b # i /\ r[j] = s[b]
    <3> TAKE j \in 1 .. Len(s) - 1
    <3>1. CASE j < i
      BY <1>1, <1>6, <3>1
    <3>2. CASE ~(j < i)
      <4>1. j + 1 \in 1 .. Len(s) /\ j + 1 # i /\ r[j] = s[j + 1]
        BY <1>1, <1>6, <3>2
      <4> QED
        BY <4>1
    <3> QED
      BY <3>1, <3>2
  <2>2. \A b \in 1 .. Len(s) :
            b # i => \E j \in 1 .. Len(s) - 1 : r[j] = s[b]
    <3> SUFFICES ASSUME NEW b \in 1 .. Len(s), b # i
                 PROVE  \E j \in 1 .. Len(s) - 1 : r[j] = s[b]
      OBVIOUS
    <3>1. CASE b < i
      BY <1>1, <1>6, <3>1
    <3>2. CASE b > i
      <4>1. b - 1 \in i .. Len(s) - 1 /\ b - 1 \in 1 .. Len(s) - 1 /\ (b - 1) + 1 = b
        BY <1>1, <3>2
      <4>2. r[b - 1] = s[b]
        BY <1>6, <4>1
      <4> QED
        BY <4>1, <4>2
    <3> QED
      BY <1>1, <3>1, <3>2
  <2>3. DOMAIN r = 1 .. Len(s) - 1 /\ DOMAIN s = 1 .. Len(s)
    BY <1>6
  <2> QED
    <3>1. \A b \in 1 .. Len(s) : b # i <=> s[b] # s[i]
      BY DEF Once
    <3>2. ASSUME NEW x \in Within(r)
          PROVE  x \in Within(s) \ {s[i]}
      <4>1. PICK j \in 1 .. Len(s) - 1 : x = r[j]
        BY <2>3 DEF Within
      <4>2. PICK b \in 1 .. Len(s) : b # i /\ r[j] = s[b]
        BY <2>1
      <4> QED
        BY <2>3, <3>1, <4>1, <4>2 DEF Within
    <3>3. ASSUME NEW x \in Within(s), x # s[i]
          PROVE  x \in Within(r)
      <4>1. PICK b \in 1 .. Len(s) : x = s[b] /\ b # i
        BY <2>3, <3>3 DEF Within
      <4>2. PICK j \in 1 .. Len(s) - 1 : r[j] = s[b]
        BY <2>2, <4>1
      <4> QED
        BY <2>3, <4>1, <4>2 DEF Within
    <3> QED
      BY <3>2, <3>3
<1>9. TotalSize(s) = TotalSize(u) + TotalSize(w)
  <2>1. Len(s) = Len(u) + Len(w)
    BY <1>1, <1>2, <1>4
  <2>2. Repeats(u, Len(u), s, 0) /\ Repeats(w, Len(w), s, Len(u))
    BY <1>1, <1>2, <1>4 DEF Repeats
  <2> QED
    BY <1>2, <1>4, <2>1, <2>2, TotalOfParts
<1>10. TotalSize(w) = TotalSize(k) + TotalSize(v)
  <2>1. Len(w) = Len(k) + Len(v)
    BY <1>1, <1>3, <1>4, <1>5
  <2>2. Repeats(k, Len(k), w, 0) /\ Repeats(v, Len(v), w, Len(k))
    <3>1. \A j \in 1 .. Len(k) : k[j] = w[0 + j]
      <4> TAKE j \in 1 .. Len(k)
      <4>1. /\ j = 1 /\ 1 \in 1 .. Len(s) - i + 1 /\ (i - 1) + 1 = i
            /\ 0 + 1 = 1
        BY <1>1, <1>5
      <4> QED
        BY <1>4, <1>5, <4>1
    <3>2. \A j \in 1 .. Len(v) : v[j] = w[Len(k) + j]
      <4> TAKE j \in 1 .. Len(v)
      <4>1. /\ j \in 1 .. Len(s) - i /\ Len(k) + j = 1 + j
            /\ 1 + j \in 1 .. Len(s) - i + 1 /\ (i - 1) + (1 + j) = i + j
        BY <1>1, <1>3, <1>5
      <4> QED
        BY <1>3, <1>4, <4>1
    <3> QED
      BY <3>1, <3>2 DEF Repeats
  <2> QED
    BY <1>3, <1>4, <1>5, <2>1, <2>2, TotalOfParts
<1>11. TotalSize(r) = TotalSize(u) + TotalSize(v)
  <2>1. Len(r) = Len(u) + Len(v)
    BY <1>1, <1>2, <1>3, <1>6
  <2>2. Repeats(u, Len(u), r, 0) /\ Repeats(v, Len(v), r, Len(u))
    BY <1>1, <1>2, <1>3, <1>6 DEF Repeats
  <2> QED
    BY <1>2, <1>3, <1>6, <2>1, <2>2, TotalOfParts
<1>12. TotalSize(k) = Size[s[i]]
  <2>1. k = Append(<< >>, s[i]) /\ << >> \in Seq(Keys) /\ s[i] \in Keys
    BY DEF k
  <2>2. TotalSize(k) = TotalSize(<< >>) + Size[s[i]]
    BY <2>1, TotalOfAppend
  <2>3. TotalSize(<< >>) = 0 /\ Size[s[i]] \in Nat
    BY <2>1, TotalIsNat, CacheAssumption
  <2> QED
    BY <2>2, <2>3
<1>13. /\ TotalSize(u) \in Nat /\ TotalSize(v) \in Nat /\ TotalSize(k) \in Nat
  BY <1>2, <1>3, <1>5, TotalIsNat
<1>14. TotalSize(s) = TotalSize(r) + Size[s[i]]
  BY <1>9, <1>10, <1>11, <1>12, <1>13
<1> QED
  BY <1>6, <1>7, <1>8, <1>14 DEF r, u, v

\* What is in the cache is in its total: a replaced value can be subtracted.
LEMMA HeldIsCounted ==
    ASSUME NEW s \in Seq(Keys), Once(s), NEW k \in Within(s)
    PROVE  Size[k] <= TotalSize(s)
<1>1. PICK i \in 1 .. Len(s) : s[i] = k
  BY DEF Within
<1>2. /\ RemoveFirst(s, k) \in Seq(Keys)
      /\ TotalSize(s) = TotalSize(RemoveFirst(s, k)) + Size[k]
  <2>1. RemoveFirst(s, k) = SubSeq(s, 1, i - 1) \o SubSeq(s, i + 1, Len(s))
    BY <1>1, RemoveFirstIs
  <2> QED
    BY <1>1, <2>1, RemoveKeeps
<1>3. k \in Keys
  BY <1>1
<1>4. TotalSize(RemoveFirst(s, k)) \in Nat /\ Size[k] \in Nat
  BY <1>2, <1>3, TotalIsNat, CacheAssumption
<1> QED
  BY <1>2, <1>4

\* A use, or a store, makes the key the most recent entry and the only one of its name.
LEMMA TouchIs ==
    ASSUME NEW s \in Seq(Keys), Once(s), NEW k \in Keys
    PROVE  /\ Touch(s, k) \in Seq(Keys) /\ Once(Touch(s, k))
           /\ Within(Touch(s, k)) = Within(s) \cup {k}
           /\ IF k \in Within(s)
              THEN /\ Len(Touch(s, k)) = Len(s)
                   /\ TotalSize(Touch(s, k)) = TotalSize(s)
              ELSE TotalSize(Touch(s, k)) = TotalSize(s) + Size[k]
<1> DEFINE r == RemoveFirst(s, k)
           u == Append(r, k)
<1>1. Len(s) \in Nat /\ DOMAIN s = 1 .. Len(s)
  OBVIOUS
<1>2. /\ r \in Seq(Keys) /\ Once(r) /\ Within(r) = Within(s) \ {k}
      /\ IF k \in Within(s)
         THEN Len(r) = Len(s) - 1 /\ TotalSize(s) = TotalSize(r) + Size[k]
         ELSE r = s
  <2>1. CASE k \in Within(s)
    <3>1. PICK i \in 1 .. Len(s) : s[i] = k
      BY <1>1, <2>1 DEF Within
    <3>2. r = SubSeq(s, 1, i - 1) \o SubSeq(s, i + 1, Len(s))
      BY <3>1, RemoveFirstIs
    <3> QED
      BY <2>1, <3>1, <3>2, RemoveKeeps
  <2>2. CASE k \notin Within(s)
    <3>1. r = s
      BY <1>1, <2>2 DEF RemoveFirst, Within
    <3> QED
      BY <2>2, <3>1
  <2> QED
    BY <2>1, <2>2
<1> HIDE DEF r
<1>3. TotalSize(u) = TotalSize(r) + Size[k]
  BY <1>2, TotalOfAppend
<1>4. /\ u \in Seq(Keys) /\ Len(u) = Len(r) + 1 /\ u[Len(r) + 1] = k
      /\ \A i \in 1 .. Len(r) : u[i] = r[i]
      /\ Len(r) \in Nat /\ DOMAIN r = 1 .. Len(r) /\ DOMAIN u = 1 .. Len(r) + 1
  BY <1>2
<1> HIDE DEF u
<1>5. \A i \in 1 .. Len(r) : r[i] # k
  BY <1>2, <1>4 DEF Within
<1>6. Once(u)
  <2> SUFFICES ASSUME NEW i \in 1 .. Len(r) + 1, NEW j \in 1 .. Len(r) + 1,
                      u[i] = u[j]
               PROVE  i = j
    BY <1>4 DEF Once
  <2>1. CASE i \in 1 .. Len(r) /\ j \in 1 .. Len(r)
    BY <1>2, <1>4, <2>1 DEF Once
  <2>2. CASE i = Len(r) + 1 \/ j = Len(r) + 1
    BY <1>4, <1>5, <2>2
  <2> QED
    BY <1>4, <2>1, <2>2
<1>7. Within(u) = Within(r) \cup {k}
  <2>1. ASSUME NEW x \in Within(u)
        PROVE  x \in Within(r) \cup {k}
    <3>1. PICK i \in 1 .. Len(r) + 1 : x = u[i]
      BY <1>4 DEF Within
    <3>2. i = Len(r) + 1 \/ i \in 1 .. Len(r)
      BY <1>4
    <3> QED
      BY <1>4, <3>1, <3>2 DEF Within
  <2>2. ASSUME NEW x \in Within(r)
        PROVE  x \in Within(u)
    <3>1. PICK i \in 1 .. Len(r) : x = r[i]
      BY <1>4 DEF Within
    <3>2. i \in 1 .. Len(r) + 1
      BY <1>4
    <3> QED
      BY <1>4, <3>1, <3>2 DEF Within
  <2>3. k \in Within(u)
    <3>1. Len(r) + 1 \in 1 .. Len(r) + 1
      BY <1>4
    <3> QED
      BY <1>4, <3>1 DEF Within
  <2> QED
    BY <2>1, <2>2, <2>3
<1>8. /\ Within(u) = Within(s) \cup {k}
      /\ IF k \in Within(s)
         THEN Len(u) = Len(s) /\ TotalSize(u) = TotalSize(s)
         ELSE TotalSize(u) = TotalSize(s) + Size[k]
  <2>1. Within(u) = Within(s) \cup {k}
    BY <1>2, <1>7
  <2>2. CASE k \in Within(s)
    <3>1. Len(r) = Len(s) - 1 /\ TotalSize(s) = TotalSize(r) + Size[k]
      BY <1>2, <2>2
    <3>2. Len(u) = Len(s)
      BY <1>1, <1>4, <3>1
    <3>3. TotalSize(u) = TotalSize(s)
      BY <1>3, <3>1
    <3> QED
      BY <2>1, <2>2, <3>2, <3>3
  <2>3. CASE k \notin Within(s)
    <3>1. r = s
      BY <1>2, <2>3
    <3>2. TotalSize(u) = TotalSize(s) + Size[k]
      BY <1>3, <3>1
    <3> QED
      BY <2>1, <2>3, <3>2
  <2> QED
    BY <2>2, <2>3
<1> QED
  BY <1>4, <1>6, <1>8 DEF Touch, r, u

Rest(s, d) == SubSeq(s, d + 1, Len(s))

\* What eviction leaves are the latest entries.
LEMMA RestIs ==
    ASSUME NEW s \in Seq(Keys), Once(s), NEW d \in 0 .. Len(s)
    PROVE  /\ Rest(s, d) \in Seq(Keys) /\ Len(Rest(s, d)) = Len(s) - d
           /\ Once(Rest(s, d)) /\ Within(Rest(s, d)) \subseteq Within(s)
           /\ Remaining(s, d, TotalSize(s)) = TotalSize(Rest(s, d))
<1> DEFINE u == SubSeq(s, 1, d)
           v == SubSeq(s, d + 1, Len(s))
<1>1. Len(s) \in Nat /\ d \in Nat /\ DOMAIN s = 1 .. Len(s)
  OBVIOUS
<1>2. u \in Seq(Keys) /\ Len(u) = d /\ \A i \in 1 .. d : u[i] = s[i]
  BY <1>1
<1>3. v \in Seq(Keys) /\ Len(v) = Len(s) - d
      /\ \A i \in 1 .. Len(s) - d : v[i] = s[d + i]
  BY <1>1
<1>4. Remaining(s, d, TotalSize(s)) =
          IF TotalSize(u) > TotalSize(s) THEN 0 ELSE TotalSize(s) - TotalSize(u)
  BY DEF Remaining
<1> HIDE DEF u, v
<1>5. TotalSize(s) = TotalSize(u) + TotalSize(v)
  <2>1. Len(s) = Len(u) + Len(v)
    BY <1>1, <1>2, <1>3
  <2>2. Repeats(u, Len(u), s, 0) /\ Repeats(v, Len(v), s, Len(u))
    BY <1>1, <1>2, <1>3 DEF Repeats
  <2> QED
    BY <1>2, <1>3, <2>1, <2>2, TotalOfParts
<1>6. TotalSize(u) \in Nat /\ TotalSize(v) \in Nat
  BY <1>2, <1>3, TotalIsNat
<1>7. Remaining(s, d, TotalSize(s)) = TotalSize(v)
  BY <1>4, <1>5, <1>6
<1>8. DOMAIN v = 1 .. Len(s) - d
      /\ \A i \in 1 .. Len(s) - d : d + i \in 1 .. Len(s)
  BY <1>1, <1>3
<1>9. Once(v)
  <2> SUFFICES ASSUME NEW i \in 1 .. Len(s) - d, NEW j \in 1 .. Len(s) - d, v[i] = v[j]
               PROVE  i = j
    BY <1>8 DEF Once
  <2>1. s[d + i] = s[d + j] /\ d + i \in 1 .. Len(s) /\ d + j \in 1 .. Len(s)
    BY <1>3, <1>8
  <2>2. d + i = d + j
    BY <1>1, <2>1 DEF Once
  <2> QED
    BY <1>1, <2>2
<1>10. Within(v) \subseteq Within(s)
  BY <1>1, <1>3, <1>8 DEF Within
<1> QED
  BY <1>3, <1>7, <1>9, <1>10 DEF Rest, v

\* The loop ends, at the latest when nothing is left, and then the cache fits.
LEMMA EvictionFits ==
    ASSUME NEW s \in Seq(Keys), Once(s)
    PROVE  /\ Evicted(s, TotalSize(s)) \in 0 .. Len(s)
           /\ ~Overfull(Rest(s, Evicted(s, TotalSize(s))),
                        TotalSize(Rest(s, Evicted(s, TotalSize(s)))))
<1> DEFINE size == TotalSize(s)
           fits(i) == ~Overfull(SubSeq(s, i + 1, Len(s)), Remaining(s, i, size))
           U == {i \in 0 .. Len(s) : fits(i)}
<1>1. Len(s) \in Nat
  OBVIOUS
<1>2. \A i \in 0 .. Len(s) :
          fits(i) <=> ~Overfull(Rest(s, i), TotalSize(Rest(s, i)))
  BY RestIs DEF Rest
<1>3. Evicted(s, size) =
          CHOOSE i \in 0 .. Len(s) : fits(i) /\ \A j \in 0 .. i - 1 : ~fits(j)
  BY DEF Evicted
<1> HIDE DEF fits, size
<1>4. Len(s) \in U
  <2>1. Rest(s, Len(s)) \in Seq(Keys) /\ Len(Rest(s, Len(s))) = 0
    BY <1>1, RestIs
  <2>2. Rest(s, Len(s)) = << >>
    BY <2>1
  <2>3. TotalSize(Rest(s, Len(s))) = 0
    BY <2>1, <2>2, TotalIsNat
  <2>4. ~Overfull(Rest(s, Len(s)), TotalSize(Rest(s, Len(s))))
    BY <2>1, <2>3, CacheAssumption DEF Overfull
  <2> QED
    BY <1>1, <1>2, <2>4
<1>5. PICK m \in U : \A j \in U : ~(j < m)
  <2>1. U \in SUBSET Nat /\ U # {}
    BY <1>1, <1>4
  <2> HIDE DEF U
  <2> QED
    BY <2>1, LeastNumber
<1>6. m \in 0 .. Len(s) /\ fits(m) /\ \A j \in 0 .. m - 1 : ~fits(j)
  <2>1. m \in 0 .. Len(s) /\ fits(m)
    OBVIOUS
  <2>2. ASSUME NEW j \in 0 .. m - 1, fits(j)
        PROVE  FALSE
    <3>1. j \in 0 .. Len(s) /\ j < m
      BY <1>1, <2>1
    <3>2. j \in U
      BY <2>2, <3>1
    <3> QED
      BY <1>5, <3>1, <3>2
  <2> QED
    BY <2>1, <2>2
<1> HIDE DEF U
<1>7. Evicted(s, size) \in 0 .. Len(s) /\ fits(Evicted(s, size))
  BY <1>3, <1>6
<1> QED
  BY <1>2, <1>7 DEF size
-----------------------------------------------------------------------------
(* What the cache holds, from step to step. *)

\* The inductive invariant: the total is what the entries add up to, eviction has
\* left nothing it would have to drop, and no mark is for a key that is there.
CacheInv ==
    /\ source_selection \in BOOLEAN
    /\ entries \in Seq(Keys)
    /\ Once(entries)
    /\ total = TotalSize(entries)
    /\ ~Overfull(entries, total)
    /\ building \cap Cached = {}

\* Storing leaves an exact total and a cache that fits, and brings in no key but
\* the one stored, whose mark it takes away.
LEMMA InsertIs ==
    ASSUME CacheInv, NEW k \in Keys, Insert(k), UNCHANGED source_selection
    PROVE  CacheInv'
<1> DEFINE stored   == Touch(entries, k)
           replaced == IF k \in Cached THEN Size[k] ELSE 0
           size     == IF source_selection
                       THEN (IF replaced > total THEN 0 ELSE total - replaced) + Size[k]
                       ELSE TotalSize(stored)
           dropped  == Evicted(stored, size)
<1>1. /\ building' = building \ {k}
      /\ entries' = SubSeq(stored, dropped + 1, Len(stored))
      /\ total' = Remaining(stored, dropped, size)
  BY DEF Insert
<1>2. /\ stored \in Seq(Keys) /\ Once(stored)
      /\ Within(stored) = Within(entries) \cup {k}
      /\ IF k \in Within(entries)
         THEN TotalSize(stored) = TotalSize(entries)
         ELSE TotalSize(stored) = TotalSize(entries) + Size[k]
  BY TouchIs DEF CacheInv
<1>3. Cached = Within(entries)
  BY DEF Cached, Within
<1>4. size = TotalSize(stored)
  <2>1. total = TotalSize(entries) /\ total \in Nat /\ Size[k] \in Nat
    BY TotalIsNat, CacheAssumption DEF CacheInv
  <2>2. CASE k \in Cached
    <3>1. replaced = Size[k] /\ Size[k] <= total
      BY <1>3, <2>1, <2>2, HeldIsCounted DEF CacheInv
    <3>2. TotalSize(stored) = total
      BY <1>2, <1>3, <2>1, <2>2
    <3> QED
      BY <2>1, <3>1, <3>2
  <2>3. CASE k \notin Cached
    <3>1. TotalSize(stored) = total + Size[k]
      BY <1>2, <1>3, <2>1, <2>3
    <3> QED
      BY <2>1, <2>3, <3>1
  <2> QED
    BY <2>2, <2>3
<1> HIDE DEF size, stored
<1>5. /\ dropped \in 0 .. Len(stored)
      /\ ~Overfull(Rest(stored, dropped), TotalSize(Rest(stored, dropped)))
  BY <1>2, <1>4, EvictionFits
<1> HIDE DEF dropped
<1>6. /\ entries' = Rest(stored, dropped)
      /\ total' = TotalSize(Rest(stored, dropped))
      /\ entries' \in Seq(Keys) /\ Once(entries')
      /\ Within(entries') \subseteq Within(stored)
  BY <1>1, <1>2, <1>4, <1>5, RestIs DEF Rest
<1>7. total' = TotalSize(entries')
  BY <1>6
<1>8. ~Overfull(entries', total')
  BY <1>5, <1>6
<1>9. building' \cap Within(entries') = {}
  BY <1>1, <1>2, <1>3, <1>6 DEF CacheInv
<1>10. /\ Cached' = Within(entries')
       /\ Overfull(entries, total)' = Overfull(entries', total')
       /\ TotalSize(entries)' = TotalSize(entries')
       /\ Once(entries)' = Once(entries')
  BY DEF Cached, Within, Overfull, TotalSize, Once
<1> QED
  BY <1>6, <1>7, <1>8, <1>9, <1>10 DEF CacheInv

LEMMA CacheInit == Init => CacheInv
<1> SUFFICES ASSUME Init PROVE CacheInv
  OBVIOUS
<1>1. entries = << >> /\ entries \in Seq(Keys) /\ Len(entries) = 0
  BY DEF Init
<1>2. total = TotalSize(entries)
  BY <1>1, TotalIsNat DEF Init
<1>3. ~Overfull(entries, total)
  BY <1>1, CacheAssumption DEF Init, Overfull
<1>4. Once(entries) /\ Cached = {}
  BY <1>1 DEF Once, Cached
<1> QED
  BY <1>1, <1>2, <1>3, <1>4 DEF CacheInv, Init

LEMMA CacheStep == FlightTypes /\ CacheInv /\ [Next]_vars => CacheInv'
<1>0. ASSUME CacheInv, UNCHANGED <<source_selection, entries, total>>,
             building' \cap Cached = {}
      PROVE  CacheInv'
  BY <1>0 DEF CacheInv, Cached, Once, Overfull, TotalSize
<1>1. ASSUME FlightTypes, CacheInv, Next
      PROVE  CacheInv'
  <2> USE <1>1
  <2>0. UNCHANGED source_selection
    BY DEF Next
  <2>1. ASSUME UNCHANGED <<entries, total>>, building' \subseteq building
        PROVE  CacheInv'
    <3>1. building' \cap Cached = {}
      BY <2>1 DEF CacheInv
    <3> QED
      BY <1>0, <2>0, <2>1, <3>1
  <2>2. ASSUME UNCHANGED <<entries, total>>, NEW k, k \notin Cached,
               building' = building \cup {k}
        PROVE  CacheInv'
    <3>1. building' \cap Cached = {}
      BY <2>2 DEF CacheInv
    <3> QED
      BY <1>0, <2>0, <2>2, <3>1
  <2>3. ASSUME NEW t \in Threads, NEW k \in Keys, Call(t, k)
        PROVE  CacheInv'
    BY <2>1, <2>3 DEF Call
  <2>4. ASSUME NEW t \in Threads, NEW k \in Keys, CallPrefetch(t, k)
        PROVE  CacheInv'
    BY <2>2, <2>4 DEF CallPrefetch
  <2>5. ASSUME NEW t \in Threads, Hit(t)
        PROVE  CacheInv'
    <3>1. /\ want[t] \in Keys /\ want[t] \in Within(entries)
          /\ entries' = Touch(entries, want[t]) /\ UNCHANGED <<total, building>>
          /\ Cached = Within(entries)
      BY <2>5 DEF Hit, FlightTypes, Cached, Within
    <3>2. /\ entries' \in Seq(Keys) /\ Once(entries')
          /\ Within(entries') = Within(entries) \cup {want[t]}
          /\ Len(entries') = Len(entries)
          /\ TotalSize(entries') = TotalSize(entries)
      BY <3>1, TouchIs DEF CacheInv
    <3>3. Within(entries') = Within(entries)
      BY <3>1, <3>2
    <3>4. ~Overfull(entries', total')
      BY <3>1, <3>2 DEF CacheInv, Overfull
    <3>5. /\ Cached' = Within(entries')
          /\ Overfull(entries, total)' = Overfull(entries', total')
          /\ TotalSize(entries)' = TotalSize(entries')
          /\ Once(entries)' = Once(entries')
      BY <2>0 DEF Cached, Within, Overfull, TotalSize, Once
    <3>6. total' = TotalSize(entries') /\ building' \cap Within(entries') = {}
      BY <3>1, <3>2, <3>3 DEF CacheInv
    <3> QED
      BY <2>0, <3>2, <3>4, <3>5, <3>6 DEF CacheInv
  <2>6. ASSUME NEW t \in Threads, StartBuild(t)
        PROVE  CacheInv'
    BY <2>2, <2>6 DEF StartBuild
  <2>7. ASSUME NEW t \in Threads, Wait(t) \/ SpuriousWakeup(t) \/ Spawn(t)
        PROVE  CacheInv'
    BY <2>1, <2>7 DEF Wait, SpuriousWakeup, Spawn
  <2>8. ASSUME NEW t \in Threads, BuildPanics(t) \/ SpawnFails(t)
        PROVE  CacheInv'
    BY <2>1, <2>8 DEF BuildPanics, SpawnFails
  <2>9. ASSUME NEW k \in Keys, PrefetchPanics(k)
        PROVE  CacheInv'
    BY <2>1, <2>9 DEF PrefetchPanics
  <2>10. ASSUME NEW t \in Threads, Store(t)
         PROVE  CacheInv'
    <3>1. want[t] \in Keys /\ Insert(want[t])
      BY <2>10 DEF Store, FlightTypes
    <3> QED
      BY <2>0, <3>1, InsertIs
  <2>11. ASSUME NEW k \in Keys, PrefetchStore(k)
         PROVE  CacheInv'
    BY <2>0, <2>11, InsertIs DEF PrefetchStore
  <2> QED
    BY <2>3, <2>4, <2>5, <2>6, <2>7, <2>8, <2>9, <2>10, <2>11
       DEF Next, Lookup, Finish, FinishSpawn, FinishPrefetch
<1>2. ASSUME CacheInv, UNCHANGED vars
      PROVE  CacheInv'
  <2>1. building' \cap Cached = {}
    BY <1>2 DEF CacheInv, vars, cacheVars
  <2> QED
    BY <1>0, <1>2, <2>1 DEF vars, cacheVars
<1> QED
  BY <1>1, <1>2

\* No call, prefetch, panic or eviction leaves the invariant.
LEMMA CacheAlways == Spec => []CacheInv
<1>1. Init => FlightTypes /\ CacheInv
  BY TypesInit, CacheInit
<1>2. FlightTypes /\ CacheInv /\ [Next]_vars => (FlightTypes /\ CacheInv)'
  BY TypesStep, CacheStep
<1> QED
  BY <1>1, <1>2, PTL DEF Spec

-----------------------------------------------------------------------------
(* What it comes to for the readers of the cache. *)

\* The types of the whole cache; a touch and a store keep a key there once.
THEOREM EntriesAreUnique == Spec => []TypeOK
<1>1. FlightTypes /\ CacheInv => TypeOK
  BY TotalIsNat DEF FlightTypes, CacheInv, Once, TypeOK
<1>2. Spec => []FlightTypes
  <2>1. Init => FlightTypes
    BY TypesInit
  <2>2. FlightTypes /\ [Next]_vars => FlightTypes'
    BY TypesStep
  <2> QED
    BY <2>1, <2>2, PTL DEF Spec
<1> QED
  BY <1>1, <1>2, CacheAlways, PTL

\* Between critical sections neither cache is over its limit, whatever the sizes
\* are, but for the one entry the live batch cache always keeps.
THEOREM EvictionSuffices == Spec => []WithinLimit
<1>1. CacheInv => WithinLimit
  <2> SUFFICES ASSUME CacheInv PROVE WithinLimit
    OBVIOUS
  <2>1. /\ Len(entries) \in Nat /\ total = TotalSize(entries) /\ total \in Nat
        /\ SizeLimit \in Nat /\ EntryLimit \in Nat /\ source_selection \in BOOLEAN
    BY TotalIsNat, CacheAssumption DEF CacheInv
  <2>2. CASE source_selection
    <3>1. ~(Len(entries) > EntryLimit) /\ ~(total > SizeLimit /\ Len(entries) > 1)
      BY <2>2 DEF CacheInv, Overfull
    <3> QED
      BY <2>1, <2>2, <3>1 DEF WithinLimit
  <2>3. CASE ~source_selection
    <3>1. ~(total > SizeLimit)
      BY <2>3 DEF CacheInv, Overfull
    <3> QED
      BY <2>1, <2>3, <3>1 DEF WithinLimit
  <2> QED
    BY <2>2, <2>3
<1> QED
  BY <1>1, CacheAlways, PTL

\* The running total never drifts from the entries: neither the subtraction for a
\* replaced value nor the one for an evicted value ever saturates.
THEOREM TotalNeverDrifts == Spec => []TotalIsExact
<1>1. CacheInv => TotalIsExact
  BY DEF CacheInv, TotalIsExact
<1> QED
  BY <1>1, CacheAlways, PTL

\* Nobody generates what the cache holds, a prefetch thread that comes late included.
THEOREM CachedIsNotBuilt == Spec => []NeverRebuiltWhileCached
<1>1. CacheInv => NeverRebuiltWhileCached
  BY DEF CacheInv, NeverRebuiltWhileCached
<1> QED
  BY <1>1, CacheAlways, PTL
=============================================================================
