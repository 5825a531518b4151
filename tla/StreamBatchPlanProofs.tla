------------------------ MODULE StreamBatchPlanProofs ------------------------
(***************************************************************************)
(* For any records, limits and windows: what is exported can be planned,   *)
(* windows in a row go round the shard, and a batch that is not marked to  *)
(* reset finds the state of the chunk before it.                           *)
(***************************************************************************)
EXTENDS StreamBatchPlan, FiniteSetTheorems, TLAPS

-----------------------------------------------------------------------------
(* A finite set in an order. *)

\* below[x] is what comes before x in a strict total order of S.
StrictOrder(S, below) ==
    /\ below \in [S -> SUBSET S]
    /\ \A x \in S : x \notin below[x]
    /\ \A x, y \in S : y \in below[x] => below[y] \subseteq below[x]
    /\ \A x, y \in S : x = y \/ x \in below[y] \/ y \in below[x]

Rank(below, x) == Cardinality(below[x])

\* Ranks are natural numbers below the size of the set, and rise with the order.
LEMMA RanksRise ==
    ASSUME NEW S, NEW below, IsFiniteSet(S), StrictOrder(S, below)
    PROVE  /\ Cardinality(S) \in Nat
           /\ \A x \in S : Rank(below, x) \in 0 .. Cardinality(S) - 1
           /\ \A x, y \in S : y \in below[x] => Rank(below, y) < Rank(below, x)
<1>1. Cardinality(S) \in Nat
  BY FS_CardinalityType
<1>2. \A x \in S : IsFiniteSet(below[x]) /\ Rank(below, x) \in Nat
  BY FS_Subset, FS_CardinalityType DEF StrictOrder, Rank
<1>3. ASSUME NEW T, NEW U \in SUBSET T, NEW x \in T, IsFiniteSet(T), x \notin U
      PROVE  Cardinality(U) < Cardinality(T)
  <2>1. IsFiniteSet(U) /\ Cardinality(U) <= Cardinality(T)
        /\ (Cardinality(T) = Cardinality(U) => T = U)
    BY <1>3, FS_Subset
  <2>2. Cardinality(U) \in Nat /\ Cardinality(T) \in Nat
    BY <1>3, <2>1, FS_CardinalityType
  <2>3. T # U
    BY <1>3
  <2> QED
    BY <2>1, <2>2, <2>3
<1>4. ASSUME NEW x \in S
      PROVE  Rank(below, x) \in 0 .. Cardinality(S) - 1
  <2>1. below[x] \in SUBSET S /\ x \notin below[x]
    BY DEF StrictOrder
  <2>2. Rank(below, x) < Cardinality(S)
    BY <1>3, <2>1 DEF Rank
  <2> QED
    BY <1>1, <1>2, <2>2
<1>5. ASSUME NEW x \in S, NEW y \in below[x]
      PROVE  Rank(below, y) < Rank(below, x)
  <2>1. y \in S /\ below[y] \in SUBSET below[x] /\ y \notin below[y]
    BY DEF StrictOrder
  <2> QED
    BY <1>2, <1>3, <2>1 DEF Rank
<1> QED
  BY <1>1, <1>4, <1>5

\* Every number below the size of the set is the rank of one element.
LEMMA RanksEnumerate ==
    ASSUME NEW S, NEW below, IsFiniteSet(S), StrictOrder(S, below),
           NEW n \in 0 .. Cardinality(S) - 1
    PROVE  \E x \in S : /\ Rank(below, x) = n
                        /\ \A y \in S : Rank(below, y) = n => y = x
<1> DEFINE T == 0 .. Cardinality(S) - 1
           rank == [x \in S |-> Rank(below, x)]
<1>1. /\ Cardinality(S) \in Nat
      /\ \A x \in S : Rank(below, x) \in T
      /\ \A x, y \in S : y \in below[x] => Rank(below, y) < Rank(below, x)
  BY RanksRise
<1>2. \A x, y \in S : Rank(below, x) = Rank(below, y) => x = y
  <2> SUFFICES ASSUME NEW x \in S, NEW y \in S, x # y
               PROVE  Rank(below, x) # Rank(below, y)
    OBVIOUS
  <2>1. x \in below[y] \/ y \in below[x]
    BY DEF StrictOrder
  <2> QED
    BY <1>1, <2>1
<1>3. rank \in Injection(S, T)
  BY <1>1, <1>2 DEF Injection, IsInjective
<1>4. IsFiniteSet(T) /\ Cardinality(T) = Cardinality(S)
  BY <1>1, FS_Interval
<1>5. rank \in Surjection(S, T)
  BY <1>3, <1>4, FS_Injection
<1>6. PICK x \in S : rank[x] = n
  BY <1>5 DEF Surjection
<1> QED
  BY <1>2, <1>6

\* s names each element of S once.
Enumerates(s, S) ==
    /\ s \in [1 .. Cardinality(S) -> S]
    /\ \A m, n \in DOMAIN s : s[m] = s[n] => m = n
    /\ \A x \in S : \E n \in DOMAIN s : s[n] = x

LEMMA RankedEnumerates ==
    ASSUME NEW S, NEW below, IsFiniteSet(S), StrictOrder(S, below)
    PROVE  Enumerates([n \in 1 .. Cardinality(S) |->
                           CHOOSE x \in S : Rank(below, x) = n - 1], S)
<1> DEFINE s == [n \in 1 .. Cardinality(S) |->
                     CHOOSE x \in S : Rank(below, x) = n - 1]
<1>1. Cardinality(S) \in Nat /\ \A x \in S : Rank(below, x) \in 0 .. Cardinality(S) - 1
  BY RanksRise
<1>2. \A n \in 1 .. Cardinality(S) :
          \E x \in S : /\ Rank(below, x) = n - 1
                       /\ \A y \in S : Rank(below, y) = n - 1 => y = x
  <2> TAKE n \in 1 .. Cardinality(S)
  <2>1. n - 1 \in 0 .. Cardinality(S) - 1
    BY <1>1
  <2> QED
    BY <2>1, RanksEnumerate
<1>3. \A n \in 1 .. Cardinality(S) : s[n] \in S /\ Rank(below, s[n]) = n - 1
  BY <1>2
<1>4. \A m, n \in 1 .. Cardinality(S) : s[m] = s[n] => m = n
  BY <1>1, <1>3
<1>5. ASSUME NEW x \in S
      PROVE  \E n \in 1 .. Cardinality(S) : s[n] = x
  <2>1. /\ Rank(below, x) + 1 \in 1 .. Cardinality(S)
        /\ (Rank(below, x) + 1) - 1 = Rank(below, x)
    BY <1>1
  <2>2. s[Rank(below, x) + 1] = x
    BY <1>2, <1>3, <2>1
  <2> QED
    BY <2>1, <2>2
<1>6. s \in [1 .. Cardinality(S) -> S]
  BY <1>3
<1> QED
  BY <1>4, <1>5, <1>6 DEF Enumerates

Lanes == [group : Nat, chunk : Nat]

\* Groups and chunks come in lexicographic order, records of one of them by row.
LEMMA LanesInOrder ==
    ASSUME NEW S \in SUBSET Lanes, IsFiniteSet(S)
    PROVE  Enumerates(InOrder(S, Before), S)
<1> DEFINE below == [x \in S |-> {y \in S : Before(y, x)}]
<1>1. \A x \in S : ~Before(x, x)
  BY DEF Before, Lanes
<1>2. \A x, y, z \in S : Before(x, y) /\ Before(y, z) => Before(x, z)
  BY DEF Before, Lanes
<1>3. \A x, y \in S : x = y \/ Before(x, y) \/ Before(y, x)
  <2> SUFFICES ASSUME NEW x \in S, NEW y \in S, ~Before(x, y), ~Before(y, x)
               PROVE  x = y
    OBVIOUS
  <2>1. x.group = y.group /\ x.chunk = y.chunk
    BY DEF Before, Lanes
  <2> QED
    BY <2>1 DEF Lanes
<1>4. StrictOrder(S, below)
  BY <1>1, <1>2, <1>3 DEF StrictOrder
<1>5. InOrder(S, Before) =
          [n \in 1 .. Cardinality(S) |-> CHOOSE x \in S : Rank(below, x) = n - 1]
  <2>1. \A x \in S : Rank(below, x) = Cardinality({y \in S : Before(y, x)})
    BY DEF Rank
  <2>2. \A n : (CHOOSE x \in S : Rank(below, x) = n - 1)
               = (CHOOSE x \in S : Cardinality({y \in S : Before(y, x)}) = n - 1)
    BY <2>1, Zenon
  <2>3. InOrder(S, Before) =
            [n \in 1 .. Cardinality(S) |->
                CHOOSE x \in S : Cardinality({y \in S : Before(y, x)}) = n - 1]
    BY DEF InOrder
  <2> HIDE DEF below
  <2> QED
    BY <2>2, <2>3, Zenon
<1> HIDE DEF below
<1> QED
  BY <1>4, <1>5, RankedEnumerates

LEMMA RecordsInOrder ==
    ASSUME NEW S \in SUBSET Records, IsFiniteSet(S)
    PROVE  Enumerates(InOrder(S, RecordBefore), S)
<1> DEFINE below == [x \in S |-> {y \in S : RecordBefore(y, x)}]
<1>1. \A x \in S : ~RecordBefore(x, x)
  BY DEF RecordBefore, Before, Records
<1>2. \A x, y, z \in S :
          RecordBefore(x, y) /\ RecordBefore(y, z) => RecordBefore(x, z)
  BY DEF RecordBefore, Before, Records
<1>3. \A x, y \in S : x = y \/ RecordBefore(x, y) \/ RecordBefore(y, x)
  <2> SUFFICES ASSUME NEW x \in S, NEW y \in S,
                      ~RecordBefore(x, y), ~RecordBefore(y, x)
               PROVE  x = y
    OBVIOUS
  <2>1. x.group = y.group /\ x.chunk = y.chunk /\ x.row = y.row
    BY DEF RecordBefore, Before, Records
  <2> QED
    BY <2>1 DEF Records
<1>4. StrictOrder(S, below)
  BY <1>1, <1>2, <1>3 DEF StrictOrder
<1>5. InOrder(S, RecordBefore) =
          [n \in 1 .. Cardinality(S) |-> CHOOSE x \in S : Rank(below, x) = n - 1]
  <2>1. \A x \in S : Rank(below, x) = Cardinality({y \in S : RecordBefore(y, x)})
    BY DEF Rank
  <2>2. \A n : (CHOOSE x \in S : Rank(below, x) = n - 1)
               = (CHOOSE x \in S :
                      Cardinality({y \in S : RecordBefore(y, x)}) = n - 1)
    BY <2>1, Zenon
  <2>3. InOrder(S, RecordBefore) =
            [n \in 1 .. Cardinality(S) |->
                CHOOSE x \in S :
                    Cardinality({y \in S : RecordBefore(y, x)}) = n - 1]
    BY DEF InOrder
  <2> HIDE DEF below
  <2> QED
    BY <2>2, <2>3, Zenon
<1> HIDE DEF below
<1> QED
  BY <1>4, <1>5, RankedEnumerates

-----------------------------------------------------------------------------
(* The plan of a shard. *)

\* What a shard can be, and the batches of the peer.
Shard == shard \in Seq(Records \cup {Nothing}) /\ batch_size \in Nat \ {0}

\* Indices are finitely many, and so are the keys.
LEMMA IndicesAreFinite ==
    ASSUME Shard
    PROVE  Len(shard) \in Nat /\ Indices = 1 .. Len(shard) /\ IsFiniteSet(Indices)
<1>1. Len(shard) \in Nat /\ Indices = 1 .. Len(shard)
  BY DEF Shard, Indices
<1> QED
  BY <1>1, FS_Interval

KeySet == {Key(i) : i \in Indices}

LEMMA KeysEnumerate ==
    ASSUME Shard, ~Legacy
    PROVE  KeySet \subseteq Lanes /\ IsFiniteSet(KeySet) /\ Enumerates(Keys, KeySet)
<1>1. \A i \in Indices : shard[i] \in Records
  BY DEF Shard, Legacy, Indices
<1>2. \A i \in Indices : Key(i) \in Lanes
  BY <1>1 DEF Key, Records, Lanes
<1>3. IsFiniteSet(KeySet)
  <2> DEFINE f == [i \in Indices |-> Key(i)]
  <2>1. f \in Surjection(Indices, KeySet)
    BY DEF Surjection, KeySet
  <2> QED
    BY <2>1, IndicesAreFinite, FS_Surjection
<1>4. KeySet \in SUBSET Lanes
  BY <1>2 DEF KeySet
<1>5. Enumerates(InOrder(KeySet, Before), KeySet)
  BY <1>3, <1>4, LanesInOrder
<1>6. Keys = InOrder(KeySet, Before)
  BY DEF Keys, KeySet
<1> QED
  BY <1>3, <1>4, <1>5, <1>6

PlannedBatch ==
    [records : SUBSET Indices, key : Lanes \cup {Nothing}, reset : BOOLEAN]

\* The plan is a sequence of batches and each index is in one of them.
LEMMA PlanIsSeq ==
    ASSUME Shard
    PROVE  /\ Plan \in Seq(PlannedBatch)
           /\ \A i \in Indices : \E n \in 1 .. Len(Plan) : i \in Plan[n].records
<1>1. Len(shard) \in Nat /\ Indices = 1 .. Len(shard)
  BY IndicesAreFinite
<1>2. CASE Legacy
  <2> DEFINE m == (Len(shard) + batch_size - 1) \div batch_size
             records(b) == {i \in Indices : (i - 1) \div batch_size = b - 1}
  <2>1. m \in Nat
    BY <1>1, SMT DEF Shard
  <2>2. Plan = [b \in 1 .. m |->
                   [records |-> records(b), key |-> Nothing, reset |-> TRUE]]
    BY <1>2 DEF Plan, LegacyPlan
  <2>3. ASSUME NEW i \in Indices
        PROVE  /\ ((i - 1) \div batch_size) + 1 \in 1 .. m
               /\ i \in records(((i - 1) \div batch_size) + 1)
    BY <1>1, SMT DEF Shard
  <2> HIDE DEF m
  <2>4. \A b \in 1 .. m : Plan[b] \in PlannedBatch
    BY <2>2 DEF PlannedBatch
  <2>5. Plan \in Seq(PlannedBatch) /\ Len(Plan) = m
    BY <2>1, <2>2, <2>4
  <2> QED
    BY <2>2, <2>3, <2>5
<1>3. CASE ~Legacy
  <2>1. KeySet \subseteq Lanes /\ IsFiniteSet(KeySet) /\ Enumerates(Keys, KeySet)
    BY <1>3, KeysEnumerate
  <2> DEFINE m == Cardinality(KeySet)
  <2>2. m \in Nat
    BY <2>1, FS_CardinalityType
  <2>3. DOMAIN Keys = 1 .. m /\ \A n \in 1 .. m : Keys[n] \in KeySet
    BY <2>1 DEF Enumerates
  <2> HIDE DEF m
  <2>4. Plan = [n \in 1 .. m |-> [records |-> At(Keys[n]), key |-> Keys[n],
                                  reset |-> Resets(Keys, n)]]
    BY <1>3, <2>3 DEF Plan, AlignedPlan
  <2>5. \A n \in 1 .. m : Plan[n] \in PlannedBatch
    <3> TAKE n \in 1 .. m
    <3>1. At(Keys[n]) \subseteq Indices /\ Keys[n] \in Lanes
      BY <2>1, <2>3 DEF At
    <3>2. Resets(Keys, n) \in BOOLEAN
      BY DEF Resets
    <3> QED
      BY <2>4, <3>1, <3>2 DEF PlannedBatch
  <2>6. Plan \in Seq(PlannedBatch) /\ Len(Plan) = m
    BY <2>2, <2>4, <2>5
  <2>7. ASSUME NEW i \in Indices
        PROVE  \E n \in 1 .. m : i \in Plan[n].records
    <3>1. PICK n \in 1 .. m : Keys[n] = Key(i)
      BY <2>1, <2>3 DEF Enumerates, KeySet
    <3> QED
      BY <2>4, <3>1 DEF At
  <2> QED
    BY <2>6, <2>7
<1> QED
  BY <1>2, <1>3

-----------------------------------------------------------------------------
(* The places of a window on the ring. *)

\* Division with remainder has one answer.
LEMMA DivModUnique ==
    ASSUME NEW n \in Nat, NEW d \in Nat \ {0}, NEW q \in Nat,
           NEW r \in 0 .. d - 1, n = d * q + r
    PROVE  n \div d = q /\ n % d = r
<1> DEFINE p == n \div d
           s == n % d
           k == p - q
<1>1. n = d * p + s /\ p \in Nat /\ s \in 0 .. d - 1
  BY SMT
<1> HIDE DEF p, s
<1>2. k \in Int /\ k * d = r - s
  BY <1>1, SMT
<1>3. p = q + k
  BY <1>1
<1> HIDE DEF k
<1>4. k >= 1 => k * d >= d
  BY <1>2, SMT
<1>5. k <= -1 => k * d <= -d
  BY <1>2, SMT
<1>6. k = 0
  BY <1>1, <1>2, <1>4, <1>5, SMT
<1>7. p = q /\ s = r
  BY <1>1, <1>2, <1>3, <1>6, SMT
<1> QED
  BY <1>7 DEF p, s

\* A step further: in the same row, or at the start of the next one.
LEMMA NextDivMod ==
    ASSUME NEW n \in Nat, NEW d \in Nat \ {0}
    PROVE  IF (n % d) + 1 < d
           THEN (n + 1) \div d = n \div d /\ (n + 1) % d = (n % d) + 1
           ELSE (n + 1) \div d = n \div d + 1 /\ (n + 1) % d = 0
<1> DEFINE q == n \div d
           r == n % d
<1>1. n = d * q + r /\ q \in Nat /\ r \in 0 .. d - 1
  BY SMT
<1> HIDE DEF q, r
<1>2. CASE r + 1 < d
  <2>1. r + 1 \in 0 .. d - 1 /\ n + 1 = d * q + (r + 1)
    BY <1>1, <1>2, SMT
  <2>2. (n + 1) \div d = q /\ (n + 1) % d = r + 1
    BY <1>1, <2>1, DivModUnique
  <2> QED
    BY <1>2, <2>2 DEF q, r
<1>3. CASE ~(r + 1 < d)
  <2>1. r + 1 = d
    BY <1>1, <1>3
  <2>2. q + 1 \in Nat /\ 0 \in 0 .. d - 1 /\ n + 1 = d * (q + 1) + 0
    BY <1>1, <2>1, SMT
  <2>3. (n + 1) \div d = q + 1 /\ (n + 1) % d = 0
    BY <2>2, DivModUnique
  <2> QED
    BY <1>3, <2>3 DEF q, r
<1> QED
  BY <1>2, <1>3

\* A remainder may be taken early.
LEMMA ModAdd ==
    ASSUME NEW a \in Nat, NEW b \in Nat, NEW d \in Nat \ {0}
    PROVE  ((a % d) + b) % d = (a + b) % d
<1> DEFINE q == a \div d
           r == a % d
<1>1. a = d * q + r /\ q \in Nat /\ r \in 0 .. d - 1
  BY SMT
<1> HIDE DEF q, r
<1> DEFINE m == r + b
           p == m \div d
           s == m % d
<1>2. m \in Nat
  BY <1>1
<1> HIDE DEF m
<1>3. m = d * p + s /\ p \in Nat /\ s \in 0 .. d - 1
  BY <1>2, SMT
<1> HIDE DEF p, s
<1>4. a + b = d * (q + p) + s /\ q + p \in Nat
  BY <1>1, <1>3, SMT DEF m
<1>5. (a + b) % d = s
  BY <1>3, <1>4, DivModUnique
<1> QED
  BY <1>5 DEF r, s, m

Count == Min({limit, Len(Plan)})

\* The place in the plan, from 1, of the n-th batch of window `id`.
Turn(id, n) == (id - 1) * Count + (n - 1)
Place(id, n) == (Turn(id, n) % Len(Plan)) + 1

Given == Shard /\ shard # << >> /\ limit \in Nat \ {0}

LEMMA CountIs ==
    ASSUME Given
    PROVE  /\ Len(Plan) \in Nat \ {0}
           /\ Count \in 1 .. Len(Plan)
           /\ Count = IF limit < Len(Plan) THEN limit ELSE Len(Plan)
<1>1. Len(Plan) \in Nat \ {0}
  <2>1. Len(shard) \in Nat /\ Indices = 1 .. Len(shard)
    BY IndicesAreFinite DEF Given
  <2>2. Len(shard) > 0
    BY <2>1 DEF Given, Shard
  <2>3. 1 \in Indices
    BY <2>1, <2>2
  <2>4. Plan \in Seq(PlannedBatch) /\ \E n \in 1 .. Len(Plan) : 1 \in Plan[n].records
    BY <2>3, PlanIsSeq DEF Given
  <2>5. Len(Plan) \in Nat
    BY <2>4
  <2> QED
    BY <2>4, <2>5
<1>2. \A a, b \in Nat : Min({a, b}) = IF a < b THEN a ELSE b
  <2> TAKE a, b \in Nat
  <2> DEFINE c == IF a < b THEN a ELSE b
  <2>1. c \in {a, b} /\ \A y \in {a, b} : c <= y
    OBVIOUS
  <2>2. \A x \in {a, b} : (\A y \in {a, b} : x <= y) => x = c
    OBVIOUS
  <2> HIDE DEF c
  <2>3. Min({a, b}) = c
    BY <2>1, <2>2 DEF Min
  <2> QED
    BY <2>3 DEF c
<1>3. Count = IF limit < Len(Plan) THEN limit ELSE Len(Plan)
  BY <1>1, <1>2 DEF Given, Count
<1> QED
  BY <1>1, <1>3 DEF Given

LEMMA TurnIs ==
    ASSUME Given, NEW id \in Nat \ {0}, NEW n \in Nat \ {0}
    PROVE  /\ Turn(id, n) \in Nat
           /\ Place(id, n) \in 1 .. Len(Plan)
           /\ Turn(id, n + 1) = Turn(id, n) + 1
           /\ Place(id, n + 1) = IF Place(id, n) < Len(Plan)
                                 THEN Place(id, n) + 1 ELSE 1
<1>1. Len(Plan) \in Nat \ {0} /\ Count \in Nat
  BY CountIs
<1>2. (id - 1) * Count \in Nat
  BY <1>1, SMT
<1>3. Turn(id, n) \in Nat /\ Turn(id, n + 1) = Turn(id, n) + 1
  BY <1>2 DEF Turn
<1>4. Turn(id, n) % Len(Plan) \in 0 .. Len(Plan) - 1
  BY <1>1, <1>3
<1>5. Place(id, n + 1) = IF (Turn(id, n) % Len(Plan)) + 1 < Len(Plan)
                         THEN (Turn(id, n) % Len(Plan)) + 1 + 1 ELSE 1
  <2> DEFINE t == Turn(id, n)
             L == Len(Plan)
  <2>1. t \in Nat /\ L \in Nat \ {0} /\ Turn(id, n + 1) = t + 1
    BY <1>1, <1>3
  <2> HIDE DEF t, L
  <2>2. IF (t % L) + 1 < L THEN (t + 1) % L = (t % L) + 1 ELSE (t + 1) % L = 0
    BY <2>1, NextDivMod
  <2>3. Place(id, n + 1) = ((t + 1) % L) + 1
    BY <2>1 DEF Place, L
  <2> QED
    BY <2>2, <2>3 DEF t, L
<1> QED
  BY <1>1, <1>3, <1>4, <1>5 DEF Place

\* A window is what its places hold, and resets where it may not go on.
LEMMA WindowIs ==
    ASSUME Given, NEW id \in Nat \ {0}
    PROVE  /\ Window(Plan, id) \in Seq(PlannedBatch)
           /\ Len(Window(Plan, id)) = Count
           /\ \A n \in 1 .. Count :
                 /\ Window(Plan, id)[n].records = Plan[Place(id, n)].records
                 /\ Window(Plan, id)[n].key = Plan[Place(id, n)].key
                 /\ ~Window(Plan, id)[n].reset =>
                        /\ ~Plan[Place(id, n)].reset
                        /\ Place(id, n) = 1 => n = 1
                        /\ n = 1 => Place(id, n) = 1
<1>1. Len(Plan) \in Nat \ {0} /\ Count \in 1 .. Len(Plan)
  BY CountIs
<1>2. Plan \in Seq(PlannedBatch)
  BY PlanIsSeq DEF Given
<1>3. (id - 1) * Count \in Nat
  BY <1>1, SMT
<1>4. CASE Count = Len(Plan)
  <2>1. Window(Plan, id) = Plan
    BY <1>4 DEF Window, Count
  <2>2. \A n \in 1 .. Count : Place(id, n) = n
    <3> TAKE n \in 1 .. Count
    <3> DEFINE t == Turn(id, n)
               q == id - 1
               L == Len(Plan)
    <3>1. t = L * q + (n - 1) /\ t \in Nat /\ q \in Nat /\ L \in Nat \ {0}
      BY <1>1, <1>3, <1>4, SMT DEF Turn
    <3>2. n - 1 \in 0 .. L - 1
      BY <1>1, <1>4
    <3> HIDE DEF t, q, L
    <3>3. t % L = n - 1
      BY <3>1, <3>2, DivModUnique
    <3> QED
      BY <1>1, <3>3 DEF Place, t, L
  <2> QED
    BY <1>1, <1>2, <1>4, <2>1, <2>2
<1>5. CASE Count # Len(Plan)
  <2> DEFINE at(n) == ((((id - 1) * Count) % Len(Plan)) + n - 1) % Len(Plan)
  <2>1. Window(Plan, id) =
            [n \in 1 .. Count |->
                IF n = 1 \/ at(n) = 0
                THEN [Plan[at(n) + 1] EXCEPT !.reset = TRUE] ELSE Plan[at(n) + 1]]
    BY <1>5 DEF Window, Count, Start
  <2>2. \A n \in 1 .. Count : at(n) + 1 = Place(id, n) /\ at(n) \in Nat
    <3> TAKE n \in 1 .. Count
    <3> DEFINE a == (id - 1) * Count
               L == Len(Plan)
    <3>1. a \in Nat /\ L \in Nat \ {0} /\ n - 1 \in Nat
      BY <1>1, <1>3
    <3>2. ((a % L) + (n - 1)) % L = (a + (n - 1)) % L
      BY <3>1, ModAdd
    <3>3. a % L \in Nat /\ (a % L) + n - 1 = (a % L) + (n - 1)
      BY <3>1, SMT
    <3>4. Turn(id, n) = a + (n - 1)
      BY DEF Turn
    <3> HIDE DEF a, L
    <3>5. ((a % L) + n - 1) % L = Turn(id, n) % L
      BY <3>2, <3>3, <3>4
    <3>6. Turn(id, n) % L \in Nat
      BY <3>1, <3>4, SMT
    <3> QED
      BY <3>5, <3>6 DEF Place, a, L
  <2> HIDE DEF at
  <2>3. \A n \in 1 .. Count :
            Window(Plan, id)[n] =
                IF n = 1 \/ Place(id, n) = 1
                THEN [Plan[Place(id, n)] EXCEPT !.reset = TRUE]
                ELSE Plan[Place(id, n)]
    <3> TAKE n \in 1 .. Count
    <3>1. at(n) + 1 = Place(id, n) /\ (at(n) = 0 <=> Place(id, n) = 1)
      BY <2>2
    <3>2. Window(Plan, id)[n] =
              IF n = 1 \/ at(n) = 0
              THEN [Plan[at(n) + 1] EXCEPT !.reset = TRUE] ELSE Plan[at(n) + 1]
      BY <2>1
    <3> QED
      BY <3>1, <3>2
  <2>4. \A n \in 1 .. Count : Plan[Place(id, n)] \in PlannedBatch
    <3> TAKE n \in 1 .. Count
    <3>1. n \in Nat \ {0}
      BY <1>1
    <3>2. Place(id, n) \in 1 .. Len(Plan)
      BY <3>1, TurnIs
    <3> QED
      BY <1>2, <3>2
  <2>5. ASSUME NEW n \in 1 .. Count
        PROVE  /\ Window(Plan, id)[n] \in PlannedBatch
               /\ Window(Plan, id)[n].records = Plan[Place(id, n)].records
               /\ Window(Plan, id)[n].key = Plan[Place(id, n)].key
               /\ ~Window(Plan, id)[n].reset =>
                      /\ ~Plan[Place(id, n)].reset
                      /\ Place(id, n) # 1 /\ n # 1
    BY <2>3, <2>4 DEF PlannedBatch
  <2>6. Window(Plan, id) \in Seq(PlannedBatch) /\ Len(Window(Plan, id)) = Count
    <3> DEFINE W == Window(Plan, id)
    <3>1. W = [n \in 1 .. Count |-> W[n]]
      BY <2>1
    <3>2. \A n \in 1 .. Count : W[n] \in PlannedBatch
      BY <2>5
    <3> HIDE DEF W
    <3>3. W \in [1 .. Count -> PlannedBatch] /\ Count \in Nat
      BY <1>1, <3>1, <3>2
    <3>4. W \in Seq(PlannedBatch) /\ Len(W) = Count
      BY <3>3
    <3> QED
      BY <3>4 DEF W
  <2> QED
    BY <2>5, <2>6
<1> QED
  BY <1>4, <1>5

-----------------------------------------------------------------------------
(* What is exported. *)

\* Records of chunks are of the groups and rows there are, and finitely many.
LEMMA RecordsAre ==
    ASSUME NEW K \in SUBSET ExportKeys, NEW R \in SUBSET RecordsOf(K)
    PROVE  /\ R \subseteq Records
           /\ IsFiniteSet(R)
           /\ \A r \in R : /\ [group |-> r.group, chunk |-> r.chunk] \in K
                           /\ r.row \in GroupRows(r.group)
<1> DEFINE last == (NumDocuments - 1) \div BatchSize
           Cut == (Groups \X (0 .. ChunksPerDocument - 1)) \X (0 .. BatchSize - 1)
           cut == [c \in Cut |-> [group |-> c[1][1], row |-> c[2], chunk |-> c[1][2]]]
           All == {cut[c] : c \in Cut}
<1>1. last \in Nat /\ Groups = 0 .. last
  BY PlanAssumption, SMT DEF Groups
<1> HIDE DEF last
<1>2. ASSUME NEW r \in R
      PROVE  /\ [group |-> r.group, chunk |-> r.chunk] \in K
             /\ r.row \in GroupRows(r.group)
             /\ r \in All
             /\ r \in Records
  <2>1. PICK k \in K :
            r \in [group : {k.group}, chunk : {k.chunk}, row : GroupRows(k.group)]
    BY DEF RecordsOf
  <2>2. k \in [group : Groups, chunk : 0 .. ChunksPerDocument - 1]
    BY DEF ExportKeys
  <2>3. r.group = k.group /\ r.chunk = k.chunk /\ r.row \in GroupRows(k.group)
    BY <2>1
  <2>4. k = [group |-> r.group, chunk |-> r.chunk]
    BY <2>2, <2>3
  <2>5. r.row \in 0 .. BatchSize - 1
    BY <2>3 DEF GroupRows
  <2>6. r = [group |-> r.group, row |-> r.row, chunk |-> r.chunk]
    BY <2>1
  <2> DEFINE c == <<<<r.group, r.chunk>>, r.row>>
  <2>7. c \in Cut
    BY <2>2, <2>3, <2>5
  <2>8. cut[c] = r
    BY <2>6, <2>7
  <2>9. r \in All
    BY <2>7, <2>8
  <2>10. r \in Records
    BY <1>1, <2>2, <2>3, <2>5, <2>6, PlanAssumption DEF Records
  <2> QED
    BY <2>3, <2>4, <2>9, <2>10
<1>3. IsFiniteSet(Cut)
  <2>1. /\ IsFiniteSet(Groups)
        /\ IsFiniteSet(0 .. ChunksPerDocument - 1)
        /\ IsFiniteSet(0 .. BatchSize - 1)
    BY <1>1, FS_Interval, PlanAssumption
  <2> QED
    BY <2>1, FS_Product
<1>4. cut \in Surjection(Cut, All)
  BY DEF Surjection
<1> HIDE DEF Cut, cut
<1>5. IsFiniteSet(All)
  BY <1>3, <1>4, FS_Surjection
<1>6. R \in SUBSET All
  BY <1>2
<1> HIDE DEF All
<1>7. IsFiniteSet(R)
  BY <1>5, <1>6, FS_Subset
<1> QED
  BY <1>2, <1>7

\* What is in a shard, as a set, and what is read without a lease.
LEMMA SuppliesAre ==
    ASSUME NEW R, NEW chunks, NEW kept \in Supplies(R, chunks)
    PROVE  /\ kept \in SUBSET R
           /\ leased => \E segments : kept = InSegments(R, chunks, segments)
<1>1. CASE kept \in Leased(R, chunks)
  <2>1. PICK segments : kept = InSegments(R, chunks, segments)
    BY <1>1 DEF Leased
  <2> QED
    BY <2>1 DEF InSegments
<1>2. CASE ~leased /\ kept \in Truncated(R, chunks, limit * batch_size)
  <2>1. PICK segments, last :
            kept = InSegments(R, chunks, segments)
                       \cup {r \in R : /\ Segment(r, chunks) = Segment(last, chunks)
                                       /\ ~RecordBefore(last, r)}
    BY <1>2 DEF Truncated
  <2> QED
    BY <1>2, <2>1 DEF InSegments
<1> QED
  BY <1>1, <1>2 DEF Supplies

\* Each chunk of a shard has rows of its group, none twice; under a lease, where
\* segments are whole, it has them all.
LEMMA ExportedChunks ==
    ASSUME batch_size \in Nat \ {0}, shard \in ExportedShards
    PROVE  /\ Shard
           /\ \A key \in KeySet :
                  /\ Rows(key) \subseteq GroupRows(key.group)
                  /\ Cardinality(At(key)) = Cardinality(Rows(key))
                  /\ leased => Rows(key) = GroupRows(key.group)
<1>1. PICK records \in ExportedRecords, chunks \in Limits :
          \E kept \in Supplies(records, chunks) : shard = InOrder(kept, RecordBefore)
  BY DEF ExportedShards
<1>2. PICK R \in Supplies(records, chunks) : shard = InOrder(R, RecordBefore)
  BY <1>1
<1>3. PICK supervised \in SUBSET ExportKeys, max \in MaxRecords :
          records = RecordsOf(ExportedKeys(supervised, max))
  BY DEF ExportedRecords
<1> DEFINE K == ExportedKeys(supervised, max)
<1>4. K \in SUBSET ExportKeys
  BY DEF ExportedKeys
<1> HIDE DEF K
<1>5. records = RecordsOf(K)
  BY <1>3 DEF K
<1>6. /\ R \in SUBSET RecordsOf(K)
      /\ leased => \E segments : R = InSegments(RecordsOf(K), chunks, segments)
  BY <1>5, SuppliesAre
<1>7. /\ R \subseteq Records
      /\ IsFiniteSet(R)
      /\ \A r \in R : /\ [group |-> r.group, chunk |-> r.chunk] \in K
                      /\ r.row \in GroupRows(r.group)
  BY <1>4, <1>6, RecordsAre
<1>8. ASSUME leased
      PROVE  \A r \in R : \A row \in GroupRows(r.group) :
                 [group |-> r.group, row |-> row, chunk |-> r.chunk] \in R
  <2>1. PICK segments : R = InSegments(RecordsOf(K), chunks, segments)
    BY <1>6, <1>8
  <2> TAKE r \in R
  <2> TAKE row \in GroupRows(r.group)
  <2> DEFINE k == [group |-> r.group, chunk |-> r.chunk]
             q == [group |-> r.group, row |-> row, chunk |-> r.chunk]
  <2>2. k \in K
    BY <1>7
  <2>3. q \in [group : {k.group}, chunk : {k.chunk}, row : GroupRows(k.group)]
    OBVIOUS
  <2>4. q \in RecordsOf(K)
    BY <2>2, <2>3 DEF RecordsOf
  <2>5. Segment(q, chunks) = Segment(r, chunks)
    BY DEF Segment
  <2> QED
    BY <2>1, <2>4, <2>5 DEF InSegments
<1>9. Enumerates(shard, R)
  <2>1. R \in SUBSET Records
    BY <1>7
  <2> QED
    BY <1>2, <1>7, <2>1, RecordsInOrder
<1>10. Shard
  <2>1. Cardinality(R) \in Nat
    BY <1>7, FS_CardinalityType
  <2>2. shard \in [1 .. Cardinality(R) -> Records \cup {Nothing}]
    BY <1>7, <1>9 DEF Enumerates
  <2> QED
    BY <2>1, <2>2 DEF Shard
<1>11. \A i \in Indices : shard[i] \in R /\ shard[i] \in Records
  BY <1>7, <1>9 DEF Enumerates, Indices
<1>12. ASSUME NEW key \in KeySet
       PROVE  /\ Rows(key) \subseteq GroupRows(key.group)
              /\ leased => GroupRows(key.group) \subseteq Rows(key)
  <2>1. PICK i \in Indices : key = Key(i)
    BY DEF KeySet
  <2>2. key.group = shard[i].group /\ key.chunk = shard[i].chunk
    BY <2>1 DEF Key
  <2>3. ASSUME NEW row \in Rows(key)
        PROVE  row \in GroupRows(key.group)
    <3>1. PICK j \in At(key) : row = shard[j].row
      BY DEF Rows
    <3>2. j \in Indices /\ Key(j) = key
      BY DEF At
    <3>3. shard[j].group = key.group
      BY <3>2 DEF Key
    <3> QED
      BY <1>7, <1>11, <3>1, <3>2, <3>3
  <2>4. ASSUME leased, NEW row \in GroupRows(key.group)
        PROVE  row \in Rows(key)
    <3>1. [group |-> key.group, row |-> row, chunk |-> key.chunk] \in R
      BY <1>8, <1>11, <2>2, <2>4
    <3>2. PICK j \in DOMAIN shard :
              shard[j] = [group |-> key.group, row |-> row, chunk |-> key.chunk]
      BY <1>9, <3>1 DEF Enumerates
    <3>3. Key(j) = key /\ shard[j].row = row
      BY <2>1, <3>2 DEF Key
    <3> QED
      BY <3>2, <3>3 DEF At, Rows, Indices
  <2> QED
    BY <2>3, <2>4
<1>13. ASSUME NEW key \in KeySet
       PROVE  Cardinality(At(key)) = Cardinality(Rows(key))
  <2> DEFINE f == [j \in At(key) |-> shard[j].row]
  <2>1. At(key) \in SUBSET Indices
    BY DEF At
  <2>2. IsFiniteSet(At(key))
    BY <1>10, <2>1, IndicesAreFinite, FS_Subset
  <2>3. f \in Surjection(At(key), Rows(key))
    BY DEF Surjection, Rows
  <2>4. ASSUME NEW i \in At(key), NEW j \in At(key), shard[i].row = shard[j].row
        PROVE  i = j
    <3>1. Key(i) = Key(j) /\ i \in Indices /\ j \in Indices
      BY DEF At
    <3>2. shard[i].group = shard[j].group /\ shard[i].chunk = shard[j].chunk
      BY <3>1 DEF Key
    <3>3. shard[i] = shard[j]
      BY <1>11, <2>4, <3>1, <3>2 DEF Records
    <3> QED
      BY <1>9, <3>1, <3>3 DEF Enumerates, Indices
  <2>5. f \in Injection(At(key), Rows(key))
    BY <2>3, <2>4 DEF Injection, IsInjective, Surjection
  <2> HIDE DEF f
  <2> QED
    BY <2>2, <2>3, <2>5, FS_Surjection
<1> QED
  BY <1>10, <1>12, <1>13

\* So the planner finds no row twice and, where the chunks are whole, with the next
\* chunk of a group the same rows again: it can only want larger batches.
LEMMA ExportedIsPlanned ==
    ASSUME batch_size \in Nat \ {0}, shard \in ExportedShards
    PROVE  Shard /\ (Refused => TooWide \/ (~leased /\ Incomplete))
<1>1. /\ Shard
      /\ \A key \in KeySet : /\ Rows(key) \subseteq GroupRows(key.group)
                             /\ Cardinality(At(key)) = Cardinality(Rows(key))
                             /\ leased => Rows(key) = GroupRows(key.group)
  BY ExportedChunks
<1> SUFFICES ASSUME ~Legacy, ~TooWide, leased \/ ~Incomplete, NEW n \in DOMAIN Keys
             PROVE  /\ ~(Cardinality(At(Keys[n])) > batch_size)
                    /\ ~(Cardinality(Rows(Keys[n])) < Cardinality(At(Keys[n])))
                    /\ ~Resets(Keys, n) => Rows(Keys[n]) = Rows(Keys[n - 1])
  BY <1>1 DEF Refused
<1>2. /\ Cardinality(KeySet) \in Nat
      /\ DOMAIN Keys = 1 .. Cardinality(KeySet)
      /\ \A m \in DOMAIN Keys : Keys[m] \in KeySet
  BY <1>1, KeysEnumerate, FS_CardinalityType DEF Enumerates
<1>3. ASSUME NEW key \in KeySet
      PROVE  /\ ~(Cardinality(Rows(key)) > batch_size)
             /\ Rows(key) = GroupRows(key.group)
  <2>1. PICK i \in Indices : key = Key(i)
    BY DEF KeySet
  <2>2. key.group = shard[i].group
    BY <2>1 DEF Key
  <2> QED
    BY <1>1, <2>1, <2>2 DEF TooWide, Incomplete
<1>4. /\ Cardinality(At(Keys[n])) = Cardinality(Rows(Keys[n]))
      /\ ~(Cardinality(Rows(Keys[n])) > batch_size)
      /\ Cardinality(Rows(Keys[n])) \in Nat
  <2>1. At(Keys[n]) \in SUBSET Indices
    BY DEF At
  <2>2. IsFiniteSet(At(Keys[n]))
    BY <1>1, <2>1, IndicesAreFinite, FS_Subset
  <2> QED
    BY <1>1, <1>2, <1>3, <2>2, FS_CardinalityType
<1>5. ASSUME ~Resets(Keys, n)
      PROVE  Rows(Keys[n]) = Rows(Keys[n - 1])
  <2>1. n - 1 \in DOMAIN Keys /\ Keys[n].group = Keys[n - 1].group
    BY <1>2, <1>5 DEF Resets, Contiguous
  <2> QED
    BY <1>2, <1>3, <2>1
<1> QED
  BY <1>4, <1>5

-----------------------------------------------------------------------------
(* The inductive invariant. *)

\* The shard is a sequence of records that can be planned if it is exported.
Supplied ==
    /\ Given
    /\ exported /\ Refused => TooWide \/ (~leased /\ Incomplete)
    /\ window \in Nat /\ failed \in BOOLEAN
    /\ ~leased => window <= 1
    /\ selected \in Seq(PlannedBatch)

Done == Count - Len(selected)

\* What is left of a window is its end, and the state is of the batch before it.
RestOfWindow ==
    selected # << >> =>
        /\ window # 0 /\ ~Refused /\ ~failed
        /\ Len(selected) <= Count
        /\ \A n \in 1 .. Len(selected) :
               selected[n] = Window(Plan, window)[Done + n]
        /\ Done > 0 => state = StateAfter(Window(Plan, window)[Done])

\* The batches on the ring between two turns.
Batches(from, to) == UNION {Plan[(t % Len(Plan)) + 1].records : t \in from .. to - 1}

\* A streak has trained the batches since its first window.
Streak ==
    /\ streak \in Nat /\ streak <= window
    /\ streak = 0 => selected = << >> /\ trained = {}
    /\ streak > 0 /\ ~failed =>
           trained = Batches((window - streak) * Count, (window - 1) * Count + Done)

PlanInv == Supplied /\ RestOfWindow /\ Streak

\* What the shard determines does not change.
LEMMA PlanIsRigid ==
    ASSUME UNCHANGED rigidVars
    PROVE  /\ Legacy' = Legacy /\ Indices' = Indices /\ Shard' = Shard
           /\ Plan' = Plan /\ Count' = Count /\ Given' = Given
           /\ Refused' = Refused /\ TooWide' = TooWide /\ Incomplete' = Incomplete
           /\ \A id : Window(Plan, id)' = Window(Plan, id)
           /\ \A key : Rows(key)' = Rows(key)
           /\ \A from, to : Batches(from, to)' = Batches(from, to)
<1>1. shard' = shard /\ limit' = limit /\ batch_size' = batch_size
  BY DEF rigidVars
<1>2. Indices' = Indices /\ Shard' = Shard /\ Legacy' = Legacy
  BY <1>1 DEF Indices, Shard, Legacy
<1>3. \A i : Key(i)' = Key(i)
  BY <1>1 DEF Key
<1>4. \A key : At(key)' = At(key) /\ Rows(key)' = Rows(key)
  BY <1>1, <1>2, <1>3 DEF At, Rows
<1>5. Keys' = Keys
  BY <1>2, <1>3 DEF Keys
<1>6. Plan' = Plan
  BY <1>1, <1>2, <1>4, <1>5 DEF Plan, LegacyPlan, AlignedPlan
<1>7. Refused' = Refused /\ TooWide' = TooWide /\ Incomplete' = Incomplete
  BY <1>1, <1>2, <1>3, <1>4, <1>5 DEF Refused, TooWide, Incomplete
<1>8. Count' = Count /\ Given' = Given
  BY <1>1, <1>2, <1>6 DEF Count, Given
<1>9. \A id : Window(Plan, id)' = Window(Plan, id)
  BY <1>1, <1>6 DEF Window
<1>10. \A from, to : Batches(from, to)' = Batches(from, to)
  BY <1>6 DEF Batches
<1> QED
  BY <1>2, <1>4, <1>6, <1>7, <1>8, <1>9, <1>10

LEMMA PlanInit == Init => PlanInv
<1> SUFFICES ASSUME Init PROVE PlanInv
  OBVIOUS
<1>1. limit \in Nat \ {0} /\ shard # << >> /\ batch_size \in Nat \ {0}
  BY PlanAssumption DEF Init
<1>2. Shard /\ (exported /\ Refused => TooWide \/ (~leased /\ Incomplete))
  <2>1. CASE exported
    BY <1>1, <2>1, ExportedIsPlanned DEF Init
  <2>2. CASE ~exported
    BY <1>1, <2>2, RecordAssumption DEF Init, Shard
  <2> QED
    BY <2>1, <2>2
<1>3. Supplied
  <2>1. << >> \in Seq(PlannedBatch) /\ 0 \in Nat /\ 0 <= 1 /\ FALSE \in BOOLEAN
    OBVIOUS
  <2>2. selected = << >> /\ window = 0 /\ failed = FALSE
    BY DEF Init
  <2> QED
    BY <1>1, <1>2, <2>1, <2>2 DEF Supplied, Given
<1> QED
  BY <1>3 DEF Init, PlanInv, RestOfWindow, Streak

LEMMA BatchesEnds ==
    ASSUME NEW from \in Int, NEW to \in Int
    PROVE  /\ from = to => Batches(from, to) = {}
           /\ from <= to => Batches(from, to + 1) =
                                Batches(from, to)
                                \cup Plan[(to % Len(Plan)) + 1].records
<1>1. from = to => from .. to - 1 = {}
  OBVIOUS
<1>2. from <= to => from .. (to + 1) - 1 = (from .. to - 1) \cup {to}
  OBVIOUS
<1> QED
  BY <1>1, <1>2 DEF Batches

\* A window that follows the one before begins where that one ended.
LEMMA NextTurn ==
    ASSUME Given, NEW n \in Nat \ {0}
    PROVE  /\ (n - 1) * Count + Count = n * Count
           /\ \A s \in 0 .. n : (n - s) * Count \in Nat
           /\ \A s \in 1 .. n : (n - s) * Count <= (n - 1) * Count
           /\ (n - 1) * Count \in Nat
<1>1. Count \in Nat
  BY CountIs
<1> QED
  BY <1>1, SMT

LEMMA TakeWindowStep ==
    ASSUME PlanInv, NEW id \in 1 .. MaxWindow, TakeWindow(id)
    PROVE  PlanInv'
<1>1. UNCHANGED rigidVars /\ window' = id /\ selected = << >> /\ ~failed
      /\ id \in Nat \ {0} /\ window \in Nat
      /\ window <= id /\ (~leased => id <= 1)
  BY PlanAssumption DEF TakeWindow, PlanInv, Supplied
<1>2. /\ Plan' = Plan /\ Count' = Count /\ Given' = Given /\ Refused' = Refused
      /\ \A i : Window(Plan, i)' = Window(Plan, i)
      /\ \A from, to : Batches(from, to)' = Batches(from, to)
      /\ exported' = exported /\ leased' = leased
      /\ TooWide' = TooWide /\ Incomplete' = Incomplete
      /\ PlannedBatch' = PlannedBatch
  BY <1>1, PlanIsRigid DEF rigidVars, PlannedBatch
<1>3. Given /\ Count \in Nat \ {0} /\ Len(Plan) \in Nat \ {0}
  BY CountIs DEF PlanInv, Supplied
<1>4. CASE Refused
  <2>1. failed' = TRUE /\ UNCHANGED <<selected, streak, trained>>
    BY <1>4 DEF TakeWindow
  <2>2. Supplied'
    BY <1>1, <1>2, <2>1 DEF PlanInv, Supplied
  <2>3. RestOfWindow' /\ Streak'
    BY <1>1, <2>1 DEF PlanInv, RestOfWindow, Streak
  <2> QED
    BY <2>2, <2>3 DEF PlanInv
<1>5. CASE ~Refused
  <2> DEFINE W == Window(Plan, id)
  <2>1. /\ selected' = W
        /\ streak' = IF id = window + 1 THEN streak + 1 ELSE 1
        /\ trained' = IF id = window + 1 THEN trained ELSE {}
        /\ failed' = FALSE
    BY <1>1, <1>5 DEF TakeWindow
  <2>2. W \in Seq(PlannedBatch) /\ Len(W) = Count
    BY <1>1, <1>3, WindowIs
  <2> HIDE DEF W
  <2>3. Supplied'
    BY <1>1, <1>2, <2>1, <2>2 DEF PlanInv, Supplied
  <2>4. Len(selected') = Count' /\ Done' = 0
    BY <1>2, <1>3, <2>1, <2>2 DEF Done
  <2>5. W = Window(Plan, window)'
    BY <1>1, <1>2 DEF W
  <2>6. RestOfWindow'
    BY <1>1, <1>2, <1>3, <1>5, <2>1, <2>2, <2>4, <2>5 DEF RestOfWindow
  <2>7. streak' \in Nat \ {0} /\ streak' <= id
    BY <1>1, <2>1 DEF PlanInv, Streak
  <2>8. trained' = Batches((id - streak') * Count, (id - 1) * Count)
    <3>1. (id - 1) * Count \in Int
      BY <1>1, <1>3, SMT
    <3>2. CASE id = window + 1 /\ streak > 0
      <4>1. Done = Count
        BY <1>1, <1>3 DEF Done
      <4>2. trained = Batches((window - streak) * Count,
                              (window - 1) * Count + Count)
        BY <1>1, <3>2, <4>1 DEF PlanInv, Streak
      <4>3. window \in Nat \ {0} /\ streak \in Nat
        BY <1>1, <3>2 DEF PlanInv, Streak
      <4>4. (window - 1) * Count + Count = window * Count
        BY <1>3, <4>3, NextTurn
      <4>5. id - 1 = window /\ id - streak' = window - streak
        BY <1>1, <2>1, <3>2, <4>3
      <4> QED
        BY <2>1, <3>2, <4>2, <4>4, <4>5
    <3>3. CASE ~(id = window + 1 /\ streak > 0)
      <4>1. streak' = 1 /\ trained' = {}
        BY <1>1, <2>1, <3>3 DEF PlanInv, Streak
      <4> QED
        BY <3>1, <4>1, BatchesEnds
    <3> QED
      BY <3>2, <3>3
  <2>9. Streak'
    <3>1. (id - 1) * Count \in Int
      BY <1>1, <1>3, SMT
    <3>2. (id - 1) * Count + Done' = (id - 1) * Count
      BY <2>4, <3>1
    <3>3. trained' = Batches((window - streak) * Count,
                             (window - 1) * Count + Done)'
      BY <1>1, <1>2, <2>8, <3>2
    <3> QED
      BY <1>1, <2>7, <3>3 DEF Streak
  <2> QED
    BY <2>3, <2>6, <2>9 DEF PlanInv
<1> QED
  BY <1>4, <1>5

\* The batch at the head of what is left.
LEMMA HeadOfRest ==
    ASSUME PlanInv, selected # << >>
    PROVE  /\ Given /\ Count \in Nat \ {0} /\ window \in Nat \ {0}
           /\ ~Refused /\ ~failed
           /\ Len(selected) \in 1 .. Count /\ Done \in 0 .. Count - 1
           /\ Head(selected) = Window(Plan, window)[Done + 1]
           /\ Tail(selected) \in Seq(PlannedBatch)
           /\ Len(Tail(selected)) = Len(selected) - 1
           /\ \A n \in 1 .. Len(selected) - 1 : Tail(selected)[n] = selected[n + 1]
<1>1. Given /\ Count \in Nat \ {0} /\ window \in Nat \ {0} /\ ~Refused /\ ~failed
  BY CountIs DEF PlanInv, Supplied, RestOfWindow
<1>2. selected \in Seq(PlannedBatch)
  BY DEF PlanInv, Supplied
<1>3. Len(selected) \in Nat \ {0} /\ Head(selected) = selected[1]
  BY <1>2
<1>4. Tail(selected) \in Seq(PlannedBatch) /\ Len(Tail(selected)) = Len(selected) - 1
      /\ \A n \in 1 .. Len(selected) - 1 : Tail(selected)[n] = selected[n + 1]
  BY <1>2
<1>5. /\ Len(selected) <= Count
      /\ \A n \in 1 .. Len(selected) :
             selected[n] = Window(Plan, window)[Done + n]
  BY DEF PlanInv, RestOfWindow
<1>6. Len(selected) \in 1 .. Count /\ Done \in 0 .. Count - 1
  BY <1>1, <1>3, <1>5 DEF Done
<1>7. 1 \in 1 .. Len(selected)
  BY <1>3
<1>8. Head(selected) = Window(Plan, window)[Done + 1]
  BY <1>3, <1>5, <1>7
<1> QED
  BY <1>1, <1>4, <1>6, <1>8

LEMMA TrainBatchStep ==
    ASSUME PlanInv, TrainBatch
    PROVE  PlanInv'
<1>1. /\ UNCHANGED <<rigidVars, window, failed, streak>> /\ selected # << >>
      /\ selected' = Tail(selected)
      /\ state' = StateAfter(Head(selected))
      /\ trained' = trained \cup Head(selected).records
  BY DEF TrainBatch
<1>2. /\ Plan' = Plan /\ Count' = Count /\ Given' = Given /\ Refused' = Refused
      /\ \A i : Window(Plan, i)' = Window(Plan, i)
      /\ \A key : Rows(key)' = Rows(key)
      /\ \A from, to : Batches(from, to)' = Batches(from, to)
      /\ exported' = exported /\ leased' = leased
      /\ TooWide' = TooWide /\ Incomplete' = Incomplete
      /\ PlannedBatch' = PlannedBatch
  BY <1>1, PlanIsRigid DEF rigidVars, PlannedBatch
<1> DEFINE W == Window(Plan, window)
<1>3. /\ Given /\ Count \in Nat \ {0} /\ window \in Nat \ {0}
      /\ ~Refused /\ ~failed
      /\ Len(selected) \in 1 .. Count /\ Done \in 0 .. Count - 1
      /\ Head(selected) = W[Done + 1]
      /\ Tail(selected) \in Seq(PlannedBatch)
      /\ Len(Tail(selected)) = Len(selected) - 1
      /\ \A n \in 1 .. Len(selected) - 1 : Tail(selected)[n] = selected[n + 1]
  BY <1>1, HeadOfRest
<1>4. Window(Plan, window)' = W
  BY <1>1, <1>2
<1>5. Done' = Done + 1
  BY <1>1, <1>2, <1>3 DEF Done
<1>6. Supplied'
  BY <1>1, <1>2, <1>3 DEF PlanInv, Supplied
<1>7. \A n \in 1 .. Len(selected) : selected[n] = W[Done + n]
  BY <1>1 DEF PlanInv, RestOfWindow
<1>8. RestOfWindow'
  <2>1. \A n \in 1 .. Len(selected') : selected'[n] = W[Done' + n]
    <3> TAKE n \in 1 .. Len(selected')
    <3>1. n \in 1 .. Len(selected) - 1 /\ n + 1 \in 1 .. Len(selected)
      BY <1>1, <1>3
    <3>2. selected'[n] = selected[n + 1] /\ selected[n + 1] = W[Done + (n + 1)]
      BY <1>1, <1>3, <1>7, <3>1
    <3>3. Done + (n + 1) = Done' + n
      BY <1>3, <1>5, <3>1
    <3> QED
      BY <3>2, <3>3
  <2>2. (state = StateAfter(Window(Plan, window)[Done]))'
    <3>1. Window(Plan, window)'[Done'] = Head(selected)
      BY <1>3, <1>4, <1>5
    <3> HIDE DEF W
    <3> QED
      BY <1>1, <1>2, <3>1 DEF StateAfter
  <2>3. Len(selected') <= Count'
    BY <1>1, <1>2, <1>3
  <2> HIDE DEF W
  <2>4. (\A n \in 1 .. Len(selected) :
             selected[n] = Window(Plan, window)[Done + n])'
    BY <1>4, <2>1
  <2>5. (window # 0 /\ ~Refused /\ ~failed)'
    BY <1>1, <1>2, <1>3
  <2> QED
    BY <2>2, <2>3, <2>4, <2>5 DEF RestOfWindow
<1>9. Streak'
  <2> DEFINE from == (window - streak) * Count
             to == (window - 1) * Count + Done
  <2>1. streak \in 1 .. window
    BY <1>1, <1>3 DEF PlanInv, Streak
  <2>2. trained = Batches(from, to)
    BY <1>3, <2>1 DEF PlanInv, Streak
  <2>3. from \in Nat /\ to \in Nat /\ from <= to
    BY <1>3, <2>1, NextTurn
  <2>4. (window - 1) * Count + (Done + 1) = to + 1
    BY <1>3, NextTurn
  <2>5. Head(selected).records = Plan[(to % Len(Plan)) + 1].records
    <3>1. Done + 1 \in 1 .. Count /\ Done + 1 \in Nat \ {0}
      BY <1>3
    <3>2. W[Done + 1].records = Plan[Place(window, Done + 1)].records
      BY <1>3, <3>1, WindowIs
    <3>3. Turn(window, Done + 1) = to
      BY <1>3 DEF Turn
    <3> QED
      BY <1>3, <3>2, <3>3 DEF Place
  <2>6. trained' = Batches(from, to + 1)
    BY <1>1, <2>2, <2>3, <2>5, BatchesEnds
  <2>7. (trained = Batches((window - streak) * Count,
                           (window - 1) * Count + Done))'
    BY <1>1, <1>2, <1>5, <2>4, <2>6
  <2> QED
    BY <1>1, <2>1, <2>7 DEF Streak
<1> QED
  BY <1>6, <1>8, <1>9 DEF PlanInv

LEMMA OutOfBudgetStep ==
    ASSUME PlanInv, OutOfBudget
    PROVE  PlanInv'
<1>1. /\ UNCHANGED <<rigidVars, window, state, failed>>
      /\ selected' = << >> /\ streak' = 0 /\ trained' = {}
  BY DEF OutOfBudget
<1>2. Given' = Given /\ Refused' = Refused /\ PlannedBatch' = PlannedBatch
      /\ exported' = exported /\ leased' = leased
      /\ TooWide' = TooWide /\ Incomplete' = Incomplete
  BY <1>1, PlanIsRigid DEF rigidVars, PlannedBatch
<1>3. << >> \in Seq(PlannedBatch)
  OBVIOUS
<1>4. Supplied'
  BY <1>1, <1>2, <1>3 DEF PlanInv, Supplied
<1>5. RestOfWindow' /\ Streak'
  BY <1>1 DEF PlanInv, Supplied, RestOfWindow, Streak
<1> QED
  BY <1>4, <1>5 DEF PlanInv

LEMMA PlanStep == PlanInv /\ [Next]_vars => PlanInv'
<1> SUFFICES ASSUME PlanInv, [Next]_vars PROVE PlanInv'
  OBVIOUS
<1>1. ASSUME NEW id \in 1 .. MaxWindow, TakeWindow(id) PROVE PlanInv'
  BY <1>1, TakeWindowStep
<1>2. CASE TrainBatch
  BY <1>2, TrainBatchStep
<1>3. CASE OutOfBudget
  BY <1>3, OutOfBudgetStep
<1>4. CASE UNCHANGED vars
  <2>1. UNCHANGED <<rigidVars, window, selected, state, failed, streak, trained>>
    BY <1>4 DEF vars
  <2>2. /\ Plan' = Plan /\ Count' = Count /\ Given' = Given /\ Refused' = Refused
        /\ \A i : Window(Plan, i)' = Window(Plan, i)
        /\ \A key : Rows(key)' = Rows(key)
        /\ \A from, to : Batches(from, to)' = Batches(from, to)
        /\ exported' = exported /\ leased' = leased
        /\ TooWide' = TooWide /\ Incomplete' = Incomplete
        /\ PlannedBatch' = PlannedBatch
    BY <2>1, PlanIsRigid DEF rigidVars, PlannedBatch
  <2>3. Supplied'
    BY <2>1, <2>2 DEF PlanInv, Supplied
  <2>4. RestOfWindow'
    BY <2>1, <2>2 DEF PlanInv, RestOfWindow, Done, StateAfter
  <2>5. Streak'
    BY <2>1, <2>2 DEF PlanInv, Streak, Done
  <2> QED
    BY <2>3, <2>4, <2>5 DEF PlanInv
<1> QED
  BY <1>1, <1>2, <1>3, <1>4 DEF Next

LEMMA PlanAlways == Spec => []PlanInv
BY PlanInit, PlanStep, PTL DEF Spec

-----------------------------------------------------------------------------
(* What follows. *)

\* What window_records_from_dataset made can be planned, whatever chunks have nothing
\* to learn, wherever the exporter's limits cut, whichever segments meet in a shard,
\* and whatever the batch size and the limit of the peer: the planner refuses it only
\* where a chunk has more rows than a batch of the peer, or where a browser without a
\* lease stopped reading in the middle of a chunk.
THEOREM ExportIsAccepted == Spec => []ExportIsPlanned
<1> DEFINE Sound == failed => Refused
<1>1. Init => Sound
  BY DEF Init
<1>2. Sound /\ [Next]_vars => Sound'
  <2> SUFFICES ASSUME Sound, [Next]_vars, failed' PROVE Refused'
    OBVIOUS
  <2>1. UNCHANGED rigidVars
    BY DEF Next, TakeWindow, TrainBatch, OutOfBudget, vars
  <2>2. failed \/ Refused
    BY DEF Next, TakeWindow, TrainBatch, OutOfBudget, vars
  <2> QED
    BY <2>1, <2>2, PlanIsRigid
<1>3. PlanInv /\ Sound => ExportIsPlanned
  BY DEF PlanInv, Supplied, ExportIsPlanned
<1> QED
  BY <1>1, <1>2, <1>3, PlanAlways, PTL DEF Spec

\* A round of turns meets every place of the ring.
LEMMA RoundCovers ==
    ASSUME NEW L \in Nat \ {0}, NEW from \in Nat, NEW p \in 0 .. L - 1
    PROVE  \E t \in from .. from + L - 1 : t % L = p
<1> DEFINE r == from % L
           q == from \div L
<1>1. from = L * q + r /\ q \in Nat /\ r \in 0 .. L - 1
  BY SMT
<1> HIDE DEF r, q
<1>2. CASE r <= p
  <2>1. L * q + p \in from .. from + L - 1
    BY <1>1, <1>2, SMT
  <2>2. L * q + p \in Nat
    BY <2>1
  <2>3. (L * q + p) % L = p
    BY <1>1, <2>2, DivModUnique
  <2> QED
    BY <2>1, <2>3
<1>3. CASE p < r
  <2>1. L * (q + 1) + p \in from .. from + L - 1
    BY <1>1, <1>3, SMT
  <2>2. L * (q + 1) + p \in Nat /\ q + 1 \in Nat
    BY <1>1, <2>1
  <2>3. (L * (q + 1) + p) % L = p
    BY <1>1, <2>2, DivModUnique
  <2> QED
    BY <2>1, <2>3
<1> QED
  BY <1>1, <1>2, <1>3

\* As many windows as WindowsPerRound go round the ring at least once.
LEMMA RoundIsWhole ==
    ASSUME Given, NEW s \in Nat, s >= WindowsPerRound
    PROVE  s * Count >= Len(Plan) /\ s > 0
<1> DEFINE L == Len(Plan)
           w == (L + limit - 1) \div limit
<1>1. L \in Nat \ {0} /\ Count \in 1 .. L
      /\ Count = IF limit < L THEN limit ELSE L
  BY CountIs
<1>2. limit \in Nat \ {0}
  BY DEF Given
<1>3. w \in Nat /\ limit * w > L - 1
  BY <1>1, <1>2, SMT
<1>4. s >= w
  BY DEF WindowsPerRound
<1> HIDE DEF L, w
<1>5. limit * s >= limit * w
  BY <1>2, <1>3, <1>4, SMT
<1>6. s * limit >= L
  BY <1>1, <1>2, <1>3, <1>5, SMT
<1>7. s > 0
  BY <1>1, <1>2, <1>6, SMT
<1>8. s * Count >= L
  BY <1>1, <1>2, <1>6, <1>7, SMT
<1> QED
  BY <1>7, <1>8 DEF L

\* Windows in a row tile the ring, whatever the limit and the length of the plan: once
\* a peer has trained as many, each to its end, as it takes to go round, it has trained
\* every record of its shard.
THEOREM WindowsCoverShard == Spec => []RotationCovers
<1>1. PlanInv => RotationCovers
  <2> SUFFICES ASSUME PlanInv, streak >= WindowsPerRound, selected = << >>, ~failed,
                      window > 0
               PROVE  trained = Indices
    BY DEF RotationCovers
  <2>1. Given /\ streak \in Nat /\ streak <= window /\ window \in Nat \ {0}
    BY DEF PlanInv, Supplied, Streak
  <2>2. Len(Plan) \in Nat \ {0} /\ Count \in Nat \ {0}
    BY <2>1, CountIs
  <2>3. streak * Count >= Len(Plan) /\ streak > 0
    BY <2>1, RoundIsWhole
  <2> DEFINE from == (window - streak) * Count
  <2>4. Done = Count
    BY <2>2 DEF Done
  <2>5. (window - 1) * Count + Done = from + streak * Count /\ from \in Nat
    BY <2>1, <2>2, <2>4, SMT
  <2>6. trained = Batches(from, from + streak * Count)
    BY <2>3, <2>5 DEF PlanInv, Streak
  <2>7. streak * Count \in Nat
    BY <2>1, <2>2, SMT
  <2> DEFINE S == streak * Count
             L == Len(Plan)
  <2> HIDE DEF from, S, L
  <2>8. from \in Nat /\ S \in Nat /\ L \in Nat \ {0} /\ S >= L
    BY <2>2, <2>3, <2>5, <2>7 DEF S, L
  <2>9. trained = UNION {Plan[(t % L) + 1].records : t \in from .. from + S - 1}
    <3>1. trained = Batches(from, from + S)
      BY <2>6 DEF S
    <3> QED
      BY <3>1, <2>8 DEF Batches, L
  <2>10. Plan \in Seq(PlannedBatch)
         /\ \A i \in Indices : \E n \in 1 .. L : i \in Plan[n].records
    BY <2>1, PlanIsSeq DEF L, Given
  <2>11. ASSUME NEW i \in Indices
         PROVE  i \in trained
    <3>1. PICK n \in 1 .. L : i \in Plan[n].records
      BY <2>10
    <3>2. n - 1 \in 0 .. L - 1 /\ (n - 1) + 1 = n
      BY <2>8
    <3>3. PICK t \in from .. from + L - 1 : t % L = n - 1
      BY <2>8, <3>2, RoundCovers
    <3>4. t \in from .. from + S - 1
      BY <2>8
    <3>5. i \in Plan[(t % L) + 1].records
      BY <3>1, <3>2, <3>3
    <3> QED
      BY <2>9, <3>4, <3>5
  <2>12. ASSUME NEW i \in trained
         PROVE  i \in Indices
    <3>1. PICK t \in from .. from + S - 1 : i \in Plan[(t % L) + 1].records
      BY <2>9
    <3>2. t \in Nat
      BY <2>8
    <3>3. (t % L) + 1 \in 1 .. L
      BY <2>8, <3>2
    <3>4. Plan[(t % L) + 1] \in PlannedBatch
      BY <2>10, <3>3 DEF L
    <3> QED
      BY <3>1, <3>4 DEF PlannedBatch
  <2> QED
    BY <2>11, <2>12
<1> QED
  BY <1>1, PlanAlways, PTL

\* A batch of the plan that is not marked to reset follows the one before it, with
\* the next chunk of the same group and the same rows.
LEMMA PlannedFollows ==
    ASSUME Shard, ~Refused, NEW p \in 1 .. Len(Plan), ~Plan[p].reset
    PROVE  /\ ~Legacy /\ p > 1
           /\ Plan[p].key \in Lanes /\ Plan[p - 1].key \in Lanes
           /\ Plan[p].key.group = Plan[p - 1].key.group
           /\ Plan[p].key.chunk = Plan[p - 1].key.chunk + 1
           /\ Rows(Plan[p].key) = Rows(Plan[p - 1].key)
<1>1. ~Legacy
  <2> SUFFICES ASSUME Legacy PROVE Plan[p].reset
    OBVIOUS
  <2> DEFINE m == (Len(shard) + batch_size - 1) \div batch_size
  <2>1. m \in Nat
    BY IndicesAreFinite, SMT DEF Shard
  <2>2. Plan = [b \in 1 .. m |->
                   [records |-> {i \in Indices : (i - 1) \div batch_size = b - 1},
                    key |-> Nothing, reset |-> TRUE]]
    BY DEF Plan, LegacyPlan
  <2> HIDE DEF m
  <2>3. Len(Plan) = m
    BY <2>1, <2>2
  <2> QED
    BY <2>2, <2>3
<1>2. /\ KeySet \subseteq Lanes /\ Cardinality(KeySet) \in Nat
      /\ Keys \in [1 .. Cardinality(KeySet) -> KeySet]
  BY <1>1, KeysEnumerate, FS_CardinalityType DEF Enumerates
<1>3. /\ Len(Plan) = Cardinality(KeySet) /\ DOMAIN Keys = 1 .. Len(Plan)
      /\ \A n \in 1 .. Len(Plan) :
             Plan[n].key = Keys[n] /\ Plan[n].reset = Resets(Keys, n)
  <2> DEFINE m == Cardinality(KeySet)
  <2>1. Plan = [n \in 1 .. m |-> [records |-> At(Keys[n]), key |-> Keys[n],
                                  reset |-> Resets(Keys, n)]]
    BY <1>1, <1>2 DEF Plan, AlignedPlan
  <2>2. m \in Nat /\ DOMAIN Keys = 1 .. m
    BY <1>2
  <2> HIDE DEF m
  <2>3. Len(Plan) = m
    BY <2>1, <2>2
  <2> QED
    BY <2>1, <2>2, <2>3 DEF m
<1>4. ~Resets(Keys, p)
  BY <1>3
<1>5. /\ p > 1
      /\ Keys[p].group = Keys[p - 1].group
      /\ Keys[p].chunk = Keys[p - 1].chunk + 1
  BY <1>4 DEF Resets, Contiguous
<1>6. Rows(Keys[p]) = Rows(Keys[p - 1])
  BY <1>1, <1>3, <1>4 DEF Refused
<1>7. p - 1 \in 1 .. Len(Plan)
  BY <1>2, <1>3, <1>5
<1> QED
  BY <1>1, <1>2, <1>3, <1>5, <1>6, <1>7

\* What the head of a window that goes on finds.
Continues ==
    /\ state # Nothing
    /\ state.group = Head(selected).key.group
    /\ state.chunk + 1 = Head(selected).key.chunk
    /\ state.rows = Rows(Head(selected).key)

LEMMA HeadContinues ==
    ASSUME PlanInv, selected # << >>, ~Head(selected).reset
    PROVE  Continues
<1> DEFINE W == Window(Plan, window)
           n == Done + 1
           p == Place(window, n)
<1>1. /\ Given /\ Count \in Nat \ {0} /\ window \in Nat \ {0} /\ ~Refused
      /\ Done \in 0 .. Count - 1 /\ Head(selected) = W[n]
  BY HeadOfRest
<1>2. n \in 1 .. Count /\ n \in Nat \ {0}
  BY <1>1
<1>3. Len(Plan) \in Nat \ {0}
  BY <1>1, CountIs
<1>4. /\ \A k \in 1 .. Count : W[k].key = Plan[Place(window, k)].key
      /\ ~Plan[p].reset
      /\ n = 1 => p = 1
  BY <1>1, <1>2, WindowIs
<1>5. p \in 1 .. Len(Plan)
  BY <1>1, <1>2, TurnIs
<1>6. /\ ~Legacy /\ p > 1
      /\ Plan[p].key \in Lanes /\ Plan[p - 1].key \in Lanes
      /\ Plan[p].key.group = Plan[p - 1].key.group
      /\ Plan[p].key.chunk = Plan[p - 1].key.chunk + 1
      /\ Rows(Plan[p].key) = Rows(Plan[p - 1].key)
  BY <1>1, <1>4, <1>5, PlannedFollows DEF Given
<1>7. Done > 0 /\ Done \in 1 .. Count /\ Done \in Nat \ {0}
  BY <1>1, <1>4, <1>5, <1>6
<1>8. Place(window, Done) = p - 1
  <2>1. /\ Place(window, Done) \in 1 .. Len(Plan)
        /\ p = IF Place(window, Done) < Len(Plan) THEN Place(window, Done) + 1 ELSE 1
    BY <1>1, <1>7, TurnIs
  <2> HIDE DEF p
  <2> QED
    BY <1>3, <1>5, <1>6, <2>1
<1> HIDE DEF W
<1>9. state = StateAfter(W[Done])
  BY <1>7 DEF PlanInv, RestOfWindow, W
<1>10. W[Done].key = Plan[p - 1].key /\ W[n].key = Plan[p].key
  BY <1>2, <1>4, <1>7, <1>8
<1> DEFINE k == Plan[p - 1].key
<1>11. k \in Lanes /\ k # Nothing
  BY <1>6, RecordAssumption DEF Lanes
<1>12. state = [group |-> k.group, chunk |-> k.chunk, rows |-> Rows(k)]
  BY <1>9, <1>10, <1>11 DEF StateAfter
<1>13. state # Nothing
  <2>1. Rows(k) \in SUBSET Nat
    <3>1. \A i \in At(k) : shard[i] \in Records
      BY <1>1, <1>6 DEF At, Given, Shard, Legacy, Indices
    <3> QED
      BY <3>1 DEF Rows, Records
  <2>2. k.group \in Nat /\ k.chunk \in Nat
    BY <1>11 DEF Lanes
  <2> HIDE DEF k
  <2>3. state \in States
    BY <1>12, <2>1, <2>2 DEF States
  <2> QED
    BY <2>3, RecordAssumption
<1>14. /\ state.group = k.group /\ state.chunk = k.chunk /\ state.rows = Rows(k)
  BY <1>12
<1> QED
  BY <1>1, <1>6, <1>10, <1>13, <1>14 DEF Continues

\* A batch that is not marked to reset finds the state of the chunk before it, of the
\* same group and the same rows, however windows are skipped, cut short by the budget or
\* bent around the ring: never that of another stream or of the window before.
THEOREM StatesFollow == Spec => ContinuesItsStream
<1>1. PlanInv /\ [Next]_vars => [TrainBatch /\ ~Head(selected).reset => Continues]_vars
  BY HeadContinues DEF TrainBatch
<1>2. ContinuesItsStream <=> [][TrainBatch /\ ~Head(selected).reset => Continues]_vars
  BY PTL DEF ContinuesItsStream, Continues
<1> QED
  BY <1>1, <1>2, PlanAlways, PTL DEF Spec
=============================================================================
