--------------------------- MODULE Throttle_proofs ---------------------------
(***************************************************************************)
(* Theorems about Throttle for every number of pipes and units, and any    *)
(* rates, capacities, chunk and table sizes.                               *)
(***************************************************************************)
EXTENDS Throttle, FiniteSetTheorems, TLAPS

Stages == {"read", "take", "sleep", "write", "eof", "over"}

\* What a pump and its counters look like.
PumpSound(q) ==
    /\ pump[q] = [st |-> pump[q].st, chunk |-> pump[q].chunk, left |-> pump[q].left,
                  bucket |-> pump[q].bucket, timer |-> pump[q].timer]
    /\ pump[q].st \in Stages
    /\ pump[q].chunk \in Nat /\ pump[q].left \in Nat

Types ==
    /\ source \in [Pump -> Nat] /\ delivered \in [Pump -> Nat]
    /\ DOMAIN pump = Pump
    /\ \A q \in Pump : PumpSound(q)

\* Nothing is lost or doubled as long as a pump runs: what it has read is
\* delivered or in its hands.
Conserved(q) ==
    /\ Running(q) => delivered[q] + source[q] + pump[q].chunk = Bytes[q]
    /\ ~Running(q) => delivered[q] + source[q] <= Bytes[q] /\ pump[q].chunk = 0
    /\ pump[q].st = "eof" => delivered[q] = Bytes[q]
    /\ pump[q].st = "read" => pump[q].chunk = 0

FlowInv == Types /\ \A q \in Pump : Conserved(q)

\* What a bucket has let pass and what it still holds are within its capacity
\* together: tokens flow in no faster than the meter leaks.
Levels ==
    /\ tokens \in [Bucket -> Nat] /\ meter \in [Bucket -> Nat]
    /\ \A b \in Bucket : meter[b] + tokens[b] <= Capacity[b[2]]

LEMMA BucketDirections ==
    \A b \in Bucket : b[2] \in Direction /\ Capacity[b[2]] \in Nat /\ Rate[b[2]] \in Nat
<1>1. ASSUME NEW b \in Bucket PROVE b[2] \in Direction
  BY DEF Bucket, Limited
<1> QED
  BY <1>1, ThrottleAssumption

\* To let go of buckets keeps the levels of the others.
LEMMA KeptLevels ==
    ASSUME NEW t \in [Bucket -> Nat], NEW m \in [Bucket -> Nat],
           \A b \in Bucket : m[b] + t[b] <= Capacity[b[2]],
           tokens' = Kept(t), meter' = Kept(m)
    PROVE  Levels'
<1> DEFINE used == InUse'
<1>1. tokens' = [b \in Bucket |-> IF b \in used THEN t[b] ELSE 0]
  BY DEF Kept
<1>2. meter' = [b \in Bucket |-> IF b \in used THEN m[b] ELSE 0]
  BY DEF Kept
<1> HIDE DEF used
<1>3. tokens' \in [Bucket -> Nat] /\ meter' \in [Bucket -> Nat]
  BY <1>1, <1>2
<1>4. ASSUME NEW b \in Bucket PROVE meter'[b] + tokens'[b] <= Capacity[b[2]]
  BY <1>1, <1>2, BucketDirections
<1> QED
  BY <1>3, <1>4 DEF Levels

LEMMA PartNat ==
    ASSUME NEW n \in Nat, NEW d \in Direction
    PROVE  Part(n, d) \in Nat /\ Part(n, d) <= n
  BY ThrottleAssumption DEF Part, Least

-----------------------------------------------------------------------------
(* The pumps.                                                              *)

LEMMA TypesInit == Init => FlowInv
  BY ThrottleAssumption DEF Init, FlowInv, Types, PumpSound, Conserved, Running, Reading, At, Stages

LEMMA ReadFlow ==
    ASSUME FlowInv, NEW q \in Pump, Read(q)
    PROVE  FlowInv'
<1> DEFINE n == Least(Chunk, source[q])
<1>1. n \in Nat /\ n <= source[q] /\ source[q] \in Nat
  BY ThrottleAssumption DEF Least, FlowInv, Types
<1>2. \E r : /\ pump' = [pump EXCEPT ![q] = r]
             /\ \/ \E b : r = At("take", n, n, b, 0)
                \/ r = At("write", n, 0, None, 0)
  BY DEF Read, TakeBucket
<1>3. source' = [source EXCEPT ![q] = @ - n] /\ delivered' = delivered /\ pump[q].st = "read"
  BY DEF Read
<1> HIDE DEF n
<1>4. Types'
  BY <1>1, <1>2, <1>3 DEF FlowInv, Types, PumpSound, At, Stages
<1>5. \A p \in Pump : Conserved(p)'
  BY <1>1, <1>2, <1>3, ThrottleAssumption DEF FlowInv, Types, PumpSound, Conserved, Running, At
<1> QED
  BY <1>4, <1>5 DEF FlowInv

LEMMA TakeFlow ==
    ASSUME FlowInv, NEW q \in Pump, Take(q)
    PROVE  FlowInv'
<1> DEFINE amount == Part(pump[q].left, q[2])
           left == pump[q].left - amount
<1>1. amount \in Nat /\ left \in Nat
  BY PartNat DEF FlowInv, Types, PumpSound, Pump
<1>2. \/ pump' = [pump EXCEPT ![q] = At("write", pump[q].chunk, 0, None, 0)]
      \/ pump' = [pump EXCEPT ![q] = At("take", pump[q].chunk, left, pump[q].bucket, 0)]
  BY DEF Take, Pay, FlowInv, Types
<1>3. UNCHANGED <<source, delivered>> /\ pump[q].st = "take"
  BY DEF Take, traffic
<1> HIDE DEF amount, left
<1>4. Types'
  BY <1>1, <1>2, <1>3 DEF FlowInv, Types, PumpSound, At, Stages
<1>5. \A p \in Pump : Conserved(p)'
  BY <1>2, <1>3 DEF FlowInv, Types, PumpSound, Conserved, Running, At
<1> QED
  BY <1>4, <1>5 DEF FlowInv

\* A pump that changes its stage only, in one of the ways Move and Fail do.
LEMMA StageFlow ==
    ASSUME FlowInv, NEW q \in Pump,
           ReadEof(q) \/ Sleep(q) \/ Wake(q) \/ Write(q) \/ Fail(q)
    PROVE  FlowInv'
<1>1. CASE ReadEof(q)
  BY <1>1, ThrottleAssumption
     DEF ReadEof, FlowInv, Types, PumpSound, Conserved, Running, Complete, At, Stages, traffic
<1>2. CASE Wake(q)
  BY <1>2 DEF Wake, FlowInv, Types, PumpSound, Conserved, Running, Stages, traffic
<1>3. CASE Sleep(q)
  <2>1. PICK t : pump' = [pump EXCEPT ![q].st = "sleep", ![q].timer = t]
    BY <1>3 DEF Sleep
  <2>2. UNCHANGED <<source, delivered>> /\ pump[q].st = "take"
    BY <1>3 DEF Sleep, traffic
  <2>3. DOMAIN pump' = Pump /\ \A p \in Pump : p # q => pump'[p] = pump[p]
    BY <2>1 DEF FlowInv, Types
  <2>4. pump'[q] = [pump[q] EXCEPT !.st = "sleep", !.timer = t]
    BY <2>1 DEF FlowInv, Types
  <2>5. pump'[q] = [st |-> "sleep", chunk |-> pump[q].chunk, left |-> pump[q].left,
                    bucket |-> pump[q].bucket, timer |-> t]
    BY <2>4 DEF FlowInv, Types, PumpSound
  <2>6. Types'
    BY <2>2, <2>3, <2>5 DEF FlowInv, Types, PumpSound, Stages
  <2>7. \A p \in Pump : Conserved(p)'
    BY <2>2, <2>3, <2>5 DEF FlowInv, Types, PumpSound, Conserved, Running
  <2> QED
    BY <2>6, <2>7 DEF FlowInv
<1>4. CASE Write(q)
  <2>1. Types'
    BY <1>4 DEF Write, FlowInv, Types, PumpSound, Reading, At, Stages, traffic
  <2>2. \A p \in Pump : Conserved(p)'
    BY <1>4, ThrottleAssumption DEF Write, FlowInv, Types, PumpSound, Conserved, Running, Reading, At, traffic
  <2> QED
    BY <2>1, <2>2 DEF FlowInv
<1>5. CASE Fail(q)
  <2>1. Types'
    BY <1>5 DEF Fail, FlowInv, Types, PumpSound, Over, At, Stages, traffic
  <2>2. \A p \in Pump : Conserved(p)'
    BY <1>5, ThrottleAssumption DEF Fail, FlowInv, Types, PumpSound, Conserved, Running, Over, At, traffic
  <2> QED
    BY <2>1, <2>2 DEF FlowInv
<1> QED
  BY <1>1, <1>2, <1>3, <1>4, <1>5

LEMMA FinishFlow ==
    ASSUME FlowInv, NEW p \in Pipe, Finish(p)
    PROVE  FlowInv'
<1>1. /\ pump' = [q \in Pump |-> IF q[1] = p THEN Over ELSE pump[q]]
      /\ source' = [q \in Pump |-> IF q[1] = p THEN 0 ELSE source[q]]
      /\ delivered' = [q \in Pump |-> IF q[1] = p THEN 0 ELSE delivered[q]]
  BY DEF Finish, End
<1>2. Types'
  BY <1>1 DEF FlowInv, Types, PumpSound, Over, At, Stages
<1>3. \A q \in Pump : Conserved(q)'
  BY <1>1, ThrottleAssumption DEF FlowInv, Types, PumpSound, Conserved, Running, Over, At
<1> QED
  BY <1>2, <1>3 DEF FlowInv

LEMMA TickFlow ==
    ASSUME FlowInv, Tick
    PROVE  FlowInv'
<1>1. \A q \in Pump : \E t : pump'[q] = [pump[q] EXCEPT !.timer = t]
  BY DEF Tick
<1>2. DOMAIN pump' = Pump /\ UNCHANGED <<source, delivered>>
  BY DEF Tick, traffic
<1>3. Types'
  BY <1>1, <1>2 DEF FlowInv, Types, PumpSound
<1>4. \A q \in Pump : Conserved(q)'
  BY <1>1, <1>2 DEF FlowInv, Types, PumpSound, Conserved, Running
<1> QED
  BY <1>3, <1>4 DEF FlowInv

THEOREM FlowInvariant == Spec => []FlowInv
<1>1. FlowInv /\ [Next]_vars => FlowInv'
  <2> SUFFICES ASSUME FlowInv, [Next]_vars PROVE FlowInv'
    OBVIOUS
  <2>1. ASSUME NEW q \in Pump, SourceEnds(q) PROVE FlowInv'
    BY <2>1 DEF SourceEnds, FlowInv, Types, PumpSound, Conserved, Running
  <2>2. ASSUME NEW q \in Pump, Move(q) \/ Fail(q) PROVE FlowInv'
    BY <2>2, ReadFlow, TakeFlow, StageFlow DEF Move
  <2>3. ASSUME NEW p \in Pipe, Finish(p) PROVE FlowInv'
    BY <2>3, FinishFlow
  <2>4. ASSUME NEW c \in Clients, ClientOffline(c) PROVE FlowInv'
    BY <2>4 DEF ClientOffline, FlowInv, Types, PumpSound, Conserved, Running, traffic
  <2>5. CASE Tick
    BY <2>5, TickFlow
  <2>6. CASE UNCHANGED vars
    BY <2>6 DEF vars, FlowInv, Types, PumpSound, Conserved, Running
  <2> QED
    BY <2>1, <2>2, <2>3, <2>4, <2>5, <2>6 DEF Next
<1> QED
  BY <1>1, TypesInit, PTL DEF Spec

\* A pump that ends with its source has delivered all of it, for chunks and
\* buckets of any size and however the pipes, failures and the table interfere.
THEOREM PumpsDeliver == Spec => []EofIsComplete
<1>1. FlowInv => EofIsComplete
  <2> SUFFICES ASSUME FlowInv, NEW q \in Pump
               PROVE  /\ delivered[q] + source[q] + pump[q].chunk <= Bytes[q]
                      /\ pump[q].st = "eof" => delivered[q] = Bytes[q]
    BY DEF EofIsComplete
  <2> QED
    BY ThrottleAssumption DEF FlowInv, Types, PumpSound, Conserved
<1> QED
  BY <1>1, FlowInvariant, PTL

-----------------------------------------------------------------------------
(* The buckets.                                                            *)

LEMMA ReadLevels ==
    ASSUME Levels, NEW q \in Pump, Read(q)
    PROVE  Levels'
<1>1. CASE UNCHANGED limiter
  BY <1>1 DEF limiter, Levels
<1>2. CASE TakeBucket(KeyOf(serves[q[1]]), q[2], q, Least(Chunk, source[q]))
  <2>1. PICK b : \/ /\ tokens' = Kept([tokens EXCEPT ![b] = Capacity[b[2]]])
                    /\ meter' = Kept([meter EXCEPT ![b] = 0])
                 \/ tokens' = Kept(tokens) /\ meter' = Kept(meter)
    BY <1>2 DEF TakeBucket
  <2>2. CASE tokens' = Kept(tokens) /\ meter' = Kept(meter)
    BY <2>2, KeptLevels DEF Levels
  <2>3. CASE /\ tokens' = Kept([tokens EXCEPT ![b] = Capacity[b[2]]])
             /\ meter' = Kept([meter EXCEPT ![b] = 0])
    <3> DEFINE t == [tokens EXCEPT ![b] = Capacity[b[2]]]
               m == [meter EXCEPT ![b] = 0]
    <3>1. t \in [Bucket -> Nat] /\ m \in [Bucket -> Nat]
      BY BucketDirections DEF Levels
    <3>2. \A c \in Bucket : m[c] + t[c] <= Capacity[c[2]]
      BY BucketDirections DEF Levels
    <3>3. tokens' = Kept(t) /\ meter' = Kept(m)
      BY <2>3
    <3> HIDE DEF t, m
    <3> QED
      BY <3>1, <3>2, <3>3, KeptLevels
  <2> QED
    BY <2>1, <2>2, <2>3
<1> QED
  BY <1>1, <1>2 DEF Read

LEMMA TakeLevels ==
    ASSUME Types, Levels, NEW q \in Pump, Take(q)
    PROVE  Levels'
<1> DEFINE amount == Part(pump[q].left, q[2])
           pays == pump[q].bucket
           t == [tokens EXCEPT ![pays] = Monus(@, amount)]
           m == [meter EXCEPT ![pays] = @ + amount]
<1>1. amount \in Nat
  BY PartNat DEF Types, PumpSound, Pump
<1>2. tokens[pays] >= amount /\ tokens' = Kept(t) /\ meter' = Kept(m)
  BY DEF Take, Enough, Pay
<1> HIDE DEF amount, pays
<1>3. t \in [Bucket -> Nat] /\ m \in [Bucket -> Nat]
  <2>1. pays \in Bucket => Monus(tokens[pays], amount) \in Nat /\ meter[pays] + amount \in Nat
    BY <1>1 DEF Levels, Monus
  <2> QED
    BY <2>1 DEF Levels
<1>4. \A c \in Bucket : m[c] + t[c] <= Capacity[c[2]]
  BY <1>1, <1>2, BucketDirections DEF Levels, Monus
<1> HIDE DEF t, m
<1> QED
  BY <1>2, <1>3, <1>4, KeptLevels

LEMMA TickLevels ==
    ASSUME Levels, Tick
    PROVE  Levels'
<1> DEFINE used == InUse
<1>1. /\ meter' = [b \in Bucket |-> Monus(meter[b], Rate[b[2]])]
      /\ tokens' = [b \in Bucket |-> IF b \in used THEN Level(tokens[b], b[2]) ELSE 0]
  BY DEF Tick
<1> HIDE DEF used
<1>2. tokens' \in [Bucket -> Nat] /\ meter' \in [Bucket -> Nat]
  BY <1>1, BucketDirections DEF Levels, Level, Least, Monus
<1>3. \A b \in Bucket : meter'[b] + tokens'[b] <= Capacity[b[2]]
  BY <1>1, BucketDirections DEF Levels, Level, Least, Monus
<1> QED
  BY <1>2, <1>3 DEF Levels

THEOREM LevelInvariant == Spec => []Levels
<1>1. Init => Levels
  BY BucketDirections DEF Init, Levels
<1>2. FlowInv /\ Levels /\ [Next]_vars => Levels'
  <2> SUFFICES ASSUME FlowInv, Levels, [Next]_vars PROVE Levels'
    OBVIOUS
  <2>1. ASSUME UNCHANGED limiter PROVE Levels'
    BY <2>1 DEF limiter, Levels
  <2>2. ASSUME KeepBuckets PROVE Levels'
    BY <2>2, KeptLevels DEF KeepBuckets, Levels
  <2>3. ASSUME NEW q \in Pump, SourceEnds(q) \/ Move(q) \/ Fail(q) PROVE Levels'
    BY <2>1, <2>3, ReadLevels, TakeLevels
       DEF SourceEnds, Move, Fail, ReadEof, Sleep, Wake, Write, FlowInv
  <2>4. ASSUME NEW p \in Pipe, Finish(p) PROVE Levels'
    BY <2>2, <2>4 DEF Finish, End
  <2>5. ASSUME NEW c \in Clients, ClientOffline(c) PROVE Levels'
    BY <2>2, <2>5 DEF ClientOffline
  <2>6. CASE Tick
    BY <2>6, TickLevels
  <2>7. CASE UNCHANGED vars
    BY <2>1, <2>7 DEF vars, limiter
  <2> QED
    BY <2>3, <2>4, <2>5, <2>6, <2>7 DEF Next
<1> QED
  BY <1>1, <1>2, FlowInvariant, PTL DEF Spec

\* No bucket lets more pass than its capacity and its rate allow, for any
\* number of pipes, rates and capacities, evictions and clients going offline.
THEOREM RatesHold == Spec => []RateRespected
<1>1. Levels => RateRespected
  BY BucketDirections DEF Levels, RateRespected
<1> QED
  BY <1>1, LevelInvariant, PTL

-----------------------------------------------------------------------------
(* The table.                                                              *)

\* A set of numbers that is not empty has a least one.
LEMMA LeastElement ==
    ASSUME NEW S \in SUBSET Nat, S # {}
    PROVE  \E m \in S : \A k \in S : m <= k
<1>1. PICK m \in S : \A k \in S : ~ (<<k, m>> \in OpToRel(<, Nat))
  BY WFMin, NatLessThanWellFounded
<1>2. \A k \in S : ~(k < m)
  BY <1>1 DEF OpToRel
<1> QED
  BY <1>2

\* Of the places of a sequence that are kept, each is the n-th for one n.
LEMMA Places ==
    ASSUME NEW len \in Nat, NEW kept \in SUBSET (1..len)
    PROVE  /\ Cardinality(kept) \in Nat /\ Cardinality(kept) <= len
           /\ Cardinality(kept) = len => kept = 1..len
           /\ \A n \in 1..Cardinality(kept) : Nth(kept, n) \in kept
           /\ \A m, n \in 1..Cardinality(kept) : Nth(kept, m) = Nth(kept, n) => m = n
           /\ \A i \in kept : \E n \in 1..Cardinality(kept) : Nth(kept, n) = i
<1> DEFINE Upto(i) == {j \in kept : j <= i}
           N == Cardinality(kept)
           rank == [i \in kept |-> Cardinality(Upto(i))]
<1>1. IsFiniteSet(1..len) /\ Cardinality(1..len) = len
  BY FS_Interval
<1>2. IsFiniteSet(kept) /\ N \in Nat /\ N <= len /\ (N = len => kept = 1..len)
  <2>1. IsFiniteSet(kept) /\ N <= len /\ (len = N => 1..len = kept)
    BY <1>1, FS_Subset
  <2>2. N \in Nat
    BY <2>1, FS_CardinalityType
  <2> QED
    BY <2>1, <2>2
<1>3. ASSUME NEW i \in kept PROVE IsFiniteSet(Upto(i)) /\ Cardinality(Upto(i)) \in 1..N
  <2>1. Upto(i) \in SUBSET kept /\ i \in Upto(i)
    OBVIOUS
  <2>2. IsFiniteSet(Upto(i)) /\ Cardinality(Upto(i)) <= N /\ Cardinality(Upto(i)) \in Nat
    BY <1>2, <2>1, FS_Subset, FS_CardinalityType
  <2>3. Cardinality(Upto(i)) # 0
    BY <2>1, <2>2, FS_EmptySet
  <2> QED
    BY <1>2, <2>2, <2>3
<1>4. ASSUME NEW i \in kept, NEW j \in kept, i < j PROVE Cardinality(Upto(i)) # Cardinality(Upto(j))
  <2>1. i \in Int /\ j \in Int /\ \A k \in kept : k \in Int
    OBVIOUS
  <2>2. ASSUME NEW k \in Upto(i) PROVE k \in Upto(j)
    BY <1>4, <2>1
  <2>3. j \in Upto(j) /\ j \notin Upto(i)
    BY <1>4, <2>1
  <2>4. Upto(i) \in SUBSET Upto(j) /\ Upto(i) # Upto(j)
    BY <2>2, <2>3
  <2>5. IsFiniteSet(Upto(j))
    BY <1>3
  <2> HIDE DEF Upto
  <2> QED
    BY <2>4, <2>5, FS_Subset
<1>5. \A i, j \in kept : rank[i] = rank[j] => i = j
  <2> SUFFICES ASSUME NEW i \in kept, NEW j \in kept, rank[i] = rank[j] PROVE i = j
    OBVIOUS
  <2>1. i \in Int /\ j \in Int
    OBVIOUS
  <2> QED
    BY <1>4, <2>1
<1>6. rank \in Injection(kept, 1..N)
  BY <1>3, <1>5 DEF Injection, IsInjective
<1>7. IsFiniteSet(1..N) /\ Cardinality(1..N) = N
  BY <1>2, FS_Interval
<1>8. rank \in Surjection(kept, 1..N)
  BY <1>2, <1>6, <1>7, FS_Injection
<1>9. \A n \in 1..N : \E i \in kept : rank[i] = n
  BY <1>8 DEF Surjection
<1>10. \A n \in 1..N : Nth(kept, n) \in kept /\ rank[Nth(kept, n)] = n
  BY <1>9 DEF Nth
<1>11. \A i \in kept : rank[i] \in 1..N
  BY <1>3
<1> HIDE DEF rank
<1> QED
  BY <1>2, <1>5, <1>10, <1>11

\* What Keeping does: it keeps the entries of the keys it is given and no
\* others, each once.
LEMMA KeepingIs ==
    ASSUME NEW E, table \in Seq(E), NEW K
    PROVE  /\ Keeping(K) \in Seq(E)
           /\ Len(Keeping(K)) <= Len(table)
           /\ (\E i \in DOMAIN table : table[i].key \notin K) => Len(Keeping(K)) < Len(table)
           /\ \A n \in DOMAIN Keeping(K) :
                 \E i \in DOMAIN table : Keeping(K)[n] = table[i] /\ table[i].key \in K
           /\ \A i \in DOMAIN table :
                 table[i].key \in K => \E n \in DOMAIN Keeping(K) : Keeping(K)[n] = table[i]
           /\ (\A i, j \in DOMAIN table : table[i].key = table[j].key => i = j)
                 => \A m, n \in DOMAIN Keeping(K) : Keeping(K)[m].key = Keeping(K)[n].key => m = n
<1> DEFINE kept == {i \in DOMAIN table : table[i].key \in K}
           N == Cardinality(kept)
           len == Len(table)
<1>1. len \in Nat /\ DOMAIN table = 1..len /\ \A i \in 1..len : table[i] \in E
  OBVIOUS
<1>2. Keeping(K) = [n \in 1..N |-> table[Nth(kept, n)]]
  BY DEF Keeping
<1>3. kept \in SUBSET (1..len) /\ \A i \in 1..len : i \in kept <=> table[i].key \in K
  BY <1>1
<1> HIDE DEF kept, len
<1>4. /\ N \in Nat /\ N <= len
      /\ N = len => kept = 1..len
      /\ \A n \in 1..N : Nth(kept, n) \in kept
      /\ \A m, n \in 1..N : Nth(kept, m) = Nth(kept, n) => m = n
      /\ \A i \in kept : \E n \in 1..N : Nth(kept, n) = i
  BY <1>1, <1>3, Places
<1> HIDE DEF N
<1>5. Keeping(K) \in Seq(E) /\ Len(Keeping(K)) = N /\ DOMAIN Keeping(K) = 1..N
  <2>1. \A n \in 1..N : table[Nth(kept, n)] \in E
    BY <1>1, <1>3, <1>4
  <2> QED
    BY <1>2, <1>4, <2>1
<1>6. (\E i \in DOMAIN table : table[i].key \notin K) => N < len
  BY <1>1, <1>3, <1>4
<1>7. \A n \in DOMAIN Keeping(K) :
        \E i \in DOMAIN table : Keeping(K)[n] = table[i] /\ table[i].key \in K
  BY <1>1, <1>2, <1>3, <1>4
<1>8. \A i \in DOMAIN table :
        table[i].key \in K => \E n \in DOMAIN Keeping(K) : Keeping(K)[n] = table[i]
  BY <1>1, <1>2, <1>3, <1>4
<1>9. ASSUME \A i, j \in DOMAIN table : table[i].key = table[j].key => i = j,
             NEW m \in DOMAIN Keeping(K), NEW n \in DOMAIN Keeping(K),
             Keeping(K)[m].key = Keeping(K)[n].key
      PROVE  m = n
  <2>1. m \in 1..N /\ n \in 1..N
    BY <1>5
  <2>2. table[Nth(kept, m)].key = table[Nth(kept, n)].key
    BY <1>2, <1>9, <2>1
  <2>3. Nth(kept, m) = Nth(kept, n)
    BY <1>1, <1>3, <1>4, <1>9, <2>1, <2>2
  <2> QED
    BY <1>4, <2>1, <2>3
<1> QED
  BY <1>4, <1>5, <1>6, <1>7, <1>8, <1>9 DEF len

Entries == [key : Key, bucket : [Direction -> Bucket \cup {None}]]

\* The table: its keys are distinct, and the buckets of a key were made for it
\* and for the direction they are under.
TableInv ==
    /\ table \in Seq(Entries)
    /\ Len(table) <= MaxKeys
    /\ \A i, j \in DOMAIN table : table[i].key = table[j].key => i = j
    /\ \A i \in DOMAIN table, d \in Direction :
           table[i].bucket[d] # None => table[i].bucket[d][1] = table[i].key /\ table[i].bucket[d][2] = d

\* A pump holds a bucket of its direction only, and one that is not over
\* serves somebody.
Holding(q) ==
    /\ pump[q].bucket # None => pump[q].bucket \in Bucket /\ pump[q].bucket[2] = q[2]
    /\ serves[q[1]] \in Unit \/ pump[q].st = "over"

TableParts == TableInv /\ \A q \in Pump : Holding(q)

\* There is a place for a new bucket: those of its key and direction that are
\* still alive are held by pumps, one by each pipe at most.
LEMMA FreshIs ==
    ASSUME FlowInv, TableParts, NEW k \in Key, NEW d \in Limited,
           \A i \in DOMAIN table : table[i].key = k => table[i].bucket[d] = None
    PROVE  Fresh(k, d) \in Bucket /\ Fresh(k, d)[1] = k /\ Fresh(k, d)[2] = d
<1> DEFINE free == {i \in 1..Copies : <<k, d, i>> \notin InUse}
           held == [i \in 1..Copies |-> CHOOSE p \in Pipe : pump[<<p, d>>].bucket = <<k, d, i>>]
<1>1. \A i \in 1..Copies : <<k, d, i>> \in Bucket /\ <<k, d, i>> # None
  BY ThrottleAssumption DEF Bucket
<1>2. d \in Direction
  BY DEF Limited
<1>3. ASSUME NEW i \in 1..Copies, <<k, d, i>> \in InUse
      PROVE  \E p \in Pipe : pump[<<p, d>>].bucket = <<k, d, i>>
  <2> DEFINE b == <<k, d, i>>
  <2>1. b # None /\ b[1] = k /\ b[2] = d
    BY <1>1
  <2>2. \/ \E j \in DOMAIN table, e \in Direction : table[j].bucket[e] = b
        \/ \E q \in Pump : pump[q].bucket = b
    BY <1>3 DEF InUse, ToSet
  <2> HIDE DEF b
  <2>3. ~ \E j \in DOMAIN table, e \in Direction : table[j].bucket[e] = b
    BY <2>1 DEF TableParts, TableInv
  <2>4. PICK q \in Pump : pump[q].bucket = b
    BY <2>2, <2>3
  <2>5. q[2] = d /\ q[1] \in Pipe /\ q = <<q[1], q[2]>>
    BY <2>1, <2>4 DEF TableParts, Holding, Pump
  <2> QED
    BY <2>4, <2>5 DEF b
<1>4. free # {}
  <2> SUFFICES ASSUME free = {} PROVE FALSE
    OBVIOUS
  <2>1. \A i \in 1..Copies : held[i] \in Pipe /\ pump[<<held[i], d>>].bucket = <<k, d, i>>
    BY <1>3
  <2>2. IsFiniteSet(1..Copies) /\ Cardinality(1..Copies) = Copies
    BY ThrottleAssumption, FS_Interval
  <2>3. held \in [1..Copies -> Pipe]
    BY <2>1
  <2> HIDE DEF held
  <2>4. IsFiniteSet(Pipe) /\ Cardinality(Pipe) < Cardinality(1..Copies)
    <3>1. IsFiniteSet(Pipe) /\ Copies \in Nat /\ Copies > Cardinality(Pipe)
      BY ThrottleAssumption
    <3>2. Cardinality(Pipe) \in Nat
      BY <3>1, FS_CardinalityType
    <3> QED
      BY <2>2, <3>1, <3>2
  <2>5. PICK i \in 1..Copies, j \in 1..Copies : i # j /\ held[i] = held[j]
    <3> HIDE DEF free
    <3> QED
      BY <2>2, <2>3, <2>4, FS_PigeonHole
  <2>6. <<k, d, i>> = <<k, d, j>>
    BY <2>1, <2>5
  <2> QED
    BY <2>5, <2>6
<1>5. PICK n \in free : \A m \in free : n <= m
  <2>1. free \in SUBSET Nat
    OBVIOUS
  <2> HIDE DEF free
  <2> QED
    BY <1>4, <2>1, LeastElement
<1>6. \A m \in 1..(n - 1) : <<k, d, m>> \in InUse
  <2> SUFFICES ASSUME NEW m \in 1..(n - 1), <<k, d, m>> \notin InUse PROVE FALSE
    OBVIOUS
  <2>1. Copies \in Nat /\ n \in 1..Copies
    BY ThrottleAssumption
  <2>2. m \in 1..Copies /\ m < n
    BY <2>1
  <2> QED
    BY <1>5, <2>1, <2>2
<1>7. \E b \in Bucket : /\ b[1] = k /\ b[2] = d /\ b \notin InUse
                        /\ \A i \in 1..(b[3] - 1) : <<k, d, i>> \in InUse
  <2>1. <<k, d, n>> \in Bucket /\ <<k, d, n>> \notin InUse
    <3>1. n \in 1..Copies /\ <<k, d, n>> \notin InUse
      OBVIOUS
    <3> QED
      BY <1>1, <3>1
  <2>2. <<k, d, n>>[1] = k /\ <<k, d, n>>[2] = d /\ <<k, d, n>>[3] = n
    OBVIOUS
  <2> QED
    BY <1>6, <2>1, <2>2
<1> QED
  BY <1>7 DEF Fresh

\* A pump takes its bucket: the key moves to the end of the table, and at the
\* limit another one makes room.
LEMMA TakeBucketTable ==
    ASSUME FlowInv, TableParts, NEW k \in Key, NEW q \in Pump, q[2] \in Limited,
           NEW n, TakeBucket(k, q[2], q, n)
    PROVE  /\ TableInv'
           /\ \E b \in Bucket : b[2] = q[2] /\ pump' = [pump EXCEPT ![q] = At("take", n, n, b, 0)]
<1> DEFINE d == q[2]
           known == k \in Keys
           old == IF known THEN Entry(k).bucket ELSE [e \in Direction |-> None]
           b == IF old[d] = None THEN Fresh(k, d) ELSE old[d]
           rest == IF known THEN Keeping(Keys \ {k}) ELSE Evicted
           new == [key |-> k, bucket |-> [old EXCEPT ![d] = b]]
<1>1. table' = Append(rest, new) /\ pump' = [pump EXCEPT ![q] = At("take", n, n, b, 0)]
  BY DEF TakeBucket
<1>2. d \in Direction /\ d \in Limited
  BY DEF Limited
<1>3. /\ old \in [Direction -> Bucket \cup {None}]
      /\ \A e \in Direction : old[e] # None => old[e][1] = k /\ old[e][2] = e
      /\ old[d] = None => \A i \in DOMAIN table : table[i].key = k => table[i].bucket[d] = None
  <2>1. CASE known
    <3>1. PICK i \in DOMAIN table : table[i].key = k /\ Entry(k) = table[i]
      BY <2>1 DEF Keys, Entry
    <3>2. \A j \in DOMAIN table : table[j].key = k => j = i
      BY <3>1 DEF TableParts, TableInv
    <3>3. old = table[i].bucket /\ table[i] \in Entries
      BY <2>1, <3>1 DEF TableParts, TableInv
    <3> HIDE DEF old
    <3> QED
      BY <3>1, <3>2, <3>3 DEF TableParts, TableInv, Entries
  <2>2. CASE ~known
    BY <2>2 DEF Keys
  <2> QED
    BY <2>1, <2>2
<1> HIDE DEF old, known
<1>4. b \in Bucket /\ b[1] = k /\ b[2] = d
  BY <1>2, <1>3, FreshIs
<1>5. new \in Entries /\ new.key = k
      /\ \A e \in Direction : new.bucket[e] # None => new.bucket[e][1] = k /\ new.bucket[e][2] = e
  BY <1>2, <1>3, <1>4 DEF Entries
<1> HIDE DEF b, new
<1>6. /\ rest \in Seq(Entries) /\ Len(rest) < MaxKeys
      /\ \A i \in DOMAIN rest : \E j \in DOMAIN table : rest[i] = table[j]
      /\ \A i \in DOMAIN rest : rest[i].key # k
      /\ \A i, j \in DOMAIN rest : rest[i].key = rest[j].key => i = j
  <2>1. CASE known
    <3>1. rest = Keeping(Keys \ {k})
      BY <2>1
    <3>2. \E i \in DOMAIN table : table[i].key \notin Keys \ {k}
      BY <2>1 DEF known, Keys
    <3>3. table \in Seq(Entries) /\ Len(table) <= MaxKeys /\ MaxKeys \in Nat
          /\ \A i, j \in DOMAIN table : table[i].key = table[j].key => i = j
      BY ThrottleAssumption DEF TableParts, TableInv
    <3> HIDE DEF rest
    <3>4. rest \in Seq(Entries) /\ Len(rest) < Len(table)
          /\ \A i, j \in DOMAIN rest : rest[i].key = rest[j].key => i = j
      BY <3>1, <3>2, <3>3, KeepingIs
    <3>5. \A i \in DOMAIN rest : \E j \in DOMAIN table : rest[i] = table[j] /\ table[j].key \in Keys \ {k}
      BY <3>1, <3>3, KeepingIs
    <3>6. Len(rest) \in Nat /\ Len(table) \in Nat
      BY <3>3, <3>4
    <3> QED
      BY <3>3, <3>4, <3>5, <3>6
  <2>2. CASE ~known
    <3>1. rest = IF Len(table) < MaxKeys THEN table ELSE Tail(table)
      BY <2>2 DEF Evicted
    <3>2. \A j \in DOMAIN table : table[j].key # k
      BY <2>2 DEF known, Keys
    <3>3. table \in Seq(Entries) /\ Len(table) <= MaxKeys /\ MaxKeys \in Nat \ {0}
          /\ \A i, j \in DOMAIN table : table[i].key = table[j].key => i = j
      BY ThrottleAssumption DEF TableParts, TableInv
    <3> HIDE DEF rest
    <3>4. CASE Len(table) < MaxKeys
      BY <3>1, <3>2, <3>3, <3>4
    <3>5. CASE Len(table) = MaxKeys
      <4>1. rest = Tail(table) /\ rest \in Seq(Entries) /\ Len(rest) = Len(table) - 1
        BY <3>1, <3>3, <3>5
      <4>2. \A i \in DOMAIN rest : i + 1 \in DOMAIN table /\ rest[i] = table[i + 1]
        BY <3>3, <3>5, <4>1
      <4>3. DOMAIN rest \subseteq Int
        BY <4>1
      <4> QED
        BY <3>2, <3>3, <3>5, <4>1, <4>2, <4>3
    <3> QED
      BY <3>3, <3>4, <3>5
  <2> QED
    BY <2>1, <2>2
<1> HIDE DEF rest
<1>7. /\ table' \in Seq(Entries) /\ Len(table') = Len(rest) + 1 /\ DOMAIN table' = 1..(Len(rest) + 1)
      /\ table'[Len(rest) + 1] = new /\ DOMAIN rest = 1..Len(rest) /\ Len(rest) \in Nat
      /\ \A i \in 1..Len(rest) : table'[i] = rest[i]
  BY <1>1, <1>5, <1>6
<1>8. Len(table') <= MaxKeys
  BY <1>6, <1>7, ThrottleAssumption
<1>9. \A i \in DOMAIN table' : i = Len(rest) + 1 \/ i \in DOMAIN rest
  BY <1>7
<1>10. \A i, j \in DOMAIN table' : table'[i].key = table'[j].key => i = j
  BY <1>5, <1>6, <1>7, <1>9
<1>11. \A i \in DOMAIN table', e \in Direction :
          table'[i].bucket[e] # None => table'[i].bucket[e][1] = table'[i].key /\ table'[i].bucket[e][2] = e
  BY <1>5, <1>6, <1>7, <1>9 DEF TableParts, TableInv
<1> QED
  BY <1>1, <1>4, <1>7, <1>8, <1>10, <1>11 DEF TableInv

LEMMA TableStep == FlowInv /\ TableParts /\ [Next]_vars => TableParts'
<1> SUFFICES ASSUME FlowInv, TableParts, [Next]_vars PROVE TableParts'
  OBVIOUS
<1>1. ASSUME UNCHANGED table PROVE TableInv'
  BY <1>1 DEF TableParts, TableInv
<1>2. ASSUME NEW q \in Pump, Read(q) PROVE TableParts'
  <2>1. /\ pump[q].st = "read" /\ serves' = serves
        /\ DOMAIN pump = Pump /\ \A o \in Pump : Holding(o)
    BY <1>2 DEF Read, FlowInv, Types, TableParts
  <2>2. serves[q[1]] \in Unit
    BY <2>1 DEF Holding
  <2>3. CASE q[2] \in Limited /\ TakeBucket(KeyOf(serves[q[1]]), q[2], q, Least(Chunk, source[q]))
    <3>1. KeyOf(serves[q[1]]) \in Key
      BY <2>2 DEF Key
    <3> DEFINE n == Least(Chunk, source[q])
    <3> HIDE DEF n
    <3>2. PICK b \in Bucket : b[2] = q[2] /\ TableInv' /\ pump' = [pump EXCEPT ![q] = At("take", n, n, b, 0)]
      BY <2>3, <3>1, TakeBucketTable DEF n
    <3> QED
      BY <2>1, <2>2, <3>2 DEF TableParts, Holding, At
  <2>4. CASE UNCHANGED limiter /\ pump' = [pump EXCEPT ![q] = At("write", Least(Chunk, source[q]), 0, None, 0)]
    BY <1>1, <2>1, <2>2, <2>4 DEF TableParts, Holding, At, limiter
  <2> QED
    BY <1>2, <2>3, <2>4 DEF Read
<1>3. ASSUME NEW q \in Pump, ReadEof(q) \/ Take(q) \/ Sleep(q) \/ Wake(q) \/ Write(q) \/ Fail(q)
      PROVE  TableParts'
  <2>1. UNCHANGED <<table, serves>>
    BY <1>3 DEF ReadEof, Take, Sleep, Wake, Write, Fail, Pay, limiter, traffic
  <2>2. /\ \A o \in Pump : o # q => pump'[o] = pump[o]
        /\ pump'[q].bucket \in {pump[q].bucket, None}
        /\ pump[q].st # "over"
    <3>1. DOMAIN pump = Pump /\ PumpSound(q)
      BY DEF FlowInv, Types
    <3>2. CASE ReadEof(q) \/ Write(q) \/ Fail(q)
      BY <3>1, <3>2 DEF ReadEof, Write, Fail, Complete, Reading, Over, At
    <3>3. CASE Take(q)
      BY <3>1, <3>3 DEF Take, Pay, At
    <3>4. CASE Wake(q)
      BY <3>1, <3>4 DEF Wake, PumpSound
    <3>5. CASE Sleep(q)
      <4>1. PICK t : pump' = [pump EXCEPT ![q].st = "sleep", ![q].timer = t] /\ pump[q].st = "take"
        BY <3>5 DEF Sleep
      <4>2. pump'[q] = [pump[q] EXCEPT !.st = "sleep", !.timer = t]
        BY <3>1, <4>1
      <4>3. pump'[q].bucket = pump[q].bucket
        BY <3>1, <4>2 DEF PumpSound
      <4> QED
        BY <3>1, <4>1, <4>3
    <3> QED
      BY <1>3, <3>2, <3>3, <3>4, <3>5
  <2> QED
    BY <1>1, <2>1, <2>2 DEF TableParts, Holding
<1>4. ASSUME NEW q \in Pump, SourceEnds(q) PROVE TableParts'
  BY <1>1, <1>4 DEF SourceEnds, limiter, TableParts, Holding
<1>5. ASSUME NEW p \in Pipe, Finish(p) PROVE TableParts'
  <2>1. /\ UNCHANGED table /\ serves' = [serves EXCEPT ![p] = None]
        /\ pump' = [q \in Pump |-> IF q[1] = p THEN Over ELSE pump[q]]
    BY <1>5 DEF Finish, End
  <2> QED
    BY <1>1, <2>1 DEF TableParts, Holding, Over, At
<1>6. ASSUME NEW c \in Clients, ClientOffline(c) PROVE TableParts'
  <2>1. table' = Forgotten(c) /\ UNCHANGED <<pump, serves>>
    BY <1>6 DEF ClientOffline, traffic
  <2>2. TableInv'
    <3> DEFINE K == {k \in Keys : Owner(k) # c}
    <3>1. table' = Keeping(K)
      BY <2>1 DEF Forgotten
    <3> HIDE DEF K
    <3>2. table \in Seq(Entries) /\ Len(table) <= MaxKeys /\ MaxKeys \in Nat
          /\ \A i, j \in DOMAIN table : table[i].key = table[j].key => i = j
      BY ThrottleAssumption DEF TableParts, TableInv
    <3>3. /\ table' \in Seq(Entries) /\ Len(table') <= Len(table)
          /\ \A i, j \in DOMAIN table' : table'[i].key = table'[j].key => i = j
          /\ \A n \in DOMAIN table' : \E i \in DOMAIN table : table'[n] = table[i]
      BY <3>1, <3>2, KeepingIs
    <3>4. Len(table') <= MaxKeys
      BY <3>2, <3>3
    <3> QED
      BY <3>3, <3>4 DEF TableParts, TableInv
  <2> QED
    BY <2>1, <2>2 DEF TableParts, Holding
<1>7. CASE Tick
  <2>1. UNCHANGED <<table, serves>> /\ pump' = [q \in Pump |-> [pump[q] EXCEPT !.timer = Monus(@, 1)]]
    BY <1>7 DEF Tick, traffic
  <2>2. \A q \in Pump : PumpSound(q)
    BY DEF FlowInv, Types
  <2>3. ASSUME NEW q \in Pump PROVE pump'[q].bucket = pump[q].bucket /\ pump'[q].st = pump[q].st
    <3>1. PICK t : pump'[q] = [pump[q] EXCEPT !.timer = t]
      BY <2>1
    <3> QED
      BY <2>2, <3>1 DEF PumpSound
  <2> QED
    BY <1>1, <2>1, <2>3 DEF TableParts, Holding
<1>8. CASE UNCHANGED vars
  BY <1>1, <1>8 DEF vars, TableParts, Holding
<1> QED
  BY <1>2, <1>3, <1>4, <1>5, <1>6, <1>7, <1>8 DEF Next, Move

\* The table and the pumps that hold its buckets, for any number of keys.
THEOREM TableInvariant == Spec => []TableParts
<1>1. Init => TableParts
  <2> SUFFICES ASSUME Init PROVE TableParts
    OBVIOUS
  <2>1. TableInv
    BY ThrottleAssumption DEF Init, TableInv
  <2>2. ASSUME NEW q \in Pump PROVE Holding(q)
    BY ThrottleAssumption DEF Init, Holding, Reading, At, Pump
  <2> QED
    BY <2>1, <2>2 DEF TableParts
<1> QED
  BY <1>1, TableStep, FlowInvariant, PTL DEF Spec

\* However many keys there are and whoever comes and goes, the table stays
\* within rate_limit_max_keys, and a key keeps to its own buckets, full at most.
THEOREM TableStaysSound == Spec => []TableSound
<1>1. TableParts /\ Levels => TableSound
  <2> SUFFICES ASSUME TableParts, Levels PROVE TableSound
    OBVIOUS
  <2>1. \A e \in ToSet(table), d \in Direction : e.bucket[d] # None => e.bucket[d][1] = e.key
    BY DEF TableParts, TableInv, ToSet
  <2>2. \A b \in Bucket : tokens[b] <= Capacity[b[2]]
    BY BucketDirections DEF Levels
  <2> QED
    BY <2>1, <2>2 DEF TableSound, TableParts, TableInv
<1> QED
  BY <1>1, TableInvariant, LevelInvariant, PTL

-----------------------------------------------------------------------------
(* Composed keys.                                                          *)

\* limit_key_owner reads the client back out of any key that
\* compose_limit_key has put together, whatever characters it has.
LEMMA OwnerOfKey ==
    ASSUME NEW u \in Unit
    PROVE  Owner(KeyOf(u)) = u.client
<1> DEFINE id == u.client
           shard == u.shard
<1>1. id \in Seq(STRING) /\ shard \in Seq(STRING)
  BY ThrottleAssumption
<1> HIDE DEF id, shard
<1>2. Len(id) \in Nat /\ Len(<<Len(id), ":">> \o id \o <<":">> \o shard) = Len(id) + Len(shard) + 3
  BY <1>1
<1>3. (<<Len(id), ":">> \o id \o <<":">> \o shard)[1] = Len(id)
  BY <1>1
<1>4. SubSeq(<<Len(id), ":">> \o id \o <<":">> \o shard, 3, Len(id) + 2) = id
  BY <1>1
<1> QED
  BY <1>3, <1>4 DEF Owner, KeyOf, Compose, id, shard

\* The buckets of a client that goes offline are forgotten and nobody else's,
\* for ids and shards of any characters, the separator included.
THEOREM ForgetsOnlyOwn == Spec => []OnlyOwnForgotten
<1>1. TableParts => OnlyOwnForgotten
  <2> SUFFICES ASSUME TableParts, NEW u \in Unit, NEW c \in Clients, KeyOf(u) \in Keys
               PROVE  u.client = c <=> \A e \in ToSet(Forgotten(c)) : e.key # KeyOf(u)
    BY DEF OnlyOwnForgotten
  <2> DEFINE K == {k \in Keys : Owner(k) # c}
             left == Keeping(K)
  <2>1. table \in Seq(Entries)
    BY DEF TableParts, TableInv
  <2>2. KeyOf(u) \in K <=> u.client # c
    BY OwnerOfKey
  <2> HIDE DEF K
  <2>3. \A n \in DOMAIN left : left[n].key \in K
    BY <2>1, KeepingIs
  <2>4. \A i \in DOMAIN table : table[i].key \in K => \E n \in DOMAIN left : left[n] = table[i]
    BY <2>1, KeepingIs
  <2>5. PICK i \in DOMAIN table : table[i].key = KeyOf(u)
    BY DEF Keys
  <2>6. Forgotten(c) = left
    BY DEF Forgotten, K
  <2> HIDE DEF left
  <2> QED
    BY <2>2, <2>3, <2>4, <2>5, <2>6 DEF ToSet
<1> QED
  BY <1>1, TableInvariant, PTL
=============================================================================
