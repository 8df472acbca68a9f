------------------------------ MODULE Throttle ------------------------------
(***************************************************************************)
(* Byte pipes under a rate limit: pipe_both with its two pumps, and the    *)
(* token buckets of ClientRateLimiter they share.                          *)
(*                                                                         *)
(* Time passes in ticks.  The code refills a bucket when it looks at it;   *)
(* refilling all of them at every tick gives the same level, for a level   *)
(* cut off at the capacity at each step is the one cut off once at the     *)
(* end.  A bucket lives as long as the table or a pump refers to it.       *)
(***************************************************************************)
EXTENDS Naturals, Sequences, SequencesExt, FiniteSets

CONSTANTS
    Pipe,       \* the pipes, one for each visitor that is paired
    Unit,       \* what limits are counted by: records of a client_id, a sequence
                \* of characters, and the shard the scope adds: port or visitor
    Visits,     \* whom the pipes may serve: functions from Pipe to Unit
    Rate,       \* bytes per tick in each direction, 0 for no limit
    Capacity,   \* of a bucket in each direction
    MaxKeys,    \* limits.rate_limit_max_keys
    Chunk,      \* CHUNK_SIZE
    Copies,     \* bound: bucket objects alive at a time for one key
    Bytes,      \* what each end sends, at most a few chunks
    None

Direction == {"up", "down"}
Pump == Pipe \X Direction
Limited == {d \in Direction : Rate[d] > 0}

\* compose_limit_key and limit_key_owner; the decimal length is one symbol.
\* (Faulty: the owner is taken to end at the next separator.)
Compose(id, shard) == <<Len(id), ":">> \o id \o <<":">> \o shard
NaiveOwner(key) ==
    LET ends == {i \in 3..Len(key) : key[i] = ":"}
    IN  SubSeq(key, 3, (CHOOSE i \in ends : \A j \in ends : i <= j) - 1)
Owner(key) == SubSeq(key, 3, key[1] + 2)

KeyOf(u) == Compose(u.client, u.shard)
Key == {KeyOf(u) : u \in Unit}
Clients == {u.client : u \in Unit}

\* Bucket objects: the n-th of a key and direction.
Bucket == Key \X Limited \X (1..Copies)

ASSUME ThrottleAssumption ==
    /\ \A u \in Unit : u.client \in Seq(STRING) /\ u.shard \in Seq(STRING)
    /\ Visits \subseteq [Pipe -> Unit]
    /\ Rate \in [Direction -> Nat]
    /\ Capacity \in [Direction -> Nat \ {0}]
    /\ MaxKeys \in Nat \ {0} /\ Chunk \in Nat \ {0} /\ Bytes \in [Pump -> Nat]
    /\ IsFiniteSet(Pipe) /\ Copies \in Nat /\ Copies > Cardinality(Pipe)
    /\ None \notin Bucket

VARIABLES
    table,      \* _buckets: keys with their buckets, least recently used first
    tokens,     \* level of each bucket
    pump,       \* what each pump is at
    source,     \* bytes waiting at each source
    eof,        \* the sources that have ended
    delivered,  \* bytes written, by pump
    serves,     \* the unit whose visitor each pipe serves, None once it is over
    meter       \* history: what each bucket has let pass and has not yet leaked
                \* out at its rate

limiter == <<table, tokens, meter>>
traffic == <<source, eof, serves>>
vars == <<table, tokens, pump, source, eof, delivered, serves, meter>>

\* A pump: where it is, the chunk it holds, what of it has still to be paid
\* for, the bucket that pays and the ticks it sleeps.
At(st, chunk, left, bucket, timer) ==
    [st |-> st, chunk |-> chunk, left |-> left, bucket |-> bucket, timer |-> timer]
Reading == At("read", 0, 0, None, 0)
Over == At("over", 0, 0, None, 0)
Complete == At("eof", 0, 0, None, 0)
Running(q) == pump[q].st \notin {"eof", "over"}

Least(m, n) == IF m <= n THEN m ELSE n
Monus(m, n) == IF m <= n THEN 0 ELSE m - n

\* Every visitor has been paired, and what the two ends of its pipe send is
\* waiting; when a pump begins to read is open.
Init ==
    /\ table = <<>>
    /\ tokens = [b \in Bucket |-> 0]
    /\ pump = [q \in Pump |-> Reading]
    /\ source = Bytes
    /\ eof = {}
    /\ delivered = [q \in Pump |-> 0]
    /\ serves \in Visits
    /\ meter = [b \in Bucket |-> 0]

-----------------------------------------------------------------------------
(* The table of buckets.                                                   *)

Keys == {table[i].key : i \in DOMAIN table}
Entry(k) == table[CHOOSE i \in DOMAIN table : table[i].key = k]

\* The table without the keys that are not in K: the others keep their order.
Nth(places, n) == CHOOSE i \in places : Cardinality({j \in places : j <= i}) = n
Keeping(K) ==
    LET kept == {i \in DOMAIN table : table[i].key \in K}
    IN  [n \in 1..Cardinality(kept) |-> table[Nth(kept, n)]]

InUse == {e.bucket[d] : e \in ToSet(table), d \in Direction} \cup {pump[q].bucket : q \in Pump}

\* A bucket nothing refers to is garbage; the next one takes its place.
Kept(f) == LET used == InUse' IN [b \in Bucket |-> IF b \in used THEN f[b] ELSE 0]
KeepBuckets == tokens' = Kept(tokens) /\ meter' = Kept(meter)

Fresh(k, d) == CHOOSE b \in Bucket :
    /\ b[1] = k /\ b[2] = d /\ b \notin InUse
    /\ \A i \in 1..(b[3] - 1) : <<k, d, i>> \in InUse

\* _evict_if_full: at the limit the least recently used key goes.  (Faulty:
\* one key too many is let in.)
EvictedLate == IF Len(table) <= MaxKeys THEN table ELSE Tail(table)
Evicted == IF Len(table) < MaxKeys THEN table ELSE Tail(table)

\* _bucket_for, in a limited direction: the key moves to the end of the
\* table, its bucket is made if there is none.
TakeBucket(k, d, q, n) ==
    LET known == k \in Keys
        old   == IF known THEN Entry(k).bucket ELSE [e \in Direction |-> None]
        made  == old[d] = None
        b     == IF made THEN Fresh(k, d) ELSE old[d]
    IN  /\ table' = Append(IF known THEN Keeping(Keys \ {k}) ELSE Evicted,
                           [key |-> k, bucket |-> [old EXCEPT ![d] = b]])
        /\ pump' = [pump EXCEPT ![q] = At("take", n, n, b, 0)]
        /\ tokens' = Kept(IF made THEN [tokens EXCEPT ![b] = Capacity[b[2]]] ELSE tokens)
        /\ meter' = Kept(IF made THEN [meter EXCEPT ![b] = 0] ELSE meter)

\* forget_client, when a client goes offline; its pipes go on.
Forgotten(c) == Keeping({k \in Keys : Owner(k) # c})
ClientOffline(c) ==
    /\ table' = Forgotten(c)
    /\ table' # table
    /\ UNCHANGED <<pump, traffic, delivered>>
    /\ KeepBuckets

-----------------------------------------------------------------------------
(* The pumps.                                                              *)

\* An end closes or half-closes its connection behind the last of what it
\* sends; one that breaks off earlier is Fail.
SourceEnds(q) ==
    /\ serves[q[1]] # None /\ q \notin eof /\ source[q] = 0
    /\ eof' = eof \cup {q}
    /\ UNCHANGED <<limiter, pump, source, serves, delivered>>

\* read returns what is there, a chunk at most; a chunk of an unlimited
\* direction needs no bucket.
Read(q) ==
    LET p == q[1]  d == q[2]  n == Least(Chunk, source[q]) IN
    /\ pump[q].st = "read"
    /\ source[q] > 0
    /\ source' = [source EXCEPT ![q] = @ - n]
    /\ \/ /\ d \in Limited
          /\ TakeBucket(KeyOf(serves[p]), d, q, n)
       \/ /\ d \notin Limited
          /\ pump' = [pump EXCEPT ![q] = At("write", n, 0, None, 0)]
          /\ UNCHANGED limiter
    /\ UNCHANGED <<eof, serves, delivered>>

ReadEof(q) ==
    /\ pump[q].st = "read"
    /\ source[q] = 0 /\ q \in eof
    /\ pump' = [pump EXCEPT ![q] = Complete]
    /\ UNCHANGED <<limiter, traffic, delivered>>

\* acquire takes a chunk in parts no larger than the bucket.  (Faulty: in
\* one.)
WholePart(left, d) == left
Part(left, d) == Least(left, Capacity[d])

\* _take: what the bucket holds is taken at once, or the pump sleeps for as
\* long as the rest takes to flow in; when it wakes it looks again, for
\* others may have taken it.  (Faulty: it takes it without looking.)
Enough(q, amount) == tokens[pump[q].bucket] >= amount

\* A part is paid; the chunk is written whole after the last.  (Faulty: only
\* what was paid last is.)
LastPartPay(q, amount) ==
    LET left == pump[q].left - amount IN
    /\ pump' = [pump EXCEPT ![q] = IF left = 0 THEN At("write", amount, 0, None, 0)
                                   ELSE At("take", @.chunk, left, @.bucket, 0)]
    /\ UNCHANGED <<table, tokens, meter>>

Pay(q, amount) ==
    LET left == pump[q].left - amount IN
    /\ pump' = [pump EXCEPT ![q] = IF left = 0 THEN At("write", @.chunk, 0, None, 0)
                                   ELSE At("take", @.chunk, left, @.bucket, 0)]
    /\ UNCHANGED table
    /\ tokens' = Kept([tokens EXCEPT ![pump[q].bucket] = Monus(@, amount)])
    /\ meter' = Kept([meter EXCEPT ![pump[q].bucket] = @ + amount])

Take(q) ==
    LET amount == Part(pump[q].left, q[2]) IN
    /\ pump[q].st = "take"
    /\ Enough(q, amount)
    /\ Pay(q, amount)
    /\ UNCHANGED <<traffic, delivered>>

Sleep(q) ==
    LET amount == Part(pump[q].left, q[2])
        lack   == amount - tokens[pump[q].bucket]
    IN  /\ pump[q].st = "take"
        /\ ~Enough(q, amount)
        /\ pump' = [pump EXCEPT ![q].st = "sleep",
                                ![q].timer = (lack + Rate[q[2]] - 1) \div Rate[q[2]]]
        /\ UNCHANGED <<limiter, traffic, delivered>>

BlindWake(q) ==
    /\ pump[q].st = "sleep" /\ pump[q].timer = 0
    /\ Pay(q, Part(pump[q].left, q[2]))
    /\ UNCHANGED <<traffic, delivered>>

Wake(q) ==
    /\ pump[q].st = "sleep" /\ pump[q].timer = 0
    /\ pump' = [pump EXCEPT ![q].st = "take"]
    /\ UNCHANGED <<limiter, traffic, delivered>>

\* write and drain.
Write(q) ==
    /\ pump[q].st = "write"
    /\ delivered' = [delivered EXCEPT ![q] = @ + pump[q].chunk]
    /\ pump' = [pump EXCEPT ![q] = Reading]
    /\ UNCHANGED <<limiter, traffic>>

\* A connection breaks under read, write or drain.
Fail(q) ==
    /\ pump[q].st \in {"read", "write"}
    /\ pump' = [pump EXCEPT ![q] = Over]
    /\ UNCHANGED <<limiter, traffic, delivered>>

\* The end of a pipe: what still runs is cancelled wherever it is, with the
\* chunk it holds.
End(p) ==
    /\ serves' = [serves EXCEPT ![p] = None]
    /\ pump' = [q \in Pump |-> IF q[1] = p THEN Over ELSE pump[q]]
    /\ source' = [q \in Pump |-> IF q[1] = p THEN 0 ELSE source[q]]
    /\ delivered' = [q \in Pump |-> IF q[1] = p THEN 0 ELSE delivered[q]]
    /\ eof' = {q \in eof : q[1] # p}
    /\ UNCHANGED table
    /\ KeepBuckets

\* The first pump to end ends the pipe.  A server that stops ends it the same
\* way.
Finish(p) == serves[p] # None /\ (\E d \in Direction : ~Running(<<p, d>>)) /\ End(p)

\* _refill of every bucket in use, and a tick for those that sleep.
Level(level, d) == Least(Capacity[d], level + Rate[d])

Tick ==
    /\ UNCHANGED <<table, traffic, delivered>>
    /\ pump' = [q \in Pump |-> [pump[q] EXCEPT !.timer = Monus(@, 1)]]
    /\ meter' = [b \in Bucket |-> Monus(meter[b], Rate[b[2]])]
    /\ tokens' = LET used == InUse IN
                 [b \in Bucket |-> IF b \in used THEN Level(tokens[b], b[2]) ELSE 0]

Move(q) == Read(q) \/ ReadEof(q) \/ Take(q) \/ Sleep(q) \/ Wake(q) \/ Write(q)

Next ==
    \/ \E q \in Pump : SourceEnds(q) \/ Move(q) \/ Fail(q)
    \/ \E p \in Pipe : Finish(p)
    \/ \E c \in Clients : ClientOffline(c)
    \/ Tick

\* Time passes, the event loop runs what is ready, and a sink that takes a
\* chunk drains it; sources need not end, nothing need fail.
Fairness ==
    /\ WF_vars(Tick)
    /\ \A q \in Pump : WF_vars(Move(q))
    /\ \A p \in Pipe : WF_vars(Finish(p))

Spec == Init /\ [][Next]_vars
FairSpec == Spec /\ Fairness

-----------------------------------------------------------------------------
(* Properties.                                                             *)

\* The table holds a key once and MaxKeys of them at most, with
\* buckets of its own, and a bucket never holds more than its capacity.
TableSound ==
    /\ Len(table) <= MaxKeys
    /\ \A i, j \in DOMAIN table : table[i].key = table[j].key => i = j
    /\ \A e \in ToSet(table), d \in Direction : e.bucket[d] # None => e.bucket[d][1] = e.key
    /\ \A b \in Bucket : tokens[b] <= Capacity[b[2]]

\* However many pipes share a bucket and however their sleeps interleave,
\* what it lets pass in any stretch of time is at most its capacity plus the
\* rate times its length, even after the table has let go of it.
RateRespected == \A b \in Bucket : meter[b] <= Capacity[b[2]]

\* Whichever client goes offline, the buckets of all its units go and those
\* of no other client, whatever characters their ids are made of.
OnlyOwnForgotten ==
    \A u \in Unit, c \in Clients :
        KeyOf(u) \in Keys =>
            (u.client = c <=> \A e \in ToSet(Forgotten(c)) : e.key # KeyOf(u))

\* A pump that ends because its source has ended has delivered every byte of
\* it; a pump never delivers more than was sent.
EofIsComplete ==
    \A q \in Pump : /\ delivered[q] + source[q] + pump[q].chunk <= Bytes[q]
                    /\ pump[q].st = "eof" => delivered[q] = Bytes[q]

\* A pipe one side of which has ended ends as well, for a chunk of any size
\* gets through the bucket and the other side does not hold it up: again and
\* again there is no pipe with an end.
PipeSettles == []<>(eof = {})
=============================================================================
