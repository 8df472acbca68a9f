-------------------------- MODULE MappingSync_proofs --------------------------
(***************************************************************************)
(* Theorems about MappingSync for every number of clients, windows and     *)
(* coroutines, any tables and any size of the mailbox.                     *)
(***************************************************************************)
EXTENDS MappingSync, FiniteSetTheorems, TLAPS

Results == {Result(ok) : ok \in BOOLEAN}
Messages == {List(T) : T \in Tables} \cup Results
Replies == {<<>>} \cup {<<r>> : r \in Results}

Jobs == [at : Client \cup {None}, does : {"idle", "cast", "close", "change"},
         left : SUBSET Client, payload : SUBSET Row, reply : Replies]

\* Sessions are left for a broadcast only, which has a table to send; a
\* change waits for no transport.
JobSound(j) ==
    /\ j \in Jobs
    /\ j.does = "change" => j.at = None
    /\ j.left # {} => j.does = "cast" /\ j.payload \in Tables

Types ==
    /\ table \in Tables /\ slow \subseteq Client
    /\ DOMAIN conn = Client /\ DOMAIN late = Client
    /\ DOMAIN job = Task /\ \A t \in Task : JobSound(job[t])
    /\ down \in [Client -> Seq(Messages)] /\ mail \in [Client -> Seq(Messages)]
    /\ up \in [Client -> Seq(Tables)] /\ view \in [Client -> Tables]
    /\ wrong \in [Client -> SUBSET {"dropped", "marked"}]

\* The queue holds the suspended coroutines, each once.
Queued ==
    /\ queue \in Seq(Task)
    /\ \A i, j \in DOMAIN queue : queue[i] = queue[j] => i = j
    /\ \A t \in Task : job[t].at # None <=> t \in ToSet(queue)

\* A change under way keeps its coroutine from anything else, and knows the
\* table it would put back and the one it puts in place.
Changes ==
    /\ DOMAIN change = Task
    /\ \A t \in Task : change[t].stage # "none" =>
           /\ job[t] = Busy /\ change[t].old \in Tables /\ change[t].new \in Tables
           /\ LET p == change[t] IN p = Plan(p.stage, p.old, p.new, p.stops, p.starts)

\* What holds of the last list among the messages s holds among z.
Kept(s, z) == (\A T : Newest(s, T) => Newest(z, T)) /\ (NoList(s) => NoList(z))

\* A client that is connected has the table of the server under way or in
\* view, or a broadcast has still to come to it, or a change is between its two
\* tables, or it was passed by or sent a table since put back.
Current(c) == Shows(c, table)
Owed(c) == \E t \in Task : c \in job[t].left
Served == \A c \in Client : conn[c] = "on" /\ late[c] = "no" => Current(c) \/ Owed(c) \/ HalfWay

\* The working copy and its snapshot are tables; the newest list a window was
\* sent is in its mailbox, or it is what its snapshot holds.
Edited == /\ rows \in [Client -> Seq(Row)] /\ snap \in [Client -> Seq(Row)]
          /\ \A c \in Client : Valid(rows[c]) /\ Valid(snap[c])
ShownTo(c) ==
    "dropped" \notin wrong[c] =>
        \/ Newest(mail[c], view[c])
        \/ NoList(mail[c]) /\ ("marked" \notin wrong[c] => ToSet(snap[c]) = view[c])
Shown == \A c \in User : ShownTo(c)

SyncInv == Types /\ Changes /\ Queued /\ Served /\ Edited /\ Shown

-----------------------------------------------------------------------------
(* Tables and rows.                                                        *)

\* In a table each row is the n-th by its port for one n.
LEMMA NthRow ==
    ASSUME NEW T \in Tables
    PROVE  /\ Cardinality(T) \in Nat \ {0}
           /\ \A n \in 1..Cardinality(T) : Nth(T, n) \in T
           /\ \A m, n \in 1..Cardinality(T) : Nth(T, m) = Nth(T, n) => m = n
           /\ \A r \in T : \E n \in 1..Cardinality(T) : Nth(T, n) = r
<1> DEFINE Upto(r) == {q \in T : q.port <= r.port}
           N == Cardinality(T)
           rank == [r \in T |-> Cardinality(Upto(r))]
<1>1. /\ IsFiniteSet(T) /\ T # {}
      /\ \A r \in T : r.port \in Nat
      /\ \A r, q \in T : r.port = q.port => r = q
  BY SyncAssumption DEF Tables, Row
<1>2. N \in Nat /\ N # 0
  BY <1>1, FS_CardinalityType, FS_EmptySet
<1>3. ASSUME NEW r \in T PROVE IsFiniteSet(Upto(r)) /\ Cardinality(Upto(r)) \in 1..N
  <2>1. Upto(r) \in SUBSET T /\ r \in Upto(r)
    BY <1>1
  <2>2. IsFiniteSet(Upto(r)) /\ Cardinality(Upto(r)) <= N /\ Cardinality(Upto(r)) \in Nat
    BY <1>1, <2>1, FS_Subset, FS_CardinalityType
  <2>3. Cardinality(Upto(r)) # 0
    BY <2>1, <2>2, FS_EmptySet
  <2> QED
    BY <1>2, <2>2, <2>3
<1>4. ASSUME NEW r \in T, NEW q \in T, r.port < q.port PROVE Cardinality(Upto(r)) # Cardinality(Upto(q))
  <2>1. ASSUME NEW k \in Upto(r) PROVE k \in Upto(q)
    BY <1>1, <1>4
  <2>2. q \in Upto(q) /\ q \notin Upto(r)
    BY <1>1, <1>4
  <2>3. Upto(r) \in SUBSET Upto(q) /\ Upto(r) # Upto(q)
    BY <2>1, <2>2
  <2>4. IsFiniteSet(Upto(q))
    BY <1>3
  <2> HIDE DEF Upto
  <2> QED
    BY <2>3, <2>4, FS_Subset
<1>5. \A r, q \in T : rank[r] = rank[q] => r = q
  <2> SUFFICES ASSUME NEW r \in T, NEW q \in T, rank[r] = rank[q] PROVE r = q
    OBVIOUS
  <2>1. r.port = q.port
    BY <1>1, <1>4
  <2> QED
    BY <1>1, <2>1
<1>6. rank \in Injection(T, 1..N)
  BY <1>3, <1>5 DEF Injection, IsInjective
<1>7. IsFiniteSet(1..N) /\ Cardinality(1..N) = N
  BY <1>2, FS_Interval
<1>8. rank \in Surjection(T, 1..N)
  BY <1>6, <1>7, FS_Injection
<1>9. \A n \in 1..N : \E r \in T : rank[r] = n
  BY <1>8 DEF Surjection
<1>10. \A n \in 1..N : Nth(T, n) \in T /\ rank[Nth(T, n)] = n
  BY <1>9 DEF Nth
<1>11. \A r \in T : rank[r] \in 1..N
  BY <1>3
<1> HIDE DEF rank
<1> QED
  BY <1>2, <1>5, <1>10, <1>11

\* What the window is given to edit is the table, each row once.
LEMMA SortedIs ==
    ASSUME NEW T \in Tables
    PROVE  Sorted(T) \in Seq(Row) /\ Valid(Sorted(T)) /\ ToSet(Sorted(T)) = T
<1> DEFINE N == Cardinality(T)
<1>1. /\ N \in Nat \ {0}
      /\ \A n \in 1..N : Nth(T, n) \in T
      /\ \A m, n \in 1..N : Nth(T, m) = Nth(T, n) => m = n
      /\ \A r \in T : \E n \in 1..N : Nth(T, n) = r
  BY NthRow
<1>2. Sorted(T) = [n \in 1..N |-> Nth(T, n)]
  BY DEF Sorted
<1>3. T \subseteq Row /\ \A r, q \in T : r.port = q.port => r = q
  BY DEF Tables
<1> HIDE DEF N
<1>4. Sorted(T) \in Seq(Row) /\ DOMAIN Sorted(T) = 1..N /\ Sorted(T) # <<>>
  BY <1>1, <1>2, <1>3
<1>5. ToSet(Sorted(T)) = T
  BY <1>1, <1>2, <1>4 DEF ToSet
<1>6. Valid(Sorted(T))
  BY <1>1, <1>2, <1>3, <1>4 DEF Valid
<1> QED
  BY <1>4, <1>5, <1>6

\* What a window submits is a table.
LEMMA RowsAreTable ==
    ASSUME NEW s \in Seq(Row), Valid(s)
    PROVE  ToSet(s) \in Tables
<1>1. DOMAIN s = 1..Len(s) /\ Len(s) \in Nat /\ Len(s) # 0
  BY DEF Valid
<1>2. ToSet(s) \subseteq Row /\ ToSet(s) # {}
  BY <1>1 DEF ToSet
<1>3. \A r, q \in ToSet(s) : r.port = q.port => r = q
  BY DEF ToSet, Valid
<1>4. IsFiniteSet(ToSet(s))
  <2>1. s \in Surjection(1..Len(s), ToSet(s))
    BY <1>1 DEF Surjection, ToSet
  <2>2. IsFiniteSet(1..Len(s))
    BY <1>1, FS_Interval
  <2> QED
    BY <2>1, <2>2, FS_Surjection
<1> QED
  BY <1>2, <1>3, <1>4 DEF Tables

-----------------------------------------------------------------------------
(* Messages.                                                               *)

LEMMA MessageKinds ==
    /\ \A T \in Tables : List(T) \in Messages /\ List(T).kind = "list" /\ List(T).table = T
    /\ \A r \in Results : r \in Messages /\ r.kind = "result"
    /\ \A m \in Messages : m.kind = "list" => m.table \in Tables /\ m = List(m.table)
    /\ \A m \in Messages : m.kind = "result" => m \in Results
    /\ \A ok \in BOOLEAN : Result(ok) \in Results
  BY DEF Messages, Results, List, Result

\* What comes last behind other messages.
LEMMA Behind ==
    ASSUME NEW s \in Seq(Messages), NEW m \in Messages
    PROVE  /\ Append(s, m) \in Seq(Messages)
           /\ \A T \in Tables : m = List(T) => Newest(Append(s, m), T)
           /\ (m.kind # "list" => Kept(s, Append(s, m)))
<1>1. /\ Append(s, m) \in Seq(Messages) /\ DOMAIN Append(s, m) = 1..(Len(s) + 1)
      /\ DOMAIN s = 1..Len(s) /\ Len(s) \in Nat
      /\ \A i \in 1..Len(s) : Append(s, m)[i] = s[i]
      /\ Append(s, m)[Len(s) + 1] = m
  OBVIOUS
<1> DEFINE a == Append(s, m)
<1> HIDE DEF a
<1>2. ASSUME NEW T \in Tables, m = List(T) PROVE Newest(a, T)
  <2>1. Len(s) + 1 \in DOMAIN a /\ \A j \in DOMAIN a : ~(Len(s) + 1 < j)
    BY <1>1 DEF a
  <2> QED
    BY <1>1, <1>2, <2>1 DEF Newest, a
<1>3. ASSUME m.kind # "list", NEW T, Newest(s, T) PROVE Newest(a, T)
  <2>1. PICK i \in DOMAIN s : s[i] = List(T) /\ \A j \in DOMAIN s : i < j => s[j].kind # "list"
    BY <1>3 DEF Newest
  <2>2. i \in DOMAIN a /\ a[i] = List(T)
    BY <1>1, <2>1 DEF a
  <2>3. ASSUME NEW j \in DOMAIN a, i < j PROVE a[j].kind # "list"
    <3>1. j = Len(s) + 1 \/ j \in DOMAIN s
      BY <1>1 DEF a
    <3> QED
      BY <1>1, <1>3, <2>1, <2>3, <3>1 DEF a
  <2> QED
    BY <2>2, <2>3 DEF Newest
<1>4. ASSUME m.kind # "list", NoList(s) PROVE NoList(a)
  <2> SUFFICES ASSUME NEW j \in DOMAIN a PROVE a[j].kind # "list"
    BY DEF NoList
  <2>1. j = Len(s) + 1 \/ j \in DOMAIN s
    BY <1>1 DEF a
  <2> QED
    BY <1>1, <1>4, <2>1 DEF a, NoList
<1> QED
  BY <1>1, <1>2, <1>3, <1>4 DEF a, Kept

\* What is left when the first message is taken.
LEMMA Taken ==
    ASSUME NEW s \in Seq(Messages), s # <<>>
    PROVE  /\ Head(s) \in Messages /\ Tail(s) \in Seq(Messages)
           /\ NoList(s) => (NoList(Tail(s)) /\ Head(s).kind # "list")
           /\ \A T : Newest(s, T) => Newest(Tail(s), T) \/ (NoList(Tail(s)) /\ Head(s) = List(T))
<1>1. /\ Head(s) \in Messages /\ Tail(s) \in Seq(Messages)
      /\ Head(s) = s[1] /\ 1 \in DOMAIN s /\ DOMAIN s = 1..Len(s) /\ Len(s) \in Nat
      /\ DOMAIN Tail(s) = 1..(Len(s) - 1)
      /\ \A i \in 1..(Len(s) - 1) : Tail(s)[i] = s[i + 1]
  OBVIOUS
<1> DEFINE t == Tail(s)
<1> HIDE DEF t
<1>2. ASSUME NoList(s) PROVE NoList(t) /\ Head(s).kind # "list"
  <2>1. ASSUME NEW i \in DOMAIN t PROVE t[i].kind # "list"
    <3>1. i + 1 \in DOMAIN s /\ t[i] = s[i + 1]
      BY <1>1 DEF t
    <3> QED
      BY <1>2, <3>1 DEF NoList
  <2> QED
    BY <1>1, <1>2, <2>1 DEF NoList
<1>3. ASSUME NEW T, Newest(s, T) PROVE Newest(t, T) \/ (NoList(t) /\ Head(s) = List(T))
  <2>1. PICK i \in DOMAIN s : s[i] = List(T) /\ \A j \in DOMAIN s : i < j => s[j].kind # "list"
    BY <1>3 DEF Newest
  <2>2. ASSUME NEW j \in DOMAIN t, i < j + 1 PROVE t[j].kind # "list"
    <3>1. j + 1 \in DOMAIN s /\ t[j] = s[j + 1]
      BY <1>1 DEF t
    <3> QED
      BY <2>1, <2>2, <3>1
  <2>3. CASE i = 1
    <3>1. \A j \in DOMAIN t : i < j + 1
      BY <1>1, <2>3 DEF t
    <3> QED
      BY <1>1, <2>1, <2>2, <2>3, <3>1 DEF NoList
  <2>4. CASE i # 1
    <3>1. PICK k \in DOMAIN t : k = i - 1 /\ t[k] = List(T)
      BY <1>1, <2>1, <2>4 DEF t
    <3>2. ASSUME NEW j \in DOMAIN t, k < j PROVE t[j].kind # "list"
      <4>1. i < j + 1
        BY <1>1, <2>1, <3>1, <3>2 DEF t
      <4> QED
        BY <2>2, <4>1
    <3> QED
      BY <3>1, <3>2 DEF Newest
  <2> QED
    BY <2>3, <2>4
<1> QED
  BY <1>1, <1>2, <1>3 DEF t

-----------------------------------------------------------------------------
(* Coroutines.                                                             *)

\* A coroutine that is taken out of the queue leaves the others in it.
LEMMA WithoutIs ==
    ASSUME Queued, NEW t \in Task
    PROVE  /\ Without(t) \in Seq(Task)
           /\ \A i, j \in DOMAIN Without(t) : Without(t)[i] = Without(t)[j] => i = j
           /\ \A u \in Task : u \in ToSet(Without(t)) <=> u # t /\ u \in ToSet(queue)
<1> DEFINE len == Len(queue)
           k == CHOOSE i \in DOMAIN queue : queue[i] = t
           left == SubSeq(queue, 1, k - 1)
           right == SubSeq(queue, k + 1, len)
           w == left \o right
<1>1. /\ len \in Nat /\ DOMAIN queue = 1..len /\ \A i \in 1..len : queue[i] \in Task
      /\ \A i, j \in 1..len : queue[i] = queue[j] => i = j
  BY DEF Queued
<1>2. CASE t \notin ToSet(queue)
  <2>1. Without(t) = queue
    BY <1>2 DEF Without
  <2> QED
    BY <1>2, <2>1 DEF Queued, ToSet
<1>3. CASE t \in ToSet(queue)
  <2>1. k \in 1..len /\ queue[k] = t
    BY <1>1, <1>3 DEF ToSet
  <2>2. Without(t) = w
    BY <1>3 DEF Without, RemoveAt
  <2> HIDE DEF k
  <2>3. /\ left \in Seq(Task) /\ Len(left) = k - 1 /\ \A i \in 1..(k - 1) : left[i] = queue[i]
        /\ right \in Seq(Task) /\ Len(right) = len - k /\ \A i \in 1..(len - k) : right[i] = queue[i + k]
    BY <1>1, <2>1 DEF Queued
  <2> HIDE DEF left, right, len
  <2>4. /\ w \in Seq(Task) /\ DOMAIN w = 1..(len - 1)
        /\ \A i \in 1..(k - 1) : w[i] = left[i]
        /\ \A i \in k..(len - 1) : w[i] = right[i - (k - 1)]
    <3>1. /\ w \in Seq(Task) /\ DOMAIN w = 1..(Len(left) + Len(right))
          /\ \A i \in 1..(Len(left) + Len(right)) :
                 w[i] = IF i <= Len(left) THEN left[i] ELSE right[i - Len(left)]
      BY <2>3
    <3>2. Len(left) + Len(right) = len - 1 /\ len \in Nat /\ k \in 1..len /\ Len(left) = k - 1
      BY <1>1, <2>1, <2>3
    <3> HIDE DEF w
    <3> QED
      BY <3>1, <3>2
  <2> HIDE DEF w
  <2>5. \A i \in 1..(len - 1) : w[i] = IF i < k THEN queue[i] ELSE queue[i + 1]
    <3> SUFFICES ASSUME NEW i \in 1..(len - 1)
                 PROVE  w[i] = IF i < k THEN queue[i] ELSE queue[i + 1]
      OBVIOUS
    <3>1. CASE i < k
      BY <1>1, <2>1, <2>3, <2>4, <3>1
    <3>2. CASE ~(i < k)
      <4>1. i \in k..(len - 1) /\ i - (k - 1) \in 1..(len - k) /\ i - (k - 1) + k = i + 1
        BY <1>1, <2>1, <3>2
      <4>2. right[i - (k - 1)] = queue[i - (k - 1) + k]
        BY <2>3, <4>1
      <4> QED
        BY <2>4, <3>2, <4>1, <4>2
    <3> QED
      BY <3>1, <3>2
  <2>6. \A i, j \in 1..(len - 1) : w[i] = w[j] => i = j
    BY <1>1, <2>1, <2>5
  <2>7. ASSUME NEW i \in 1..(len - 1) PROVE w[i] # t /\ \E j \in 1..len : w[i] = queue[j]
    BY <1>1, <2>1, <2>5
  <2>8. ASSUME NEW j \in 1..len, queue[j] # t PROVE \E i \in 1..(len - 1) : w[i] = queue[j]
    <3>1. CASE j < k
      <4>1. j \in 1..(len - 1)
        BY <1>1, <2>1, <3>1
      <4> QED
        BY <2>5, <3>1, <4>1
    <3>2. CASE k < j
      <4>1. j - 1 \in 1..(len - 1) /\ ~(j - 1 < k) /\ j - 1 + 1 = j
        BY <1>1, <2>1, <3>2
      <4> QED
        BY <2>5, <4>1
    <3> QED
      BY <1>1, <2>1, <2>8, <3>1, <3>2
  <2>9. \A u \in Task : u \in ToSet(w) <=> u # t /\ u \in ToSet(queue)
    <3>1. ASSUME NEW u \in ToSet(w) PROVE u # t /\ u \in ToSet(queue)
      <4>1. PICK i \in 1..(len - 1) : u = w[i]
        BY <2>4 DEF ToSet
      <4> QED
        BY <1>1, <2>7, <4>1 DEF ToSet
    <3>2. ASSUME NEW u \in ToSet(queue), u # t PROVE u \in ToSet(w)
      <4>1. PICK j \in 1..len : u = queue[j]
        BY <1>1 DEF ToSet
      <4> QED
        BY <2>4, <2>8, <3>2, <4>1 DEF ToSet
    <3> QED
      BY <3>1, <3>2
  <2> QED
    BY <2>2, <2>4, <2>6, <2>9
<1> QED
  BY <1>2, <1>3

\* A coroutine is suspended behind the others, or goes idle.
LEMMA QueueMoves ==
    ASSUME Types, Queued, NEW t \in Task, NEW j \in Jobs,
           \/ j.at # None /\ Suspend(t, j)
           \/ j.at = None /\ job' = [job EXCEPT ![t] = j] /\ queue' = Without(t)
    PROVE  job' = [job EXCEPT ![t] = j] /\ Queued'
<1> DEFINE w == Without(t)
<1>1. /\ w \in Seq(Task)
      /\ \A i, k \in DOMAIN w : w[i] = w[k] => i = k
      /\ \A u \in Task : u \in ToSet(w) <=> u # t /\ u \in ToSet(queue)
  BY WithoutIs
<1>2. job' = [job EXCEPT ![t] = j] /\ \A u \in Task : job'[u] = IF u = t THEN j ELSE job[u]
  BY DEF Suspend, Types
<1> HIDE DEF w
<1>3. CASE j.at = None /\ queue' = w
  BY <1>1, <1>2, <1>3 DEF Queued
<1>4. CASE j.at # None /\ queue' = Append(w, t)
  <2>1. /\ queue' \in Seq(Task) /\ DOMAIN queue' = 1..(Len(w) + 1) /\ queue'[Len(w) + 1] = t
        /\ DOMAIN w = 1..Len(w) /\ Len(w) \in Nat /\ \A i \in 1..Len(w) : queue'[i] = w[i]
    BY <1>1, <1>4
  <2>2. \A i \in DOMAIN w : w[i] # t
    BY <1>1 DEF ToSet
  <2>3. \A i \in DOMAIN queue' : i = Len(w) + 1 \/ i \in DOMAIN w
    BY <2>1
  <2>4. \A i, k \in DOMAIN queue' : queue'[i] = queue'[k] => i = k
    BY <1>1, <2>1, <2>2, <2>3
  <2>5. \A u \in Task : u \in ToSet(queue') <=> u = t \/ u \in ToSet(w)
    <3>1. ASSUME NEW u \in ToSet(queue') PROVE u = t \/ u \in ToSet(w)
      BY <2>1, <2>3 DEF ToSet
    <3>2. ASSUME NEW u \in ToSet(w) PROVE u \in ToSet(queue')
      BY <2>1 DEF ToSet
    <3>3. t \in ToSet(queue')
      BY <2>1 DEF ToSet
    <3> QED
      BY <3>1, <3>2, <3>3
  <2>6. \A u \in Task : job'[u].at # None <=> u \in ToSet(queue')
    BY <1>1, <1>2, <1>4, <2>5 DEF Queued
  <2> QED
    BY <1>2, <2>1, <2>4, <2>6 DEF Queued
<1> QED
  BY <1>2, <1>3, <1>4 DEF Suspend, w

-----------------------------------------------------------------------------
(* Broadcasts.                                                             *)

\* What a write adds to the messages of a client.
LEMMA WrittenIs ==
    ASSUME Types, NEW S \in SUBSET Client, NEW payload, S # {} => payload \in Tables,
           NEW t, NEW reply \in Replies, down' = Written(S, payload, t, reply)
    PROVE  /\ down' \in [Client -> Seq(Messages)]
           /\ \A c \in S : conn'[c] = "on" => Newest(down'[c], payload)
           /\ \A c \in Client \ S : Kept(down[c], down'[c])
<1>1. ASSUME NEW c \in Client
      PROVE  /\ down'[c] \in Seq(Messages)
             /\ (c \in S /\ conn'[c] = "on") => Newest(down'[c], payload)
             /\ (c \notin S => Kept(down[c], down'[c]))
  <2> DEFINE s == down[c]
             l == s \o (IF c \in S THEN <<List(payload)>> ELSE <<>>)
             r == l \o (IF c = t THEN reply ELSE <<>>)
  <2>1. s \in Seq(Messages) /\ down'[c] = IF conn'[c] # "on" THEN s ELSE r
    BY DEF Types, Written
  <2>2. l = (IF c \in S THEN Append(s, List(payload)) ELSE s) /\ (c \in S => List(payload) \in Messages)
    <3>1. CASE c \in S
      <4>1. payload \in Tables /\ List(payload) \in Messages
        BY <3>1, MessageKinds
      <4>2. l = s \o <<List(payload)>>
        BY <3>1
      <4> HIDE DEF l
      <4>3. l = Append(s, List(payload))
        BY <2>1, <4>1, <4>2
      <4> QED
        BY <3>1, <4>1, <4>3
    <3>2. CASE c \notin S
      <4>1. l = s \o <<>>
        BY <3>2
      <4> HIDE DEF l
      <4> QED
        BY <2>1, <3>2, <4>1
    <3> QED
      BY <3>1, <3>2
  <2> HIDE DEF s, l
  <2>3. l \in Seq(Messages) /\ (c \in S => Newest(l, payload)) /\ (c \notin S => l = s)
    <3>1. CASE c \in S
      <4>1. payload \in Tables /\ l = Append(s, List(payload)) /\ List(payload) \in Messages
        BY <2>2, <3>1
      <4> QED
        BY <2>1, <3>1, <4>1, Behind
    <3>2. CASE c \notin S
      BY <2>1, <2>2, <3>2
    <3> QED
      BY <3>1, <3>2
  <2>4. r = l \/ \E m \in Results : r = Append(l, m)
    <3>1. CASE reply # <<>> /\ c = t
      <4>1. PICK m \in Results : reply = <<m>>
        BY <3>1 DEF Replies
      <4>2. r = Append(l, m)
        BY <2>3, <3>1, <4>1
      <4> QED
        BY <4>2
    <3>2. CASE ~(reply # <<>> /\ c = t)
      BY <2>3, <3>2
    <3> QED
      BY <3>1, <3>2
  <2> HIDE DEF r
  <2>5. /\ r \in Seq(Messages)
        /\ Kept(l, r)
    <3>1. ASSUME NEW m \in Results, r = Append(l, m)
          PROVE  /\ r \in Seq(Messages)
                 /\ Kept(l, r)
      <4>1. m \in Messages /\ m.kind # "list"
        BY MessageKinds
      <4> QED
        BY <2>3, <3>1, <4>1, Behind
    <3> QED
      BY <2>3, <2>4, <3>1 DEF Kept
  <2> QED
    BY <2>1, <2>3, <2>5 DEF s, Kept
<1>2. DOMAIN down' = Client
  BY DEF Written
<1>3. down' \in [Client -> Seq(Messages)]
  <2>1. down' = [c \in Client |-> down'[c]]
    BY DEF Written
  <2> QED
    BY <1>1, <2>1
<1> QED
  BY <1>1, <1>3

\* The end of a broadcast, or an answer alone.
LEMMA EndsIs ==
    ASSUME Types, Queued, NEW t \in Task, NEW left \in SUBSET Client,
           NEW payload, left # {} => payload \in Tables,
           NEW reply \in Replies, Ends(t, left, payload, reply)
    PROVE  /\ \E j \in Jobs : JobSound(j) /\ j.left = {} /\ job' = [job EXCEPT ![t] = j] /\ Queued'
           /\ down' \in [Client -> Seq(Messages)]
           /\ \A c \in left : conn'[c] = "on" => Newest(down'[c], payload)
           /\ \A c \in Client \ left : Kept(down[c], down'[c])
<1>1. <<>> \in Replies
  BY DEF Replies
<1>2. \E j \in Jobs : JobSound(j) /\ j.left = {} /\ job' = [job EXCEPT ![t] = j] /\ Queued'
  <2>1. CASE reply # <<>> /\ t \in slow
    <3> DEFINE j == Job(t, "cast", {}, {}, <<>>)
    <3>1. t \in Client /\ t # None
      BY <2>1, SyncAssumption DEF Types
    <3>2. j \in Jobs /\ JobSound(j) /\ j.left = {} /\ j.at # None
      BY <1>1, <3>1 DEF Job, Jobs, JobSound
    <3>3. Suspend(t, j)
      BY <2>1 DEF Ends
    <3> HIDE DEF j
    <3> QED
      BY <3>2, <3>3, QueueMoves
  <2>2. CASE ~(reply # <<>> /\ t \in slow)
    <3>1. Idle \in Jobs /\ JobSound(Idle) /\ Idle.left = {} /\ Idle.at = None
      BY <1>1 DEF Idle, Job, Jobs, JobSound
    <3>2. job' = [job EXCEPT ![t] = Idle] /\ queue' = Without(t)
      BY <2>2 DEF Ends
    <3> QED
      BY <3>1, <3>2, QueueMoves
  <2> QED
    BY <2>1, <2>2
<1>3. down' = Written(left, payload, t, reply)
  BY DEF Ends
<1> QED
  BY <1>2, <1>3, WrittenIs

\* A broadcast writes to some of its sessions and remembers the others.
LEMMA CastIs ==
    ASSUME Types, Queued, NEW t \in Task, NEW left \in SUBSET Client,
           NEW payload \in SUBSET Row, left # {} => payload \in Tables,
           NEW reply \in Replies, Cast(t, left, payload, reply)
    PROVE  \E S \in SUBSET left, j \in Jobs :
               /\ JobSound(j) /\ j.left = left \ S
               /\ job' = [job EXCEPT ![t] = j] /\ Queued'
               /\ late' = Outdated(S, payload)
               /\ down' \in [Client -> Seq(Messages)]
               /\ \A c \in S : conn'[c] = "on" => Newest(down'[c], payload)
               /\ \A c \in Client \ S : Kept(down[c], down'[c])
<1>1. CASE CastEnds(t, left, payload, reply)
  <2>1. Ends(t, left, payload, reply) /\ late' = Outdated(left, payload)
    BY <1>1 DEF CastEnds
  <2>2. left \ left = {} /\ left \in SUBSET left
    OBVIOUS
  <2> QED
    BY <2>1, <2>2, EndsIs
<1>2. CASE CastSuspends(t, left, payload, reply)
  <2>1. PICK s \in left \cap slow, R \in SUBSET (left \ slow) :
           /\ down' = Written(R \cup {s}, payload, None, <<>>)
           /\ late' = Outdated(R \cup {s}, payload)
           /\ Suspend(t, Job(s, "cast", left \ (R \cup {s}), payload, reply))
    BY <1>2 DEF CastSuspends
  <2> DEFINE S == R \cup {s}
             j == Job(s, "cast", left \ S, payload, reply)
  <2>2. S \in SUBSET left /\ S \in SUBSET Client /\ S # {} /\ payload \in Tables /\ s \in Client /\ s # None
    BY SyncAssumption
  <2>3. j \in Jobs /\ JobSound(j) /\ j.left = left \ S /\ j.at # None
    BY <2>2 DEF Job, Jobs, JobSound
  <2>4. Suspend(t, j) /\ late' = Outdated(S, payload) /\ down' = Written(S, payload, None, <<>>)
    BY <2>1
  <2> HIDE DEF S, j
  <2>5. job' = [job EXCEPT ![t] = j] /\ Queued'
    BY <2>3, <2>4, QueueMoves
  <2>6. <<>> \in Replies
    BY DEF Replies
  <2>7. /\ down' \in [Client -> Seq(Messages)]
        /\ \A c \in S : conn'[c] = "on" => Newest(down'[c], payload)
        /\ \A c \in Client \ S : Kept(down[c], down'[c])
    BY <2>2, <2>4, <2>6, WrittenIs
  <2> QED
    BY <2>2, <2>3, <2>4, <2>5, <2>7
<1> QED
  BY <1>1, <1>2 DEF Cast

\* A step that broadcasts leaves no client that is connected without the table
\* it will be owed: it goes to all of them when the table changes, and to one
\* that connects.
LEMMA CastServes ==
    ASSUME Types, Queued, Served, table' \in Tables,
           NEW t \in Task, NEW left \in SUBSET Client,
           NEW payload \in SUBSET Row, left # {} => payload \in Tables,
           NEW reply \in Replies, Cast(t, left, payload, reply),
           job[t].left \subseteq left,
           \A c \in Client : conn'[c] = "on" /\ c \notin left =>
               conn[c] = "on" /\ table' = table /\ (HalfWay => HalfWay'),
           UNCHANGED <<slow, view, mail, wrong>>, DOMAIN conn' = Client, up' \in [Client -> Seq(Tables)]
    PROVE  Types' /\ Queued' /\ Served'
<1>1. PICK S \in SUBSET left, j \in Jobs :
               /\ JobSound(j) /\ j.left = left \ S
               /\ job' = [job EXCEPT ![t] = j] /\ Queued'
               /\ late' = Outdated(S, payload)
               /\ down' \in [Client -> Seq(Messages)]
               /\ \A c \in S : conn'[c] = "on" => Newest(down'[c], payload)
               /\ \A c \in Client \ S : Kept(down[c], down'[c])
  BY CastIs
<1>2. DOMAIN job' = Task /\ \A u \in Task : job'[u] = IF u = t THEN j ELSE job[u]
  BY <1>1 DEF Types
<1>3. DOMAIN late' = Client /\ \A c \in Client : late'[c] = IF c \notin S THEN late[c] ELSE IF payload = table' THEN "no" ELSE "passed"
  BY <1>1 DEF Outdated
<1>4. Types'
  BY <1>1, <1>2, <1>3 DEF Types
<1>5. ASSUME NEW c \in Client, conn'[c] = "on", late'[c] = "no" PROVE Current(c)' \/ Owed(c)' \/ HalfWay'
  <2>1. CASE c \in S
    <3>1. payload = table' /\ Newest(down'[c], payload)
      BY <1>1, <1>3, <1>5, <2>1
    <3> QED
      BY <3>1 DEF Current, Shows
  <2>2. CASE c \in left \ S
    BY <1>1, <1>2, <2>2 DEF Owed
  <2>3. CASE c \notin left
    <3>1. conn[c] = "on" /\ table' = table /\ late[c] = "no" /\ (HalfWay => HalfWay')
      BY <1>3, <1>5, <2>3
    <3>2. CASE Current(c)
      <4>1. view' = view /\ Kept(down[c], down'[c])
        BY <1>1, <2>3
      <4> QED
        BY <3>1, <3>2, <4>1 DEF Current, Shows, Kept
    <3>3. CASE Owed(c)
      <4>1. PICK u \in Task : c \in job[u].left
        BY <3>3 DEF Owed
      <4>2. u # t
        BY <2>3, <4>1
      <4> QED
        BY <1>2, <4>1, <4>2 DEF Owed
    <3>4. CASE HalfWay
      BY <3>1, <3>4
    <3> QED
      BY <3>1, <3>2, <3>3, <3>4 DEF Served
  <2> QED
    BY <2>1, <2>2, <2>3
<1> QED
  BY <1>1, <1>4, <1>5 DEF Served

\* A step without a broadcast leaves those that are connected served: it
\* leaves the table, or stands between two tables, or withdraws one.
LEMMA StillServes ==
    ASSUME Types, Served, UNCHANGED <<conn, view>>,
           \A c \in Client : Kept(down[c], down'[c]),
           \A u \in Task : job[u].left \subseteq job'[u].left,
           \/ UNCHANGED <<table, late>> /\ (HalfWay => HalfWay')
           \/ HalfWay'
           \/ late' = Withdrawn(table')
    PROVE  Served'
<1>1. \A c \in Client : \A T : Shows(c, T) => Shows(c, T)'
  BY DEF Shows, Kept
<1> SUFFICES ASSUME NEW c \in Client, conn'[c] = "on", late'[c] = "no", ~HalfWay'
             PROVE  Current(c)' \/ Owed(c)'
  BY DEF Served
<1>2. CASE late' = Withdrawn(table')
  <2>1. Shows(c, table')
    BY <1>2 DEF Withdrawn
  <2> QED
    BY <1>1, <2>1 DEF Current, Shows
<1>3. CASE UNCHANGED <<table, late>> /\ ~HalfWay
  <2>1. Current(c) \/ Owed(c)
    BY <1>3 DEF Served
  <2>2. Owed(c) => Owed(c)'
    BY DEF Owed
  <2>3. Current(c) => Current(c)'
    BY <1>1, <1>3 DEF Current, Shows
  <2> QED
    BY <2>1, <2>2, <2>3
<1> QED
  BY <1>2, <1>3

\* A broadcast waits for buffers only, a change for no transport.
Broadcasting(j) == j.does \in {"idle", "change", "cast"} /\ (j.at = None <=> j.does # "cast")

LEMMA EndsJob ==
    ASSUME Types, NEW t \in Task, NEW left, NEW payload, NEW reply, Ends(t, left, payload, reply)
    PROVE  (\A u \in Task : u # t => job'[u] = job[u]) /\ Broadcasting(job'[t])
<1>1. slow \subseteq Client /\ None \notin slow
  BY SyncAssumption DEF Types
<1>2. CASE reply # <<>> /\ t \in slow
  <2> DEFINE j == Job(t, "cast", {}, {}, <<>>)
  <2>1. job' = [job EXCEPT ![t] = j]
    BY <1>2 DEF Ends, Suspend
  <2>2. Broadcasting(j)
    BY <1>1, <1>2 DEF Job, Broadcasting
  <2> QED
    BY <2>1, <2>2 DEF Types
<1>3. CASE ~(reply # <<>> /\ t \in slow)
  <2>1. job' = [job EXCEPT ![t] = Idle]
    BY <1>3 DEF Ends
  <2>2. Broadcasting(Idle)
    BY DEF Idle, Job, Broadcasting
  <2> QED
    BY <2>1, <2>2 DEF Types
<1> QED
  BY <1>2, <1>3

LEMMA CastJob ==
    ASSUME Types, NEW t \in Task, NEW left, NEW payload, NEW reply, Cast(t, left, payload, reply)
    PROVE  (\A u \in Task : u # t => job'[u] = job[u]) /\ Broadcasting(job'[t])
<1>1. slow \subseteq Client /\ None \notin slow
  BY SyncAssumption DEF Types
<1>2. CASE CastEnds(t, left, payload, reply)
  BY <1>2, EndsJob DEF CastEnds
<1>3. CASE CastSuspends(t, left, payload, reply)
  <2>1. PICK s \in slow, rest \in SUBSET left : job' = [job EXCEPT ![t] = Job(s, "cast", rest, payload, reply)]
    BY <1>3 DEF CastSuspends, Suspend
  <2>2. Broadcasting(Job(s, "cast", rest, payload, reply))
    BY <1>1 DEF Job, Broadcasting
  <2> QED
    BY <2>1, <2>2 DEF Types
<1> QED
  BY <1>2, <1>3 DEF Cast

-----------------------------------------------------------------------------
(* The steps of the server.                                                *)

\* A step of the server leaves the windows alone.
LEMMA WindowsStay ==
    ASSUME SyncInv, Types', Changes', Queued', Served', UNCHANGED <<view, mail, rows, snap, wrong>>
    PROVE  SyncInv'
  BY DEF SyncInv, Edited, Shown, ShownTo

\* No other coroutine's job moves, and this one is in the middle of no change.
LEMMA ChangesStay ==
    ASSUME SyncInv, NEW t \in Task, job[t] # Busy, UNCHANGED change,
           \A u \in Task : u # t => job'[u] = job[u]
    PROVE  Changes' /\ (HalfWay => HalfWay')
  BY DEF SyncInv, Changes, HalfWay

LEMMA ResumeStep ==
    ASSUME SyncInv, NEW t \in Task, Resume(t)
    PROVE  SyncInv'
<1>1. /\ Types /\ Queued /\ Served /\ JobSound(job[t]) /\ table \in Tables /\ table \in SUBSET Row
      /\ <<>> \in Replies /\ Registered \in SUBSET Client
  BY DEF SyncInv, Types, Tables, Replies, Registered
<1>6. job[t] # Busy
  BY DEF Resume, ReadyToResume, Busy, Job
<1>2. /\ UNCHANGED <<table, change, conn, slow, up, view, mail, rows, snap, wrong>>
      /\ DOMAIN conn' = Client /\ up' \in [Client -> Seq(Tables)] /\ table' \in Tables
  BY <1>1 DEF Resume, core, window, Types
<1>3. ASSUME NEW left \in SUBSET Client, NEW payload \in SUBSET Row, left # {} => payload \in Tables,
             NEW reply \in Replies, Cast(t, left, payload, reply), job[t].left \subseteq left
      PROVE  SyncInv'
  <2>1. Changes' /\ (HalfWay => HalfWay')
    BY <1>1, <1>2, <1>3, <1>6, CastJob, ChangesStay
  <2>2. Types' /\ Queued' /\ Served'
    BY <1>1, <1>2, <1>3, <2>1, CastServes
  <2> QED
    BY <1>2, <2>1, <2>2, WindowsStay
<1>4. CASE job[t].does = "cast"
  <2>1. /\ Cast(t, job[t].left, job[t].payload, job[t].reply)
        /\ job[t].left \in SUBSET Client /\ job[t].payload \in SUBSET Row /\ job[t].reply \in Replies
        /\ (job[t].left # {} => job[t].payload \in Tables)
    BY <1>1, <1>4 DEF Resume, JobSound, Jobs
  <2> QED
    BY <1>3, <2>1
<1>5. CASE job[t].does # "cast"
  <2>1. Cast(t, Registered, table, <<>>) /\ job[t].left = {}
    BY <1>1, <1>5 DEF Resume, JobSound
  <2> QED
    BY <1>1, <1>3, <2>1
<1> QED
  BY <1>4, <1>5

LEMMA AnswerIs == \A t \in Task, ok \in BOOLEAN : Answer(t, ok) \in Replies
  BY DEF Answer, Replies, Results

\* What the parts of a change leave alone.
Aside == UNCHANGED <<conn, slow, view, mail, rows, snap, wrong>> /\ up' \in [Client -> Seq(Tables)]

\* apply waits.
LEMMA PauseStep ==
    ASSUME SyncInv, NEW t \in Task, job[t] \in {Idle, Busy}, Aside, table' \in Tables,
           NEW stage, stage # "none", NEW p, p.old \in Tables, p.new \in Tables,
           p = Plan(p.stage, p.old, p.new, p.stops, p.starts), Pause(t, stage, p),
           \/ UNCHANGED <<table, late>> /\ change[t].stage # "start"
           \/ UNCHANGED late /\ stage = "start"
           \/ late' = Withdrawn(table')
    PROVE  SyncInv'
<1>1. /\ Types /\ Changes /\ Queued /\ Served
      /\ UNCHANGED <<queue, down>> /\ job' = [job EXCEPT ![t] = Busy]
  BY DEF SyncInv, Pause
<1> DEFINE q == [p EXCEPT !.stage = stage]
<1>2. /\ change' = [change EXCEPT ![t] = q] /\ q.stage = stage /\ q.old = p.old /\ q.new = p.new
      /\ q = Plan(q.stage, q.old, q.new, q.stops, q.starts)
  BY DEF Pause, Plan
<1> HIDE DEF q
<1>9. DOMAIN change' = Task /\ \A u \in Task : change'[u] = IF u = t THEN q ELSE change[u]
  BY <1>1, <1>2 DEF Changes
<1>10. \A u \in Task : job'[u] = IF u = t THEN Busy ELSE job[u]
  BY <1>1 DEF Types
<1>3. Changes' /\ \A u \in Task : change'[u].stage = IF u = t THEN stage ELSE change[u].stage
  BY <1>1, <1>2, <1>9, <1>10 DEF Changes
<1>4. /\ JobSound(Busy) /\ Busy.left = {} /\ Busy.at = None
      /\ job[t].left = {} /\ job[t].at = None
  BY DEF Busy, Idle, Job, JobSound, Jobs, Replies
<1>5. DOMAIN job' = Task /\ \A u \in Task : job'[u] = IF u = t THEN Busy ELSE job[u]
  BY <1>1 DEF Types
<1>6. Queued'
  BY <1>1, <1>4, <1>5 DEF Queued
<1>7. Types'
  BY <1>1, <1>4, <1>5 DEF Types, Aside, Withdrawn
<1>8. Served'
  <2>1. UNCHANGED <<table, late>> /\ change[t].stage # "start" => (HalfWay => HalfWay')
    BY <1>3 DEF HalfWay
  <2>2. stage = "start" => HalfWay'
    BY <1>3 DEF HalfWay
  <2>3. \A c \in Client : Kept(down[c], down'[c])
    BY <1>1 DEF Kept
  <2>4. \A u \in Task : job[u].left \subseteq job'[u].left
    BY <1>4, <1>5
  <2> QED
    BY <1>1, <2>1, <2>2, <2>3, <2>4, StillServes DEF Aside
<1> QED
  BY <1>3, <1>6, <1>7, <1>8, WindowsStay DEF Aside

\* A change ends, or begins none.
LEMMA ChangeEnds ==
    ASSUME SyncInv, NEW t \in Task, \A u \in Task : u # t => job'[u] = job[u],
           Finished(t) \/ (UNCHANGED change /\ change[t].stage = "none")
    PROVE  Changes' /\ \A u \in Task : change'[u].stage = IF u = t THEN "none" ELSE change[u].stage
  BY DEF SyncInv, Changes, Finished, NoChange, Plan

\* It ends with an answer alone.
LEMMA AnswerStep ==
    ASSUME SyncInv, NEW t \in Task, job[t] \in {Idle, Busy}, Aside, table' \in Tables,
           Finished(t) \/ (UNCHANGED change /\ change[t].stage = "none"),
           NEW reply \in Replies, Ends(t, {}, {}, reply),
           \/ UNCHANGED <<table, late>> /\ change[t].stage # "start"
           \/ late' = Withdrawn(table')
    PROVE  SyncInv'
<1>1. Types /\ Changes /\ Queued /\ Served /\ job[t].left = {}
  BY DEF SyncInv, Busy, Idle, Job
<1>2. /\ \E j \in Jobs : JobSound(j) /\ j.left = {} /\ job' = [job EXCEPT ![t] = j] /\ Queued'
      /\ down' \in [Client -> Seq(Messages)]
      /\ \A c \in Client \ {} : Kept(down[c], down'[c])
  BY <1>1, EndsIs
<1>3. PICK j \in Jobs : JobSound(j) /\ j.left = {} /\ job' = [job EXCEPT ![t] = j] /\ Queued'
  BY <1>2
<1>4. DOMAIN job' = Task /\ \A u \in Task : job'[u] = IF u = t THEN j ELSE job[u]
  BY <1>1, <1>3 DEF Types
<1>5. Changes' /\ \A u \in Task : change'[u].stage = IF u = t THEN "none" ELSE change[u].stage
  BY <1>4, ChangeEnds
<1>6. Types'
  BY <1>1, <1>2, <1>3, <1>4 DEF Types, Aside, Withdrawn
<1>7. Served'
  <2>1. change[t].stage # "start" => (HalfWay => HalfWay')
    BY <1>5 DEF HalfWay
  <2>2. \A u \in Task : job[u].left \subseteq job'[u].left
    BY <1>1, <1>4
  <2> QED
    BY <1>1, <1>2, <2>1, <2>2, StillServes DEF Aside
<1> QED
  BY <1>3, <1>5, <1>6, <1>7, WindowsStay DEF Aside

\* It ends with a broadcast.
LEMMA SucceedStep ==
    ASSUME SyncInv, NEW t \in Task, job[t] \in {Idle, Busy}, Aside, table' \in Tables, Succeed(t)
    PROVE  SyncInv'
<1>1. /\ Types /\ Queued /\ Served /\ table' \in SUBSET Row /\ Registered \in SUBSET Client
  BY DEF SyncInv, Registered, Tables
<1>6. job[t].left = {}
  BY DEF Busy, Idle, Job
<1>7. Answer(t, TRUE) \in Replies
  BY AnswerIs
<1>2. Finished(t) /\ Cast(t, Registered, table', Answer(t, TRUE))
  BY DEF Succeed
<1>3. Changes'
  <2>1. \A u \in Task : u # t => job'[u] = job[u]
    BY <1>1, <1>2, CastJob
  <2> QED
    BY <1>2, <2>1, ChangeEnds
<1>4. DOMAIN conn' = Client /\ \A c \in Client : ~(conn'[c] = "on" /\ c \notin Registered)
  BY <1>1 DEF Aside, Types, Registered
<1>5. Types' /\ Queued' /\ Served'
  BY <1>1, <1>2, <1>4, <1>6, <1>7, CastServes DEF Aside
<1> QED
  BY <1>3, <1>5, WindowsStay DEF Aside

LEMMA InstallStep ==
    ASSUME SyncInv, NEW t \in Task, job[t] \in {Idle, Busy}, Aside,
           NEW p, p.old \in Tables, p.new \in Tables,
           p = Plan(p.stage, p.old, p.new, p.stops, p.starts), Install(t, p)
    PROVE  SyncInv'
<1>1. table' \in Tables
  BY DEF Install
<1>2. CASE Pause(t, "start", p) /\ UNCHANGED late
  BY <1>1, <1>2, PauseStep
<1>3. CASE Succeed(t)
  BY <1>1, <1>3, SucceedStep
<1> QED
  BY <1>2, <1>3 DEF Install

LEMMA BeginStep ==
    ASSUME SyncInv, NEW t \in Task, job[t] = Idle, Aside, NEW T \in Tables, BeginChange(t, T)
    PROVE  SyncInv'
<1>1. PICK moved \in SUBSET Altered(table, T) :
          LET p == Plan("none", table, T, (Ports(table) \ Ports(T)) \cup moved # {},
                        (Ports(T) \ Ports(table)) \cup moved # {})
          IN  \/ p.stops /\ UNCHANGED <<table, late>> /\ Pause(t, "stop", p)
              \/ Install(t, p)
  BY DEF BeginChange
<1> DEFINE p == Plan("none", table, T, (Ports(table) \ Ports(T)) \cup moved # {},
                     (Ports(T) \ Ports(table)) \cup moved # {})
<1>2. /\ p.old = table /\ p.new = T /\ table \in Tables
      /\ p = Plan(p.stage, p.old, p.new, p.stops, p.starts)
  BY DEF Plan, SyncInv, Types
<1>3. change[t].stage # "start"
  BY DEF SyncInv, Changes, Idle, Busy, Job
<1>4. \/ UNCHANGED <<table, late>> /\ Pause(t, "stop", p)
      \/ Install(t, p)
  BY <1>1
<1> HIDE DEF p
<1>5. CASE UNCHANGED <<table, late>> /\ Pause(t, "stop", p)
  BY <1>2, <1>3, <1>5, PauseStep
<1>6. CASE Install(t, p)
  BY <1>2, <1>6, InstallStep
<1> QED
  BY <1>4, <1>5, <1>6

LEMMA GoOnStep ==
    ASSUME SyncInv, NEW t \in Task, GoOn(t)
    PROVE  SyncInv'
<1>1. Aside /\ table \in Tables
  BY DEF SyncInv, Types, Aside, GoOn, core, window
<1>2. change[t].stage \in {"stop", "start", "restore"}
  BY DEF GoOn, RollBack
<1>3. /\ job[t] = Busy /\ change[t].old \in Tables /\ change[t].new \in Tables
      /\ change[t] = Plan(change[t].stage, change[t].old, change[t].new, change[t].stops, change[t].starts)
  BY <1>2 DEF SyncInv, Changes
<1>8. Answer(t, FALSE) \in Replies
  BY AnswerIs
<1>4. CASE Install(t, change[t])
  BY <1>1, <1>3, <1>4, InstallStep
<1>5. CASE UNCHANGED table /\ Succeed(t)
  BY <1>1, <1>3, <1>5, SucceedStep
<1>6. CASE RollBack(t)
  <2>1. table' \in Tables /\ late' = Withdrawn(table')
    BY <1>3, <1>6 DEF RollBack
  <2>2. CASE Pause(t, "restore", change[t])
    BY <1>1, <1>3, <2>1, <2>2, PauseStep
  <2>3. CASE Finished(t) /\ Ends(t, {}, {}, Answer(t, FALSE))
    BY <1>1, <1>3, <1>8, <2>1, <2>3, AnswerStep
  <2> QED
    BY <1>6, <2>2, <2>3 DEF RollBack
<1>7. CASE /\ change[t].stage = "restore"
           /\ UNCHANGED <<table, late>>
           /\ Finished(t) /\ Ends(t, {}, {}, Answer(t, FALSE))
  <2>1. table' \in Tables /\ change[t].stage # "start"
    BY <1>1, <1>7
  <2> QED
    BY <1>1, <1>3, <1>7, <1>8, <2>1, AnswerStep
<1> QED
  BY <1>4, <1>5, <1>6, <1>7 DEF GoOn

LEMMA SubmitsStep ==
    ASSUME SyncInv, NEW t \in Admin, NEW T \in Offers, ConsoleSubmits(t, T)
    PROVE  SyncInv'
<1>1. t \in Task /\ T \in Tables /\ job[t] = Idle /\ BeginChange(t, T)
  BY SyncAssumption DEF Task, ConsoleSubmits
<1>2. Aside
  BY DEF SyncInv, Types, Aside, ConsoleSubmits, core, window
<1> QED
  BY <1>1, <1>2, BeginStep

LEMMA TakeRequestStep ==
    ASSUME SyncInv, NEW c \in Client, TakeRequest(c)
    PROVE  SyncInv'
<1> DEFINE T == Head(up[c])
<1>1. T \in Tables /\ up' \in [Client -> Seq(Tables)]
  <2>1. up[c] \in Seq(Tables) /\ up[c] # <<>> /\ up' = [up EXCEPT ![c] = Tail(@)]
    BY DEF SyncInv, Types, TakeRequest
  <2>2. Head(up[c]) \in Tables /\ Tail(up[c]) \in Seq(Tables)
    BY <2>1
  <2> QED
    BY <2>1, <2>2 DEF SyncInv, Types
<1>2. c \in Task /\ job[c] = Idle /\ Aside /\ table \in Tables
  BY <1>1 DEF Task, TakeRequest, Aside, core, window, SyncInv, Types
<1> HIDE DEF T
<1>3. CASE BeginChange(c, T)
  BY <1>1, <1>2, <1>3, BeginStep
<1>4. CASE UNCHANGED <<table, change, late>> /\ Ends(c, {}, {}, Answer(c, FALSE))
  <2>1. change[c].stage = "none"
    BY <1>2 DEF SyncInv, Changes, Idle, Busy, Job
  <2> QED
    BY <1>2, <1>4, <2>1, AnswerIs, AnswerStep
<1> QED
  BY <1>3, <1>4 DEF TakeRequest, Decide, T

LEMMA LeaveStep ==
    ASSUME SyncInv, NEW c \in Client, Leave(c) \/ Reconnect(c)
    PROVE  SyncInv'
<1>1. /\ Types /\ Queued /\ Served /\ c \in Task /\ table \in Tables /\ table \in SUBSET Row
      /\ <<>> \in Replies
  BY DEF SyncInv, Types, Tables, Replies, Task
<1>2. /\ UNCHANGED <<table, slow, up, view, mail, rows, snap, wrong>>
      /\ UNCHANGED change /\ job[c].left = {} /\ job[c] # Busy /\ up' \in [Client -> Seq(Tables)]
  BY <1>1 DEF Leave, Reconnect, core, window, Types, Idle, Busy, Job
<1> DEFINE left == IF conn'[c] = "on" THEN Registered \cup {c} ELSE Registered \ {c}
<1>3. /\ Cast(c, left, table, <<>>) /\ left \in SUBSET Client
      /\ DOMAIN conn' = Client /\ \A d \in Client : d # c => conn'[d] = conn[d]
  <2>1. Registered \cup {c} \in SUBSET Client /\ Registered \ {c} \in SUBSET Client
    BY DEF Registered
  <2>2. CASE Leave(c)
    <3>1. conn' = [conn EXCEPT ![c] = "off"] /\ conn'[c] = "off"
      BY <1>1, <2>2 DEF Leave, Types
    <3> QED
      BY <1>1, <2>1, <2>2, <3>1 DEF Leave, Types
  <2>3. CASE Reconnect(c)
    <3>1. conn' = [conn EXCEPT ![c] = "on"] /\ conn'[c] = "on"
      BY <1>1, <2>3 DEF Reconnect, Types
    <3> QED
      BY <1>1, <2>1, <2>3, <3>1 DEF Reconnect, Types
  <2> QED
    BY <2>2, <2>3
<1>4. \A d \in Client : ~(conn'[d] = "on" /\ d \notin left)
  BY <1>3 DEF Registered
<1> HIDE DEF left
<1>5. Types' /\ Queued' /\ Served'
  BY <1>1, <1>2, <1>3, <1>4, CastServes
<1>6. Changes'
  BY <1>1, <1>2, <1>3, CastJob, ChangesStay
<1> QED
  BY <1>2, <1>5, <1>6, WindowsStay

\* What is written stays written, what is owed stays owed.
LEMMA KickStep ==
    ASSUME SyncInv, NEW t \in Admin, NEW c \in Client, Kick(t, c)
    PROVE  SyncInv'
<1> DEFINE j == Job(c, "close", {}, {}, <<>>)
<1>1. Types /\ Queued /\ Served /\ t \in Task /\ <<>> \in Replies /\ c # None
  BY SyncAssumption DEF SyncInv, Replies, Task
<1>2. j \in Jobs /\ JobSound(j) /\ j.at # None /\ Suspend(t, j)
  BY <1>1 DEF Job, Jobs, JobSound, Kick
<1>3. /\ job[t].left = {} /\ job[t] # Busy
      /\ UNCHANGED <<table, change, slow, late, down, up, view, mail, rows, snap, wrong>>
  BY DEF Kick, core, window, Idle, Busy, Job
<1> HIDE DEF j
<1>4. job' = [job EXCEPT ![t] = j] /\ Queued'
  BY <1>1, <1>2, QueueMoves
<1>5. DOMAIN job' = Task /\ \A u \in Task : job'[u] = IF u = t THEN j ELSE job[u]
  BY <1>1, <1>4 DEF Types
<1>6. conn' = [conn EXCEPT ![c] = "closing"]
  BY DEF Kick
<1>7. Types'
  BY <1>1, <1>2, <1>3, <1>5, <1>6 DEF Types
<1>8. Changes' /\ (HalfWay => HalfWay')
  BY <1>1, <1>3, <1>5, ChangesStay
<1>9. Served'
  <2> SUFFICES ASSUME NEW d \in Client, conn'[d] = "on", late'[d] = "no"
               PROVE  Current(d)' \/ Owed(d)' \/ HalfWay'
    BY DEF Served
  <2>1. conn[d] = "on" /\ late[d] = "no"
    BY <1>1, <1>3, <1>6 DEF Types
  <2>2. CASE Current(d)
    BY <1>3, <2>2 DEF Current, Shows
  <2>3. CASE Owed(d)
    BY <1>3, <1>5, <2>3 DEF Owed
  <2> QED
    BY <1>1, <1>8, <2>1, <2>2, <2>3 DEF Served
<1> QED
  BY <1>3, <1>4, <1>7, <1>8, <1>9, WindowsStay

LEMMA TransportStep ==
    ASSUME SyncInv, NEW c \in Client, GetsSlow(c) \/ ReadsOn(c) \/ Drop(c) \/ CloseCompletes(c)
    PROVE  SyncInv'
<1>1. Types /\ Queued /\ Served
  BY DEF SyncInv
<1>2. UNCHANGED <<table, change, late, job, queue, view, mail, rows, snap, wrong>>
  BY DEF GetsSlow, ReadsOn, Drop, CloseCompletes, core, window
<1>3. slow' \subseteq Client
  BY <1>1, SyncAssumption DEF GetsSlow, ReadsOn, Drop, CloseCompletes, Types
<1>4. /\ DOMAIN conn' = Client /\ down' \in [Client -> Seq(Messages)] /\ up' \in [Client -> Seq(Tables)]
      /\ \A d \in Client : conn'[d] = "on" => conn[d] = "on" /\ down'[d] = down[d]
  <2>1. CASE GetsSlow(c) \/ ReadsOn(c)
    BY <1>1, <2>1 DEF GetsSlow, ReadsOn, Types
  <2>2. CASE Drop(c)
    <3>1. PICK kept \in {up[c], <<>>} : up' = [up EXCEPT ![c] = kept]
      BY <2>2 DEF Drop
    <3>2. kept \in Seq(Tables)
      <4>1. up[c] \in Seq(Tables) /\ <<>> \in Seq(Tables)
        BY <1>1 DEF Types
      <4> QED
        BY <4>1
    <3>3. conn' = [conn EXCEPT ![c] = "lost"] /\ down' = [down EXCEPT ![c] = <<>>]
      BY <2>2 DEF Drop
    <3> QED
      BY <1>1, <3>1, <3>2, <3>3 DEF Types
  <2>3. CASE CloseCompletes(c)
    <3>1. /\ conn' = [conn EXCEPT ![c] = "off"] /\ down' = [down EXCEPT ![c] = <<>>]
          /\ up' = [up EXCEPT ![c] = <<>>]
      BY <2>3 DEF CloseCompletes
    <3> QED
      BY <1>1, <3>1 DEF Types
  <2> QED
    BY <2>1, <2>2, <2>3
<1>5. Types'
  BY <1>1, <1>2, <1>3, <1>4 DEF Types
<1>6. Changes' /\ Queued' /\ Served'
  BY <1>1, <1>2, <1>4 DEF SyncInv, Changes, Queued, Served, Current, Shows, Owed, HalfWay
<1> QED
  BY <1>2, <1>5, <1>6, WindowsStay

-----------------------------------------------------------------------------
(* The steps of a client.                                                  *)

\* The steps of a window leave the server alone.
LEMMA ServerStays ==
    ASSUME SyncInv, UNCHANGED <<server, down, view>>
    PROVE  Changes' /\ Queued' /\ Served'
  BY DEF SyncInv, server, Changes, Queued, Served, Current, Shows, Owed, HalfWay

\* A message is posted: a list with the new view, a result with the old one.
LEMMA PostShows ==
    ASSUME Types, Shown, NEW c \in Client, NEW m \in Messages, Post(c, m), snap' = snap,
           m.kind = "list" => m = List(view'[c]) /\ view'[c] \in Tables,
           m.kind # "list" => view'[c] = view[c],
           \A d \in Client : d # c => view'[d] = view[d]
    PROVE  /\ mail' \in [Client -> Seq(Messages)]
           /\ wrong' \in [Client -> SUBSET {"dropped", "marked"}]
           /\ Shown'
<1> DEFINE full == c \notin User \/ Len(mail[c]) >= MailLimit
           w == IF c \notin User \/ m.kind # "list" THEN wrong[c]
                ELSE IF full THEN wrong[c] \cup {"dropped"} ELSE wrong[c] \ {"dropped"}
           s == IF full THEN mail[c] ELSE Append(mail[c], m)
<1>1. mail' = [mail EXCEPT ![c] = s] /\ wrong' = [wrong EXCEPT ![c] = w]
  BY DEF Post, Types
<1>2. /\ mail[c] \in Seq(Messages) /\ Append(mail[c], m) \in Seq(Messages)
      /\ (\A T \in Tables : m = List(T) => Newest(Append(mail[c], m), T))
      /\ (m.kind # "list" => Kept(mail[c], Append(mail[c], m)))
  <2>1. mail[c] \in Seq(Messages)
    BY DEF Types
  <2> QED
    BY <2>1, Behind
<1>3. s \in Seq(Messages) /\ w \in SUBSET {"dropped", "marked"}
  BY <1>2 DEF Types
<1>4. c \in User /\ m.kind = "list" => "dropped" \in w \/ s = Append(mail[c], m)
  OBVIOUS
<1>5. c \in User /\ m.kind # "list" => w = wrong[c] /\ (s = mail[c] \/ s = Append(mail[c], m))
  OBVIOUS
<1> HIDE DEF w, s
<1>6. /\ mail' \in [Client -> Seq(Messages)] /\ mail'[c] = s
      /\ wrong' \in [Client -> SUBSET {"dropped", "marked"}] /\ wrong'[c] = w
      /\ \A d \in Client : d # c => mail'[d] = mail[d] /\ wrong'[d] = wrong[d]
  BY <1>1, <1>3 DEF Types
<1>7. ASSUME NEW d \in User PROVE ShownTo(d)'
  <2>1. CASE d # c
    <3>1. d \in Client /\ ShownTo(d)
      BY SyncAssumption DEF Shown
    <3> QED
      BY <1>6, <2>1, <3>1 DEF ShownTo
  <2>2. CASE d = c /\ m.kind = "list"
    <3>1. "dropped" \in w \/ Newest(s, view'[c])
      BY <1>2, <1>4, <2>2
    <3> QED
      BY <1>6, <2>2, <3>1 DEF ShownTo
  <2>3. CASE d = c /\ m.kind # "list"
    <3>1. w = wrong[c] /\ Kept(mail[c], s) /\ ShownTo(c) /\ view'[c] = view[c]
      BY <1>2, <1>5, <2>3 DEF Kept, Shown
    <3> QED
      BY <1>6, <2>3, <3>1 DEF ShownTo, Kept
  <2> QED
    BY <2>1, <2>2, <2>3
<1> QED
  BY <1>6, <1>7 DEF Shown

LEMMA ReceiveStep ==
    ASSUME SyncInv, NEW c \in Client, Receive(c)
    PROVE  SyncInv'
<1> DEFINE m == Head(down[c])
<1>1. /\ Types /\ Queued /\ Served /\ Edited /\ Shown
      /\ UNCHANGED <<table, change, conn, slow, job, queue, late, up, rows, snap>>
      /\ down' = [down EXCEPT ![c] = Tail(down[c])]
  BY DEF SyncInv, Receive
<1>2. /\ m \in Messages /\ Tail(down[c]) \in Seq(Messages)
      /\ (NoList(down[c]) => (NoList(Tail(down[c])) /\ m.kind # "list"))
      /\ \A T : Newest(down[c], T) => Newest(Tail(down[c]), T) \/ (NoList(Tail(down[c])) /\ m = List(T))
  <2>1. down[c] \in Seq(Messages) /\ down[c] # <<>>
    BY <1>1 DEF Types, Receive
  <2> QED
    BY <2>1, Taken
<1> HIDE DEF m
<1>3. /\ down' \in [Client -> Seq(Messages)] /\ down'[c] = Tail(down[c])
      /\ \A d \in Client : d # c => down'[d] = down[d]
  BY <1>1, <1>2 DEF Types
<1>4. CASE m.kind = "list"
  <2>1. view' = [view EXCEPT ![c] = m.table] /\ Post(c, m)
    BY <1>4 DEF Receive, m
  <2>2. m.table \in Tables /\ m = List(m.table)
    BY <1>2, <1>4, MessageKinds
  <2>3. /\ view' \in [Client -> Tables] /\ view'[c] = m.table
        /\ \A d \in Client : d # c => view'[d] = view[d]
    BY <1>1, <2>1, <2>2 DEF Types
  <2>4. /\ mail' \in [Client -> Seq(Messages)]
        /\ wrong' \in [Client -> SUBSET {"dropped", "marked"}]
        /\ Shown'
    BY <1>1, <1>2, <1>4, <2>1, <2>2, <2>3, PostShows
  <2>5. ASSUME Current(c) PROVE Current(c)'
    <3>1. CASE Newest(down[c], table)
      <4>1. Newest(down'[c], table) \/ (NoList(down'[c]) /\ m = List(table))
        BY <1>2, <1>3, <3>1
      <4>2. m = List(table) => m.table = table
        BY DEF List
      <4> QED
        BY <1>1, <2>3, <4>1, <4>2 DEF Current, Shows
    <3>2. CASE NoList(down[c])
      BY <1>2, <1>4, <3>2
    <3> QED
      BY <2>5, <3>1, <3>2 DEF Current, Shows
  <2>6. \A d \in Client : d # c => (Current(d) => Current(d)')
    BY <1>1, <1>3, <2>3 DEF Current, Shows
  <2>7. Served'
    BY <1>1, <2>5, <2>6 DEF Served, Owed, HalfWay
  <2> QED
    BY <1>1, <1>3, <2>3, <2>4, <2>7 DEF SyncInv, Types, Changes, Queued, Edited
<1>5. CASE m.kind = "result"
  <2>1. UNCHANGED <<view, mail, wrong>>
    BY <1>5 DEF Receive, m
  <2>2. ASSUME Current(c) PROVE Current(c)'
    <3>1. CASE Newest(down[c], table)
      <4>1. Newest(down'[c], table) \/ (NoList(down'[c]) /\ m = List(table))
        BY <1>2, <1>3, <3>1
      <4>2. m # List(table)
        BY <1>5 DEF List
      <4> QED
        BY <1>1, <4>1, <4>2 DEF Current, Shows
    <3>2. CASE NoList(down[c]) /\ view[c] = table
      BY <1>1, <1>2, <1>3, <2>1, <3>2 DEF Current, Shows
    <3> QED
      BY <2>2, <3>1, <3>2 DEF Current, Shows
  <2>3. \A d \in Client : d # c => (Current(d) => Current(d)')
    BY <1>1, <1>3, <2>1 DEF Current, Shows
  <2>4. Served' /\ Queued'
    BY <1>1, <2>2, <2>3 DEF Served, Owed, HalfWay, Queued
  <2>5. Types'
    BY <1>1, <1>3, <2>1 DEF Types
  <2>6. Changes'
    BY <1>1 DEF SyncInv, Changes
  <2> QED
    BY <1>1, <2>1, <2>4, <2>5, <2>6, WindowsStay
<1> QED
  BY <1>4, <1>5 DEF Receive, m

\* A call that ends, and a request that is sent or is not, post a result at most.
LEMMA CallStep ==
    ASSUME SyncInv, NEW c \in Client, Return(c) \/ TimesOut(c) \/ Submit(c)
    PROVE  SyncInv'
<1>1. /\ Types /\ Edited /\ Shown
      /\ UNCHANGED <<server, down, view, rows, snap>>
  BY DEF SyncInv, Return, TimesOut, Submit
<1>2. Changes' /\ Queued' /\ Served'
  BY <1>1, ServerStays
<1>3. up' \in [Client -> Seq(Tables)]
  <2>1. CASE up' = up
    BY <1>1, <2>1 DEF Types
  <2>2. CASE Submit(c) /\ up' = [up EXCEPT ![c] = IF conn[c] = "on" THEN Append(@, ToSet(rows[c])) ELSE @]
    <3>1. ToSet(rows[c]) \in Tables
      BY <1>1, RowsAreTable DEF Edited
    <3>2. up[c] \in Seq(Tables) /\ Append(up[c], ToSet(rows[c])) \in Seq(Tables)
      BY <1>1, <3>1 DEF Types
    <3> QED
      BY <1>1, <2>2, <3>2 DEF Types
  <2> QED
    BY <2>1, <2>2 DEF Return, TimesOut, Submit
<1>4. CASE \E ok \in BOOLEAN : Post(c, Result(ok))
  <2>1. PICK ok \in BOOLEAN : Post(c, Result(ok))
    BY <1>4
  <2>2. Result(ok) \in Messages /\ Result(ok).kind = "result"
    BY MessageKinds
  <2>3. /\ mail' \in [Client -> Seq(Messages)]
        /\ wrong' \in [Client -> SUBSET {"dropped", "marked"}]
        /\ Shown'
    BY <1>1, <2>1, <2>2, PostShows
  <2> QED
    BY <1>1, <1>2, <1>3, <2>3 DEF SyncInv, Types, server, Edited
<1>5. CASE UNCHANGED <<mail, wrong>>
  <2>1. Types'
    BY <1>1, <1>3, <1>5 DEF Types, server
  <2> QED
    BY <1>1, <1>2, <1>5, <2>1, WindowsStay
<1>6. (call[c] = "yes") \in BOOLEAN
  OBVIOUS
<1> QED
  BY <1>4, <1>5, <1>6 DEF Return, TimesOut, Submit

LEMMA PumpStep ==
    ASSUME SyncInv, NEW c \in Client, Pump(c)
    PROVE  SyncInv'
<1> DEFINE m == Head(mail[c])
<1>1. /\ Types /\ Edited /\ Shown
      /\ UNCHANGED <<server, down, up, view>> /\ Apply(c, m)
      /\ mail' = [mail EXCEPT ![c] = Tail(mail[c])]
  BY DEF SyncInv, Pump, core
<1>2. /\ m \in Messages /\ Tail(mail[c]) \in Seq(Messages)
      /\ (NoList(mail[c]) => (NoList(Tail(mail[c])) /\ m.kind # "list"))
      /\ \A T : Newest(mail[c], T) => Newest(Tail(mail[c]), T) \/ (NoList(Tail(mail[c])) /\ m = List(T))
  <2>1. mail[c] \in Seq(Messages) /\ mail[c] # <<>>
    BY <1>1 DEF Types, Pump
  <2> QED
    BY <2>1, Taken
<1> HIDE DEF m
<1>3. /\ mail' \in [Client -> Seq(Messages)] /\ mail'[c] = Tail(mail[c])
      /\ \A d \in Client : d # c => mail'[d] = mail[d]
  BY <1>1, <1>2 DEF Types
<1>4. Changes' /\ Queued' /\ Served'
  BY <1>1, ServerStays
<1>5. c \in User => ShownTo(c)
  BY <1>1 DEF Shown
<1>6. /\ wrong' \in [Client -> SUBSET {"dropped", "marked"}] /\ Edited'
      /\ \A d \in Client : d # c => wrong'[d] = wrong[d] /\ snap'[d] = snap[d]
      /\ (c \in User => ShownTo(c)')
  <2>1. CASE m.kind = "list" /\ LoadRemote(c, m.table) /\ wrong' = [wrong EXCEPT ![c] = @ \ {"marked"}]
    <3>1. m.table \in Tables /\ m = List(m.table)
      BY <1>2, <2>1, MessageKinds
    <3> DEFINE z == Sorted(m.table)
    <3>2. z \in Seq(Row) /\ Valid(z) /\ ToSet(z) = m.table
      BY <3>1, SortedIs
    <3>3. snap' = [snap EXCEPT ![c] = z] /\ rows' = [rows EXCEPT ![c] = IF Dirty(c) THEN @ ELSE z]
      BY <2>1 DEF LoadRemote
    <3> HIDE DEF z
    <3>4. Edited' /\ snap'[c] = z /\ \A d \in Client : d # c => snap'[d] = snap[d]
      BY <1>1, <3>2, <3>3 DEF Edited
    <3>5. /\ wrong' \in [Client -> SUBSET {"dropped", "marked"}] /\ wrong'[c] = wrong[c] \ {"marked"}
          /\ \A d \in Client : d # c => wrong'[d] = wrong[d]
      BY <1>1, <2>1 DEF Types
    <3>6. \A T : m = List(T) => m.table = T
      BY DEF List
    <3>7. c \in User => ShownTo(c)'
      BY <1>1, <1>2, <1>3, <1>5, <2>1, <3>2, <3>4, <3>5, <3>6 DEF ShownTo
    <3> QED
      BY <3>4, <3>5, <3>7
  <2>2. CASE m.kind = "result" /\ MarkSubmitted(c)
    <3> DEFINE w == IF ToSet(rows[c]) = ToSet(snap[c]) THEN wrong[c] ELSE wrong[c] \cup {"marked"}
    <3>1. snap' = [snap EXCEPT ![c] = rows[c]] /\ rows' = rows /\ wrong' = [wrong EXCEPT ![c] = w]
      BY <1>1, <2>2 DEF MarkSubmitted, Types
    <3>2. w \in SUBSET {"dropped", "marked"} /\ wrong[c] \subseteq w
      BY <1>1 DEF Types
    <3>3. "marked" \notin w => ToSet(rows[c]) = ToSet(snap[c])
      OBVIOUS
    <3> HIDE DEF w
    <3>4. Edited' /\ snap'[c] = rows[c] /\ \A d \in Client : d # c => snap'[d] = snap[d]
      BY <1>1, <3>1 DEF Edited
    <3>5. /\ wrong' \in [Client -> SUBSET {"dropped", "marked"}] /\ wrong'[c] = w
          /\ \A d \in Client : d # c => wrong'[d] = wrong[d]
      BY <1>1, <3>1, <3>2 DEF Types
    <3>6. \A T : m # List(T)
      BY <2>2 DEF List
    <3>7. c \in User => ShownTo(c)'
      BY <1>1, <1>2, <1>3, <1>5, <3>2, <3>3, <3>4, <3>5, <3>6 DEF ShownTo
    <3> QED
      BY <3>4, <3>5, <3>7
  <2>3. CASE m.kind = "result" /\ UNCHANGED <<rows, snap, wrong>>
    <3>1. \A T : m # List(T)
      BY <2>3 DEF List
    <3>2. c \in User => ShownTo(c)'
      BY <1>1, <1>2, <1>3, <1>5, <2>3, <3>1 DEF ShownTo
    <3> QED
      BY <1>1, <2>3, <3>2 DEF Types, Edited
  <2> QED
    BY <1>1, <2>1, <2>2, <2>3 DEF Apply
<1>7. Shown'
  <2> SUFFICES ASSUME NEW d \in User, d # c PROVE ShownTo(d)'
    BY <1>6 DEF Shown
  <2>1. d \in Client /\ ShownTo(d)
    BY <1>1, SyncAssumption DEF Shown
  <2> QED
    BY <1>1, <1>3, <1>6, <2>1 DEF ShownTo
<1>8. Types'
  BY <1>1, <1>3, <1>6 DEF Types, server
<1> QED
  BY <1>4, <1>6, <1>7, <1>8 DEF SyncInv

\* What the user does to the rows goes through parse_mapping.
LEMMA EditStep ==
    ASSUME SyncInv, NEW c \in User, Edit(c)
    PROVE  SyncInv'
<1>1. Types /\ Edited /\ Shown /\ c \in Client
  BY SyncAssumption DEF SyncInv
<1>2. CASE Submit(c)
  BY <1>1, <1>2, CallStep
<1>3. ASSUME UNCHANGED <<server, core, down, up, mail, snap, wrong>>,
             NEW s \in Seq(Row), Valid(s), rows' = [rows EXCEPT ![c] = s]
      PROVE  SyncInv'
  <2>1. Changes' /\ Queued' /\ Served'
    BY <1>3, ServerStays DEF core
  <2>2. Types' /\ Shown'
    BY <1>1, <1>3 DEF Types, server, core, Shown, ShownTo
  <2>3. Edited'
    BY <1>1, <1>3 DEF Edited
  <2> QED
    BY <2>1, <2>2, <2>3 DEF SyncInv
<1>4. rows[c] \in Seq(Row) /\ Valid(rows[c]) /\ rows = [rows EXCEPT ![c] = rows[c]]
  BY <1>1 DEF Edited
<1>5. ASSUME UNCHANGED <<server, core, down, up, mail, snap, wrong>>,
             NEW s \in Seq(Row), Commit(c, s)
      PROVE  SyncInv'
  <2>1. CASE Valid(s)
    BY <1>3, <1>5, <2>1 DEF Commit
  <2>2. CASE ~Valid(s)
    BY <1>3, <1>4, <1>5, <2>2 DEF Commit
  <2> QED
    BY <2>1, <2>2
<1>6. CASE \E r \in Draft : AddRow(c, r)
  <2>1. PICK r \in Draft : AddRow(c, r)
    BY <1>6
  <2>2. Append(rows[c], r) \in Seq(Row)
    BY <1>4, SyncAssumption
  <2> QED
    BY <1>5, <2>1, <2>2 DEF AddRow
<1>7. CASE \E i \in DOMAIN rows[c] : OpenDialog(c, i)
  <2>1. UNCHANGED <<server, core, down, up, mail, snap, wrong, rows>>
    BY <1>7 DEF OpenDialog
  <2> QED
    BY <1>3, <1>4, <2>1
<1>8. CASE CloseDialog(c)
  <2> DEFINE i == dialog[c]
  <2>1. UNCHANGED <<server, core, down, up, mail, snap, wrong>>
    BY <1>8 DEF CloseDialog
  <2>2. CASE UNCHANGED rows
    BY <1>3, <1>4, <2>1, <2>2
  <2>3. CASE i \in DOMAIN rows[c] /\ Commit(c, RemoveAt(rows[c], i))
    <3>1. i \in 1..Len(rows[c]) /\ Len(rows[c]) \in Nat
      BY <1>4, <2>3
    <3>2. RemoveAt(rows[c], i) \in Seq(Row)
      <4>1. SubSeq(rows[c], 1, i - 1) \in Seq(Row) /\ SubSeq(rows[c], i + 1, Len(rows[c])) \in Seq(Row)
        BY <1>4, <3>1
      <4> QED
        BY <4>1 DEF RemoveAt
    <3> QED
      BY <1>5, <2>1, <2>3, <3>2
  <2>4. ASSUME i \in DOMAIN rows[c], NEW r \in Draft, Commit(c, [rows[c] EXCEPT ![i] = r]) PROVE SyncInv'
    <3> DEFINE s == rows[c]
    <3>1. s \in Seq(Row) /\ r \in Row /\ i \in DOMAIN s
      BY <1>4, <2>4, SyncAssumption
    <3> HIDE DEF s, i
    <3>2. [s EXCEPT ![i] = r] \in Seq(Row)
      BY <3>1
    <3> QED
      BY <1>5, <2>1, <2>4, <3>2 DEF s, i
  <2> QED
    BY <1>8, <2>2, <2>3, <2>4 DEF CloseDialog
<1>9. CASE Revert(c)
  <2>1. /\ rows' = [rows EXCEPT ![c] = snap[c]] /\ snap[c] \in Seq(Row) /\ Valid(snap[c])
        /\ UNCHANGED <<server, core, down, up, mail, snap, wrong>>
    BY <1>1, <1>9 DEF Revert, Edited
  <2> QED
    BY <1>3, <2>1
<1> QED
  BY <1>2, <1>6, <1>7, <1>8, <1>9 DEF Edit

-----------------------------------------------------------------------------
(* Theorems.                                                               *)

LEMMA InitSync == Init => SyncInv
<1> SUFFICES ASSUME Init PROVE SyncInv
  OBVIOUS
<1>1. Seed \in Tables /\ Sorted(Seed) \in Seq(Row) /\ Valid(Sorted(Seed)) /\ ToSet(Sorted(Seed)) = Seed
  BY SortedIs, SyncAssumption
<1>2. JobSound(Idle) /\ Idle.at = None /\ Idle.left = {}
  BY DEF Idle, Job, JobSound, Jobs, Replies
<1>3. <<>> \in Seq(Messages) /\ <<>> \in Seq(Tables) /\ NoList(<<>>)
  BY DEF NoList
<1>4. Types
  BY <1>1, <1>2, <1>3 DEF Init, Types
<1>5. Queued
  BY <1>2 DEF Init, Queued, ToSet
<1>6. Served
  BY <1>3 DEF Init, Served, Current, Shows
<1>7. Edited
  BY <1>1 DEF Init, Edited
<1>8. Shown
  BY <1>1, <1>3, SyncAssumption DEF Init, Shown, ShownTo
<1>9. Changes
  BY DEF Init, Changes, NoChange, Plan
<1> QED
  BY <1>4, <1>5, <1>6, <1>7, <1>8, <1>9 DEF SyncInv

LEMMA StepSync == SyncInv /\ [Next]_vars => SyncInv'
<1> SUFFICES ASSUME SyncInv, [Next]_vars PROVE SyncInv'
  OBVIOUS
<1>1. CASE UNCHANGED vars
  <2>1. UNCHANGED <<view, mail, rows, snap, wrong>> /\ Types'
    BY <1>1 DEF vars, SyncInv, Types
  <2>2. Changes' /\ Queued' /\ Served'
    BY <1>1 DEF vars, SyncInv, Changes, Queued, Served, Current, Shows, Owed, HalfWay
  <2> QED
    BY <2>1, <2>2, WindowsStay
<1>2. ASSUME NEW t \in Task, Resume(t) PROVE SyncInv'
  BY <1>2, ResumeStep
<1>3. ASSUME NEW t \in Admin, NEW T \in Offers, ConsoleSubmits(t, T) PROVE SyncInv'
  BY <1>3, SubmitsStep
<1>4. ASSUME NEW t \in Admin, NEW c \in Client, Kick(t, c) PROVE SyncInv'
  BY <1>4, KickStep
<1>5. ASSUME NEW c \in Client, TakeRequest(c) PROVE SyncInv'
  BY <1>5, TakeRequestStep
<1>6. ASSUME NEW c \in Client, GetsSlow(c) \/ ReadsOn(c) \/ Drop(c) \/ CloseCompletes(c) PROVE SyncInv'
  BY <1>6, TransportStep
<1>7. ASSUME NEW c \in Client, Leave(c) \/ Reconnect(c) PROVE SyncInv'
  BY <1>7, LeaveStep
<1>8. ASSUME NEW c \in Client, Receive(c) PROVE SyncInv'
  BY <1>8, ReceiveStep
<1>9. ASSUME NEW c \in Client, Return(c) \/ TimesOut(c) PROVE SyncInv'
  BY <1>9, CallStep
<1>10. ASSUME NEW c \in Client, Pump(c) PROVE SyncInv'
  BY <1>10, PumpStep
<1>11. ASSUME NEW c \in User, Edit(c) PROVE SyncInv'
  BY <1>11, EditStep
<1>12. ASSUME NEW t \in Task, GoOn(t) PROVE SyncInv'
  BY <1>12, GoOnStep
<1> QED
  BY <1>1, <1>2, <1>3, <1>4, <1>5, <1>6, <1>7, <1>8, <1>9, <1>10, <1>11, <1>12 DEF Next

\* The bookkeeping of the broadcasts (_broadcast_mapping_list, submit_mapping,
\* _on_set_mapping) and of the windows (UiBridge, MappingTableModel): every
\* client that is connected has the table of the server in view, under way or
\* still to come, while no change stands between its two tables, unless it was
\* passed by or sent a table that was put back since; every window has the newest list it
\* was sent in its mailbox or its snapshot, unless the mailbox dropped it or
\* mark_submitted overwrote it.
THEOREM SyncInvariant == Spec => []SyncInv
  BY InitSync, StepSync, PTL DEF Spec

\* Whatever clients come and go, however their transports suspend the
\* broadcasts and whatever awaits the changes of several coroutines are spread
\* over: when no change and no broadcast is under way, a client that is
\* connected, has read its messages, was not passed by and was not sent a table
\* since put back shows the table of the server; the rows of a window are
\* always ones parse_mapping accepts, and the queue holds the suspended
\* coroutines.
THEOREM QuietMeansInSync == Spec => []QuietInSync
<1>1. SyncInv => QuietInSync
  <2> SUFFICES ASSUME SyncInv PROVE QuietInSync
    OBVIOUS
  <2>1. \A t \in Task : job[t].at # None <=> t \in ToSet(queue)
    BY DEF SyncInv, Queued
  <2>2. \A c \in Client : Valid(rows[c])
    BY DEF SyncInv, Edited
  <2>3. ASSUME Settled, NEW c \in Client, Reached(c) PROVE view[c] = table
    <3>1. ~Owed(c) /\ ~HalfWay
      BY <2>3 DEF Settled, Owed, HalfWay, SyncInv, Changes, Idle, Busy, Job
    <3>2. Current(c) /\ down[c] = <<>>
      BY <2>3, <3>1 DEF Reached, SyncInv, Served
    <3>3. ~Newest(down[c], table)
      BY <3>2 DEF Newest
    <3> QED
      BY <3>2, <3>3 DEF Current, Shows
  <2> QED
    BY <2>1, <2>2, <2>3 DEF QuietInSync
<1> QED
  BY <1>1, SyncInvariant, PTL

\* A window without unsaved changes never shows rows the server does not
\* serve, once everything sent has come in and no change is under way, unless
\* the last list it was sent was passed by or put back, its mailbox dropped it,
\* or a mapping_result declared saved rows it was not an answer to
\* (load_remote, mark_submitted, UiBridge.post, MappingManager.apply).
THEOREM CleanRowsAreServed == Spec => []CleanMeansServed
<1>1. SyncInv /\ QuietInSync => CleanMeansServed
  <2> SUFFICES ASSUME SyncInv, QuietInSync, Settled, NEW c \in User,
                      Reached(c), mail[c] = <<>>, ~Dirty(c), wrong[c] = {}
               PROVE  ToSet(rows[c]) = table
    BY DEF CleanMeansServed
  <2>1. view[c] = table /\ ShownTo(c)
    BY SyncAssumption DEF QuietInSync, SyncInv, Shown
  <2>2. ~Newest(mail[c], view[c])
    BY DEF Newest
  <2>3. ToSet(snap[c]) = view[c]
    BY <2>1, <2>2 DEF ShownTo
  <2> QED
    BY <2>1, <2>3 DEF Dirty
<1> QED
  BY <1>1, SyncInvariant, QuietMeansInSync, PTL

-----------------------------------------------------------------------------
(* Nobody waits for a transport that would never wake him.                 *)

\* Only a session that is being taken down is awaited for its close, and only
\* a transport that is up holds back a drain.
Awaited ==
    /\ \A t \in Task : /\ job[t].at = None <=> job[t].does \in {"idle", "change"}
                       /\ job[t].does = "close" => conn[job[t].at] \in {"closing", "off"}
    /\ \A c \in slow : conn[c] \in {"on", "closing"}

\* If some wait for a transport, one of them can go on, unless the transport
\* is up and above its mark, or being closed.
WaitersGoOn ==
    \A c \in Client :
        /\ conn[c] \in {"lost", "off"} => c \notin slow
        /\ c \notin slow /\ conn[c] # "closing" /\ ~Unawaited(c) =>
              \E t \in Task : job[t].at = c /\ ReadyToResume(t)

\* Of a set of places one is the first.
LEMMA First ==
    ASSUME NEW S \in SUBSET Nat, S # {}
    PROVE  \E m \in S : \A k \in S : ~(k < m)
<1>1. PICK m \in S : \A k \in S : ~(<<k, m>> \in OpToRel(<, Nat))
  BY WFMin, NatLessThanWellFounded
<1> QED
  BY <1>1 DEF OpToRel

\* What a step that begins or goes on with a broadcast owes those that wait.
LEMMA BroadcastStays ==
    ASSUME Types, Types', Awaited, NEW t \in Task,
           \A u \in Task : u # t => job'[u] = job[u],
           Broadcasting(job'[t]),
           \A u \in Task : job[u].at \in Client /\ conn[job[u].at] \in {"closing", "off"} =>
                               conn'[job[u].at] \in {"closing", "off"},
           \A c \in slow' : conn'[c] \in {"on", "closing"}
    PROVE  Awaited'
<1>1. ASSUME NEW u \in Task
      PROVE  /\ job'[u].at = None <=> job'[u].does \in {"idle", "change"}
             /\ job'[u].does = "close" => conn'[job'[u].at] \in {"closing", "off"}
  <2>1. CASE u = t
    BY <2>1 DEF Broadcasting
  <2>2. CASE u # t
    BY <2>2 DEF Awaited, Types, JobSound, Jobs
  <2> QED
    BY <2>1, <2>2
<1> QED
  BY <1>1 DEF Awaited

LEMMA AwaitedStep == SyncInv /\ SyncInv' /\ Awaited /\ [Next]_vars => Awaited'
<1> SUFFICES ASSUME SyncInv, SyncInv', Awaited, [Next]_vars PROVE Awaited'
  OBVIOUS
<1>1. Types /\ Types' /\ Client \subseteq Task /\ Admin \subseteq Task /\ None \notin Client
  BY SyncAssumption DEF SyncInv, Task
<1>2. ASSUME NEW t \in Task, UNCHANGED <<conn, slow>>,
             \/ \E left, payload, reply : Cast(t, left, payload, reply) \/ Ends(t, left, payload, reply)
             \/ \E stage, p : Pause(t, stage, p)
      PROVE  Awaited'
  <2>1. CASE \E left, payload, reply : Cast(t, left, payload, reply) \/ Ends(t, left, payload, reply)
    <3>1. (\A u \in Task : u # t => job'[u] = job[u]) /\ Broadcasting(job'[t])
      BY <1>1, <2>1, CastJob, EndsJob
    <3> QED
      BY <1>1, <1>2, <3>1, BroadcastStays DEF Awaited
  <2>2. CASE \E stage, p : Pause(t, stage, p)
    <3>1. job' = [job EXCEPT ![t] = Busy]
      BY <2>2 DEF Pause
    <3>2. (\A u \in Task : u # t => job'[u] = job[u]) /\ Broadcasting(job'[t])
      BY <1>1, <3>1 DEF Types, Busy, Job, Broadcasting
    <3> QED
      BY <1>1, <1>2, <3>2, BroadcastStays DEF Awaited
  <2> QED
    BY <1>2, <2>1, <2>2
<1>3. ASSUME NEW t \in Task, Resume(t) PROVE Awaited'
  BY <1>2, <1>3 DEF Resume
<1>4. ASSUME NEW t \in Task, NEW p, Install(t, p), UNCHANGED <<conn, slow>> PROVE Awaited'
  BY <1>2, <1>4 DEF Install, Succeed
<1>5. ASSUME NEW t \in Task, NEW T, BeginChange(t, T), UNCHANGED <<conn, slow>> PROVE Awaited'
  BY <1>2, <1>4, <1>5 DEF BeginChange
<1>17. ASSUME NEW t \in Task, GoOn(t) PROVE Awaited'
  <2>1. UNCHANGED <<conn, slow>>
    BY <1>17 DEF GoOn
  <2> QED
    BY <1>2, <1>4, <1>17, <2>1 DEF GoOn, RollBack, Succeed
<1>18. ASSUME NEW t \in Admin, NEW T \in Offers, ConsoleSubmits(t, T) PROVE Awaited'
  BY <1>1, <1>5, <1>18 DEF ConsoleSubmits
<1>19. ASSUME NEW c \in Client, TakeRequest(c) PROVE Awaited'
  BY <1>1, <1>2, <1>5, <1>19 DEF TakeRequest, Decide
<1>6. ASSUME NEW c \in Client, Leave(c) PROVE Awaited'
  <2>1. (\A u \in Task : u # c => job'[u] = job[u]) /\ Broadcasting(job'[c])
    BY <1>1, <1>6, CastJob DEF Leave
  <2>2. conn' = [conn EXCEPT ![c] = "off"] /\ slow' = slow /\ conn[c] = "lost"
    BY <1>6 DEF Leave
  <2>3. \A d \in slow' : conn'[d] \in {"on", "closing"}
    BY <1>1, <2>2 DEF Awaited, Types
  <2>4. \A u \in Task : job[u].at \in Client /\ conn[job[u].at] \in {"closing", "off"} =>
                            conn'[job[u].at] \in {"closing", "off"}
    BY <1>1, <2>2 DEF Types
  <2> QED
    BY <1>1, <2>1, <2>3, <2>4, BroadcastStays
<1>7. ASSUME NEW c \in Client, Reconnect(c) PROVE Awaited'
  <2>1. (\A u \in Task : u # c => job'[u] = job[u]) /\ Broadcasting(job'[c])
    BY <1>1, <1>7, CastJob DEF Reconnect
  <2>2. conn' = [conn EXCEPT ![c] = "on"] /\ slow' = slow /\ Unawaited(c)
    BY <1>7 DEF Reconnect
  <2>3. \A d \in slow' : conn'[d] \in {"on", "closing"}
    BY <1>1, <2>2 DEF Awaited, Types
  <2>4. \A u \in Task : job[u].at \in Client /\ conn[job[u].at] \in {"closing", "off"} =>
                            conn'[job[u].at] \in {"closing", "off"}
    BY <1>1, <2>2 DEF Types, Unawaited
  <2> QED
    BY <1>1, <2>1, <2>3, <2>4, BroadcastStays
<1>8. ASSUME NEW t \in Admin, NEW c \in Client, Kick(t, c) PROVE Awaited'
  <2>1. /\ conn' = [conn EXCEPT ![c] = "closing"] /\ slow' = slow /\ t \in Task
        /\ job' = [job EXCEPT ![t] = Job(c, "close", {}, {}, <<>>)]
    BY <1>1, <1>8 DEF Kick, Suspend
  <2>2. \A u \in Task : job'[u] = IF u = t THEN Job(c, "close", {}, {}, <<>>) ELSE job[u]
    BY <1>1, <2>1 DEF Types
  <2>3. \A d \in Client : conn'[d] = IF d = c THEN "closing" ELSE conn[d]
    BY <1>1, <2>1 DEF Types
  <2>4. \A d \in slow' : conn'[d] \in {"on", "closing"}
    BY <1>1, <2>1, <2>3 DEF Awaited, Types
  <2>5. ASSUME NEW u \in Task
        PROVE  /\ job'[u].at = None <=> job'[u].does \in {"idle", "change"}
               /\ job'[u].does = "close" => conn'[job'[u].at] \in {"closing", "off"}
    <3>1. CASE u = t
      BY <1>1, <2>2, <2>3, <3>1 DEF Job
    <3>2. CASE u # t
      <4>1. job'[u] = job[u] /\ (job[u].at = None <=> job[u].does \in {"idle", "change"})
        BY <2>2, <3>2 DEF Awaited
      <4>2. ASSUME job[u].does = "close" PROVE conn'[job[u].at] \in {"closing", "off"}
        <5>1. job[u].at \in Client /\ conn[job[u].at] \in {"closing", "off"}
          BY <1>1, <4>1, <4>2 DEF Awaited, Types, JobSound, Jobs
        <5> QED
          BY <2>3, <5>1
      <4> QED
        BY <4>1, <4>2
    <3> QED
      BY <3>1, <3>2
  <2> QED
    BY <2>4, <2>5 DEF Awaited
<1>9. ASSUME job' = job,
             \A c \in Client : conn[c] \in {"closing", "off"} => conn'[c] \in {"closing", "off"},
             \A c \in slow' : conn'[c] \in {"on", "closing"}
      PROVE  Awaited'
  BY <1>1, <1>9 DEF Awaited, Types, JobSound, Jobs
<1>10. ASSUME UNCHANGED <<job, conn, slow>> PROVE Awaited'
  BY <1>9, <1>10 DEF Awaited
<1>11. ASSUME NEW c \in Client, GetsSlow(c) \/ ReadsOn(c) PROVE Awaited'
  BY <1>9, <1>11 DEF Awaited, GetsSlow, ReadsOn
<1>12. ASSUME NEW c \in Client, NEW state \in {"lost", "off"}, job' = job, slow' = slow \ {c},
              conn' = [conn EXCEPT ![c] = state], conn[c] = "on" \/ state = "off"
       PROVE  Awaited'
  BY <1>1, <1>9, <1>12 DEF Awaited, Types
<1>13. ASSUME NEW c \in Client, Drop(c) \/ CloseCompletes(c) PROVE Awaited'
  BY <1>12, <1>13 DEF Drop, CloseCompletes
<1>14. ASSUME NEW c \in Client, Receive(c) \/ Return(c) \/ TimesOut(c) \/ Pump(c) PROVE Awaited'
  BY <1>10, <1>14 DEF Receive, Return, TimesOut, Pump, server
<1>15. ASSUME NEW c \in User, Edit(c) PROVE Awaited'
  BY <1>10, <1>15 DEF Edit, AddRow, OpenDialog, CloseDialog, Revert, Submit, server
<1>16. CASE UNCHANGED vars
  BY <1>10, <1>16 DEF vars
<1> QED
  BY <1>3, <1>6, <1>7, <1>8, <1>11, <1>13, <1>14, <1>15, <1>16, <1>17, <1>18, <1>19 DEF Next

\* A session that is lost or taken down never leaves a broadcast or a kick
\* waiting for it for ever, and the first of those that wait for a transport is
\* not held up by the others (drain and wait_closed under
\* _broadcast_mapping_list and kick_client).
THEOREM NobodyForgotten == Spec => []WaitersGoOn
<1>1. Init => Awaited
  BY DEF Init, Awaited, Idle, Job
<1>2. SyncInv /\ Awaited => WaitersGoOn
  <2> SUFFICES ASSUME SyncInv, Awaited, NEW c \in Client PROVE
        /\ conn[c] \in {"lost", "off"} => c \notin slow
        /\ (c \notin slow /\ conn[c] # "closing" /\ ~Unawaited(c)) =>
              \E t \in Task : job[t].at = c /\ ReadyToResume(t)
    BY DEF WaitersGoOn
  <2>1. conn[c] \in {"lost", "off"} => c \notin slow
    BY DEF Awaited
  <2>2. ASSUME c \notin slow, conn[c] # "closing", ~Unawaited(c)
        PROVE  \E t \in Task : job[t].at = c /\ ReadyToResume(t)
    <3> DEFINE places == {i \in DOMAIN queue : job[queue[i]].at = c}
    <3>1. c # None /\ DOMAIN queue = 1..Len(queue) /\ Len(queue) \in Nat
      BY SyncAssumption DEF SyncInv, Queued
    <3>2. places \in SUBSET Nat /\ places # {}
      <4>1. PICK t \in Task : job[t].at = c
        BY <2>2 DEF Unawaited
      <4>2. t \in ToSet(queue)
        BY <3>1, <4>1 DEF SyncInv, Queued
      <4> QED
        BY <3>1, <4>1, <4>2 DEF ToSet
    <3>3. PICK first \in places : \A i \in places : ~ (i < first)
      BY <3>2, First
    <3> DEFINE t == queue[first]
    <3>4. t \in Task /\ job[t].at = c
      BY <3>1 DEF SyncInv, Queued
    <3>5. ~ \E i, j \in DOMAIN queue : i < j /\ queue[j] = t /\ job[queue[i]].at = job[t].at
      <4> SUFFICES ASSUME NEW i \in DOMAIN queue, NEW j \in DOMAIN queue,
                          i < j, queue[j] = t, job[queue[i]].at = c
                   PROVE  FALSE
        BY <3>4
      <4>1. j = first
        BY DEF SyncInv, Queued
      <4> QED
        BY <3>3, <4>1
    <3>6. IF job[t].does = "cast" THEN job[t].at \notin slow ELSE conn[job[t].at] = "off"
      BY <2>2, <3>1, <3>4 DEF Awaited, SyncInv, Types, JobSound, Jobs
    <3> HIDE DEF t
    <3> QED
      BY <3>1, <3>4, <3>5, <3>6 DEF ReadyToResume
  <2> QED
    BY <2>1, <2>2
<1> QED
  BY <1>1, <1>2, AwaitedStep, SyncInvariant, PTL DEF Spec
=============================================================================
