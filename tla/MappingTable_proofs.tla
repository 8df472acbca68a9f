------------------------- MODULE MappingTable_proofs -------------------------
(* Theorems about MappingTable for every number of ports, rules and         *)
(* coroutines: what holds however changes overlap, and what holds as long   *)
(* as no two have been under way at once.                                   *)
EXTENDS MappingTable, TLAPS

\* The ports a coroutine has still to bind have a rule in the table it binds
\* them for, so that binding them yields a listener.
TodoHasRules ==
    \A t \in Task :
        /\ job[t].stage \in {"starting", "recording"} => job[t].todo \subseteq Ports(job[t].new)
        /\ job[t].stage \in {"restoring", "rerecording"} => job[t].todo \subseteq Ports(job[t].old)
        /\ Binding(t) => job[t].port \in Port /\ Opened(job[t]) \in Listener

\* A socket of port p between bind and record belongs to one coroutine, and
\* to no recorded server.
BoundOnce(p) ==
    /\ \A t \in Task : Binding(t) /\ job[t].port = p => servers[p] = {}
    /\ \A t, u \in Task : Binding(t) /\ Binding(u) /\ job[t].port = p /\ job[u].port = p => t = u

\* NoStraySocket, one listener at a time.
Accounted(p) ==
    \A l \in Listener :
        l \in bound[p] <=>
            l \in servers[p] \/ \E t \in Task : Binding(t) /\ job[t].port = p /\ l = Opened(job[t])

Tracked(p) == BoundOnce(p) /\ Accounted(p)

\* The server boots in one coroutine and alone.
BootsAlone ==
    /\ life = "down" => Settled
    /\ life = "booting" => \A t, u \in Task : job[t] # Idle /\ job[u] # Idle => t = u
    /\ life # "up" => ~overlap
    /\ life # "down" => Task # {}

\* Types hold for any number of coroutines; the sockets of a port are
\* accounted for as long as it is bound only where nothing listens.
TypeInv == TypeOK /\ TodoHasRules
SocketInv == TypeInv /\ \A p \in Port : Tracked(p)

BindsFree(t, p) ==
    /\ job[t].stage = "starting" /\ p \in job[t].todo /\ Beside(p, Listens[job[t].new[p]]) => bound[p] = {}
    /\ job[t].stage = "restoring" /\ p \in job[t].todo /\ Beside(p, Listens[job[t].old[p]]) => bound[p] = {}

-----------------------------------------------------------------------------
(* The jobs that start and apply hand on.                                   *)

Jobs == [stage: Stages, old: Table, new: Table, todo: SUBSET Port,
         port: Port \cup {NoPort}, started: SUBSET Port]

LEMMA EmptyTable == Empty \in Table
  BY DEF Empty, Table

LEMMA JobType ==
    ASSUME NEW stage \in Stages, NEW old \in Table, NEW new \in Table, NEW todo \in SUBSET Port,
           NEW port \in Port \cup {NoPort}, NEW started \in SUBSET Port
    PROVE  /\ Job(stage, old, new, todo, port, started) \in Jobs
           /\ Job(stage, old, new, todo, port, started).stage = stage
           /\ Job(stage, old, new, todo, port, started).old = old
           /\ Job(stage, old, new, todo, port, started).new = new
           /\ Job(stage, old, new, todo, port, started).todo = todo
           /\ Job(stage, old, new, todo, port, started).port = port
           /\ Job(stage, old, new, todo, port, started).started = started
  BY DEF Job, Jobs

LEMMA IdleJob == Idle \in Jobs /\ Idle.stage = "idle"
  BY EmptyTable, JobType DEF Idle, Stages

LEMMA StartingJob ==
    ASSUME NEW old \in Table, NEW new \in Table, NEW todo \in SUBSET Port, NEW started \in SUBSET Port
    PROVE  LET j == Starting(old, new, todo, started)
           IN  /\ j \in Jobs
               /\ todo = {} => j = Idle
               /\ todo # {} => /\ j.stage = "starting" /\ j.old = old /\ j.new = new
                               /\ j.todo = todo /\ j.started = started
  BY IdleJob, JobType DEF Starting, Stages

LEMMA RestoringJob ==
    ASSUME NEW old \in Table, NEW new \in Table, NEW todo \in SUBSET Port
    PROVE  LET j == Restoring(old, new, todo)
           IN  /\ j \in Jobs
               /\ todo = {} => j = Idle
               /\ todo # {} => j.stage = "restoring" /\ j.old = old /\ j.new = new /\ j.todo = todo
  BY IdleJob, JobType DEF Restoring, Stages

LEMMA DiffPorts ==
    ASSUME NEW o \in Table, NEW n \in Table
    PROVE  ToStop(o, n) \subseteq Ports(o) /\ ToStart(o, n) \subseteq Ports(n)
           /\ Ports(o) \in SUBSET Port /\ Ports(n) \in SUBSET Port
  BY DEF ToStop, ToStart, Added, Removed, Changed, Ports

-----------------------------------------------------------------------------
(* One coroutine moves on: what each kind of step does.                     *)

\* A job whose coroutine is between two ports of a loop, or idle.
Between(j) ==
    /\ j \in Jobs
    /\ j.stage \notin {"recording", "rerecording"}
    /\ j.stage = "starting" => j.todo \subseteq Ports(j.new)
    /\ j.stage = "restoring" => j.todo \subseteq Ports(j.old)

StoreType ==
    /\ life' \in {"down", "booting", "up"} /\ rules' \in Table /\ disk' \in Table
    /\ unsaved' \in BOOLEAN /\ overlap' \in BOOLEAN
SocketType ==
    /\ bound' \in [Port -> SUBSET Listener] /\ servers' \in [Port -> SUBSET Listener]
    /\ held' \in SUBSET Task

LEMMA NoStray ==
    ASSUME TypeInv, NEW p \in Port
    PROVE  Accounted(p) <=>
               bound[p] = servers[p] \cup {Opened(job[t]) : t \in {u \in Task : Binding(u) /\ job[u].port = p}}
<1> DEFINE O == {Opened(job[t]) : t \in {u \in Task : Binding(u) /\ job[u].port = p}}
<1>1. bound[p] \subseteq Listener /\ servers[p] \subseteq Listener
  BY DEF TypeInv, TypeOK
<1>2. O \subseteq Listener
  BY DEF TypeInv, TodoHasRules
<1>3. \A l \in Listener :
         l \in O <=> \E t \in Task : Binding(t) /\ job[t].port = p /\ l = Opened(job[t])
  OBVIOUS
<1> HIDE DEF O
<1>4. QED
  BY <1>1, <1>2, <1>3 DEF Accounted, O

\* A coroutine that is between two ports before and after the step.
LEMMA TypesStep ==
    ASSUME TypeInv, NEW t \in Task, NEW j, Between(j),
           job' = [job EXCEPT ![t] = j], StoreType, SocketType
    PROVE  /\ TypeInv'
           /\ job' \in [Task -> Jobs] /\ job'[t] = j
           /\ \A u \in Task : u # t => job'[u] = job[u]
           /\ ~Binding(t)'
<1>1. /\ job' \in [Task -> Jobs]
      /\ \A u \in Task : u # t => job'[u] = job[u]
      /\ job'[t] = j
  BY DEF TypeInv, TypeOK, Between, Jobs
<1>2. TypeOK'
  BY <1>1 DEF TypeOK, StoreType, SocketType, Jobs
<1>3. ~Binding(t)'
  BY <1>1 DEF Binding, Between
<1>4. TodoHasRules'
  BY <1>1, <1>3 DEF TypeInv, TodoHasRules, Between, Binding, Opened
<1>5. QED
  BY <1>1, <1>2, <1>3, <1>4 DEF TypeInv

\* The sockets stay as they are.
LEMMA QuietStep ==
    ASSUME TypeInv, NEW t \in Task, ~Binding(t), NEW j, Between(j),
           job' = [job EXCEPT ![t] = j], StoreType, UNCHANGED sockets
    PROVE  TypeInv' /\ \A q \in Port : Tracked(q) => Tracked(q)'
<1>1. SocketType
  BY DEF SocketType, sockets, TypeInv, TypeOK
<1>2. /\ TypeInv' /\ ~Binding(t)' /\ job'[t] = j
      /\ \A u \in Task : u # t => job'[u] = job[u]
  BY <1>1, TypesStep
<1>3. \A u \in Task : Binding(u)' <=> Binding(u)
  BY <1>2 DEF Binding
<1>4. \A u \in Task : Binding(u) => job'[u] = job[u]
  BY <1>2
<1>5. ASSUME NEW q \in Port, Tracked(q) PROVE Tracked(q)'
  <2>1. BoundOnce(q)'
    BY <1>3, <1>4, <1>5 DEF Tracked, BoundOnce, sockets
  <2>2. Accounted(q)'
    BY <1>3, <1>4, <1>5 DEF Tracked, Accounted, sockets, Opened
  <2>3. QED
    BY <2>1, <2>2 DEF Tracked
<1>6. QED
  BY <1>2, <1>5

\* stop_port closes a recorded server, which no coroutine is about to record.
LEMMA StopStep ==
    ASSUME TypeInv, NEW t \in Task, ~Binding(t), NEW j, Between(j), NEW p \in Port,
           job' = [job EXCEPT ![t] = j], StoreType, StopPort(t, p)
    PROVE  TypeInv' /\ \A q \in Port : Tracked(q) => Tracked(q)'
<1>1. SocketType
  BY DEF SocketType, StopPort, TypeInv, TypeOK
<1>2. /\ TypeInv' /\ ~Binding(t)' /\ job'[t] = j
      /\ \A u \in Task : u # t => job'[u] = job[u]
  BY <1>1, TypesStep
<1>3. \A u \in Task : Binding(u)' <=> Binding(u)
  BY <1>2 DEF Binding
<1>4. \A u \in Task : Binding(u) => job'[u] = job[u]
  BY <1>2
<1>5. /\ servers'[p] = {} /\ bound'[p] = bound[p] \ servers[p]
      /\ \A q \in Port : q # p => servers'[q] = servers[q] /\ bound'[q] = bound[q]
  BY DEF StopPort, TypeInv, TypeOK
<1>6. ASSUME NEW q \in Port, Tracked(q) PROVE Tracked(q)'
  <2>1. BoundOnce(q)'
    BY <1>3, <1>4, <1>5, <1>6 DEF Tracked, BoundOnce
  <2>2. Accounted(q)'
    <3> SUFFICES ASSUME NEW l \in Listener
                 PROVE  l \in bound'[q] <=>
                            l \in servers'[q] \/ \E u \in Task : Binding(u)' /\ job'[u].port = q /\ l = Opened(job'[u])
      BY DEF Accounted, Opened
    <3>1. l \in bound[q] <=>
              l \in servers[q] \/ \E u \in Task : Binding(u) /\ job[u].port = q /\ l = Opened(job[u])
      BY <1>6 DEF Tracked, Accounted
    <3>2. CASE q # p \/ servers[q] = {}
      BY <3>1, <3>2, <1>3, <1>4, <1>5
    <3>3. CASE q = p /\ servers[q] # {}
      <4>1. \A u \in Task : Binding(u) => job[u].port # p
        BY <3>3, <1>6 DEF Tracked, BoundOnce
      <4>2. QED
        BY <3>1, <3>3, <4>1, <1>3, <1>4, <1>5
    <3>4. QED
      BY <3>2, <3>3
  <2>3. QED
    BY <2>1, <2>2 DEF Tracked
<1>7. QED
  BY <1>2, <1>6

\* create_server binds a port, on which nothing listens if its sockets are to
\* stay accounted for.
LEMMA BindStep ==
    ASSUME TypeInv, NEW t \in Task, NEW p \in job[t].todo, NEW tab \in Table, NEW stage,
           Bind(t, p, tab, stage), overlap' \in BOOLEAN,
           \/ job[t].stage = "starting" /\ tab = job[t].new /\ stage = "recording"
           \/ job[t].stage = "restoring" /\ tab = job[t].old /\ stage = "rerecording"
    PROVE  TypeInv' /\ \A q \in Port : Tracked(q) /\ (q = p => bound[p] = {}) => Tracked(q)'
<1> DEFINE j == [job[t] EXCEPT !.stage = stage, !.todo = @ \ {p}, !.port = p]
<1>1. /\ job[t] \in Jobs
      /\ p \in Port /\ tab[p] \in Rule /\ p \in Ports(tab)
      /\ job[t].todo \subseteq Ports(tab)
  BY DEF TypeInv, TypeOK, TodoHasRules, Ports, Jobs, Table
<1>2. /\ j \in Jobs /\ j.stage = stage /\ j.port = p /\ j.todo = job[t].todo \ {p}
      /\ j.old = job[t].old /\ j.new = job[t].new
  BY <1>1 DEF Jobs, Stages
<1>3. /\ job' = [job EXCEPT ![t] = j]
      /\ \A u \in Task : u # t => job'[u] = job[u]
      /\ job'[t] = j
  BY DEF Bind, TypeInv, TypeOK
<1>4. Opened(j) = Listens[tab[p]] /\ Listens[tab[p]] \in Listener
  BY <1>1, <1>2, MappingAssumption DEF Opened
<1>5. /\ bound' = [bound EXCEPT ![p] = @ \cup {Listens[tab[p]]}]
      /\ servers' = servers /\ held' = held
  BY DEF Bind
<1>6. TypeOK'
  BY <1>2, <1>3, <1>4, <1>5 DEF TypeInv, TypeOK, Bind, store, Jobs
<1>7. /\ \A u \in Task : u # t => (Binding(u)' <=> Binding(u))
      /\ Binding(t)' /\ ~Binding(t)
  BY <1>2, <1>3 DEF Binding
<1> HIDE DEF j
<1>8. TodoHasRules'
  <2>1. ASSUME NEW u \in Task, u # t
        PROVE  /\ job'[u].stage \in {"starting", "recording"} => job'[u].todo \subseteq Ports(job'[u].new)
               /\ job'[u].stage \in {"restoring", "rerecording"} => job'[u].todo \subseteq Ports(job'[u].old)
               /\ Binding(u)' => job'[u].port \in Port /\ Opened(job'[u]) \in Listener
    BY <2>1, <1>3, <1>7 DEF TypeInv, TodoHasRules
  <2>2. /\ job'[t].stage \in {"starting", "recording"} => job'[t].todo \subseteq Ports(job'[t].new)
        /\ job'[t].stage \in {"restoring", "rerecording"} => job'[t].todo \subseteq Ports(job'[t].old)
        /\ Binding(t)' => job'[t].port \in Port /\ Opened(job'[t]) \in Listener
    BY <1>1, <1>2, <1>3, <1>4
  <2>3. QED
    BY <2>1, <2>2 DEF TodoHasRules, Opened
<1>9. ASSUME NEW q \in Port, q # p, Tracked(q) PROVE Tracked(q)'
  <2>1. bound'[q] = bound[q] /\ servers'[q] = servers[q]
    BY <1>5, <1>9 DEF TypeInv, TypeOK
  <2>2. \A u \in Task : Binding(u)' /\ job'[u].port = q => u # t /\ Binding(u) /\ job[u].port = q
    BY <1>2, <1>3, <1>7, <1>9
  <2>3. \A u \in Task : Binding(u) /\ job[u].port = q => Binding(u)' /\ job'[u] = job[u]
    BY <1>3, <1>7
  <2>4. BoundOnce(q)'
    BY <1>9, <2>1, <2>2 DEF Tracked, BoundOnce
  <2>5. Accounted(q)'
    <3> SUFFICES ASSUME NEW l \in Listener
                 PROVE  l \in bound'[q] <=>
                            l \in servers'[q] \/ \E u \in Task : Binding(u)' /\ job'[u].port = q /\ l = Opened(job'[u])
      BY DEF Accounted, Opened
    <3>1. l \in bound[q] <=>
              l \in servers[q] \/ \E u \in Task : Binding(u) /\ job[u].port = q /\ l = Opened(job[u])
      BY <1>9 DEF Tracked, Accounted
    <3>2. QED
      BY <1>3, <2>1, <2>2, <2>3, <3>1
  <2>6. QED
    BY <2>4, <2>5 DEF Tracked
<1>10. ASSUME Tracked(p), bound[p] = {} PROVE Tracked(p)'
  <2>1. servers[p] = {} /\ \A u \in Task : Binding(u) => job[u].port # p
    <3>1. \A l \in Listener : l \notin servers[p]
      BY <1>1, <1>10 DEF Tracked, Accounted
    <3>2. ASSUME NEW u \in Task, Binding(u), job[u].port = p PROVE FALSE
      BY <1>1, <1>10, <3>2 DEF Tracked, Accounted, TypeInv, TodoHasRules
    <3>3. servers[p] \subseteq Listener
      BY <1>1 DEF TypeInv, TypeOK
    <3>4. QED
      BY <3>1, <3>2, <3>3
  <2>2. \A u \in Task : Binding(u)' /\ job'[u].port = p <=> u = t
    BY <1>2, <1>3, <1>7, <2>1
  <2>3. BoundOnce(p)'
    BY <1>5, <2>1, <2>2 DEF BoundOnce
  <2>4. bound'[p] = {Listens[tab[p]]} /\ servers'[p] = {}
    BY <1>1, <1>5, <1>10, <2>1 DEF TypeInv, TypeOK
  <2>5. Accounted(p)'
    <3> SUFFICES ASSUME NEW l \in Listener
                 PROVE  l \in bound'[p] <=>
                            l \in servers'[p] \/ \E u \in Task : Binding(u)' /\ job'[u].port = p /\ l = Opened(job'[u])
      BY DEF Accounted, Opened
    <3>1. QED
      BY <2>2, <2>4, <1>3, <1>4
  <2>6. QED
    BY <2>3, <2>5 DEF Tracked
<1>11. QED
  BY <1>6, <1>8, <1>9, <1>10 DEF TypeInv

\* The bound socket is recorded.
LEMMA RecordStep ==
    ASSUME TypeInv, NEW t \in Task, Binding(t), NEW j, Between(j),
           job' = [job EXCEPT ![t] = j], StoreType,
           servers' = [servers EXCEPT ![job[t].port] = {Opened(job[t])}], UNCHANGED <<bound, held>>
    PROVE  TypeInv' /\ \A q \in Port : Tracked(q) => Tracked(q)'
<1> DEFINE p == job[t].port
<1>1. p \in Port /\ Opened(job[t]) \in Listener
  BY DEF TypeInv, TodoHasRules
<1>2. SocketType
  BY <1>1 DEF SocketType, TypeInv, TypeOK
<1>3. /\ TypeInv' /\ ~Binding(t)' /\ job'[t] = j
      /\ \A u \in Task : u # t => job'[u] = job[u]
  BY <1>2, TypesStep
<1>4. \A u \in Task : u # t => (Binding(u)' <=> Binding(u))
  BY <1>3 DEF Binding
<1>5. /\ servers'[p] = {Opened(job[t])}
      /\ \A q \in Port : q # p => servers'[q] = servers[q]
  BY <1>1 DEF TypeInv, TypeOK
<1>6. ASSUME NEW q \in Port, Tracked(q) PROVE Tracked(q)'
  <2>1. \A u \in Task : Binding(u)' => u # t /\ Binding(u) /\ job'[u] = job[u]
    BY <1>3, <1>4
  <2>2. q = p => servers[p] = {} /\ \A u \in Task : u # t /\ Binding(u) => job[u].port # p
    BY <1>6 DEF Tracked, BoundOnce
  <2>3. BoundOnce(q)'
    BY <1>5, <1>6, <2>1, <2>2 DEF Tracked, BoundOnce
  <2>4. Accounted(q)'
    <3> SUFFICES ASSUME NEW l \in Listener
                 PROVE  l \in bound'[q] <=>
                            l \in servers'[q] \/ \E u \in Task : Binding(u)' /\ job'[u].port = q /\ l = Opened(job'[u])
      BY DEF Accounted, Opened
    <3>1. l \in bound[q] <=>
              l \in servers[q] \/ \E u \in Task : Binding(u) /\ job[u].port = q /\ l = Opened(job[u])
      BY <1>6 DEF Tracked, Accounted
    <3>2. CASE q # p
      BY <3>1, <3>2, <1>3, <1>4, <1>5
    <3>3. CASE q = p
      <4>1. ~\E u \in Task : Binding(u)' /\ job'[u].port = p
        BY <2>1, <2>2, <3>3
      <4>2. l \in bound[p] <=> l = Opened(job[t])
        BY <3>1, <3>3, <2>2
      <4>3. QED
        BY <3>3, <4>1, <4>2, <1>5
    <3>4. QED
      BY <3>2, <3>3
  <2>5. QED
    BY <2>3, <2>4 DEF Tracked
<1>7. QED
  BY <1>3, <1>6

-----------------------------------------------------------------------------
(* The steps of start and apply, as the kinds of step above.                *)

LEMMA BetweenJobs ==
    ASSUME NEW old \in Table, NEW new \in Table
    PROVE  /\ Between(Idle)
           /\ \A todo \in SUBSET Ports(new), started \in SUBSET Port :
                 Between(Starting(old, new, todo, started))
           /\ \A todo \in SUBSET Ports(old) : Between(Restoring(old, new, todo))
           /\ \A todo \in SUBSET Port, started \in SUBSET Port, stage \in {"stopping", "unwinding"} :
                 Between(Job(stage, old, new, todo, NoPort, started))
<1> USE DEF Between
<1>1. Between(Idle)
  BY IdleJob
<1>2. Ports(new) \in SUBSET Port /\ Ports(old) \in SUBSET Port
  BY DEF Ports
<1>3. ASSUME NEW todo \in SUBSET Ports(new), NEW started \in SUBSET Port
      PROVE  Between(Starting(old, new, todo, started))
  BY <1>1, <1>2, StartingJob
<1>4. ASSUME NEW todo \in SUBSET Ports(old) PROVE Between(Restoring(old, new, todo))
  BY <1>1, <1>2, RestoringJob
<1>5. ASSUME NEW todo \in SUBSET Port, NEW started \in SUBSET Port, NEW stage \in {"stopping", "unwinding"}
      PROVE  Between(Job(stage, old, new, todo, NoPort, started))
  BY JobType DEF Stages
<1>6. QED
  BY <1>1, <1>3, <1>4, <1>5

LEMMA StoppingStep ==
    ASSUME TypeInv, NEW t \in Task, ~Binding(t), NEW old \in Table, NEW new \in Table,
           NEW todo \in SUBSET Port, Stopping(t, old, new, todo), UNCHANGED life, overlap' \in BOOLEAN
    PROVE  TypeInv' /\ \A q \in Port : Tracked(q) => Tracked(q)'
<1>1. CASE todo # {}
  <2>1. PICK p \in todo : /\ StopPort(t, p)
                          /\ job' = [job EXCEPT ![t] = Job("stopping", old, new, todo \ {p}, NoPort, {})]
    BY <1>1 DEF Stopping
  <2>2. StoreType
    BY <1>1 DEF Stopping, StoreType, store, TypeInv, TypeOK
  <2>3. Between(Job("stopping", old, new, todo \ {p}, NoPort, {}))
    BY BetweenJobs
  <2>4. QED
    BY <2>1, <2>2, <2>3, StopStep
<1>2. CASE todo = {}
  <2>1. StoreType
    BY <1>2 DEF Stopping, Replace, StoreType, TypeInv, TypeOK
  <2>2. Between(Starting(old, new, ToStart(old, new), {}))
    BY BetweenJobs, DiffPorts
  <2>3. QED
    BY <1>2, <2>1, <2>2, QuietStep DEF Stopping
<1>3. QED
  BY <1>1, <1>2

LEMMA UnwindingStep ==
    ASSUME TypeInv, NEW t \in Task, ~Binding(t), NEW old \in Table, NEW new \in Table,
           NEW started \in SUBSET Port, Unwinding(t, old, new, started), overlap' \in BOOLEAN
    PROVE  TypeInv' /\ \A q \in Port : Tracked(q) => Tracked(q)'
<1>1. CASE started # {}
  <2>1. PICK p \in started : /\ StopPort(t, p)
                             /\ job' = [job EXCEPT ![t] = Job("unwinding", old, new, {}, NoPort, started \ {p})]
    BY <1>1 DEF Unwinding
  <2>2. StoreType
    BY <1>1 DEF Unwinding, StoreType, store, TypeInv, TypeOK
  <2>3. Between(Job("unwinding", old, new, {}, NoPort, started \ {p}))
    BY BetweenJobs
  <2>4. QED
    BY <2>1, <2>2, <2>3, StopStep
<1>2. CASE started = {}
  <2>1. StoreType
    BY <1>2 DEF Unwinding, Replace, StoreType, TypeInv, TypeOK
  <2>2. Between(Restoring(old, new, ToStop(old, new))) /\ Between(Idle)
    BY BetweenJobs, DiffPorts
  <2>3. QED
    BY <1>2, <2>1, <2>2, QuietStep DEF Unwinding
<1>3. QED
  BY <1>1, <1>2

\* What every step of any coroutine keeps.
LEMMA CoroutineStep ==
    ASSUME TypeInv, NEW t \in Task, Step(t), overlap' \in BOOLEAN
    PROVE  TypeInv' /\ \A q \in Port : Tracked(q) /\ BindsFree(t, q) => Tracked(q)'
<1>1. /\ job[t] \in Jobs
      /\ job[t].old \in Table /\ job[t].new \in Table
      /\ job[t].todo \in SUBSET Port /\ job[t].started \in SUBSET Port
      /\ job[t].stage = "restoring" => job[t].todo \subseteq Ports(job[t].old)
      /\ job[t].stage = "recording" => job[t].todo \subseteq Ports(job[t].new) /\ job[t].port \in Port
      /\ job[t].stage = "rerecording" => job[t].todo \subseteq Ports(job[t].old)
  BY DEF TypeInv, TypeOK, Jobs, TodoHasRules, Binding
<1>2. CASE GoOnStopping(t)
  BY <1>1, <1>2, StoppingStep DEF GoOnStopping, Binding
<1>3. CASE GoOnUnwinding(t)
  BY <1>1, <1>3, UnwindingStep DEF GoOnUnwinding, Binding
<1>4. CASE BindNew(t)
  <2>1. PICK p \in job[t].todo : Bind(t, p, job[t].new, "recording")
    BY <1>4 DEF BindNew
  <2>2. TypeInv' /\ \A q \in Port : Tracked(q) /\ (q = p => bound[p] = {}) => Tracked(q)'
    BY <1>1, <1>4, <2>1, BindStep DEF BindNew
  <2>3. BindsFree(t, p) => bound[p] = {}
    BY <1>4, <2>1 DEF BindNew, BindsFree, Bind
  <2>4. QED
    BY <2>2, <2>3
<1>5. CASE BindFails(t)
  BY <1>1, <1>5, UnwindingStep DEF BindFails, Binding
<1>6. CASE BindOld(t)
  <2>1. PICK p \in job[t].todo : Bind(t, p, job[t].old, "rerecording")
    BY <1>6 DEF BindOld
  <2>2. TypeInv' /\ \A q \in Port : Tracked(q) /\ (q = p => bound[p] = {}) => Tracked(q)'
    BY <1>1, <1>6, <2>1, BindStep DEF BindOld
  <2>3. BindsFree(t, p) => bound[p] = {}
    BY <1>6, <2>1 DEF BindOld, BindsFree, Bind
  <2>4. QED
    BY <2>2, <2>3
<1>7. CASE RestoreFails(t)
  <2>1. PICK p \in job[t].todo :
           job' = [job EXCEPT ![t] = Restoring(job[t].old, job[t].new, job[t].todo \ {p})]
    BY <1>7 DEF RestoreFails
  <2>2. Between(Restoring(job[t].old, job[t].new, job[t].todo \ {p})) /\ ~Binding(t)
    BY <1>1, <1>7, BetweenJobs DEF RestoreFails, Binding
  <2>3. StoreType
    BY <1>7 DEF RestoreFails, StoreType, store, TypeInv, TypeOK
  <2>4. QED
    BY <1>7, <2>1, <2>2, <2>3, QuietStep DEF RestoreFails
<1>8. CASE Record(t)
  <2> DEFINE j == Starting(job[t].old, job[t].new, job[t].todo, job[t].started \cup {job[t].port})
  <2>1. job' = [job EXCEPT ![t] = j] /\ Binding(t)
    BY <1>8 DEF Record, Binding
  <2>2. Between(j)
    BY <1>1, <1>8, BetweenJobs DEF Record
  <2>3. StoreType
    BY <1>8 DEF Record, StoreType, store, TypeInv, TypeOK
  <2>4. QED
    BY <1>8, <2>1, <2>2, <2>3, RecordStep DEF Record
<1>9. CASE Rerecord(t)
  <2> DEFINE j == Restoring(job[t].old, job[t].new, job[t].todo)
  <2>1. job' = [job EXCEPT ![t] = j] /\ Binding(t)
    BY <1>9 DEF Rerecord, Binding
  <2>2. Between(j)
    BY <1>1, <1>9, BetweenJobs DEF Rerecord
  <2>3. StoreType
    BY <1>9 DEF Rerecord, StoreType, store, TypeInv, TypeOK
  <2>4. QED
    BY <1>9, <2>1, <2>2, <2>3, RecordStep DEF Rerecord
<1>10. QED
  BY <1>2, <1>3, <1>4, <1>5, <1>6, <1>7, <1>8, <1>9 DEF Step

\* A coroutine that moves is not idle, and moves alone.
LEMMA StepMoves ==
    ASSUME TypeInv, NEW t \in Task, Step(t)
    PROVE  /\ job[t] # Idle
           /\ \A u \in Task : u # t => job'[u] = job[u]
           /\ \/ life' = life
              \/ life' = "up"
              \/ life = "booting" /\ life' = "down" /\ job'[t] = Idle
<1>1. job \in [Task -> Jobs] /\ life \in {"down", "booting", "up"}
  BY DEF TypeInv, TypeOK, Jobs
<1>2. CASE GoOnStopping(t)
  BY <1>1, <1>2, IdleJob DEF GoOnStopping, Stopping
<1>3. CASE GoOnUnwinding(t)
  BY <1>1, <1>3, IdleJob DEF GoOnUnwinding, Unwinding
<1>4. CASE BindNew(t) \/ BindOld(t)
  BY <1>1, <1>4, IdleJob DEF BindNew, BindOld, Bind
<1>5. CASE BindFails(t)
  BY <1>1, <1>5, IdleJob DEF BindFails, Unwinding
<1>6. CASE RestoreFails(t) \/ Record(t) \/ Rerecord(t)
  BY <1>1, <1>6, IdleJob DEF RestoreFails, Record, Rerecord
<1>7. QED
  BY <1>2, <1>3, <1>4, <1>5, <1>6 DEF Step

\* The server is brought up by one coroutine; only then others run.
LEMMA AloneStep ==
    ASSUME TypeInv, BootsAlone, [Next]_vars PROVE BootsAlone'
<1>1. job \in [Task -> Jobs] /\ life \in {"down", "booting", "up"}
  BY DEF TypeInv, TypeOK, Jobs
<1>2. ASSUME NEW t \in Task, Boot(t), UNCHANGED overlap PROVE BootsAlone'
  BY <1>1, <1>2 DEF Boot, BootsAlone, Settled
<1>3. ASSUME NEW t \in Task, NEW target \in Offers, Apply(t, target) PROVE BootsAlone'
  BY <1>3 DEF Apply, BootsAlone
<1>4. ASSUME NEW t \in Task, Step(t), UNCHANGED overlap PROVE BootsAlone'
  <2>1. /\ job[t] # Idle
        /\ \A u \in Task : u # t => job'[u] = job[u]
        /\ \/ life' = life
           \/ life' = "up"
           \/ life = "booting" /\ life' = "down" /\ job'[t] = Idle
    BY <1>4, StepMoves
  <2>2. QED
    BY <1>1, <1>4, <2>1 DEF BootsAlone, Settled
<1>5. CASE Crash
  BY <1>5 DEF Crash, BootsAlone, Settled
<1>6. ASSUME NEW t \in Task, VisitorsLeave(t), UNCHANGED overlap PROVE BootsAlone'
  BY <1>6 DEF VisitorsLeave, BootsAlone, Settled
<1>7. CASE UNCHANGED vars
  BY <1>7 DEF vars, BootsAlone, Settled
<1>8. QED
  BY <1>2, <1>3, <1>4, <1>5, <1>6, <1>7 DEF Next

\* Types are kept by every step, and so is the account of the sockets of a
\* port while it is bound only when nothing listens there.
LEMMA EveryStep ==
    ASSUME TypeInv, BootsAlone, [Next]_vars
    PROVE  /\ TypeInv' /\ BootsAlone'
           /\ \A q \in Port : Tracked(q) /\ (\A t \in Task : BindsFree(t, q)) => Tracked(q)'
<1> DEFINE Kept == /\ TypeInv'
                   /\ \A q \in Port : Tracked(q) /\ (\A t \in Task : BindsFree(t, q)) => Tracked(q)'
<1>0. overlap \in BOOLEAN
  BY DEF TypeInv, TypeOK
<1>1. ASSUME NEW t \in Task, Boot(t), UNCHANGED overlap PROVE Kept
  <2> DEFINE eff == IF disk = Empty THEN Seed ELSE disk
  <2>1. eff \in Table /\ disk \in Table /\ Ports(eff) \in SUBSET Port
    BY MappingAssumption DEF TypeInv, TypeOK, Ports
  <2>2. Between(Job("starting", disk, eff, Ports(eff), NoPort, {}))
    BY <2>1, JobType DEF Between, Stages
  <2>3. StoreType
    BY <1>0, <1>1, <2>1 DEF Boot, Replace, StoreType, TypeInv, TypeOK
  <2>4. job' = [job EXCEPT ![t] = Job("starting", disk, eff, Ports(eff), NoPort, {})]
    BY <1>1 DEF Boot
  <2>5. ~Binding(t)
    BY <1>1, IdleJob DEF Boot, Binding, BootsAlone, Settled
  <2>6. QED
    BY <1>1, <2>2, <2>3, <2>4, <2>5, QuietStep DEF Boot
<1>2. ASSUME NEW t \in Task, NEW target \in Offers, Apply(t, target) PROVE Kept
  <2>1. rules \in Table /\ target \in Table /\ ToStop(rules, target) \in SUBSET Port
    BY MappingAssumption DEF TypeInv, TypeOK, ToStop, Removed, Changed, Ports
  <2>2. ~Binding(t) /\ overlap' \in BOOLEAN
    BY <1>0, <1>2, IdleJob DEF Apply, Binding
  <2>3. QED
    BY <1>2, <2>1, <2>2, StoppingStep DEF Apply
<1>3. ASSUME NEW t \in Task, Step(t), UNCHANGED overlap PROVE Kept
  BY <1>0, <1>3, CoroutineStep
<1>4. ASSUME NEW t \in Task, VisitorsLeave(t), UNCHANGED overlap PROVE Kept
  BY <1>4 DEF VisitorsLeave, store, TypeInv, TypeOK, TodoHasRules, Tracked, BoundOnce, Accounted,
              Binding, Opened
<1>5. ASSUME Crash PROVE Kept
  <2>1. \A t \in Task : job'[t] = Idle
    BY <1>5 DEF Crash
  <2>2. TypeOK'
    BY <1>5, IdleJob, EmptyTable DEF Crash, TypeInv, TypeOK, Jobs
  <2>3. \A t \in Task : ~Binding(t)'
    BY <2>1, IdleJob DEF Binding
  <2>4. TodoHasRules'
    BY <2>1, <2>3, IdleJob DEF TodoHasRules
  <2>5. \A q \in Port : Tracked(q)'
    BY <1>5, <2>3 DEF Crash, Tracked, BoundOnce, Accounted
  <2>6. QED
    BY <2>2, <2>4, <2>5 DEF TypeInv
<1>6. ASSUME UNCHANGED vars PROVE Kept
  BY <1>6 DEF vars, TypeInv, TypeOK, TodoHasRules, Tracked, BoundOnce, Accounted, Binding, Opened
<1>7. BootsAlone'
  BY AloneStep
<1>8. QED
  BY <1>1, <1>2, <1>3, <1>4, <1>5, <1>6, <1>7 DEF Next

LEMMA InitialState == Init => SocketInv /\ BootsAlone
<1> SUFFICES ASSUME Init PROVE SocketInv /\ BootsAlone
  OBVIOUS
<1>1. \A t \in Task : job[t] = Idle /\ ~Binding(t)
  BY IdleJob DEF Init, Binding
<1>2. TypeOK
  BY IdleJob, EmptyTable DEF Init, TypeOK, Jobs
<1>3. TodoHasRules /\ \A p \in Port : Tracked(p)
  BY <1>1, IdleJob DEF Init, TodoHasRules, Tracked, BoundOnce, Accounted
<1>4. QED
  BY <1>1, <1>2, <1>3 DEF Init, SocketInv, TypeInv, BootsAlone, Settled

\* Every variable keeps its type.
THEOREM MappingTypes == Spec => []TypeOK
<1>1. Init => TypeInv /\ BootsAlone
  BY InitialState DEF SocketInv
<1>2. TypeInv /\ BootsAlone /\ [Next]_vars => (TypeInv /\ BootsAlone)'
  BY EveryStep
<1>3. TypeInv => TypeOK
  BY DEF TypeInv
<1>4. QED
  BY <1>1, <1>2, <1>3, PTL DEF Spec

-----------------------------------------------------------------------------
(* Changes that do not overlap: one coroutine at a time.                    *)

\* What is bound is what the table tab asks for.
Fits(tab) == \A p \in Port : bound[p] # {} => tab[p] # NoRule /\ bound[p] = {Listens[tab[p]]}

\* The ports a starting coroutine has bound so far.
Fresh(j) == j.started \cup (IF j.stage = "recording" THEN {j.port} ELSE {})

StopsOnly(old, new, todo) ==
    /\ rules = old
    /\ Fits(old)
    /\ todo \subseteq ToStop(old, new)
    /\ \A p \in ToStop(old, new) \ todo : bound[p] = {}

StartsOnly(j) ==
    /\ rules = j.new
    /\ Fits(j.new)
    /\ life = "booting" => \A p \in Port : bound[p] # {} => p \in Fresh(j)
    /\ life = "up" => /\ j.todo \subseteq ToStart(j.old, j.new)
                     /\ Fresh(j) \subseteq ToStart(j.old, j.new)
                     /\ \A p \in ToStart(j.old, j.new) : bound[p] # {} => p \in Fresh(j)

UnwindsOnly(old, new, started) ==
    /\ life = "booting" => \A p \in Port : bound[p] # {} => p \in started
    /\ life = "up" => /\ started \subseteq ToStart(old, new)
                     /\ \A p \in Port : bound[p] # {} =>
                           p \in started \/ (old[p] # NoRule /\ bound[p] = {Listens[old[p]]})

RestoresOnly(old) == rules = old /\ Fits(old) /\ (Durable /\ ~unsaved => disk = old)

\* What holds between two steps of a coroutine that is alone.
Alone(t) ==
    /\ job[t].stage = "stopping" => life = "up" /\ StopsOnly(job[t].old, job[t].new, job[t].todo)
    /\ job[t].stage \in {"starting", "recording"} => life \in {"up", "booting"} /\ StartsOnly(job[t])
    /\ job[t].stage = "unwinding" => /\ life \in {"up", "booting"}
                                     /\ UnwindsOnly(job[t].old, job[t].new, job[t].started)
    /\ job[t].stage \in {"restoring", "rerecording"} => life = "up" /\ RestoresOnly(job[t].old)
    /\ job[t].stage = "idle" /\ life = "up" /\ Settled => Fits(rules)

NothingBound == life = "down" => \A p \in Port : bound[p] = {}
OneAtATime == \A t, u \in Task : job[t] # Idle /\ job[u] # Idle => t = u

SerialInv == SocketInv /\ BootsAlone /\ NothingBound /\ OneAtATime /\ \A t \in Task : Alone(t)

\* No coroutine but t is in start or apply.
Only(t) == \A u \in Task : u # t => job[u] = Idle

LEMMA DiffKeeps ==
    ASSUME NEW o \in Table, NEW n \in Table, NEW p \in Port
    PROVE  /\ o[p] # NoRule /\ p \notin ToStop(o, n) => n[p] # NoRule /\ Listens[n[p]] = Listens[o[p]]
           /\ n[p] # NoRule /\ p \notin ToStart(o, n) => o[p] # NoRule /\ Listens[n[p]] = Listens[o[p]]
           /\ p \in ToStart(o, n) => o[p] = NoRule \/ p \in ToStop(o, n)
  BY DEF ToStop, ToStart, Added, Removed, Changed, Ports

\* Nobody is about to record a socket, so stop_port closes whatever is bound.
LEMMA StopCloses ==
    ASSUME SocketInv, NEW t \in Task, NEW p \in Port, StopPort(t, p), \A u \in Task : ~Binding(u)
    PROVE  bound'[p] = {} /\ \A q \in Port : q # p => bound'[q] = bound[q]
<1>1. \A l \in Listener : l \in bound[p] <=> l \in servers[p]
  BY DEF SocketInv, Tracked, Accounted
<1>2. QED
  BY <1>1 DEF SocketInv, TypeInv, TypeOK, StopPort

LEMMA StoppingAlone ==
    ASSUME SerialInv, NEW t \in Task, Only(t), ~Binding(t),
           NEW old \in Table, NEW new \in Table, NEW todo \in SUBSET Port,
           StopsOnly(old, new, todo), Stopping(t, old, new, todo), life = "up", UNCHANGED life
    PROVE  Alone(t)'
<1>1. job \in [Task -> Jobs] /\ \A u \in Task : ~Binding(u)
  BY IdleJob DEF SerialInv, SocketInv, TypeInv, TypeOK, Jobs, Only, Binding
<1>2. CASE todo # {}
  <2>1. PICK p \in todo : /\ StopPort(t, p)
                          /\ job' = [job EXCEPT ![t] = Job("stopping", old, new, todo \ {p}, NoPort, {})]
                          /\ UNCHANGED store
    BY <1>2 DEF Stopping
  <2>2. bound'[p] = {} /\ \A q \in Port : q # p => bound'[q] = bound[q]
    BY <2>1, <1>1, StopCloses DEF SerialInv
  <2>3. StopsOnly(old, new, todo \ {p})'
    BY <2>1, <2>2, DiffPorts DEF StopsOnly, Fits, store
  <2>4. /\ job'[t].stage = "stopping" /\ job'[t].old = old /\ job'[t].new = new
        /\ job'[t].todo = todo \ {p}
    BY <1>1, <2>1, JobType DEF Stages
  <2>5. StopsOnly(job[t].old, job[t].new, job[t].todo)'
    BY <2>3, <2>4 DEF StopsOnly, Fits
  <2>6. QED
    BY <2>4, <2>5 DEF Alone
<1>3. CASE todo = {}
  <2> DEFINE j == Starting(old, new, ToStart(old, new), {})
  <2>1. rules' = new /\ job' = [job EXCEPT ![t] = j] /\ UNCHANGED bound
    BY <1>3 DEF Stopping, Replace, sockets
  <2>2. Fits(new)' /\ \A p \in ToStart(old, new) : bound'[p] = {}
    BY <2>1, <1>3, DiffKeeps, DiffPorts DEF StopsOnly, Fits
  <2>3. job'[t] = j
    BY <1>1, <2>1
  <2>4. CASE ToStart(old, new) = {}
    <3>1. job'[t].stage = "idle"
      BY <2>3, <2>4, IdleJob DEF Starting
    <3>2. QED
      BY <3>1, <2>1, <2>2 DEF Alone, Fits
  <2>5. CASE ToStart(old, new) # {}
    <3>1. /\ job'[t].stage = "starting" /\ job'[t].old = old /\ job'[t].new = new
          /\ job'[t].todo = ToStart(old, new) /\ job'[t].started = {}
      BY <2>3, <2>5, StartingJob, DiffPorts
    <3>2. Fresh(job'[t]) = {}
      BY <3>1 DEF Fresh
    <3>3. StartsOnly(job[t])'
      BY <3>1, <3>2, <2>1, <2>2 DEF StartsOnly, Fits, Fresh
    <3>4. QED
      BY <3>1, <3>3 DEF Alone
  <2>6. QED
    BY <2>4, <2>5
<1>4. QED
  BY <1>2, <1>3

LEMMA UnwindingAlone ==
    ASSUME SerialInv, NEW t \in Task, Only(t), ~Binding(t),
           NEW old \in Table, NEW new \in Table, NEW started \in SUBSET Port,
           UnwindsOnly(old, new, started), Unwinding(t, old, new, started),
           life \in {"up", "booting"}
    PROVE  Alone(t)' /\ NothingBound'
<1>1. job \in [Task -> Jobs] /\ \A u \in Task : ~Binding(u)
  BY IdleJob DEF SerialInv, SocketInv, TypeInv, TypeOK, Jobs, Only, Binding
<1>2. CASE started # {}
  <2>1. PICK p \in started : /\ StopPort(t, p)
                             /\ job' = [job EXCEPT ![t] = Job("unwinding", old, new, {}, NoPort, started \ {p})]
                             /\ UNCHANGED <<store, life>>
    BY <1>2 DEF Unwinding
  <2>2. bound'[p] = {} /\ \A q \in Port : q # p => bound'[q] = bound[q]
    BY <2>1, <1>1, StopCloses DEF SerialInv
  <2>3. /\ job'[t].stage = "unwinding" /\ job'[t].old = old /\ job'[t].new = new
        /\ job'[t].started = started \ {p}
    BY <1>1, <2>1, JobType DEF Stages
  <2>4. UnwindsOnly(job[t].old, job[t].new, job[t].started)'
    BY <2>1, <2>2, <2>3 DEF UnwindsOnly
  <2>5. QED
    BY <2>1, <2>3, <2>4 DEF Alone, NothingBound
<1>3. CASE started = {} /\ life = "up"
  <2> DEFINE j == Restoring(old, new, ToStop(old, new))
  <2>1. Replace(old) /\ job' = [job EXCEPT ![t] = j] /\ UNCHANGED <<bound, life>>
    BY <1>3 DEF Unwinding, sockets
  <2>2. rules' = old /\ (Durable /\ ~unsaved' => disk' = old)
    BY <2>1 DEF Replace
  <2>3. Fits(old)'
    BY <1>3, <2>1 DEF UnwindsOnly, Fits
  <2>4. job'[t] = j
    BY <1>1, <2>1
  <2>5. CASE ToStop(old, new) = {}
    <3>1. job'[t].stage = "idle"
      BY <2>4, <2>5, IdleJob DEF Restoring
    <3>2. QED
      BY <3>1, <2>1, <2>2, <2>3, <1>3 DEF Alone, Fits, NothingBound
  <2>6. CASE ToStop(old, new) # {}
    <3>1. job'[t].stage = "restoring" /\ job'[t].old = old
      BY <2>4, <2>6, RestoringJob, DiffPorts
    <3>2. RestoresOnly(job[t].old)'
      BY <3>1, <2>2, <2>3 DEF RestoresOnly, Fits
    <3>3. QED
      BY <3>1, <3>2, <2>1, <1>3 DEF Alone, NothingBound
  <2>7. QED
    BY <2>5, <2>6
<1>4. CASE started = {} /\ life = "booting"
  BY <1>1, <1>4, IdleJob DEF Unwinding, UnwindsOnly, Alone, NothingBound, sockets
<1>5. QED
  BY <1>2, <1>3, <1>4

\* A failed bind finds the listeners of the old table and the fresh ones.
LEMMA StartsThenUnwinds ==
    ASSUME NEW j, j.old \in Table, j.new \in Table, j.stage = "starting", StartsOnly(j)
    PROVE  UnwindsOnly(j.old, j.new, j.started)
<1>1. Fresh(j) = j.started
  BY DEF Fresh
<1>2. ASSUME life = "up", NEW p \in Port, bound[p] # {}, p \notin j.started
      PROVE  j.old[p] # NoRule /\ bound[p] = {Listens[j.old[p]]}
  <2>1. p \notin ToStart(j.old, j.new) /\ j.new[p] # NoRule /\ bound[p] = {Listens[j.new[p]]}
    BY <1>1, <1>2 DEF StartsOnly, Fits
  <2>2. QED
    BY <2>1, DiffKeeps
<1>3. life = "booting" => \A p \in Port : bound[p] # {} => p \in j.started
  BY <1>1 DEF StartsOnly
<1>4. life = "up" => j.started \subseteq ToStart(j.old, j.new)
  BY <1>1 DEF StartsOnly
<1>5. life = "up" => \A p \in Port : bound[p] # {} =>
         p \in j.started \/ (j.old[p] # NoRule /\ bound[p] = {Listens[j.old[p]]})
  BY <1>2
<1>6. QED
  BY <1>3, <1>4, <1>5 DEF UnwindsOnly

\* A lone coroutine binds only where nothing listens: what listens there would
\* be the very listener it binds, and one address is not bound twice.
LEMMA FreeWhenFit ==
    ASSUME SocketInv, NEW tab \in Table, Fits(tab), NEW p \in Port, tab[p] \in Rule,
           Beside(p, Listens[tab[p]])
    PROVE  bound[p] = {}
  BY MappingAssumption DEF Fits, Beside, SocketInv, TypeInv, TypeOK

LEMMA AloneBindsFree ==
    ASSUME SerialInv, NEW t \in Task, NEW p \in Port PROVE BindsFree(t, p)
<1>1. /\ Alone(t) /\ job[t].old \in Table /\ job[t].new \in Table
      /\ job[t].stage = "starting" => job[t].todo \subseteq Ports(job[t].new)
      /\ job[t].stage = "restoring" => job[t].todo \subseteq Ports(job[t].old)
  BY DEF SerialInv, SocketInv, TypeInv, TypeOK, TodoHasRules, Jobs
<1>2. \A q \in Ports(job[t].new) : q \in Port /\ job[t].new[q] \in Rule
  BY <1>1 DEF Ports, Table
<1>3. \A q \in Ports(job[t].old) : q \in Port /\ job[t].old[q] \in Rule
  BY <1>1 DEF Ports, Table
<1>4. ASSUME job[t].stage = "starting", p \in job[t].todo, Beside(p, Listens[job[t].new[p]])
      PROVE  bound[p] = {}
  BY <1>1, <1>2, <1>4, FreeWhenFit DEF Alone, StartsOnly, SerialInv
<1>5. ASSUME job[t].stage = "restoring", p \in job[t].todo, Beside(p, Listens[job[t].old[p]])
      PROVE  bound[p] = {}
  BY <1>1, <1>3, <1>5, FreeWhenFit DEF Alone, RestoresOnly, SerialInv
<1>6. QED
  BY <1>4, <1>5 DEF BindsFree

\* A lone coroutine keeps to its part of the change at each of its steps.
LEMMA StepAlone ==
    ASSUME SerialInv, NEW t \in Task, Only(t), Step(t)
    PROVE  Alone(t)' /\ NothingBound'
<1>1. /\ job \in [Task -> Jobs] /\ job[t] \in Jobs
      /\ job[t].old \in Table /\ job[t].new \in Table
      /\ job[t].todo \in SUBSET Port /\ job[t].started \in SUBSET Port
      /\ Alone(t)
  BY DEF SerialInv, SocketInv, TypeInv, TypeOK, Jobs
<1>2. CASE GoOnStopping(t)
  <2>1. ~Binding(t) /\ life = "up" /\ StopsOnly(job[t].old, job[t].new, job[t].todo)
        /\ Stopping(t, job[t].old, job[t].new, job[t].todo) /\ UNCHANGED life
    BY <1>1, <1>2 DEF GoOnStopping, Binding, Alone
  <2>2. Alone(t)'
    BY <1>1, <2>1, StoppingAlone
  <2>3. QED
    BY <2>1, <2>2 DEF NothingBound
<1>3. CASE GoOnUnwinding(t)
  <2>1. ~Binding(t) /\ life \in {"up", "booting"} /\ UnwindsOnly(job[t].old, job[t].new, job[t].started)
        /\ Unwinding(t, job[t].old, job[t].new, job[t].started)
    BY <1>1, <1>3 DEF GoOnUnwinding, Binding, Alone
  <2>2. QED
    BY <1>1, <2>1, UnwindingAlone
<1>4. CASE BindFails(t)
  <2>1. ~Binding(t) /\ life \in {"up", "booting"} /\ StartsOnly(job[t])
        /\ Unwinding(t, job[t].old, job[t].new, job[t].started) /\ job[t].stage = "starting"
    BY <1>1, <1>4 DEF BindFails, Binding, Alone
  <2>2. UnwindsOnly(job[t].old, job[t].new, job[t].started)
    BY <1>1, <2>1, StartsThenUnwinds
  <2>3. QED
    BY <1>1, <2>1, <2>2, UnwindingAlone
<1>5. CASE BindNew(t)
  <2>1. PICK p \in job[t].todo : Bind(t, p, job[t].new, "recording")
    BY <1>5 DEF BindNew
  <2>2. /\ job[t].stage = "starting" /\ life \in {"up", "booting"} /\ StartsOnly(job[t])
        /\ job[t].todo \subseteq Ports(job[t].new)
    BY <1>1, <1>5 DEF BindNew, Alone, SerialInv, SocketInv, TypeInv, TodoHasRules
  <2>3. /\ job'[t].stage = "recording" /\ job'[t].todo = job[t].todo \ {p} /\ job'[t].port = p
        /\ job'[t].old = job[t].old /\ job'[t].new = job[t].new /\ job'[t].started = job[t].started
    BY <1>1, <2>1 DEF Bind, Jobs
  <2>4. /\ bound'[p] = {Listens[job[t].new[p]]} /\ job[t].new[p] # NoRule
        /\ \A q \in Port : q # p => bound'[q] = bound[q]
        /\ life' = life /\ rules' = rules
    <3>1. bound[p] = {}
      BY <1>1, <2>1, <2>2, AloneBindsFree DEF Bind, BindsFree
    <3>2. QED
      BY <1>1, <2>1, <2>2, <3>1 DEF Bind, Ports, store, SerialInv, SocketInv, TypeInv, TypeOK
  <2>5. Fresh(job[t]) = job[t].started /\ Fresh(job[t])' = job[t].started \cup {p}
    BY <2>2, <2>3 DEF Fresh
  <2>6. Fits(job[t].new)'
    BY <2>2, <2>3, <2>4 DEF StartsOnly, Fits
  <2>7. CASE life = "booting"
    <3>1. \A q \in Port : bound'[q] # {} => q \in Fresh(job[t])'
      BY <2>2, <2>4, <2>5, <2>7 DEF StartsOnly
    <3>2. StartsOnly(job[t])'
      BY <2>2, <2>3, <2>4, <2>6, <2>7, <3>1 DEF StartsOnly
    <3>3. QED
      BY <2>3, <2>4, <2>7, <3>2 DEF Alone, NothingBound
  <2>8. CASE life = "up"
    <3>1. /\ job[t].todo \ {p} \subseteq ToStart(job[t].old, job[t].new)
          /\ job[t].started \cup {p} \subseteq ToStart(job[t].old, job[t].new)
      BY <2>2, <2>5, <2>8 DEF StartsOnly
    <3>2. ToStart(job[t].old, job[t].new) \in SUBSET Port
      BY <1>1, DiffPorts
    <3>3. \A q \in ToStart(job[t].old, job[t].new) : bound'[q] # {} => q \in job[t].started \cup {p}
      BY <2>2, <2>4, <2>5, <2>8, <3>2 DEF StartsOnly
    <3>4. StartsOnly(job[t])'
      BY <2>2, <2>3, <2>4, <2>5, <2>6, <2>8, <3>1, <3>3 DEF StartsOnly, ToStart, Added, Changed
    <3>5. QED
      BY <2>3, <2>4, <2>8, <3>4 DEF Alone, NothingBound
  <2>9. QED
    BY <2>2, <2>7, <2>8
<1>6. CASE BindOld(t)
  <2>1. PICK p \in job[t].todo : Bind(t, p, job[t].old, "rerecording")
    BY <1>6 DEF BindOld
  <2>2. /\ job[t].stage = "restoring" /\ life = "up" /\ RestoresOnly(job[t].old)
        /\ job[t].todo \subseteq Ports(job[t].old)
    BY <1>1, <1>6 DEF BindOld, Alone, SerialInv, SocketInv, TypeInv, TodoHasRules
  <2>3. job'[t].stage = "rerecording" /\ job'[t].old = job[t].old
    BY <1>1, <2>1 DEF Bind, Jobs
  <2>4. /\ bound'[p] = {Listens[job[t].old[p]]} /\ job[t].old[p] # NoRule
        /\ \A q \in Port : q # p => bound'[q] = bound[q]
        /\ life' = life /\ UNCHANGED store
    <3>1. bound[p] = {}
      BY <1>1, <2>1, <2>2, AloneBindsFree DEF Bind, BindsFree
    <3>2. QED
      BY <1>1, <2>1, <2>2, <3>1 DEF Bind, Ports, SerialInv, SocketInv, TypeInv, TypeOK
  <2>5. RestoresOnly(job[t].old)'
    BY <2>2, <2>3, <2>4 DEF RestoresOnly, Fits, store
  <2>6. QED
    BY <2>2, <2>3, <2>4, <2>5 DEF Alone, NothingBound
<1>7. CASE RestoreFails(t)
  <2>1. PICK todo \in SUBSET Port : job'[t] = Restoring(job[t].old, job[t].new, todo)
    BY <1>1, <1>7 DEF RestoreFails
  <2>2. life = "up" /\ RestoresOnly(job[t].old) /\ UNCHANGED <<life, store, sockets>>
    BY <1>1, <1>7 DEF RestoreFails, Alone
  <2>3. QED
    BY <1>1, <2>1, <2>2, RestoringJob, IdleJob DEF Alone, RestoresOnly, Fits, NothingBound, store, sockets
<1>8. CASE Record(t)
  <2> DEFINE started == job[t].started \cup {job[t].port}
  <2>1. /\ job[t].stage = "recording" /\ job[t].port \in Port
        /\ job'[t] = Starting(job[t].old, job[t].new, job[t].todo, started)
        /\ life' = IF life = "booting" /\ job[t].todo = {} THEN "up" ELSE life
        /\ UNCHANGED <<store, bound>>
    BY <1>1, <1>8 DEF Record, SerialInv, SocketInv, TypeInv, TodoHasRules, Binding
  <2>2. life \in {"up", "booting"} /\ StartsOnly(job[t]) /\ Fresh(job[t]) = started
    BY <1>1, <2>1 DEF Alone, Fresh
  <2>3. CASE job[t].todo = {}
    <3>1. job'[t].stage = "idle" /\ life' = "up"
      BY <2>1, <2>2, <2>3, IdleJob DEF Starting
    <3>2. QED
      BY <3>1, <2>1, <2>2 DEF Alone, StartsOnly, Fits, NothingBound, store
  <2>4. CASE job[t].todo # {}
    <3>1. /\ job'[t].stage = "starting" /\ job'[t].old = job[t].old /\ job'[t].new = job[t].new
          /\ job'[t].todo = job[t].todo /\ job'[t].started = started
      BY <1>1, <2>1, <2>4, StartingJob
    <3>2. Fresh(job[t])' = started
      BY <3>1 DEF Fresh
    <3>3. StartsOnly(job[t])'
      BY <2>1, <2>2, <2>4, <3>1, <3>2 DEF StartsOnly, Fits, store
    <3>4. QED
      BY <2>1, <2>2, <2>4, <3>1, <3>3 DEF Alone, NothingBound
  <2>5. QED
    BY <2>3, <2>4
<1>9. CASE Rerecord(t)
  <2>1. job'[t] = Restoring(job[t].old, job[t].new, job[t].todo)
    BY <1>1, <1>9 DEF Rerecord
  <2>2. life = "up" /\ RestoresOnly(job[t].old) /\ UNCHANGED <<life, store, bound>>
    BY <1>1, <1>9 DEF Rerecord, Alone
  <2>3. QED
    BY <1>1, <2>1, <2>2, RestoringJob, IdleJob DEF Alone, RestoresOnly, Fits, NothingBound, store
<1>10. QED
  BY <1>2, <1>3, <1>4, <1>5, <1>6, <1>7, <1>8, <1>9 DEF Step

\* Nothing a lone coroutine relies on changes.
LEMMA QuietAlone ==
    ASSUME SerialInv, UNCHANGED <<life, store, bound, servers, job>>
    PROVE  NothingBound' /\ OneAtATime' /\ \A t \in Task : Alone(t)'
  BY DEF store, SerialInv, NothingBound, OneAtATime, Alone, Settled, StopsOnly, StartsOnly,
         UnwindsOnly, RestoresOnly, Fits, Fresh

\* What a coroutine that is alone leaves when it moves holds of all.
LEMMA AllAlone ==
    ASSUME SerialInv, NEW t \in Task, Only(t), Alone(t)', \A u \in Task : u # t => job'[u] = job[u]
    PROVE  OneAtATime' /\ \A u \in Task : Alone(u)'
<1>1. OneAtATime' /\ \A u \in Task : u # t => job'[u] = Idle
  BY DEF Only, OneAtATime
<1>2. ASSUME NEW u \in Task, u # t PROVE Alone(u)'
  <2>1. job'[u].stage = "idle"
    BY <1>1, <1>2, IdleJob
  <2>2. Settled' => Fits(rules)' \/ life' # "up"
    BY IdleJob DEF Settled, Alone
  <2>3. QED
    BY <2>1, <2>2 DEF Alone
<1>3. QED
  BY <1>1, <1>2

\* As long as two changes are not under way at once, the invariant of a lone
\* coroutine is kept.
LEMMA SerialStep ==
    ASSUME SerialInv, Next, ~overlap' PROVE SerialInv'
<1>1. /\ job \in [Task -> Jobs] /\ OneAtATime
      /\ TypeInv /\ BootsAlone /\ NothingBound /\ \A t \in Task : Alone(t)
  BY DEF SerialInv, SocketInv, TypeInv, TypeOK, Jobs
<1>2. SocketInv' /\ BootsAlone'
  BY <1>1, EveryStep, AloneBindsFree DEF SerialInv, SocketInv
<1>3. ASSUME NEW t \in Task, Boot(t) PROVE NothingBound' /\ OneAtATime' /\ \A u \in Task : Alone(u)'
  <2> DEFINE eff == IF disk = Empty THEN Seed ELSE disk
  <2>1. eff \in Table /\ disk \in Table /\ Ports(eff) \in SUBSET Port
    BY <1>1, MappingAssumption DEF TypeInv, TypeOK, Ports
  <2>2. /\ job'[t] = Job("starting", disk, eff, Ports(eff), NoPort, {})
        /\ \A u \in Task : u # t => job'[u] = job[u]
        /\ life' = "booting" /\ rules' = eff
        /\ \A p \in Port : bound'[p] = {}
    BY <1>1, <1>3 DEF Boot, Replace, sockets, NothingBound
  <2>3. job'[t].stage = "starting" /\ job'[t].new = eff
    BY <2>1, <2>2, JobType DEF Stages
  <2>4. NothingBound' /\ Alone(t)'
    BY <2>2, <2>3 DEF NothingBound, Alone, StartsOnly, Fits
  <2>5. Only(t)
    BY <1>1, <1>3 DEF Only, BootsAlone, Settled, Boot
  <2>6. QED
    BY <2>2, <2>4, <2>5, AllAlone
<1>4. ASSUME NEW t \in Task, NEW target \in Offers, Apply(t, target)
      PROVE  NothingBound' /\ OneAtATime' /\ \A u \in Task : Alone(u)'
  <2>1. rules \in Table /\ target \in Table /\ ToStop(rules, target) \in SUBSET Port
    BY <1>1, MappingAssumption DEF TypeInv, TypeOK, ToStop, Removed, Changed, Ports
  <2>2. Only(t) /\ Settled
    BY <1>4 DEF Apply, Only, Settled
  <2>3. ~Binding(t) /\ life = "up" /\ life' = "up" /\ Fits(rules)
    BY <1>1, <1>4, <2>2, IdleJob DEF Apply, Binding, Alone
  <2>4. StopsOnly(rules, target, ToStop(rules, target))
    BY <2>3 DEF StopsOnly
  <2>5. Alone(t)'
    BY <1>4, <2>1, <2>2, <2>3, <2>4, StoppingAlone DEF Apply
  <2>6. \A u \in Task : u # t => job'[u] = job[u]
    BY <1>1, <1>4 DEF Apply, Stopping
  <2>7. QED
    BY <2>2, <2>3, <2>5, <2>6, AllAlone DEF NothingBound
<1>5. ASSUME NEW t \in Task, Step(t) PROVE NothingBound' /\ OneAtATime' /\ \A u \in Task : Alone(u)'
  <2>1. job[t] # Idle /\ \A u \in Task : u # t => job'[u] = job[u]
    BY <1>1, <1>5, StepMoves
  <2>2. Only(t)
    BY <1>1, <2>1 DEF Only, OneAtATime
  <2>3. QED
    BY <1>5, <2>1, <2>2, StepAlone, AllAlone
<1>6. CASE Crash
  <2>1. life' = "down" /\ \A t \in Task : job'[t] = Idle
    BY <1>6 DEF Crash
  <2>2. NothingBound' /\ OneAtATime'
    BY <1>6, <2>1 DEF Crash, NothingBound, OneAtATime
  <2>3. \A t \in Task : Alone(t)'
    BY <2>1, IdleJob DEF Alone
  <2>4. QED
    BY <1>2, <2>2, <2>3 DEF SerialInv
<1>7. ASSUME NEW t \in Task, VisitorsLeave(t)
      PROVE  NothingBound' /\ OneAtATime' /\ \A u \in Task : Alone(u)'
  BY <1>1, <1>7, QuietAlone DEF VisitorsLeave
<1>8. QED
  BY <1>2, <1>3, <1>4, <1>5, <1>6, <1>7 DEF SerialInv, Next

\* The formula of UntouchedKeepListening, for one coroutine and one port.
Untouched(t, p) ==
    LET j == job'[t]
    IN  /\ life = "up" /\ ~overlap' /\ j # Idle
        /\ p \in Ports(j.old) \cap Ports(j.new) /\ Listens[j.old[p]] = Listens[j.new[p]]
        /\ bound[p] # {}
        => bound'[p] = bound[p]

LEMMA SameListener ==
    ASSUME NEW o \in Table, NEW n \in Table, NEW p \in Port,
           p \in Ports(o) \cap Ports(n), Listens[o[p]] = Listens[n[p]]
    PROVE  p \notin ToStop(o, n) /\ p \notin ToStart(o, n)
  BY DEF ToStop, ToStart, Added, Removed, Changed, Ports

LEMMA StoppingUntouched ==
    ASSUME SerialInv, NEW t \in Task, NEW p \in Port, NEW old \in Table, NEW new \in Table,
           NEW todo \in SUBSET ToStop(old, new), Stopping(t, old, new, todo)
    PROVE  Untouched(t, p)
<1>1. job \in [Task -> Jobs] /\ todo \in SUBSET Port /\ bound \in [Port -> SUBSET Listener]
  BY DiffPorts DEF SerialInv, SocketInv, TypeInv, TypeOK, Jobs
<1>2. CASE todo # {}
  <2>1. PICK q \in todo : /\ StopPort(t, q)
                          /\ job' = [job EXCEPT ![t] = Job("stopping", old, new, todo \ {q}, NoPort, {})]
    BY <1>2 DEF Stopping
  <2>2. job'[t].old = old /\ job'[t].new = new
    BY <1>1, <2>1, JobType DEF Stages
  <2>3. p # q => bound'[p] = bound[p]
    BY <1>1, <2>1 DEF StopPort
  <2>4. QED
    BY <2>2, <2>3, SameListener DEF Untouched
<1>3. CASE todo = {}
  BY <1>3 DEF Stopping, sockets, Untouched
<1>4. QED
  BY <1>2, <1>3

LEMMA UnwindingUntouched ==
    ASSUME SerialInv, NEW t \in Task, NEW p \in Port, NEW old \in Table, NEW new \in Table,
           NEW started \in SUBSET Port, UnwindsOnly(old, new, started), Unwinding(t, old, new, started)
    PROVE  Untouched(t, p)
<1>1. job \in [Task -> Jobs] /\ bound \in [Port -> SUBSET Listener]
  BY DEF SerialInv, SocketInv, TypeInv, TypeOK, Jobs
<1>2. CASE started # {} /\ life = "up"
  <2>1. PICK q \in started : /\ StopPort(t, q)
                             /\ job' = [job EXCEPT ![t] = Job("unwinding", old, new, {}, NoPort, started \ {q})]
    BY <1>2 DEF Unwinding
  <2>2. job'[t].old = old /\ job'[t].new = new
    BY <1>1, <2>1, JobType DEF Stages
  <2>3. p # q => bound'[p] = bound[p]
    BY <1>1, <2>1 DEF StopPort
  <2>4. q \in ToStart(old, new)
    BY <1>2, <2>1 DEF UnwindsOnly
  <2>5. QED
    BY <2>2, <2>3, <2>4, SameListener DEF Untouched
<1>3. CASE started = {}
  BY <1>3 DEF Unwinding, sockets, Untouched
<1>4. CASE life # "up"
  BY <1>4 DEF Untouched
<1>5. QED
  BY <1>2, <1>3, <1>4

-----------------------------------------------------------------------------
(* What a restart finds, for any number of overlapping changes.            *)

\* A change and its rollback hand on servable tables only.
FileInv ==
    /\ RestartSafe
    /\ Servable(rules)
    /\ \A t \in Task : Servable(job[t].old) /\ Servable(job[t].new)

LEMMA ServableJobs ==
    ASSUME NEW old, NEW new, Servable(old), Servable(new)
    PROVE  /\ Servable(Idle.old) /\ Servable(Idle.new)
           /\ \A stage, todo, port, started :
                 LET j == Job(stage, old, new, todo, port, started)
                 IN  Servable(j.old) /\ Servable(j.new)
           /\ \A todo, started :
                 LET j == Starting(old, new, todo, started)
                 IN  Servable(j.old) /\ Servable(j.new)
           /\ \A todo :
                 LET j == Restoring(old, new, todo)
                 IN  Servable(j.old) /\ Servable(j.new)
<1>1. Servable(Empty)
  BY DEF Servable
<1> HIDE DEF Servable
<1>2. \A stage, todo, port, started :
          LET j == Job(stage, old, new, todo, port, started)
          IN  Servable(j.old) /\ Servable(j.new)
  BY DEF Job
<1>3. Servable(Idle.old) /\ Servable(Idle.new)
  BY <1>1 DEF Idle, Job
<1> QED
  BY <1>2, <1>3 DEF Starting, Restoring

\* A step that changes one job, and the store as a whole or not at all.
LEMMA FileQuiet ==
    ASSUME TypeOK, FileInv, NEW t \in Task, NEW j, Servable(j.old), Servable(j.new),
           job' = [job EXCEPT ![t] = j], UNCHANGED store, life' # "down" => life # "down"
    PROVE  FileInv'
<1>1. \A u \in Task : Servable(job'[u].old) /\ Servable(job'[u].new)
  BY DEF TypeOK, FileInv
<1> QED
  BY <1>1 DEF store, FileInv, RestartSafe, Servable, Certified

LEMMA FileReplaced ==
    ASSUME TypeOK, FileInv, NEW t \in Task, NEW j, Servable(j.old), Servable(j.new),
           job' = [job EXCEPT ![t] = j], NEW tab, Servable(tab), Replace(tab)
    PROVE  FileInv'
<1>1. \A u \in Task : Servable(job'[u].old) /\ Servable(job'[u].new)
  BY DEF TypeOK, FileInv
<1>2. PICK written \in BOOLEAN :
          /\ rules' = tab
          /\ disk' = IF Durable /\ written THEN tab ELSE disk
          /\ unsaved' = (Durable /\ ~written)
  BY DEF Replace
<1>3. Servable(disk') /\ Servable(rules')
  BY <1>2 DEF FileInv, RestartSafe
<1>4. Durable /\ ~unsaved' => disk' = rules'
  BY <1>2
<1> QED
  BY <1>1, <1>3, <1>4 DEF FileInv, RestartSafe, Servable, Certified

LEMMA FileStays == TypeOK /\ FileInv /\ [Next]_vars => FileInv'
<1> SUFFICES ASSUME TypeOK, FileInv, [Next]_vars PROVE FileInv'
  OBVIOUS
<1>1. ASSUME NEW t \in Task
      PROVE  /\ Servable(job[t].old) /\ Servable(job[t].new) /\ Servable(rules) /\ Servable(disk)
             /\ job[t] \in [stage: Stages, old: Table, new: Table, todo: SUBSET Port,
                            port: Port \cup {NoPort}, started: SUBSET Port]
  BY DEF FileInv, RestartSafe, TypeOK
<1>2. ASSUME NEW t \in Task, NEW old, NEW new, NEW todo, Servable(old), Servable(new),
             Stopping(t, old, new, todo), UNCHANGED life
      PROVE  FileInv'
  <2>1. CASE UNCHANGED store /\ \E p \in todo : job' = [job EXCEPT ![t] = Job("stopping", old, new, todo \ {p}, NoPort, {})]
    <3>1. PICK p \in todo : job' = [job EXCEPT ![t] = Job("stopping", old, new, todo \ {p}, NoPort, {})]
      BY <2>1
    <3> DEFINE j == Job("stopping", old, new, todo \ {p}, NoPort, {})
    <3>2. Servable(j.old) /\ Servable(j.new)
      BY <1>2, ServableJobs
    <3> HIDE DEF j
    <3> QED
      BY <1>2, <2>1, <3>1, <3>2, FileQuiet DEF j
  <2>2. CASE Replace(new) /\ job' = [job EXCEPT ![t] = Starting(old, new, ToStart(old, new), {})]
    <3> DEFINE j == Starting(old, new, ToStart(old, new), {})
    <3>1. Servable(j.old) /\ Servable(j.new) /\ job' = [job EXCEPT ![t] = j]
      BY <1>2, <2>2, ServableJobs
    <3> HIDE DEF j
    <3> QED
      BY <1>2, <2>2, <3>1, FileReplaced
  <2> QED
    BY <1>2, <2>1, <2>2 DEF Stopping
<1>3. ASSUME NEW t \in Task, NEW old, NEW new, NEW started, Servable(old), Servable(new),
             Unwinding(t, old, new, started)
      PROVE  FileInv'
  <2>1. CASE UNCHANGED <<store, life>> /\ \E p \in started : job' = [job EXCEPT ![t] = Job("unwinding", old, new, {}, NoPort, started \ {p})]
    <3>1. PICK p \in started : job' = [job EXCEPT ![t] = Job("unwinding", old, new, {}, NoPort, started \ {p})]
      BY <2>1
    <3> DEFINE j == Job("unwinding", old, new, {}, NoPort, started \ {p})
    <3>2. Servable(j.old) /\ Servable(j.new)
      BY <1>3, ServableJobs
    <3> HIDE DEF j
    <3> QED
      BY <2>1, <3>1, <3>2, FileQuiet DEF j
  <2>2. CASE /\ Replace(old)
             /\ \/ job' = [job EXCEPT ![t] = Restoring(old, new, ToStop(old, new))]
                \/ job' = [job EXCEPT ![t] = Idle]
    <3>1. \E j : Servable(j.old) /\ Servable(j.new) /\ job' = [job EXCEPT ![t] = j]
      BY <1>3, <2>2, ServableJobs
    <3> QED
      BY <1>3, <2>2, <3>1, FileReplaced
  <2> QED
    BY <1>3, <2>1, <2>2 DEF Unwinding
<1>4. ASSUME NEW t \in Task, Boot(t) PROVE FileInv'
  <2> DEFINE effective == IF disk = Empty THEN Seed ELSE disk
  <2>1. /\ Certified(effective) /\ Replace(effective)
        /\ job' = [job EXCEPT ![t] = Job("starting", disk, effective, Ports(effective), NoPort, {})]
    BY <1>4 DEF Boot
  <2>2. Servable(effective) /\ Servable(disk)
    BY <1>1, <2>1 DEF Servable
  <2> HIDE DEF effective
  <2> DEFINE j == Job("starting", disk, effective, Ports(effective), NoPort, {})
  <2>3. Servable(j.old) /\ Servable(j.new) /\ job' = [job EXCEPT ![t] = j]
    BY <2>1, <2>2, ServableJobs
  <2> HIDE DEF j
  <2> QED
    BY <2>1, <2>2, <2>3, FileReplaced
<1>5. ASSUME NEW t \in Task, NEW target \in Offers, Apply(t, target) PROVE FileInv'
  <2>1. Servable(target) /\ Stopping(t, rules, target, ToStop(rules, target)) /\ UNCHANGED life
    BY <1>5 DEF Apply, Servable
  <2> QED
    BY <1>1, <1>2, <2>1
<1>6. ASSUME NEW t \in Task, Step(t) PROVE FileInv'
  <2>1. CASE GoOnStopping(t)
    BY <1>1, <1>2, <2>1 DEF GoOnStopping
  <2>2. CASE GoOnUnwinding(t) \/ BindFails(t)
    BY <1>1, <1>3, <2>2 DEF GoOnUnwinding, BindFails
  <2>3. ASSUME NEW p \in Port, NEW tab, NEW stage, Bind(t, p, tab, stage) PROVE FileInv'
    <3> DEFINE j == [job[t] EXCEPT !.stage = stage, !.todo = @ \ {p}, !.port = p]
    <3>1. job' = [job EXCEPT ![t] = j] /\ UNCHANGED <<life, store>>
      BY <2>3 DEF Bind
    <3>2. Servable(j.old) /\ Servable(j.new)
      BY <1>1
    <3> HIDE DEF j
    <3> QED
      BY <3>1, <3>2, FileQuiet
  <2>4. CASE BindNew(t) \/ BindOld(t)
    BY <1>1, <2>3, <2>4 DEF BindNew, BindOld
  <2>5. CASE RestoreFails(t) \/ Record(t) \/ Rerecord(t)
    <3>1. UNCHANGED store /\ (life' # "down" => life # "down")
      <4>1. job[t].stage # "idle"
        BY <2>5 DEF RestoreFails, Record, Rerecord
      <4> QED
        BY <2>5 DEF RestoreFails, Record, Rerecord
    <3>2. PICK j : job' = [job EXCEPT ![t] = j] /\ Servable(j.old) /\ Servable(j.new)
      <4>1. CASE RestoreFails(t)
        <5>1. PICK p : job' = [job EXCEPT ![t] = Restoring(job[t].old, job[t].new, job[t].todo \ {p})]
          BY <4>1 DEF RestoreFails, TypeOK
        <5> QED
          BY <1>1, <5>1, ServableJobs
      <4>2. CASE Record(t)
        <5>1. job' = [job EXCEPT ![t] = Starting(job[t].old, job[t].new, job[t].todo,
                                                 job[t].started \cup {job[t].port})]
          BY <4>2 DEF Record, TypeOK
        <5> QED
          BY <1>1, <5>1, ServableJobs
      <4>3. CASE Rerecord(t)
        <5>1. job' = [job EXCEPT ![t] = Restoring(job[t].old, job[t].new, job[t].todo)]
          BY <4>3 DEF Rerecord, TypeOK
        <5> QED
          BY <1>1, <5>1, ServableJobs
      <4> QED
        BY <2>5, <4>1, <4>2, <4>3
    <3> QED
      BY <3>1, <3>2, FileQuiet
  <2> QED
    BY <1>6, <2>1, <2>2, <2>4, <2>5 DEF Step
<1>7. CASE Crash
  <2>1. Servable(Empty) /\ Servable(Idle.old) /\ Servable(Idle.new)
    BY ServableJobs DEF Servable
  <2>2. /\ life' = "down" /\ rules' = Empty /\ disk' = disk
        /\ \A t \in Task : job'[t] = Idle
    BY <1>7 DEF Crash
  <2> QED
    BY <2>1, <2>2 DEF FileInv, RestartSafe, Servable, Certified
<1>8. CASE UNCHANGED vars \/ \E t \in Task : VisitorsLeave(t)
  BY <1>8 DEF vars, store, VisitorsLeave, FileInv, RestartSafe, Servable, Certified
<1> QED
  BY <1>4, <1>5, <1>6, <1>7, <1>8 DEF Next

-----------------------------------------------------------------------------
(* Every number of coroutines, overlapping or not.                          *)

\* What listens on p is what some table there is asks for.
Given(p) == {Listens[tab[p]] : tab \in {o \in Offers \cup {Seed} : p \in Ports(o)}}
BoundGiven == \A p \in Port : bound[p] \subseteq Given(p)

LEMMA GivenStays == TypeInv /\ FileInv /\ BoundGiven /\ [Next]_vars => BoundGiven'
<1> SUFFICES ASSUME TypeInv, FileInv, BoundGiven, [Next]_vars PROVE BoundGiven'
  OBVIOUS
<1>1. ASSUME UNCHANGED bound PROVE BoundGiven'
  BY <1>1 DEF BoundGiven
<1>2. ASSUME NEW t \in Task, NEW p \in Port, StopPort(t, p) PROVE BoundGiven'
  BY <1>2 DEF StopPort, BoundGiven, TypeInv, TypeOK
<1>3. ASSUME NEW t \in Task, NEW p, NEW tab, NEW stage, Bind(t, p, tab, stage),
             Servable(tab), p \in Ports(tab)
      PROVE  BoundGiven'
  <2>1. tab \in Offers \cup {Seed} /\ p \in Port
    BY <1>3 DEF Servable, Empty, Ports
  <2>2. Listens[tab[p]] \in Given(p)
    BY <1>3, <2>1 DEF Given
  <2>3. QED
    BY <1>3, <2>1, <2>2 DEF Bind, BoundGiven, TypeInv, TypeOK
<1>4. ASSUME NEW t \in Task, NEW old, NEW new, NEW todo \in SUBSET Port, Stopping(t, old, new, todo)
      PROVE  BoundGiven'
  BY <1>1, <1>2, <1>4 DEF Stopping, sockets
<1>5. ASSUME NEW t \in Task, NEW old, NEW new, NEW started \in SUBSET Port, Unwinding(t, old, new, started)
      PROVE  BoundGiven'
  BY <1>1, <1>2, <1>5 DEF Unwinding, sockets
<1>6. ASSUME NEW t \in Task, Step(t) PROVE BoundGiven'
  <2>1. /\ job[t] \in Jobs /\ job[t].todo \in SUBSET Port /\ job[t].started \in SUBSET Port
        /\ Servable(job[t].old) /\ Servable(job[t].new)
        /\ job[t].stage = "starting" => job[t].todo \subseteq Ports(job[t].new)
        /\ job[t].stage = "restoring" => job[t].todo \subseteq Ports(job[t].old)
    BY DEF TypeInv, TypeOK, TodoHasRules, Jobs, FileInv
  <2>2. CASE GoOnStopping(t)
    BY <1>4, <2>1, <2>2 DEF GoOnStopping
  <2>3. CASE GoOnUnwinding(t) \/ BindFails(t)
    BY <1>5, <2>1, <2>3 DEF GoOnUnwinding, BindFails
  <2>4. CASE BindNew(t)
    BY <1>3, <2>1, <2>4 DEF BindNew
  <2>5. CASE BindOld(t)
    BY <1>3, <2>1, <2>5 DEF BindOld
  <2>6. CASE RestoreFails(t) \/ Record(t) \/ Rerecord(t)
    BY <1>1, <2>6 DEF RestoreFails, Record, Rerecord, sockets
  <2>7. QED
    BY <1>6, <2>2, <2>3, <2>4, <2>5, <2>6 DEF Step
<1>7. ASSUME NEW t \in Task, NEW target \in Offers, Apply(t, target) PROVE BoundGiven'
  <2>1. ToStop(rules, target) \in SUBSET Port
    BY DEF ToStop, Removed, Changed, Ports
  <2>2. QED
    BY <1>4, <1>7, <2>1 DEF Apply
<1>8. CASE Crash
  BY <1>8 DEF Crash, BoundGiven
<1>9. CASE UNCHANGED vars \/ \E t \in Task : Boot(t) \/ VisitorsLeave(t)
  BY <1>1, <1>9 DEF vars, Boot, VisitorsLeave, sockets
<1>10. QED
  BY <1>6, <1>7, <1>8, <1>9 DEF Next

\* A port that cannot have two of its addresses at a time is bound only when
\* nothing listens there.
LEMMA SoloBindsFree ==
    ASSUME TypeInv, FileInv, BoundGiven, NEW t \in Task, NEW p \in Port, ~Doubles(p)
    PROVE  BindsFree(t, p)
<1>1. ASSUME NEW tab, Servable(tab), p \in Ports(tab), Beside(p, Listens[tab[p]]) PROVE bound[p] = {}
  <2>1. tab \in Offers \cup {Seed}
    BY <1>1 DEF Servable, Empty, Ports
  <2>2. ASSUME NEW m \in bound[p] PROVE FALSE
    <3>1. PICK other \in Offers \cup {Seed} : p \in Ports(other) /\ m = Listens[other[p]]
      BY <2>2 DEF BoundGiven, Given
    <3>2. QED
      BY <1>1, <2>1, <2>2, <3>1 DEF Beside, Doubles
  <2>3. QED
    BY <2>2
<1>2. /\ Servable(job[t].old) /\ Servable(job[t].new)
      /\ job[t].stage = "starting" => job[t].todo \subseteq Ports(job[t].new)
      /\ job[t].stage = "restoring" => job[t].todo \subseteq Ports(job[t].old)
  BY DEF TypeInv, TodoHasRules, FileInv
<1>3. QED
  BY <1>1, <1>2 DEF BindsFree

\* The inductive invariant.
MapInv ==
    /\ TypeInv /\ BootsAlone /\ FileInv /\ BoundGiven
    /\ \A p \in Port : ~Doubles(p) => Tracked(p)
    /\ ~overlap => SerialInv

LEMMA InitialMap == Init => MapInv
<1> SUFFICES ASSUME Init PROVE MapInv
  OBVIOUS
<1>1. SocketInv /\ BootsAlone
  BY InitialState
<1>2. FileInv /\ BoundGiven
  BY DEF Init, FileInv, RestartSafe, Servable, Idle, Job, BoundGiven
<1>3. NothingBound /\ OneAtATime /\ \A t \in Task : Alone(t)
  BY IdleJob DEF Init, NothingBound, OneAtATime, Alone
<1>4. QED
  BY <1>1, <1>2, <1>3 DEF MapInv, SocketInv, SerialInv

\* A process that has died has nothing that binds it.
LEMMA CrashSerial == TypeInv /\ BootsAlone /\ Crash => SerialInv'
<1> SUFFICES ASSUME TypeInv, BootsAlone, Crash PROVE SerialInv'
  OBVIOUS
<1>1. TypeInv' /\ BootsAlone'
  BY EveryStep DEF Next
<1>2. \A t \in Task : ~Binding(t)' /\ job'[t] = Idle
  BY IdleJob DEF Crash, Binding
<1>3. \A p \in Port : Tracked(p)'
  BY <1>2 DEF Crash, Tracked, BoundOnce, Accounted
<1>4. NothingBound' /\ OneAtATime' /\ \A t \in Task : Alone(t)'
  BY <1>2, IdleJob DEF Crash, NothingBound, OneAtATime, Alone
<1>5. QED
  BY <1>1, <1>3, <1>4 DEF SerialInv, SocketInv

LEMMA MapStays == MapInv /\ [Next]_vars => MapInv'
<1> SUFFICES ASSUME MapInv, [Next]_vars PROVE MapInv'
  OBVIOUS
<1>1. TypeInv /\ BootsAlone /\ FileInv /\ BoundGiven
  BY DEF MapInv
<1>2. TypeInv' /\ BootsAlone' /\ FileInv' /\ BoundGiven'
  BY <1>1, EveryStep, FileStays, GivenStays DEF TypeInv
<1>3. ASSUME NEW p \in Port, ~Doubles(p) PROVE Tracked(p)'
  BY <1>1, <1>3, EveryStep, SoloBindsFree DEF MapInv
<1>4. ASSUME ~overlap' PROVE SerialInv'
  <2>1. CASE Crash
    BY <1>1, <2>1, CrashSerial
  <2>2. CASE Next /\ ~Crash
    <3>1. ~overlap
      BY <1>4, <2>2 DEF Next, Apply
    <3>2. QED
      BY <1>4, <2>2, <3>1, SerialStep DEF MapInv
  <2>3. CASE UNCHANGED vars
    <3>1. SerialInv /\ ~overlap
      BY <1>4, <2>3 DEF vars, MapInv
    <3>2. NothingBound' /\ OneAtATime' /\ \A t \in Task : Alone(t)'
      BY <2>3, <3>1, QuietAlone DEF vars, store
    <3>3. \A p \in Port : Tracked(p)'
      BY <1>1, <3>1, EveryStep, AloneBindsFree DEF SerialInv, SocketInv
    <3>4. QED
      BY <1>2, <3>2, <3>3 DEF SerialInv, SocketInv
  <2>4. QED
    BY <2>1, <2>2, <2>3
<1>5. (\A p \in Port : ~Doubles(p) => Tracked(p))'
  BY <1>3 DEF Doubles
<1>6. QED
  BY <1>2, <1>4, <1>5 DEF MapInv

THEOREM MapInvariant == Spec => []MapInv
  BY InitialMap, MapStays, PTL DEF Spec

\* No listening socket is lost track of, even when changes of the mapping
\* overlap, fail and are rolled back, but on ports for which overlapping
\* changes have addresses that can be bound side by side (mapping.py:466-511).
THEOREM SocketsTracked == Spec => []NoStraySocket
<1>1. MapInv => NoStraySocket
  BY NoStray DEF MapInv, SerialInv, SocketInv, Tracked, NoStraySocket
<1>2. QED
  BY <1>1, MapInvariant, PTL

\* Listeners and table agree after each change, also after one that failed,
\* until two have overlapped (mapping.py:410-464).
THEOREM SerialListenersMatch == Spec => []ListenersMatch
<1>1. MapInv => ListenersMatch
  <2> SUFFICES ASSUME SerialInv, life = "up", Settled, NEW p \in Port, bound[p] # {}
               PROVE  rules[p] # NoRule /\ bound[p] = {Listens[rules[p]]}
    BY DEF MapInv, ListenersMatch
  <2>1. PICK t \in Task : TRUE
    BY DEF SerialInv, BootsAlone
  <2>2. QED
    BY <2>1, IdleJob DEF SerialInv, Alone, Settled, Fits
<1>2. QED
  BY <1>1, MapInvariant, PTL

\* A failed change puts back the table and the file (mapping.py:453-460).
THEOREM SerialRollbackExact == Spec => []RollbackExact
<1>1. MapInv => RollbackExact
  BY DEF MapInv, SerialInv, Alone, RestoresOnly, RollbackExact
<1>2. QED
  BY <1>1, MapInvariant, PTL

LEMMA StepUntouched ==
    ASSUME SerialInv, Next, ~overlap', NEW t \in Task, NEW p \in Port PROVE Untouched(t, p)
<1>1. /\ job \in [Task -> Jobs] /\ OneAtATime /\ BootsAlone /\ TypeInv
      /\ bound \in [Port -> SUBSET Listener]
  BY DEF SerialInv, SocketInv, TypeInv, TypeOK, Jobs
<1>2. ASSUME NEW u \in Task, Boot(u) PROVE Untouched(t, p)
  BY <1>2 DEF Boot, Untouched
<1>3. ASSUME NEW u \in Task, NEW target \in Offers, Apply(u, target) PROVE Untouched(t, p)
  <2>1. rules \in Table /\ target \in Table
    BY <1>1, MappingAssumption DEF TypeInv, TypeOK
  <2>2. CASE t = u
    BY <1>3, <2>1, <2>2, StoppingUntouched DEF Apply
  <2>3. CASE t # u
    <3>1. job[t] = Idle
      BY <1>3, <2>3 DEF Apply
    <3>2. job'[t] = job[t]
      BY <1>1, <1>3, <2>3 DEF Apply, Stopping
    <3>3. QED
      BY <3>1, <3>2 DEF Untouched
  <2>4. QED
    BY <2>2, <2>3
<1>4. ASSUME NEW u \in Task, u # t, Step(u) PROVE Untouched(t, p)
  <2>1. job'[t] = Idle
    BY <1>1, <1>4, StepMoves DEF OneAtATime
  <2>2. QED
    BY <2>1 DEF Untouched
<1>5. ASSUME Step(t) PROVE Untouched(t, p)
  <2>1. /\ Alone(t) /\ job[t].old \in Table /\ job[t].new \in Table
        /\ job[t].started \in SUBSET Port /\ job[t].todo \in SUBSET Port
    BY <1>1 DEF SerialInv, Jobs
  <2>2. CASE GoOnStopping(t)
    BY <2>1, <2>2, StoppingUntouched DEF GoOnStopping, Alone, StopsOnly
  <2>3. CASE GoOnUnwinding(t)
    BY <2>1, <2>3, UnwindingUntouched DEF GoOnUnwinding, Alone
  <2>4. CASE BindFails(t)
    <3>1. /\ job[t].stage = "starting" /\ StartsOnly(job[t])
          /\ Unwinding(t, job[t].old, job[t].new, job[t].started)
      BY <2>1, <2>4 DEF BindFails, Alone
    <3>2. UnwindsOnly(job[t].old, job[t].new, job[t].started)
      BY <2>1, <3>1, StartsThenUnwinds
    <3>3. QED
      BY <2>1, <3>1, <3>2, UnwindingUntouched
  <2>5. ASSUME NEW q \in job[t].todo, NEW tab, NEW stage, Bind(t, q, tab, stage), BindsFree(t, q),
               \/ job[t].stage = "starting" /\ tab = job[t].new
               \/ job[t].stage = "restoring" /\ tab = job[t].old
        PROVE  Untouched(t, p)
    <3>1. bound[q] = {} /\ bound' = [bound EXCEPT ![q] = bound'[q]]
      BY <1>1, <2>1, <2>5 DEF Bind, BindsFree
    <3>2. QED
      BY <1>1, <2>1, <3>1 DEF Untouched
  <2>6. CASE BindNew(t)
    BY <2>1, <2>5, <2>6, AloneBindsFree DEF BindNew
  <2>7. CASE BindOld(t)
    BY <2>1, <2>5, <2>7, AloneBindsFree DEF BindOld
  <2>8. CASE RestoreFails(t) \/ Record(t) \/ Rerecord(t)
    BY <2>8 DEF RestoreFails, Record, Rerecord, Untouched, sockets
  <2>9. QED
    BY <1>5, <2>2, <2>3, <2>4, <2>6, <2>7, <2>8 DEF Step
<1>6. CASE Crash \/ \E u \in Task : VisitorsLeave(u)
  BY <1>6 DEF Crash, VisitorsLeave, Untouched
<1>7. QED
  BY <1>2, <1>3, <1>4, <1>5, <1>6 DEF Next

\* A change that overlaps no other leaves the listeners it neither removes nor
\* alters alone, on its way forward and on its way back (mapping.py:410-464).
THEOREM SerialUntouched == Spec => UntouchedKeepListening
<1>1. MapInv /\ [Next]_vars => [\A p \in Port, t \in Task : Untouched(t, p)]_vars
  <2> SUFFICES ASSUME MapInv, Next, NEW p \in Port, NEW t \in Task
               PROVE  Untouched(t, p)
    OBVIOUS
  <2>1. CASE Crash \/ overlap'
    BY <2>1 DEF Crash, Untouched
  <2>2. CASE ~Crash /\ ~overlap'
    <3>1. SerialInv
      BY <2>2 DEF Next, Apply, MapInv
    <3>2. QED
      BY <2>2, <3>1, StepUntouched
  <2>3. QED
    BY <2>1, <2>2
<1>2. [\A p \in Port, t \in Task : Untouched(t, p)]_vars =>
      [\A p \in Port, t \in Task :
          LET j == job'[t]
          IN  /\ life = "up" /\ ~overlap' /\ j # Idle
              /\ p \in Ports(j.old) \cap Ports(j.new) /\ Listens[j.old[p]] = Listens[j.new[p]]
              /\ bound[p] # {}
              => bound'[p] = bound[p]]_vars
  BY DEF Untouched
<1>3. QED
  BY <1>1, <1>2, MapInvariant, PTL DEF Spec, UntouchedKeepListening

\* However changes overlap and fail, and whenever the process dies, the file
\* holds a whole table that was asked for and has its certificates, or none:
\* start never has to refuse what apply or its rollback left behind
\* (mapping.py, start and apply; FileMappingStore.replace).
THEOREM RestartFindsTable == Spec => []RestartSafe
<1>1. MapInv => RestartSafe
  BY DEF MapInv, FileInv
<1>2. QED
  BY <1>1, MapInvariant, PTL
=============================================================================
