---------------------------- MODULE MappingTable ----------------------------
(***************************************************************************)
(* The mapping table of the server, the visitor listeners it stands for    *)
(* and the file it is persisted in: MappingManager and FileMappingStore.   *)
(*                                                                         *)
(* submit_mapping is called by the console and by every client that may    *)
(* manage the mapping, so several changes can be under way at once.  Each  *)
(* action is a stretch of MappingManager.start or apply between two awaits:*)
(* stop_port suspends while visitors of the port are still connected       *)
(* (Server.wait_closed, Python 3.12 on), which nothing bounds;             *)
(* create_server suspends before it binds and once more after.  The order  *)
(* of ports within a loop is left open.                                    *)
(***************************************************************************)
CONSTANTS
    Port,      \* public ports
    Rule,      \* what a port may be mapped to
    Listener,  \* bind address and TLS switch of a rule, as one value
    Listens,   \* the listener each rule asks for
    Apart,     \* pairs of listeners that one port can have side by side:
               \* their addresses differ and neither is a wildcard
    Tls,       \* the rules whose effective_tls is true
    Certs,     \* a visitor certificate is configured
    Offers,    \* the tables submitted at run time
    Seed,      \* mapping of the configuration file
    Durable,   \* mapping_store.type = "file"
    Contested, \* ports another process may hold
    Waits,     \* wait_closed waits for the connections of its server
    Task,      \* coroutines that may apply a change
    NoRule, NoPort

Table == [Port -> Rule \cup {NoRule}]
Empty == [p \in Port |-> NoRule]
Ports(tab) == {p \in Port : tab[p] # NoRule}

ASSUME MappingAssumption ==
    /\ NoRule \notin Rule
    /\ NoPort \notin Port
    /\ Listens \in [Rule -> Listener]
    /\ Apart \subseteq Listener \X Listener
    /\ \A l \in Listener : <<l, l>> \notin Apart
    /\ Offers \subseteq Table \ {Empty}  \* parse_mapping refuses an empty table
    /\ Seed \in Table /\ Seed # Empty
    /\ Certs \in BOOLEAN /\ Durable \in BOOLEAN /\ Waits \in BOOLEAN

VARIABLES
    life,     \* the server process: down, booting or up
    rules,    \* the store in memory
    disk,     \* the mapping file
    unsaved,  \* persist_error is set
    bound,    \* the listeners there are on each port
    servers,  \* MappingManager._servers: the listener recorded for a port, if any
    held,     \* coroutines that wait for the visitors of a port they closed
    job,      \* what each coroutine is doing
    overlap   \* history: since the process began, two changes were under way at once

vars == <<life, rules, disk, unsaved, bound, servers, held, job, overlap>>
store == <<rules, disk, unsaved>>
sockets == <<bound, servers, held>>

\* A coroutine in start or apply: the table it found (current, or previous),
\* the one it puts in place, the ports its present loop has still to handle,
\* the port it is about to record and those it has started.
Job(stage, old, new, todo, port, started) ==
    [stage |-> stage, old |-> old, new |-> new, todo |-> todo, port |-> port, started |-> started]

Idle == Job("idle", Empty, Empty, {}, NoPort, {})

Init ==
    /\ life = "down"
    /\ rules = Empty
    /\ disk = Empty
    /\ unsaved = FALSE
    /\ bound = [p \in Port |-> {}]
    /\ servers = [p \in Port |-> {}]
    /\ held = {}
    /\ job = [t \in Task |-> Idle]
    /\ overlap = FALSE

-----------------------------------------------------------------------------
(* The diff of two tables.                                                 *)

Added(o, n)   == Ports(n) \ Ports(o)
Removed(o, n) == Ports(o) \ Ports(n)

\* _listener_changed on the ports of both, and a faulty variant that
\* compares the whole rule.
CarefulChanged(o, n) == {p \in Ports(o) \cap Ports(n) : o[p] # n[p]}
Changed(o, n) == {p \in Ports(o) \cap Ports(n) : Listens[o[p]] # Listens[n[p]]}

ToStop(o, n)  == Removed(o, n) \cup Changed(o, n)
ToStart(o, n) == Added(o, n) \cup Changed(o, n)

\* _require_certs
Certified(tab) == Certs \/ \A p \in Port : tab[p] \notin Tls

-----------------------------------------------------------------------------
(* Pieces shared by start and apply.                                       *)

\* Faulty variant: a file that cannot be written goes unnoticed.
SilentReplace(tab) ==
    /\ rules' = tab
    /\ disk' \in {tab, disk}
    /\ unsaved' = FALSE

\* store.replace: memory first, then the file, by rename.  A failure to
\* write is remembered and does not stop the change.
Replace(tab) ==
    \E written \in BOOLEAN :
        /\ rules' = tab
        /\ disk' = IF Durable /\ written THEN tab ELSE disk
        /\ unsaved' = (Durable /\ ~written)

\* stop_port up to the end of wait_closed, which comes at once unless the
\* port still has visitors; and a faulty variant that only forgets the server.
ForgetfulStop(t, p) == servers' = [servers EXCEPT ![p] = {}] /\ UNCHANGED <<bound, held>>
StopPort(t, p) ==
    /\ servers' = [servers EXCEPT ![p] = {}]
    /\ bound' = [bound EXCEPT ![p] = @ \ servers[p]]
    /\ \/ held' = held
       \/ Waits /\ servers[p] # {} /\ held' = held \cup {t}

\* Start the ports in todo; with none left the coroutine is done.
Starting(old, new, todo, started) ==
    IF todo = {} THEN Idle ELSE Job("starting", old, new, todo, NoPort, started)

\* The stop loop: the next port is closed and waited for, or the table is
\* replaced and the new listeners are started.
Stopping(t, old, new, todo) ==
    \/ /\ todo # {}
       /\ \E p \in todo :
             /\ StopPort(t, p)
             /\ job' = [job EXCEPT ![t] = Job("stopping", old, new, todo \ {p}, NoPort, {})]
       /\ UNCHANGED store
    \/ /\ todo = {}
       /\ Replace(new)
       /\ job' = [job EXCEPT ![t] = Starting(old, new, ToStart(old, new), {})]
       /\ UNCHANGED sockets

\* Bring back what was stopped, after the table has been put back.
Restoring(old, new, todo) ==
    IF todo = {} THEN Idle ELSE Job("restoring", old, new, todo, NoPort, {})

\* Faulty variant: the table is not put back.
HalfUnwinding(t, old, new, started) ==
    /\ started = {}
    /\ job' = [job EXCEPT ![t] = Restoring(old, new, ToStop(old, new))]
    /\ UNCHANGED <<store, sockets, life>>

\* After a failed bind the listeners started so far are stopped, one by one,
\* and the old table is put back.  A failed start ends the process.
Unwinding(t, old, new, started) ==
    \/ /\ started # {}
       /\ \E p \in started :
             /\ StopPort(t, p)
             /\ job' = [job EXCEPT ![t] = Job("unwinding", old, new, {}, NoPort, started \ {p})]
       /\ UNCHANGED <<store, life>>
    \/ /\ started = {} /\ life = "up"
       /\ Replace(old)
       /\ job' = [job EXCEPT ![t] = Restoring(old, new, ToStop(old, new))]
       /\ UNCHANGED <<sockets, life>>
    \/ /\ started = {} /\ life = "booting"
       /\ Replace(old)
       /\ job' = [job EXCEPT ![t] = Idle]
       /\ life' = "down"
       /\ UNCHANGED sockets

-----------------------------------------------------------------------------
(* Actions.                                                                *)

\* A stop_port that need not wait does not suspend: the coroutine runs on to
\* its next await before any other.
OthersSuspended(t) == \A u \in Task \ {t} : job[u].stage \in {"stopping", "unwinding"} => u \in held

\* MappingManager.start: what the file holds, or the seed if it holds
\* nothing.  Every port has to be listened to before the server is up.
Boot(t) ==
    /\ life = "down"
    /\ LET effective == IF disk = Empty THEN Seed ELSE disk
       IN  /\ Certified(effective)
           /\ Replace(effective)
           /\ job' = [job EXCEPT ![t] = Job("starting", disk, effective, Ports(effective), NoPort, {})]
    /\ life' = "booting"
    /\ UNCHANGED sockets

\* apply, up to its first await.  Without a listener to stop or start only
\* the table is replaced.
Apply(t, target) ==
    /\ OthersSuspended(t)
    /\ life = "up"
    /\ job[t] = Idle
    /\ Certified(target)
    /\ Stopping(t, rules, target, ToStop(rules, target))
    /\ overlap' = (overlap \/ \E u \in Task \ {t} : job[u] # Idle)
    /\ UNCHANGED life

GoOnStopping(t) ==
    /\ OthersSuspended(t)
    /\ job[t].stage = "stopping" /\ t \notin held
    /\ Stopping(t, job[t].old, job[t].new, job[t].todo)
    /\ UNCHANGED life

GoOnUnwinding(t) ==
    /\ OthersSuspended(t)
    /\ job[t].stage = "unwinding" /\ t \notin held
    /\ Unwinding(t, job[t].old, job[t].new, job[t].started)

\* The last visitor of the port t closed is gone, and t resumes.
VisitorsLeave(t) ==
    /\ OthersSuspended(t)
    /\ t \in held
    /\ held' = held \ {t}
    /\ UNCHANGED <<life, store, bound, servers, job>>

\* Listener l can be bound on port p beside those there.
Beside(p, l) == \A m \in bound[p] : <<l, m>> \in Apart

\* _listen binds the address and port of one rule of tab.
Bind(t, p, tab, stage) ==
    /\ Beside(p, Listens[tab[p]])
    /\ bound' = [bound EXCEPT ![p] = @ \cup {Listens[tab[p]]}]
    /\ job' = [job EXCEPT ![t].stage = stage, ![t].todo = @ \ {p}, ![t].port = p]
    /\ UNCHANGED <<life, store, servers, held>>

BindNew(t) ==
    /\ OthersSuspended(t)
    /\ job[t].stage = "starting"
    /\ \E p \in job[t].todo : Bind(t, p, job[t].new, "recording")

BindOld(t) ==
    /\ OthersSuspended(t)
    /\ job[t].stage = "restoring"
    /\ \E p \in job[t].todo : Bind(t, p, job[t].old, "rerecording")

\* The listener a coroutine has bound and not recorded yet.
Binding(t) == job[t].stage \in {"recording", "rerecording"}
Opened(j) == Listens[IF j.stage = "recording" THEN j.new[j.port] ELSE j.old[j.port]]

Unbindable(p, tab) == p \in Contested \/ ~Beside(p, Listens[tab[p]])

BindFails(t) ==
    /\ OthersSuspended(t)
    /\ job[t].stage = "starting"
    /\ \E p \in job[t].todo : Unbindable(p, job[t].new)
    /\ Unwinding(t, job[t].old, job[t].new, job[t].started)

\* A port that cannot be brought back is logged and skipped.
RestoreFails(t) ==
    /\ OthersSuspended(t)
    /\ job[t].stage = "restoring"
    /\ \E p \in job[t].todo :
          /\ Unbindable(p, job[t].old)
          /\ job' = [job EXCEPT ![t] = Restoring(@.old, @.new, @.todo \ {p})]
    /\ UNCHANGED <<life, store, sockets>>

\* The new server is recorded in place of any other; after the last one
\* start or apply returns.
Record(t) ==
    /\ OthersSuspended(t)
    /\ job[t].stage = "recording"
    /\ servers' = [servers EXCEPT ![job[t].port] = {Opened(job[t])}]
    /\ job' = [job EXCEPT ![t] = Starting(@.old, @.new, @.todo, @.started \cup {@.port})]
    /\ life' = IF life = "booting" /\ job[t].todo = {} THEN "up" ELSE life
    /\ UNCHANGED <<store, bound, held>>

Rerecord(t) ==
    /\ OthersSuspended(t)
    /\ job[t].stage = "rerecording"
    /\ servers' = [servers EXCEPT ![job[t].port] = {Opened(job[t])}]
    /\ job' = [job EXCEPT ![t] = Restoring(@.old, @.new, @.todo)]
    /\ UNCHANGED <<life, store, bound, held>>

\* The process dies: only the file is left.
Crash ==
    /\ life # "down"
    /\ life' = "down"
    /\ rules' = Empty
    /\ unsaved' = FALSE
    /\ bound' = [p \in Port |-> {}]
    /\ servers' = [p \in Port |-> {}]
    /\ held' = {}
    /\ job' = [t \in Task |-> Idle]
    /\ overlap' = FALSE
    /\ UNCHANGED disk

Step(t) ==
    \/ GoOnStopping(t) \/ GoOnUnwinding(t) \/ BindNew(t) \/ BindFails(t)
    \/ BindOld(t) \/ RestoreFails(t) \/ Record(t) \/ Rerecord(t)

Next ==
    \/ \E t \in Task, target \in Offers : Apply(t, target)
    \/ \E t \in Task : (Boot(t) \/ Step(t) \/ VisitorsLeave(t)) /\ UNCHANGED overlap
    \/ Crash

Spec == Init /\ [][Next]_vars

-----------------------------------------------------------------------------
(* Properties.                                                             *)

Stages == {"idle", "stopping", "starting", "recording", "unwinding", "restoring", "rerecording"}

TypeOK ==
    /\ life \in {"down", "booting", "up"}
    /\ rules \in Table
    /\ disk \in Table
    /\ unsaved \in BOOLEAN
    /\ bound \in [Port -> SUBSET Listener]
    /\ servers \in [Port -> SUBSET Listener]
    /\ held \in SUBSET Task
    /\ job \in [Task -> [stage: Stages, old: Table, new: Table, todo: SUBSET Port,
                         port: Port \cup {NoPort}, started: SUBSET Port]]
    /\ overlap \in BOOLEAN

Settled == \A t \in Task : job[t] = Idle

\* As long as no two changes have been under way at once, a port is listened
\* to only for a rule of the table when none is, and with the bind address
\* and TLS switch of that rule, however the last change ended
\* (mapping.py:19-20, README.md:1041).
ListenersMatch ==
    life = "up" /\ Settled /\ ~overlap =>
        \A p \in Port : bound[p] # {} => rules[p] # NoRule /\ bound[p] = {Listens[rules[p]]}

\* The tables there are give p addresses that it can have side by side.
Doubles(p) ==
    \E tab, other \in Offers \cup {Seed} :
        p \in Ports(tab) \cap Ports(other) /\ <<Listens[tab[p]], Listens[other[p]]>> \in Apart

\* No socket is lost: what listens is in _servers, from where it can be
\* stopped, or about to be put there, also when changes overlap (mapping.py:
\* 466-502).  Excepted are overlapping changes of a port that can have two
\* addresses: both are bound, and one is recorded in place of the other.
NoStraySocket ==
    \A p \in Port :
        \/ overlap /\ Doubles(p)
        \/ bound[p] = servers[p] \cup {Opened(job[t]) : t \in {u \in Task : Binding(u) /\ job[u].port = p}}

\* A change that fails, and overlaps no other, leaves the table, and a file
\* that could be written, as it found them, before it begins to bring
\* listeners back.
RollbackExact ==
    ~overlap =>
        \A t \in Task : job[t].stage \in {"restoring", "rerecording"} =>
            rules = job[t].old /\ (Durable /\ ~unsaved => disk = job[t].old)

\* A change that overlaps no other does not interrupt a listener it neither
\* removes nor alters.
UntouchedKeepListening ==
    [][\A p \in Port, t \in Task :
          LET j == job'[t]
          IN  /\ life = "up" /\ ~overlap' /\ j # Idle
              /\ p \in Ports(j.old) \cap Ports(j.new) /\ Listens[j.old[p]] = Listens[j.new[p]]
              /\ bound[p] # {}
              => bound'[p] = bound[p]]_vars

\* A table that was asked for and may be served, or none.
Servable(tab) == tab = Empty \/ (tab \in Offers \cup {Seed} /\ Certified(tab))

\* Whenever the process dies, the file holds one whole table that start will
\* serve, or none; and what is in memory, unless persist_error says otherwise,
\* also when changes overlap, fail and are rolled back (mapping.py:144-206).
RestartSafe ==
    /\ Servable(disk)
    /\ Durable /\ ~unsaved /\ life # "down" => disk = rules
=============================================================================
