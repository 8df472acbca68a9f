# LocalToNet in TLA+

LocalToNet is a reverse tunnel. A client behind a NAT keeps one *control
channel* to a public server; a visitor who connects to a public port of the
server is *paired* with a *data channel* that the client opens on request, and
the server pumps bytes between the two. Server and client are each one asyncio
event loop, so the code between two `await`s is atomic and everything that is
hard happens at the awaits. The specifications here model the code at that
grain: **an action is one stretch of one coroutine between two suspensions**.

All paths below are relative to the repository; `core.py`, `registry.py`,
`pending.py` and `mapping.py` without a directory are those of
`localtonet/server/`.

## 1. Inventory

| Component | State | Operations | Interacts with | Hard part | What makes it correct |
|---|---|---|---|---|---|
| Control channel, `core.py` `_handle_control` … `_disconnect_session` | coroutine per connection, `ClientSession` | register, supersede, receive, disconnect, kick, broadcast | registry, pending, limiter, mapping | awaits in the middle of a registration; another session of the same id arrives or is kicked meanwhile | what can be routed to is open; only the right session is removed; waiting visitors are released |
| Client registry, `registry.py` | `_clients`, `_port_owner` | add, remove, claim_ports, pick_client, collect_expired | control channel, watchdog | two tables changed at different times | a port has one owner, held ports are owned, no step steals a port |
| Kick cooldown, `core.py:437-494` | `_kick_cooldowns` | set, check, evict | control channel | must be set before the first await | a kicked id stays out |
| Watchdog, `core/heartbeat.py:112-157` | the collected list | patrol | registry, control channel | the list ages while one removal is awaited | every silent session goes in the end, fresh ones stay |
| Pairing, `pending.py`, `core.py` `_handle_visitor`/`_handle_data` | `PendingTable._items`, futures `_ready`, `_done` | attach, fail, wait_ready, finish, discard, fail_all_for_client | control channel, pipe | timeout, conn_error, client loss and a late register race | one verdict per request; one channel per request; nobody is left waiting |
| Mapping, `mapping.py` | rules, `_servers`, the mapping file | start, apply, rollback, stop_port, stop | control channel, admin console | bind fails half way; changes overlap; a visitor holds a port being closed; crash between persist and bind | listeners, table and file agree; no socket is lost |
| Mapping broadcast and set_mapping, `core.py:422-435, 899-950, 1216-1224`, `client/core.py:507-560` | the frame being sent, one waiter per client | submit, broadcast, reply | control channel | suspended broadcasts overtake each other; a table is broadcast and then put back; a late reply answers the next request | clients end with the newest table |
| Server lifecycle, `core.py:266-352`, `core/runtime.py` | servers, task set | start, stop, drain, cancel_all | all | `wait_closed` waits for connections (Python ≥ 3.12), `close_writer` for peers that do not read | stop ends, nothing stays bound |
| Client session, `client/core.py`, `core/backoff.py` | stop flag, backoff, tasks of a session | run, _session, register, receive, set_mapping, stop | heartbeat, forwarder | which failures are fatal, when the backoff is reset | reconnects until told not to |
| Client heartbeat, `core/heartbeat.py:33-109` | last pong | ping, timeout | client session | closes the writer others are using | a dead link is noticed |
| Client forwarder, `client/forwarder.py` | task per request | connect back-end, open data channel, report failure | pairing | fails half way | every new_conn is answered or times out |
| Rate limiter, `core/limiter.py` | LRU table of token buckets | wait, forget_client, evict | pipe, control channel | keys evicted in use, chunks above the capacity | rates hold, table bounded |
| Byte pump, `core/pipe.py` | two copy tasks | pipe_both, close_writer | pairing, forwarder | half close, one side breaks | bytes in order, both sides end |
| Token table, `server/auth.py`, `server/tokenstore.py` | entries, file stamp | load, lookup, reload_if_changed | control channel | stale stamp, broken file | never fails open |
| Message framing, `protocol.py` | none | encode, decode | all | – | round trip |
| Dispatcher, events, task helpers, TLS contexts, configuration, rules | little or none | – | all | – | – |
| GUI models and controllers, `gui/*model.py`, `gui/*controller.py`, `gui/bridge.py` | edited rows, thread bridge | edit, receive push, start, stop | client, server | pushes while rows are dirty; two threads | edits are not lost |
| GUI widgets, command lines, logging, packaging | – | – | – | – | – |

`PROJECT.json` lists the components with their status, and under `hazards`
every place where the code is hard to test, with its line.

## 2. Modules

| Module | Models | Composes |
|---|---|---|
| `ControlPlane` | control channel, registry, cooldown, watchdog, with the pending visitors they touch | – |
| `Rendezvous` | abstract: a request is joined by one channel or fails, once | – |
| `Pairing` | pending table, futures, `_handle_visitor`, `_handle_data` | `Rendezvous` (refinement) |
| `MappingTable` | `MappingManager`, `FileMappingStore` | – |
| `ClientSession` | `TunnelClient`: main loop, sessions, backoff, heartbeat, forwards, `stop()` | – |
| `ClientWindow` | Connect and Disconnect, `GuiController`, the mailbox | extends `ClientSession` |
| `MappingSync` | edits in a window, `set_mapping`, `submit_mapping`, broadcasts, mailbox and edit buffer | – |
| `Throttle` | `ClientRateLimiter`, token buckets, `pipe_both` and its pumps | – |
| `ConfigLayers`, `ServerConfig`, `ClientConfig` | the layers of both configurations, as functions | – |
| `Admission` | authenticators, token table and its reload, the verdict of a registration, a server starting with its configuration | extends `ServerConfig`, instance of `ClientConfig` |
| `ServerLifecycle` | `TunnelServer.start`/`stop` under `ServerController` and the console's buttons | – |
| `…_proofs` | theorems (those about `ClientSession` are in `ClientWindow_proofs`) | the module of that name |
| `MC…` | constants for TLC | the module of that name |

Each module ends with its properties. Next to some definitions stand *faulty
variants* of them: the way a plausible slip would have them. They are in no
action of `Next` and in no definition the model uses; substituting one for its
original breaks the property it is paired with in `PROJECT.json`, which shows
that the property depends on that piece of the code.

### 2.1 ControlPlane

A control connection registers at most once, so a member of `Conn` is both the
connection and its `ClientSession`. `pc[c]` is where its `_handle_control` is
suspended:

* `accepted`: reading the first frame;
* `replacing`: `_register_client` awaits `close_writer(previous.writer)` (`core.py:714`);
* `acking`: the send of `register_ack` sleeps on a closing transport (`core.py:737`);
* `serving`: in the receive loop;
* `ended`: returned. `farewell` holds the sessions whose remover, in whichever
  task, is between `close_writer` and the announcement (`core.py:856-864`).

`link[c]` is the transport as the server sees it; `eof` means the peer has
closed, `closing` that the server has called `close()` and `wait_closed` would
block, `lost` that `connection_lost` has run.

`RegisterNow`, `RegisterOver`, `ResumeRegister` and `FinishAck` are
`_register_client` cut at its suspensions. Two details of the code carry much
of the weight and are kept exactly: `claim_ports` works on *the client id*, and
writes `local_ports` of whichever session has it now; and the failure branch of
the ack removes *the client id*, whichever session has it now.

Abstractions: a send to an open writer does not suspend (the buffer stays below
its high-water mark; a peer that reads nothing is in `MappingSync`); a send to
a transport already lost raises at once (asyncio lets one loop pass go by
first, in which nothing waits for this coroutine); the registration order
behind "the first client online" in `pick_client` is any client online; a
cooldown entry may end at any time, which covers both its deadline and its
eviction; authentication is an arbitrary refusal (`GiveUp`) and the ports an
identity may claim are the constant `Allowed`; both are decided in `Admission`.

### 2.2 Pairing and Rendezvous

A visitor's connection is its `conn_id`. `ready` is the future `_ready`
(`unset`, `yes`, `no`), `closed` the flag, `done` the future `_done`. A
coroutine woken by a future runs as an action of its own, so
`HearFailure`/`StartPipe` may find that more has happened. `Timeout` needs the
future unset, as `asyncio.wait_for` does; a data channel may name any
request the client was told of, also twice or too late. `ClientOffline` is
`fail_all_for_client` with or without another session of that id staying
online (supersession); `ClientUnacked` is the failed ack of `core.py:737-740`,
which removes the client without failing anything.

`Rendezvous` is the promise without futures and coroutines, and `Pairing`
implements it under `phase <- Phase`, `mate <- data`: a request counts as
open, joined or failed by its *verdict*, and as over when it leaves the table.

### 2.3 MappingTable

`bound` is what the operating system listens on, for each port a set of
listeners: a bind is for an address *and* a port, and `Apart` says which
listeners one port can have side by side (two addresses of the machine, neither
of them a wildcard). `servers` is `_servers`, which has one place for a port; the
two differ during the awaits of `_listen`, and for good when a second record
takes the place of a first. A job is one coroutine in `start` or `apply`: the
table it found, the one it puts in place, and the ports its loop has still to do.

`stop_port` suspends only while visitors of the port are connected (from Python
3.12 on, `Waits`); `held` are the coroutines that wait for them, and nothing
bounds that wait: `VisitorsLeave` may never happen. A `stop_port` that need not
wait runs on to the next await, which is what `OthersSuspended` says. A port in
`Contested` may be taken by another process at any bind. Writing the file may
fail at any `Replace`; the change then goes on in memory, as in the code. A
crash loses everything but the file. A rule is an opaque value with the listener
(bind address and TLS) it needs: two rules may differ in their local port only,
which must not touch the listener.

There is no lock, and two changes may overlap; `overlap` is history and records
that they did since the process began. `ListenersMatch`, `RollbackExact` and
`UntouchedKeepListening` are about the time before, for what an overlap leaves
is not what they say (section 6). `NoStraySocket` holds beyond it, but for ports
that the tables there are give two addresses which are `Apart`; `RestartSafe`
always.

### 2.4 ClientSession

`main` is where `run()` and `_session()` stand: `idle` before `run()`,
`connecting`, `registering` (sent, ack awaited), `serving` (in `recv_msg`),
`quitting` (the heartbeat's cancellation is awaited), `dropping` (that of the
forwards), `closing` (the writer's close), `sleeping` (backoff), `stopped`.
`stopper` is where `stop()` stands, which runs in another task and waits for
the forwards it found (`ended`), as the end of the session waits for those *it*
found (`dropped`). `doomed` are the tasks with a cancellation not delivered yet;
delivering it (`Cancelled`) runs the `finally` block of
`forwarder.py:163-165`, or cuts it short if it was running already.
`stalled` are the forwards in `close_writer` of a connection whose peer does not
read what it has still been sent: `wait_closed` has no timeout, so such a forward
neither ends nor lets `cancel_all` of the session or of `stop()` end, until
`ReadsOn` or a second cancellation. Whatever ends a session or an attempt to
register passes through `LeaveSession`: leftover forwards are cancelled and
awaited, then the writer is closed.
`link` is the control connection as the client's transport sees it, `mute` says
that the peer has vanished without closing it, `inbox` that a `new_conn` is in
the reader's buffer: `stop()` does not empty it, and the loop looks at
`_stop_event` only after the next message.

Abstractions: a send does not suspend; an ack may be in the buffer
before anything else happens to the connection; a task that ends and its done
callback are one step; cancelling the heartbeat is one step, since its only
reaction is to end; the ways an attempt can fail are three (`rejected`: a
refusal `is_fatal`; `eof`: what run() takes for a TLS mismatch if TLS is on;
`retry`: the others); the delay is the number of doublings since the reset. The
window's controller may also cancel the task of `run()` itself: `ClientWindow`.

### 2.5 ClientWindow

The window keeps one `TunnelClient` for good, so Connect after Disconnect runs
the same object again, with what `stop()` left in it. `task` says that
`_client_task` is not done, `axed` that `run()` has a cancellation coming, which
reaches it at whatever await it stands (`RunCancelled`). A `run()` that is
awaiting its forwards cancels them once more and ends only after them
(`aborting`, `RunAborted`; `core/runtime.py:64`). `mail` and `alarm` are
the mailbox and the window's `state.fatal`; of several messages the last one
stands.

A click waits for the coroutine of the click before. Without that, a Disconnect
and the Connect after it may overlap and two tasks run `run()` of one client;
one `main` cannot represent that, and it is left out. The closing of the window
is left out as well.

### 2.6 MappingSync

`table` is the server's, `view` what a client last received, `rows` what its
window shows. A coroutine of the server (`Task`: the handler of each client's
control connection and the console's) is idle or suspended in `drain`; `job`
says where and with what still to do, `queue` in which order the suspended came
to their transports, which is the order in which `drain`'s waiters go on.
`slow` are the transports above their high-water mark. Requests (`up`) and
messages (`down`) are channels that keep their order and lose what is under way
when the connection ends. The mailbox of a window drops a list when it is full,
as `call_soon` onto a bounded queue does.

A change of the table (`change`) is what the others see of `apply`: it may wait
for listeners to be stopped (`stop`), puts its table in place, may wait for new
ones (`start`), and either returns and is broadcast, or puts the old table back,
waits for the old listeners (`restore`) and raises, with no broadcast
(`RollBack`). Whoever registers, leaves or broadcasts meanwhile hands out the
table there is, also one that is put back afterwards. `late` is history: the last
list a client was sent is not the table, because a newer one passed it on its way
(`passed`) or because it was withdrawn after it was sent (`withdrawn`).

Abstractions: which ports a change stops and starts is in `MappingTable`; here it
is open which of the altered rows need another listener, and whether a port can
be had; a client reconnects only after the coroutines of its old session are
done, the change its handler may be in the middle of included; a client without a window is one run
from the command line. A row is its public port and an opaque rest. The dialog
of a row, opened on an index that the next list shifts, is modelled as the code
has it and has no property.

### 2.7 Throttle

A pipe has two pumps; each reads a chunk, takes tokens for it and writes it.
Time passes in ticks, and every bucket gains `Rate` at each up to its capacity;
the code refills when it looks, which comes to the same level. A chunk larger
than a bucket is paid in parts, with a sleep between them, and other pumps may
empty the bucket meanwhile. `table` is the LRU of keys, least recently used
first; a bucket object lives on as long as a pump holds it, so that a key that
was evicted or forgotten and comes back has a second bucket. Keys are sequences
of characters, because `limit_key_owner` reads the owner back from a text whose
parts are free: the instance has a client whose id is the beginning of another's.

`meter` is history: what a bucket has let pass and has not leaked at `Rate`
since. `RateRespected` bounds it, which bounds the bytes in *every* stretch of
time. It is about a bucket object: after an eviction or `forget_client` the key
has a full bucket again, as the code has it (`core.py:854`).

A pipe serves a visitor already paired; pairing is `Pairing`'s. A pump that is
cancelled drops the chunk in its hands, but still half-closes its destination,
so `EofIsComplete` is about directions that came to the end of their source. A
stream of new visitors could keep one pump from its tokens for ever (there is no
queue on a bucket); pipes are finite in number here.

### 2.8 ConfigLayers, ServerConfig, ClientConfig, Admission

A layer is a function whose domain is what was given in it; `Given` lays one
over another. The modules keep the fields that a layer can turn against another
(credentials, encryption, ports, files, the numbers compared with each other),
the implicit switches (a token on the command line switches authentication on,
a certificate switches TLS on) and the validation between two layers. Four
consequences of the code that one would not guess, all in the definitions:

* each layer is validated before the next is laid over it, so a mistake in the
  file that the command line would correct is refused;
* `--no-tls` is refused beside `--tls-cert` at the server and `--tls-ca` at the
  client, but beside `--tls-key` or `--tls-client-ca` (at the client `--tls-cert`,
  `--tls-key` or `--tls-skip-verify`) it is accepted, and TLS is switched on again;
* a token in the JSON file and a token file in the environment are refused
  together, where the command line would let one take the place of the other;
* an option given as the empty string is an error at the server and counts as
  not given at the client.

`TopLayerDecides` says what remains true: what the highest layer that speaks of
authentication or encryption asks for is what runs.

`Admission` starts a server with such a configuration. `file` is the version of
the token file there is, `table` the version `_tokens` was read from, `stamp`
the one whose stamp was taken; the operator may replace the file between the two
(`raced`). `verify` is the registration under judgement; it has no await, so
there is one at a time, but each look at the file is a step. `Escape` is the
`UnicodeDecodeError` of a file that is no text. The ways to be refused for a
malformed message (code 400) come before `verify` and are left out; the cooldown
is in `ControlPlane`.

### 2.9 ServerLifecycle

A click hands a coroutine to the loop (`call`); nothing keeps two of them apart,
and `overlap` records that two did run at once. `Running(at, srv)` is a coroutine:
what it does next, the server it works on, the serve task it has taken out, and
the sessions it has still to close. `sock[i][p]` is `off`, `bound` (the kernel
listens) or `known` (the server has recorded it); the step between the two is an
await. `waits` stands for the Python version: from 3.12 `wait_closed` waits for
connections. `held` are the servers with a visitor that is piped and does not
read: `mapping.stop` awaits its cancelled handler, which awaits `close_writer`.
`deaf` are the clients that do not read: the sweep of the sessions (`Sweep`,
`Swept`) awaits `close_writer` of one after the other (`shut` is the one it is
closing). Neither wait has a timeout.

Kept as in the code: the window does not take `_want_running` back when a start
fails, so that the next attempt takes a Stop and a Start; a registration that
comes after the sweep of sessions survives it. Left out: `drain`, the
cancellation of handler tasks by `LoopThread`, the closing of the window, a start
called twice without a stop in between (the window does not do that), visitors
that join those `mapping.stop` waits for, and changes of the mapping during a
start or a stop or at a server whose start has failed half way.

## 3. Runs

| Run | Bounds | What it shows |
|---|---|---|
| `cp_register` | 3 connections, 2 ids, 2 ports, limit 2; no visitors (1.2 M states) | every order in which three connections register, supersede, end, are kicked and reaped. Three connections are the least for a session superseded while its own registration waits |
| `cp_live` | 2 connections, 2 ids, 1 port, 1 visitor, limit 1; fair | capacity, released visitors, progress of registration, disconnection and watchdog. Two sessions are the least for the watchdog to have one waiting behind another |
| `pairing` | 2 visitors, 2 channels, 2 clients, quota 1; fair | verdicts, quota, the refinement of `Rendezvous`, and that every visitor settles and no channel outlives its request. Two channels for one request are a repeated register; a quota of one bites |
| `mapping` | 2 ports, 1 of them contested, 4 tables and the seed, 2 coroutines, 3 listeners of which two are apart (500 000 states) | two changes one after the other or overlapping, each bind and each write failing or not, a visitor holding any port that is closed, crash anywhere. Two coroutines and two addresses are the least for a socket to be lost |
| `client_session` | 2 forwards, limit 1, no doubling, TLS; fair (583 000 states) | the client under its window: one forward more than the limit, so that a task can start while another is being cancelled; Disconnect, and the cancellation of `run()`, at every moment; peers that stop reading |
| `sync` | 2 clients with windows that edit, submit and may stop reading, 2 console coroutines, 2 ports, mailbox of 2, 3 events; fair (176 000 states) | edits, submissions, changes that wait and are undone, suspended broadcasts, lost and resumed sessions, late answers. Four coroutines of the server run side by side, so that one broadcast passes another and one falls into a change; three events are the least for a table to be submitted, a transport to be slow and a session to end in one behaviour |
| `throttle` | 2 pipes, 1 key in the table, chunk of 2 over a capacity of 1, 3 buckets alive per key; fair (152 000 states) | a table that overflows as soon as two clients are limited, a chunk that takes two payments, a bucket shared by two pumps, ids made to collide |
| `tokens` | 120 server and 180 client configurations, 3 clients of which two share an id, 5 versions of the token file, limit 1; fair (61 000 states) | every configuration through the layers; token tables that revoke, reserve and restrict while clients register |
| `lifecycle` | 1 client, 3 clicks, 2 contested ports; fair (68 000 states) | start, stop and start; overlapping calls and what a third click finds; a peer that reads nothing in every wait of `stop()`. A second client (363 000 states) shows nothing else about the sockets |
| `cp_ghost`, `client_again`, `lifecycle_half` | the least instance that shows it | section 6 |

Symmetry is used in `cp_register` and `cp_ghost`, over connections, and in
`mapping`, over coroutines: no constant tells them apart, and none of these runs
has a liveness property.
`CHECK_DEADLOCK FALSE` stands where the real system may come to rest: finite
numbers of connections, visitors, clicks and edits are all used up. `tokens` and
`throttle` are checked for deadlock.

The bounds that count steps are in guards and named: `MaxEvents`, `MaxClicks`,
`MaxStep`, `Copies`. No run has a state constraint.

## 4. Fairness

* `ControlPlane`: a coroutine that can go on does (the loop is fair), the
  watchdog's timer fires, a transport the server has closed is lost in the end
  (TLS shutdown timeout, or the kernel giving up on retransmission: there is no
  more on a control channel than a peer that lives takes in). Nothing else is
  assumed of peers: they may never register, never speak, never close.
* `Pairing`: the same, and `pair_timeout` fires. A pipe over a working channel
  may run for ever. A send ends, by delivery or by loss of the connection.
* `ClientSession`, `ClientWindow`: coroutines go on, those of the controller
  included, `connect_timeout` and `pong_timeout` fire, a transport the client
  closes is lost in the end: it has a few frames to send. The server need not
  answer or close anything, a pipe may run for ever, nobody has to click, and
  **no peer of a forward has to read**: `StopEnds`, `SessionRecovers` and
  `DisconnectReturns` say so in their premise (`PeersRead`).
* `MappingTable`: none. That a change goes on depends on the visitors of the
  ports it closes, of whom nothing is known.
* `MappingSync`: coroutines go on, messages arrive, mailboxes are emptied, the
  timeout of `set_mapping` fires, a lost session is noticed. A peer that has
  stopped reading need not read on, and while it does not its connection need
  not come to be closed; a change need not come out of its waits. `CatchUp` has
  both in its premise. No user edits and no client reconnects because fairness
  says so.
* `Throttle`: time passes, a pump that can move does, `pipe_both` returns when
  both directions are done.
* `Admission`: a judgement once begun ends; a client that keeps trying is not
  always beaten to the moment in which it may register (`SF` on its attempt: it
  retries with backoff, others come and go). The operator need not do anything.
* `ServerLifecycle`: a coroutine that can go on does. Clients need not leave, nor
  clients and visitors read; `StopEnds` has in its premise that those a stop
  waits for give way (`PeersGiveWay`).

## 5. Proofs

All theorems hold for every value of the constants that meets the named
assumption of the module (`ConstAssumption`, `PairingAssumption`,
`MappingAssumption`, `ClientAssumption`, `SyncAssumption`, `ThrottleAssumption`,
`AdmissionAssumption`, `LifecycleAssumption`): any number of connections,
clients, ports, visitors, channels, pipes, tables, clicks and coroutines.

* **`ControlPlane_proofs`**. The invariants are not inductive one by one.
  `HeldPortsOwned` is kept by a claim only if different client ids have
  different sessions, which is `RoutableIsOpen` (`sid[clients[i]] = i`); the
  superseding session must start with no port (`Fresh`); and `KickedStaysOut`
  depends on which steps put an id into the registry. `ControlInv` is their
  conjunction with types. `TypeCorrect` is proved first, then `ControlSafety`,
  one lemma for each piece of `_register_client`; `TypesHold`,
  `RoutableSessionsOpen`, `KickedClientsStayOut` and `HeldPortsAreOwned` follow.
  `PortsNeverStolen` is the action property, from lemmas on `Flushed` and
  `Claimed` alone and their compositions. `CapacityHolds` needs the registry to
  be finite (`Bounded`), for any set of ids; `NothingComesBeforeAck` that a
  session in the registry has had its ack or still waits for the one it
  supersedes (`AckedOrWaiting`); `SessionsLeaveByThemselves` and
  `VisitorsAreReleased` that a session whose removal is awaited is in the
  registry under no id any more (`Leavers`). `ClosesAwaitedAreAsked` is the part
  of `SilentIsReaped` and `RegistrationSettles` that needs no fairness: whoever
  awaits a close awaits that of a transport that was closed or lost, and
  transports only go forward (`LinksAdvance`).
* **`Pairing_proofs`**. `PairInv` adds `Verdicts` (how the future, the flag and
  the writer of a request agree) and `Channels` (a channel belongs to one
  request from its register on, and its handler waits until `done`).
  `PairingTypes`, `PipesHoldChannels`, `WaitersHeld`, `TableIsExact`, `VerdictsStand` follow.
  `QuotaHolds` needs cardinalities (`QuotaInv`: the share of a client in the
  table is within the limit); `PairingImplementsRendezvous` is the refinement,
  one lemma for each kind of step. `NoWaitInVain` is the part of `ChannelReleased`
  that needs no fairness: a data handler waits for a request that will still be
  finished, or is done already, and every close that is awaited was asked for.
* **`MappingTable_proofs`**. `MapInv` has two kinds of parts. Those that hold
  however changes overlap: types, with the fact that a port about to be bound has
  a rule in the table it is bound for (`TypeInv`); that the server boots in one
  coroutine and alone (`BootsAlone`); that the file, the rules and both tables of
  every change under way are servable (`FileInv`); that what listens on a port is
  a listener one of the tables on offer gives it (`BoundGiven`); and, for each port whose tables do not give it two
  addresses that can stand side by side, that its sockets are accounted for
  (`Tracked`: a socket between bind and record belongs to one coroutine and to no
  recorded server). `Tracked` is kept by a bind if nothing listens on the port
  yet, and on such a port a bind succeeds only then (`SoloBindsFree`). And
  `SerialInv`, which holds until two changes have overlapped: there is one
  coroutine at work (`OneAtATime`), and for each stage of its change what is bound
  and which table is in place (`StopsOnly`, `StartsOnly`, `UnwindsOnly`,
  `RestoresOnly`), from which it follows that it binds only where nothing listens,
  whatever the addresses. There is no assumption on the number of coroutines:
  `Apply` sets `overlap` when it finds another change under way, and a crash, which
  starts everything anew, resets it (`CrashSerial`). `MappingTypes`,
  `SocketsTracked`, `SerialListenersMatch`, `SerialRollbackExact`,
  `SerialUntouched` and `RestartFindsTable` follow. The premise `~overlap` of the
  serial properties cannot be dropped, nor the exception of `NoStraySocket`: without
  them TLC finds a listener without a rule, and a socket nobody has recorded.
* **`ClientWindow_proofs`** has two parts. The first is about `ClientSession`, the
  client by itself: `SessionInv` says what ties the forwards to
  `_forward_tasks` while `stop()` has not been called (`Tracked`), that the
  heartbeat lives only in the receive loop, that there is no connection between
  two attempts, and that a data channel is open only under a pipe; it gives
  `SessionsLeaveNothing`. `ForwardsStayBounded` needs more, because `stop()`
  clears the set the limit counts: `LimitInv` says that as long as the receive
  loop may still start a forward, the set holds all that run. `StopsForGood`
  follows from the actions alone. `OldSessionGone` excepts a client that is being
  stopped, so `SessionsLeaveNothing` is about a client until its first
  Disconnect. The second part proves `WindowForwardsBounded`, the limit over all
  runs of the client under its window, however they are cancelled and begun again.
  `WindowInv` adds that `run()` is cancelled only after `stop()` of the client was
  called (`Handled`) and stands nowhere without a task; every step of the window
  is then a step of `ClientSession`, or one that begins `run()` again, or a
  cancellation, for which the invariants of `ClientSession` are proved anew.
* **`Throttle_proofs`**. `FlowInv` is conservation: what a pump has delivered,
  holds and has yet to read is what there was, which gives `PumpsDeliver`.
  `Levels` says that a bucket's meter and its level are within its capacity
  *together*: the meter leaks no slower than the bucket fills, for any table of
  keys, eviction included. It gives `RatesHold`. `TableParts` is about the table
  itself: no key twice, no more than `MaxKeys`, every entry with buckets of its
  own key, every pump with a bucket of its direction and a unit it serves. The
  table is a sequence that loses places in its middle, so `Places` first shows
  that counting the places that are left numbers them without a gap (`Nth`), and
  `KeepingIs` what remains. `FreshIs` shows that a new bucket always finds a free
  copy: each copy in use is held by a pump of another pipe. `TableStaysSound`
  follows, and with it `ForgetsOnlyOwn`; the latter rests on `OwnerOfKey`:
  `limit_key_owner` reads back the client from what `compose_limit_key` made,
  whatever characters ids and shards are made of, the separator included.
* **`Admission_proofs`**. `AdmissionInv` ties the registration under judgement
  to the table it was found in, and that table to the stamp unless the file
  changed in between (`Fresh`); `TableDecides` is the action property that a
  client gets in, and with which rights, only by the table of the file.
  `LayersDecide` is proved function by function: `BaseSections`, `SameLayers` and
  `Words` say what a layer leaves to the one above, `EnvAuth` and
  `EffectiveSections` what the merge of the layers has in the fields they share;
  `AuthObeys`, `TlsObeys` and `ClientObeys` are the three promises; and
  `LoadedInvariant` says that a server that runs has the configuration it read.
* **`MappingSync_proofs`**. `QuietInSync` and `CleanMeansServed` speak of moments
  at which nothing is under way, and are not inductive. `SyncInv` says what holds
  in between. `Served`: a client that is connected, and was neither passed by nor sent
  a table since put back (`late`), has the table of the server as the last list
  under way to it, or in view with no list under way, or is among the sessions some
  suspended broadcast has `left`, or some change stands between its two tables and
  will broadcast or withdraw (`HalfWay`). `Changes`: a change under way keeps its
  coroutine from anything else, and both its tables are tables. `Shown`: the
  newest list a window was sent is the last one in its mailbox, or what its
  snapshot holds, unless the mailbox dropped a list or `mark_submitted` put other
  rows there. `Edited`: rows and snapshot are tables `parse_mapping` accepts,
  whichever index a dialog comes back with. `Queued`: the queue has each suspended
  coroutine once. `CastServes` is the heart: a step that writes a part of a
  broadcast and suspends, or ends it, keeps `Served` if it broadcasts to everybody
  whenever a change succeeds, to whoever connects, and to all that its coroutine
  still owed. `SortedIs` and `WithoutIs` say what the two sequence operators
  yield; `Behind` and `Taken` what becomes of the last list of a channel.
  `NobodyForgotten` is the part of `CatchUp` that needs no fairness: with
  `Awaited` (only a session that is being taken down is awaited for its close,
  only a transport that is up is above its mark), of the coroutines that wait for
  one transport the first can always go on, unless its peer has stopped reading
  or the transport is being closed.
* **`ServerLifecycle_proofs`**. Under `~overlap` there is at most one coroutine,
  and `SerialInv` says for each of its stages which sockets there are, which
  server is current and heard, and that a start never fails because of a port
  the server itself holds. `SerialLeavesClean` and `NeverItsOwnObstacle` follow,
  for any number of clicks. `SerialLeavesClean` speaks of stops, and of starts that
  did *not* fail: one that fails at the data port leaves the control port
  listening (section 6).

Only model-checked: the liveness properties (`SilentIsReaped`,
`RegistrationSettles`, `VisitorSettles`, `ChannelReleased`, `StopEnds` of the
client and of the server, `SessionRecovers`, `DisconnectReturns`, `CatchUp`,
`PipeSettles`, `GetsIn`), for temporal reasoning under fairness is beyond the
prover. Every invariant and every action property that a passing run checks is
proved, `OldSessionGone` for the client by itself only.

## 6. What the code does against its documents

Three are runs that TLC ends with a counterexample; `PROJECT.json` quotes the
lines.

* `cp_ghost` – a session kicked while its registration awaits the old
  connection's close claims its ports afterwards (`core.py:714-716`). The ports
  belong to an offline id, and nobody else can claim them until that id comes
  and goes again.
* `client_again` – `stop()` leaves its event set (`client/core.py:284`). After
  Disconnect and Connect the same client is run again; it ends with its first
  session instead of reconnecting, while the window says that it runs.
* `lifecycle_half` – a start that fails at the data port leaves the control port
  listening (`core.py:295-297`), until the next Stop; a test says of a failed
  start that it must not leave half a listener
  (`tests/test_gui_server_controller.py:465`), with the control port taken only.

The following were met while modelling as well. They are in the modules as the
code has them, and the properties of the passing runs except them by name, so
that none of them is hidden by a premise nobody reads. Each of the first group
goes against a sentence of the repository.

* With TLS, any end of the control connection while a length is being read
  counts as a configuration error (`client/core.py:243-257`): after a restart of
  the server a TLS client does not come back, against `README.md:1042`.
  `client_session` runs with TLS; `SessionRecovers` lets such a client stop.
* The end of a session awaits its forwards (`client/core.py:355`), and they
  `close_writer` (`core/pipe.py:98-109`), which has no timeout: a visitor or a
  backend that reads nothing keeps the client from ever connecting again, against
  `README.md:1042`. Hence `PeersRead`.
* Two overlapping changes that give a port different hosts bind both;
  `_servers[port]` keeps the second (`mapping.py:502`), and nothing closes the
  first any more. Hence `Doubles` in `NoStraySocket`.
* Two overlapping changes leave a listener for which the table has no rule: each
  works from its own snapshot (`mapping.py:445`), against `README.md:1039`. Hence
  `~overlap`.
* On Python ≥ 3.12 a visitor that stays on a port keeps the change that closes it
  from its new listeners (`mapping.py:472`), against `README.md:842`. No property
  asks that a change ends.
* A table that is being put in place is broadcast to whoever registers, and to
  the others when somebody leaves; if a port cannot be had it is put back with no
  broadcast (`mapping.py:446-460`, `core.py:433-434`), and those clients keep the
  rejected table, against `core.py:1217`. Hence `late = "withdrawn"`.
* A client that reads nothing suspends a broadcast (`core.py:1210`), and those
  behind it in the list, which do read, keep the old table as long; if a newer
  broadcast passes it, they get the old table last (`late = "passed"`).
* A stop of the console that overlaps a start misses a socket that is bound and
  not yet recorded (`gui/server_controller.py:150`): the server is stopped and a
  port of it listens, against `gui/server_app.py:317`. Hence `~overlap`.
* `stop()` waits for clients whose sessions it closes only afterwards (`core.py:333`,
  Python ≥ 3.12), for visitors that read nothing (`core.py:338`) and for clients
  that read nothing (`core.py:348`); until they give way the visitor ports may
  stay open, against `gui/server_app.py:317`. Hence `PeersGiveWay`.

About these no text says anything, or the documents disagree:

* The failure branch of the ack (`core.py:737-740`) lacks the identity check of
  `_disconnect_session`, and takes a newer session out of the registry.
* The new session is in the registry while its ack is not sent yet; a broadcast
  or `new_conn` that arrives first makes the client end the session
  (`client/core.py:375-377`).
* `cancel_all` clears the whole set after waiting for the tasks it listed
  (`core/runtime.py:61-68`). A `new_conn` already received when `stop()` began
  is dispatched during that wait; its forward is forgotten and outlives `run()`.
* A forward cancelled a second time while it awaits the close of its data
  channel skips the close of its backend connection (`forwarder.py:163-165`).
* A `run()` cancelled while it awaits the end of its heartbeat skips
  `close_writer`; the control connection may stay up after Disconnect.
* `mark_submitted` declares saved what the window shows when the *answer* comes
  (`gui/viewmodel.py:149`, and its twin of the console's
  `gui/server_viewmodel.py`); edits made in between are overwritten by the next
  list.
* A token file that cannot be decoded raises past `reload_if_changed`
  (`server/tokenstore.py:249`), which handles files that cannot be parsed: every
  registration fails until the file is replaced.
* A bucket released with its client is created again by a pipe still running
  (`core.py:854`).
* The watchdog takes down a session that has spoken since its list was collected
  (`core/heartbeat.py:150`).
* The backoff restarts when TCP connects (`client/core.py:316`), not when the
  registration succeeds (`README.md:1186`; `core/backoff.py:6` says otherwise).

## 7. Not modelled

* Framing (`protocol.py`) and TLS contexts: conversions and construction without
  a protocol of their own. A message arrives whole or the connection fails.
* The layout and rendering of the windows, log set-up, the parsing of single
  command-line values, packaging, examples and tests.
* The closing of a window, with `LoopThread`'s cancellation of what is left on
  its loop; the console's own copy of the table (`gui/server_viewmodel.py`) and
  its list of clients.
* `PendingTable.drain`, which only `TunnelServer.stop` calls; changes of the
  mapping during a start or a stop, or at a server whose start has failed half
  way; visitors that join those `mapping.stop` waits for.
* A second `start()` of the server's controller without a `stop()`, which its
  window does not do.
* Two tasks in `run()` of one client (section 2.5).
* Limits of stream buffers, except as what makes `drain` suspend.

## 8. Plan

Done: the control plane, pairing with its refinement, the mapping table, the
client and its window, the way of the table to the windows and back, the rate
limiter with the pipes, configuration and admission, the life of the server.

Left, in this order:

1. A composition of `ClientSession` with `ControlPlane`: client and server agree
   in the end on who is registered, also when a connection is half open.
2. `MappingTable` under `ServerLifecycle`: changes while the server starts and
   stops, and a `stop()` that finds one half done.
3. The console's own table and client list next to those of the windows
   (`MappingSync`), and the closing of windows with what their loops still run.
4. Overlapping tasks of `run()`, which takes a `main` per task.
5. Theorems: in `ServerLifecycle`, that whoever waits waits for something that
   is still to come, as `ClosesAwaitedAreAsked`, `NoWaitInVain` and
   `NobodyForgotten` say of the other modules.
