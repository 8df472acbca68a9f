---------------------------- MODULE ControlPlane ----------------------------
(***************************************************************************)
(* The control channel of the tunnel server: registration, supersession of *)
(* an older session of the same client id, kicking with a cooldown, the    *)
(* watchdog, the port-ownership table and the pending visitors these       *)
(* operations touch.                                                       *)
(*                                                                         *)
(* The server is one asyncio event loop.  Code between two awaits is       *)
(* atomic, so each action below is one stretch of a coroutine that does    *)
(* not give up the loop.  A send to an open writer does not suspend (the   *)
(* transport's buffer is below its high-water mark); the only suspensions  *)
(* modelled are close_writer (wait_closed lasts until the transport is     *)
(* lost) and a send to a writer that is already closing (drain sleeps).    *)
(*                                                                         *)
(* A connection registers at most once, so it also names its session.      *)
(***************************************************************************)
EXTENDS Naturals, FiniteSets

CONSTANTS
    Conn,        \* control connections (and the ClientSession each may carry)
    Client,      \* client ids
    Port,        \* local ports
    Req,         \* visitor requests
    Offers,      \* the local_ports lists clients send, as sets of ports
    Allowed,     \* Allowed[i]: ports the identity behind client id i may claim
    MaxClients,  \* limits.max_clients
    CooldownOn,  \* admin.kick_cooldown > 0
    NoConn, NoClient

ASSUME ConstAssumption ==
    /\ NoConn \notin Conn
    /\ NoClient \notin Client
    /\ Offers \subseteq SUBSET Port
    /\ Allowed \in [Client -> SUBSET Port]
    /\ MaxClients \in Nat
    /\ CooldownOn \in BOOLEAN

VARIABLES
    clients,   \* ClientRegistry._clients: the session online for each client id
    owner,     \* ClientRegistry._port_owner
    cooling,   \* client ids inside their kick cooldown (_kick_cooldowns)
    pc,        \* where the coroutine _handle_control of a connection stands
    link,      \* the server's end of the connection's transport
    sid,       \* session.client_id
    offer,     \* the local_ports a waiting registration will claim
    held,      \* session.local_ports
    prev,      \* the superseded session whose closing is awaited
    silent,    \* session.idle_for() > client_idle_timeout
    first,     \* first frame written to the session: none, ack or other
    farewell,  \* removed sessions whose remover still awaits close_writer
    expired,   \* what is left of the list the watchdog collected
    reaping,   \* the session whose removal the watchdog is awaiting
    rst, rcl   \* pending visitor requests: their state and client id

tables   == <<clients, owner, cooling>>
session  == <<pc, sid, offer, held, prev>>
dog      == <<expired, reaping>>
visitors == <<rst, rcl>>
vars == <<tables, session, link, silent, first, farewell, dog, visitors>>

Phases == {"idle", "accepted", "replacing", "acking", "serving", "ended"}
Links  == {"none", "up", "eof", "closing", "lost"}

Init ==
    /\ clients  = [i \in Client |-> NoConn]
    /\ owner    = [p \in Port |-> NoClient]
    /\ cooling  = {}
    /\ pc       = [c \in Conn |-> "idle"]
    /\ link     = [c \in Conn |-> "none"]
    /\ sid      = [c \in Conn |-> NoClient]
    /\ offer    = [c \in Conn |-> {}]
    /\ held     = [c \in Conn |-> {}]
    /\ prev     = [c \in Conn |-> NoConn]
    /\ silent   = [c \in Conn |-> FALSE]
    /\ first    = [c \in Conn |-> "none"]
    /\ farewell = {}
    /\ expired  = {}
    /\ reaping  = NoConn
    /\ rst      = [r \in Req |-> "idle"]
    /\ rcl      = [r \in Req |-> NoClient]

-----------------------------------------------------------------------------
(* The registry's own operations, as functions of its two tables.          *)

Online == {i \in Client : clients[i] # NoConn}

IsCurrent(c) == sid[c] # NoClient /\ clients[sid[c]] = c

Flushed(own, i) == [p \in Port |-> IF own[p] = i THEN NoClient ELSE own[p]]

\* Faulty variant: a conflicting port counts as claimed.
FaultyClaimable(own, i, ports) == ports

Claimable(own, i, ports) == {p \in ports : own[p] \in {NoClient, i}}

\* Faulty variant: the last client to claim a port gets it.
FaultyClaimed(own, i, ports) == [p \in Port |-> IF p \in ports THEN i ELSE own[p]]

Claimed(own, i, ports) ==
    [p \in Port |-> IF p \in Claimable(own, i, ports) THEN i ELSE own[p]]

\* remove(client_id) pops whatever session is there now; the ports are
\* released only if there was one.
Removed(own, i) == IF clients[i] = NoConn THEN own ELSE Flushed(own, i)

\* pick_client: the owner if it is online, else the first session online
\* (the registration order that decides "first" is abstracted away).
Routes(p) ==
    IF owner[p] # NoClient /\ owner[p] \in Online THEN {owner[p]} ELSE Online

-----------------------------------------------------------------------------
(* Effects shared by several handlers.                                     *)

Writable(c) == link[c] \in {"up", "eof"}

CloseWriter(l, c) == IF l[c] \in {"up", "eof"} THEN [l EXCEPT ![c] = "closing"] ELSE l

\* Faulty variant: the waiting visitors are forgotten.
FaultyFailAll(i) == rst

FailAll(i) ==
    [r \in Req |-> IF rst[r] = "waiting" /\ rcl[r] = i THEN "failed" ELSE rst[r]]

\* Faulty variant: it goes to every connection there is.
BroadcastToAll(f) ==
    [c \in Conn |-> IF Writable(c) /\ f[c] = "none" THEN "other" ELSE f[c]]

\* A mapping_list frame goes to every session in the registry.
Broadcast(f) ==
    [c \in Conn |-> IF IsCurrent(c) /\ Writable(c) /\ f[c] = "none" THEN "other" ELSE f[c]]

\* A session is taken down, provided it passes the identity check; l is the
\* transports after its writer has been closed, fw the removals awaited.
TakeDown(c, fw, checked, l) ==
    IF checked
    THEN /\ clients'  = [clients EXCEPT ![sid[c]] = NoConn]
         /\ owner'    = Flushed(owner, sid[c])
         /\ rst'      = FailAll(sid[c])
         /\ link'     = l
         /\ farewell' = fw \cup {c}
    ELSE farewell' = fw /\ UNCHANGED <<clients, owner, rst, link>>

\* Faulty variant: no identity check.
CarelessDisconnect(c, fw) ==
    TakeDown(c, fw, sid[c] # NoClient /\ clients[sid[c]] # NoConn, CloseWriter(link, c))

\* The part of _disconnect_session(session = c) before its first await.
\* Another current session, or none, makes it return with nothing done.
Disconnect(c, fw) == TakeDown(c, fw, IsCurrent(c), CloseWriter(link, c))

\* The watchdog goes on with its list: sessions no longer current cost it no
\* await, the first one that is current is taken down and awaited.
Reap(list, fw) ==
    \/ \E c \in list :
          /\ IsCurrent(c)
          /\ Disconnect(c, fw)
          /\ reaping' = c
          /\ expired' = list \ {c}
    \/ /\ \A c \in list : ~IsCurrent(c)
       /\ farewell' = fw
       /\ reaping' = NoConn
       /\ expired' = {}
       /\ UNCHANGED <<clients, owner, rst, link>>

-----------------------------------------------------------------------------
(* Registration.                                                           *)

Connect(c) ==
    /\ pc[c] = "idle"
    /\ pc' = [pc EXCEPT ![c] = "accepted"]
    /\ link' = [link EXCEPT ![c] = "up"]
    /\ UNCHANGED <<tables, sid, offer, held, prev, silent, first, farewell, dog, visitors>>

\* connect_timeout, a framing error, a first frame that is not
\* register_client, or a rejected registration (malformed fields, failed
\* authentication): the handler answers at most a refusal and closes.
GiveUp(c) ==
    /\ pc[c] = "accepted"
    /\ pc' = [pc EXCEPT ![c] = "ended"]
    /\ link' = CloseWriter(link, c)
    /\ UNCHANGED <<tables, sid, offer, held, prev, silent, first, farewell, dog, visitors>>

\* Faulty variants: no cooldown check; a capacity check off by one.
RefusedWithoutCooldown(i, ports) ==
    \/ i \notin Online /\ Cardinality(Online) >= MaxClients
    \/ ~(ports \subseteq Allowed[i])

RefusedOneTooLate(i, ports) ==
    \/ i \in cooling
    \/ i \notin Online /\ Cardinality(Online) > MaxClients
    \/ ~(ports \subseteq Allowed[i])

\* The checks after authentication, in the order of the code.
Refused(i, ports) ==
    \/ i \in cooling
    \/ i \notin Online /\ Cardinality(Online) >= MaxClients
    \/ ~(ports \subseteq Allowed[i])

Reject(c) ==
    \E i \in Client, ports \in Offers : Refused(i, ports) /\ GiveUp(c)

\* Nothing to wait for: no session of this id is online, or the one that is
\* has lost its transport already.  Add, claim, write the ack and broadcast
\* without giving up the loop.  If the connection itself is lost, the ack
\* fails and the client id is taken out again.
RegisterNow(c, i, ports) ==
    LET old  == clients[i]
        free == IF old = NoConn THEN owner ELSE Flushed(owner, i)
    IN  /\ pc[c] = "accepted"
        /\ ~Refused(i, ports)
        /\ old # NoConn => link[old] = "lost"
        /\ rst' = IF old = NoConn THEN rst ELSE FailAll(i)
        /\ sid' = [sid EXCEPT ![c] = i]
        /\ \/ /\ Writable(c)
              /\ clients' = [clients EXCEPT ![i] = c]
              /\ owner' = Claimed(free, i, ports)
              /\ held' = [held EXCEPT ![c] = Claimable(free, i, ports)]
              /\ first' = Broadcast([first EXCEPT ![c] = "ack"])
              /\ pc' = [pc EXCEPT ![c] = "serving"]
           \/ /\ ~Writable(c)
              /\ clients' = [clients EXCEPT ![i] = NoConn]
              /\ owner' = Flushed(owner, i)
              /\ pc' = [pc EXCEPT ![c] = "ended"]
              /\ UNCHANGED <<held, first>>
        /\ UNCHANGED <<cooling, offer, prev, link, silent, farewell, dog, rcl>>

\* Session c takes the place of the one online; l is the transports after
\* the old writer has been closed.
Supersede(c, i, ports, l) ==
    /\ pc[c] = "accepted"
    /\ ~Refused(i, ports)
    /\ clients[i] # NoConn
    /\ link[clients[i]] # "lost"
    /\ clients' = [clients EXCEPT ![i] = c]
    /\ owner' = Flushed(owner, i)
    /\ rst' = FailAll(i)
    /\ link' = l
    /\ sid' = [sid EXCEPT ![c] = i]
    /\ offer' = [offer EXCEPT ![c] = ports]
    /\ prev' = [prev EXCEPT ![c] = clients[i]]
    /\ pc' = [pc EXCEPT ![c] = "replacing"]
    /\ UNCHANGED <<cooling, held, silent, first, farewell, dog, rcl>>

\* Faulty variants: the new connection is closed, or none is.
RegisterOverClosingNew(c, i, ports) == Supersede(c, i, ports, CloseWriter(link, c))
RegisterOverClosingNone(c, i, ports) == Supersede(c, i, ports, link)

\* A session of the same id is online: it is superseded at once, its ports
\* are flushed and its visitors failed, and its closing is awaited before
\* the new session claims anything.
RegisterOver(c, i, ports) == Supersede(c, i, ports, CloseWriter(link, clients[i]))

Register(c) ==
    \E i \in Client, ports \in Offers : RegisterNow(c, i, ports) \/ RegisterOver(c, i, ports)

\* The superseded connection is gone: claim the ports for the client id,
\* whichever session it has by now (claim_ports writes that session's
\* local_ports), and send the ack.  A failed ack removes the client id's
\* entry, again whichever session is there.
ResumeRegister(c) ==
    LET i == sid[c]
        now == Claimed(owner, i, offer[c])
    IN  /\ pc[c] = "replacing"
        /\ link[prev[c]] = "lost"
        /\ prev' = [prev EXCEPT ![c] = NoConn]
        /\ offer' = [offer EXCEPT ![c] = {}]
        /\ held' = IF clients[i] = NoConn THEN held
                   ELSE [held EXCEPT ![clients[i]] = Claimable(owner, i, offer[c])]
        /\ \/ /\ Writable(c)
              /\ owner' = now
              /\ first' = Broadcast([first EXCEPT ![c] = IF @ = "none" THEN "ack" ELSE @])
              /\ pc' = [pc EXCEPT ![c] = "serving"]
              /\ UNCHANGED clients
           \/ /\ link[c] = "closing"
              /\ owner' = now
              /\ pc' = [pc EXCEPT ![c] = "acking"]
              /\ UNCHANGED <<clients, first>>
           \/ /\ link[c] = "lost"
              /\ owner' = Removed(now, i)
              /\ clients' = [clients EXCEPT ![i] = NoConn]
              /\ pc' = [pc EXCEPT ![c] = "ended"]
              /\ UNCHANGED first
        /\ UNCHANGED <<cooling, sid, link, silent, farewell, dog, visitors>>

\* The send of the ack slept on a closing transport: it fails if the
\* transport was lost meanwhile.
FinishAck(c) ==
    /\ pc[c] = "acking"
    /\ \/ /\ link[c] = "lost"
          /\ owner' = Removed(owner, sid[c])
          /\ clients' = [clients EXCEPT ![sid[c]] = NoConn]
          /\ pc' = [pc EXCEPT ![c] = "ended"]
          /\ UNCHANGED first
       \/ /\ link[c] = "closing"
          /\ first' = Broadcast(first)
          /\ pc' = [pc EXCEPT ![c] = "serving"]
          /\ UNCHANGED <<clients, owner>>
    /\ UNCHANGED <<cooling, sid, offer, held, prev, link, silent, farewell, dog, visitors>>

-----------------------------------------------------------------------------
(* A registered session.                                                   *)

Receive(c) ==
    /\ pc[c] = "serving"
    /\ link[c] # "lost"
    /\ silent' = [silent EXCEPT ![c] = FALSE]
    /\ UNCHANGED <<tables, session, link, first, farewell, dog, visitors>>

\* conn_error for a pending request: its visitor is woken with a failure.
ReceiveConnError(c, r) ==
    /\ pc[c] = "serving"
    /\ link[c] # "lost"
    /\ rst[r] = "waiting"
    /\ silent' = [silent EXCEPT ![c] = FALSE]
    /\ rst' = [rst EXCEPT ![r] = "failed"]
    /\ UNCHANGED <<tables, session, link, first, farewell, dog, rcl>>

\* An applied mapping change, whoever submitted it, ends in a broadcast.
MappingChanged ==
    /\ first' = Broadcast(first)
    /\ UNCHANGED <<tables, session, link, silent, farewell, dog, visitors>>

\* recv_msg fails: the peer closed or the transport is lost.
SessionEnds(c) ==
    /\ pc[c] = "serving"
    /\ link[c] \in {"eof", "lost"}
    /\ pc' = [pc EXCEPT ![c] = "ended"]
    /\ Disconnect(c, farewell)
    /\ UNCHANGED <<cooling, sid, offer, held, prev, silent, first, dog, rcl>>

\* The rest of _disconnect_session, once close_writer returns: the
\* CLIENT_DISCONNECTED event and a broadcast, in whichever task removed the
\* session.  If that is the watchdog, its round goes on at once.  (If the
\* transport was lost already close_writer does not suspend; the state in
\* between is one that a closing transport leads to as well.)
Farewell(c) ==
    /\ c \in farewell
    /\ link[c] = "lost"
    /\ first' = Broadcast(first)
    /\ \/ /\ reaping # c
          /\ farewell' = farewell \ {c}
          /\ UNCHANGED <<clients, owner, link, dog, rst>>
       \/ /\ reaping = c
          /\ Reap(expired, farewell \ {c})
    /\ UNCHANGED <<cooling, session, silent, rcl>>

\* kick_client: an offline id is left alone; otherwise the cooldown is
\* registered before the session is taken down.
Kick(i) ==
    /\ clients[i] # NoConn
    /\ cooling' = IF CooldownOn THEN cooling \cup {i} ELSE cooling \ {i}
    /\ Disconnect(clients[i], farewell)
    /\ UNCHANGED <<session, silent, first, dog, rcl>>

\* The deadline passes, or the entry is evicted from the bounded table.
CooldownEnds(i) ==
    /\ i \in cooling
    /\ cooling' = cooling \ {i}
    /\ UNCHANGED <<clients, owner, session, link, silent, first, farewell, dog, visitors>>

-----------------------------------------------------------------------------
(* The watchdog: each round collects the idle sessions once, then expires   *)
(* them one by one, awaiting each removal.                                 *)

\* collect_expired, and its faulty variant with the comparison inverted.
IdleInverted == {c \in Conn : IsCurrent(c) /\ ~silent[c]}
Idle == {c \in Conn : IsCurrent(c) /\ silent[c]}

Patrol ==
    /\ reaping = NoConn
    /\ Reap(Idle, farewell)
    /\ UNCHANGED <<cooling, session, silent, first, rcl>>

-----------------------------------------------------------------------------
(* Visitors, as far as the control plane sees them.                        *)

\* _handle_visitor up to the new_conn frame.  If that frame cannot be sent
\* the request is failed and discarded in the same stretch.
Visit(r, p) ==
    /\ rst[r] = "idle"
    /\ \E i \in Routes(p) :
          /\ Writable(clients[i])
          /\ rst' = [rst EXCEPT ![r] = "waiting"]
          /\ rcl' = [rcl EXCEPT ![r] = i]
          /\ first' = [first EXCEPT ![clients[i]] = IF @ = "none" THEN "other" ELSE @]
    /\ UNCHANGED <<tables, session, link, silent, farewell, dog>>

\* The data channel registers in time.
Pair(r) ==
    /\ rst[r] = "waiting"
    /\ rst' = [rst EXCEPT ![r] = "paired"]
    /\ UNCHANGED <<tables, session, link, silent, first, farewell, dog, rcl>>

\* The pipe ends, the pairing times out, or a failure is delivered.
VisitorLeaves(r) ==
    /\ rst[r] # "idle"
    /\ rst' = [rst EXCEPT ![r] = "idle"]
    /\ rcl' = [rcl EXCEPT ![r] = NoClient]
    /\ UNCHANGED <<tables, session, link, silent, first, farewell, dog>>

-----------------------------------------------------------------------------
(* The network and the clock.                                              *)

PeerCloses(c) ==
    /\ link[c] = "up"
    /\ link' = [link EXCEPT ![c] = "eof"]
    /\ UNCHANGED <<tables, session, silent, first, farewell, dog, visitors>>

Reset(c) ==
    /\ link[c] \in {"up", "eof"}
    /\ link' = [link EXCEPT ![c] = "lost"]
    /\ UNCHANGED <<tables, session, silent, first, farewell, dog, visitors>>

\* A closing transport is lost once flushed, shut down, or timed out.
CloseCompletes(c) ==
    /\ link[c] = "closing"
    /\ link' = [link EXCEPT ![c] = "lost"]
    /\ UNCHANGED <<tables, session, silent, first, farewell, dog, visitors>>

GoesSilent(c) ==
    /\ IsCurrent(c) /\ ~silent[c]
    /\ silent' = [silent EXCEPT ![c] = TRUE]
    /\ UNCHANGED <<tables, session, link, first, farewell, dog, visitors>>

-----------------------------------------------------------------------------
Handler(c) ==
    \/ Connect(c) \/ GiveUp(c) \/ Reject(c) \/ Register(c)
    \/ ResumeRegister(c) \/ FinishAck(c)
    \/ Receive(c) \/ (\E r \in Req : ReceiveConnError(c, r))
    \/ SessionEnds(c) \/ Farewell(c)

Admin == MappingChanged \/ (\E i \in Client : Kick(i) \/ CooldownEnds(i))

Visitor(r) ==
    \/ (\E p \in Port : Visit(r, p)) \/ Pair(r) \/ VisitorLeaves(r)

Network(c) == PeerCloses(c) \/ Reset(c) \/ CloseCompletes(c) \/ GoesSilent(c)

Next ==
    \/ \E c \in Conn : Handler(c) \/ Network(c)
    \/ Admin
    \/ Patrol
    \/ \E r \in Req : Visitor(r)

Spec == Init /\ [][Next]_vars

\* What the event loop guarantees: a runnable coroutine runs, the watchdog's
\* timer fires, and a transport the server closed is lost in the end (the
\* TLS shutdown timeout or the kernel's retransmission limit sees to it).
Fairness ==
    /\ \A c \in Conn :
          /\ WF_vars(ResumeRegister(c))
          /\ WF_vars(FinishAck(c))
          /\ WF_vars(SessionEnds(c))
          /\ WF_vars(Farewell(c))
          /\ WF_vars(CloseCompletes(c))
    /\ WF_vars(Patrol)

FairSpec == Spec /\ Fairness

-----------------------------------------------------------------------------
(* Properties.                                                             *)

TypeOK ==
    /\ clients \in [Client -> Conn \cup {NoConn}]
    /\ owner \in [Port -> Client \cup {NoClient}]
    /\ cooling \in SUBSET Client
    /\ pc \in [Conn -> Phases]
    /\ link \in [Conn -> Links]
    /\ sid \in [Conn -> Client \cup {NoClient}]
    /\ offer \in [Conn -> SUBSET Port]
    /\ held \in [Conn -> SUBSET Port]
    /\ prev \in [Conn -> Conn \cup {NoConn}]
    /\ silent \in [Conn -> BOOLEAN]
    /\ first \in [Conn -> {"none", "ack", "other"}]
    /\ farewell \in SUBSET Conn
    /\ expired \in SUBSET Conn
    /\ reaping \in Conn \cup {NoConn}
    /\ rst \in [Req -> {"idle", "waiting", "failed", "paired"}]
    /\ rcl \in [Req -> Client \cup {NoClient}]

\* A session that can be routed to sits on a connection the server has not
\* closed: every path that closes a session's writer has taken the session
\* out of the registry first, also while registrations of the same id wait.
RoutableIsOpen ==
    \A i \in Client : clients[i] # NoConn =>
        /\ sid[clients[i]] = i
        /\ pc[clients[i]] \in {"replacing", "serving"}
        /\ link[clients[i]] # "closing"

\* During its cooldown a kicked client id is never online, whatever
\* registrations of it were already under way (core.py:457-459).
KickedStaysOut == \A i \in cooling : clients[i] = NoConn

\* The ports a session reports as its own (local_ports in snapshots and the
\* disconnect event) are owned by its client id, although a superseded
\* registration may write them late.
HeldPortsOwned ==
    \A i \in Client : clients[i] # NoConn =>
        \A p \in held[clients[i]] : owner[p] = i

\* limits.max_clients bounds the sessions online.
CapacityRespected == Cardinality(Online) <= MaxClients

\* Exclusive ports (registry.py:10-11): no step hands a port from one client
\* id to another; it has to be released in between.
PortsNotStolen ==
    [][\A p \in Port :
          owner[p] # NoClient /\ owner'[p] # NoClient => owner'[p] = owner[p]]_vars

\* A session leaves the registry only by its own disconnection (which closes
\* its connection and announces it), by supersession, or by a failed ack of
\* its client id: the end of a stale connection, a kick or the watchdog
\* never takes out another session (core.py:838-841).
OnlyOwnDisconnect ==
    [][\A i \in Client :
          clients[i] # NoConn /\ clients'[i] = NoConn =>
              \/ clients[i] \in farewell' \ farewell /\ link'[clients[i]] # "up"
              \/ \E c \in Conn : /\ sid'[c] = i
                                /\ pc[c] \in {"accepted", "replacing", "acking"}
                                /\ pc'[c] = "ended"]_vars

\* A connection hears nothing but its own answer before it has registered,
\* whoever changes the mapping, registers or leaves meanwhile.  The one
\* exception is a session that awaits the close of the one it supersedes: it
\* is in the registry, and its ack is not sent yet (core.py:714).
NothingBeforeAck ==
    [][\A c \in Conn :
          first[c] = "none" /\ first'[c] = "other" => pc[c] = "replacing"]_vars

\* When a session is disconnected or superseded, no visitor is left waiting
\* on it for the rest of pair_timeout (pending.py:177-180).
VisitorsReleased ==
    [][\A i \in Client :
          clients[i] # NoConn /\ clients'[i] # clients[i]
          /\ (clients'[i] # NoConn \/ farewell' # farewell) =>
              \A r \in Req : ~(rst'[r] = "waiting" /\ rcl'[r] = i)]_vars

\* The watchdog gets rid of every session that stays silent, even when it is
\* busy awaiting the closing of others (heartbeat.py:13-15).
SilentIsReaped ==
    \A c \in Conn : (IsCurrent(c) /\ silent[c]) ~> (~IsCurrent(c) \/ ~silent[c])

\* A registration that supersedes another always settles.
RegistrationSettles ==
    \A c \in Conn : pc[c] \in {"replacing", "acking"} ~> pc[c] \in {"serving", "ended"}

-----------------------------------------------------------------------------
(* Statements of the repository's documents that the code does not keep.   *)

\* README.md:801, registry.py:12: a client's ports are released when it
\* disconnects, so an owned port belongs to a client that is online.
OwnersAreOnline == \A p \in Port : owner[p] # NoClient => owner[p] \in Online
=============================================================================
