------------------------- MODULE ControlPlane_proofs -------------------------
(* Theorems about ControlPlane for every choice of its constants. *)
EXTENDS ControlPlane, FiniteSetTheorems, TLAPS

Owners == [Port -> Client \cup {NoClient}]

\* The registry's table operations keep the tables well typed.
LEMMA FlushedType ==
    ASSUME NEW own \in Owners, NEW i PROVE Flushed(own, i) \in Owners
  BY DEF Flushed, Owners

LEMMA ClaimedType ==
    ASSUME NEW own \in Owners, NEW i \in Client, NEW ports
    PROVE  Claimed(own, i, ports) \in Owners
  BY DEF Claimed, Owners

LEMMA CloseWriterType ==
    ASSUME NEW l \in [Conn -> Links], NEW c
    PROVE  CloseWriter(l, c) \in [Conn -> Links]
  BY DEF CloseWriter, Links

LEMMA FailAllType ==
    ASSUME TypeOK, NEW i
    PROVE  /\ FailAll(i) \in [Req -> {"idle", "waiting", "failed", "paired"}]
           /\ \A r \in Req : FailAll(i)[r] # "idle" => rst[r] # "idle"
  BY DEF FailAll, TypeOK

LEMMA BroadcastType ==
    ASSUME NEW f \in [Conn -> {"none", "ack", "other"}]
    PROVE  Broadcast(f) \in [Conn -> {"none", "ack", "other"}]
  BY DEF Broadcast

\* What _disconnect_session does to the variables it touches is well typed.
LEMMA DisconnectType ==
    ASSUME TypeOK, NEW c \in Conn, NEW fw \in SUBSET Conn, Disconnect(c, fw)
    PROVE  /\ clients' \in [Client -> Conn \cup {NoConn}]
           /\ owner' \in Owners
           /\ rst' \in [Req -> {"idle", "waiting", "failed", "paired"}]
           /\ \A r \in Req : rst'[r] # "idle" => rst[r] # "idle"
           /\ link' \in [Conn -> Links]
           /\ farewell' \in SUBSET Conn
<1>1. CASE IsCurrent(c)
  <2>1. owner' = Flushed(owner, sid[c]) /\ owner \in Owners
    BY <1>1 DEF Disconnect, TakeDown, TypeOK, Owners
  <2>2. owner' \in Owners
    BY <2>1, FlushedType
  <2>3. rst' = FailAll(sid[c]) /\ link' = CloseWriter(link, c)
    BY <1>1 DEF Disconnect, TakeDown
  <2>4. /\ rst' \in [Req -> {"idle", "waiting", "failed", "paired"}]
        /\ \A r \in Req : rst'[r] # "idle" => rst[r] # "idle"
    BY <2>3, FailAllType
  <2>5. link' \in [Conn -> Links]
    BY <2>3, CloseWriterType DEF TypeOK
  <2>6. QED
    BY <1>1, <2>2, <2>4, <2>5 DEF Disconnect, TakeDown, TypeOK
<1>2. CASE ~IsCurrent(c)
  BY <1>2 DEF Disconnect, TakeDown, TypeOK, Owners
<1>3. QED
  BY <1>1, <1>2

LEMMA ReapType ==
    ASSUME TypeOK, NEW list \in SUBSET Conn, NEW fw \in SUBSET Conn, Reap(list, fw)
    PROVE  /\ clients' \in [Client -> Conn \cup {NoConn}]
           /\ owner' \in Owners
           /\ rst' \in [Req -> {"idle", "waiting", "failed", "paired"}]
           /\ \A r \in Req : rst'[r] # "idle" => rst[r] # "idle"
           /\ link' \in [Conn -> Links]
           /\ farewell' \in SUBSET Conn
           /\ expired' \in SUBSET Conn
           /\ reaping' \in Conn \cup {NoConn}
<1>1. CASE \E c \in list : IsCurrent(c) /\ Disconnect(c, fw) /\ reaping' = c /\ expired' = list \ {c}
  <2>1. PICK c \in list : Disconnect(c, fw) /\ reaping' = c /\ expired' = list \ {c}
    BY <1>1
  <2>2. QED
    BY <2>1, DisconnectType
<1>2. CASE /\ farewell' = fw /\ reaping' = NoConn /\ expired' = {}
           /\ UNCHANGED <<clients, owner, rst, link>>
  BY <1>2 DEF TypeOK, Owners
<1>3. QED
  BY <1>1, <1>2 DEF Reap

-----------------------------------------------------------------------------
\* A coroutine past the registration checks carries a client id, and so does
\* a request in flight.
Named ==
    /\ \A c \in Conn : pc[c] \in {"replacing", "acking", "serving"} => sid[c] \in Client
    /\ \A r \in Req : rst[r] # "idle" => rcl[r] \in Client

FirstFrames == {"none", "ack", "other"}
RequestStates == {"idle", "waiting", "failed", "paired"}

\* Every variable keeps its type, whatever the interleaving.
THEOREM TypeCorrect == Spec => [](TypeOK /\ Named)
<1>1. Init => TypeOK /\ Named
  BY ConstAssumption DEF Init, TypeOK, Named, Phases, Links
<1>2. TypeOK /\ Named /\ [Next]_vars => TypeOK' /\ Named'
  <2> SUFFICES ASSUME TypeOK, Named, [Next]_vars PROVE TypeOK' /\ Named'
    OBVIOUS
  <2> USE DEF TypeOK, Named, tables, session, dog, visitors, Owners, FirstFrames, RequestStates
  <2>1. ASSUME NEW c \in Conn, Connect(c) PROVE TypeOK' /\ Named'
    BY <2>1 DEF Connect, Phases, Links
  <2>2. ASSUME NEW c \in Conn, GiveUp(c) PROVE TypeOK' /\ Named'
    BY <2>2, CloseWriterType DEF GiveUp, Phases
  <2>3. ASSUME NEW c \in Conn, NEW i \in Client, NEW ports \in Offers, RegisterNow(c, i, ports)
        PROVE  TypeOK' /\ Named'
    <3> DEFINE free == IF clients[i] = NoConn THEN owner ELSE Flushed(owner, i)
    <3>1. ports \in SUBSET Port
      BY ConstAssumption
    <3>2. free \in Owners
      BY FlushedType
    <3>3. owner' \in Owners
      <4>1. Claimed(free, i, ports) \in Owners /\ Flushed(owner, i) \in Owners
        BY <3>2, FlushedType, ClaimedType
      <4>2. QED
        BY <2>3, <4>1 DEF RegisterNow
    <3>4. held' \in [Conn -> SUBSET Port]
      BY <2>3, <3>1 DEF RegisterNow, Claimable
    <3>5. first' \in [Conn -> FirstFrames]
      BY <2>3 DEF RegisterNow, Broadcast
    <3>6. /\ rst' \in [Req -> RequestStates]
          /\ \A r \in Req : rst'[r] # "idle" => rst[r] # "idle"
      BY <2>3, FailAllType DEF RegisterNow
    <3>7. clients' \in [Client -> Conn \cup {NoConn}] /\ sid' \in [Conn -> Client \cup {NoClient}]
      BY <2>3 DEF RegisterNow
    <3>8. pc' \in [Conn -> Phases] /\ Named'
      BY <2>3, <3>6 DEF RegisterNow, Phases
    <3>9. QED
      BY <2>3, <3>3, <3>4, <3>5, <3>6, <3>7, <3>8 DEF RegisterNow
  <2>4. ASSUME NEW c \in Conn, NEW i \in Client, NEW ports \in Offers, RegisterOver(c, i, ports)
        PROVE  TypeOK' /\ Named'
    <3>1. /\ owner' \in Owners
          /\ rst' \in [Req -> RequestStates]
          /\ \A r \in Req : rst'[r] # "idle" => rst[r] # "idle"
      BY <2>4, FlushedType, FailAllType DEF RegisterOver, Supersede
    <3>2. link' \in [Conn -> Links]
      BY <2>4, CloseWriterType DEF RegisterOver, Supersede
    <3>3. QED
      BY <2>4, <3>1, <3>2, ConstAssumption DEF RegisterOver, Supersede, Phases
  <2>5. ASSUME NEW c \in Conn, ResumeRegister(c) PROVE TypeOK' /\ Named'
    <3> DEFINE now == Claimed(owner, sid[c], offer[c])
    <3>1. sid[c] \in Client
      BY <2>5 DEF ResumeRegister
    <3>2. now \in Owners
      BY <3>1, ClaimedType
    <3>3. owner' \in Owners
      <4>1. Removed(now, sid[c]) \in Owners
        BY <3>2, FlushedType DEF Removed
      <4>2. QED
        BY <2>5, <3>2, <4>1 DEF ResumeRegister
    <3>4. held' \in [Conn -> SUBSET Port]
      <4>1. Claimable(owner, sid[c], offer[c]) \in SUBSET Port
        BY DEF Claimable
      <4>2. QED
        BY <2>5, <4>1 DEF ResumeRegister
    <3>5. first' \in [Conn -> FirstFrames]
      BY <2>5 DEF ResumeRegister, Broadcast
    <3>6. clients' \in [Client -> Conn \cup {NoConn}] /\ pc' \in [Conn -> Phases] /\ Named'
      BY <2>5, <3>1 DEF ResumeRegister, Phases
    <3>7. QED
      BY <2>5, <3>3, <3>4, <3>5, <3>6 DEF ResumeRegister
  <2>6. ASSUME NEW c \in Conn, FinishAck(c) PROVE TypeOK' /\ Named'
    <3>1. owner' \in Owners /\ first' \in [Conn -> FirstFrames]
      <4>1. Removed(owner, sid[c]) \in Owners
        BY FlushedType DEF Removed
      <4>2. QED
        BY <2>6, <4>1, BroadcastType DEF FinishAck
    <3>2. QED
      BY <2>6, <3>1 DEF FinishAck, Phases
  <2>7. ASSUME NEW c \in Conn, Receive(c) PROVE TypeOK' /\ Named'
    BY <2>7 DEF Receive
  <2>8. ASSUME NEW c \in Conn, NEW r \in Req, ReceiveConnError(c, r) PROVE TypeOK' /\ Named'
    BY <2>8 DEF ReceiveConnError
  <2>9. CASE MappingChanged
    BY <2>9, BroadcastType DEF MappingChanged
  <2>10. ASSUME NEW c \in Conn, SessionEnds(c) PROVE TypeOK' /\ Named'
    <3>1. Disconnect(c, farewell)
      BY <2>10 DEF SessionEnds
    <3>2. QED
      BY <2>10, <3>1, DisconnectType DEF SessionEnds, Phases
  <2>11. ASSUME NEW c \in Conn, Farewell(c) PROVE TypeOK' /\ Named'
    <3>1. first' \in [Conn -> FirstFrames]
      BY <2>11, BroadcastType DEF Farewell
    <3>2. CASE reaping # c
      BY <2>11, <3>1, <3>2 DEF Farewell
    <3>3. CASE reaping = c
      <4>1. Reap(expired, farewell \ {c})
        BY <2>11, <3>3 DEF Farewell
      <4>2. QED
        BY <2>11, <3>1, <4>1, ReapType DEF Farewell
    <3>4. QED
      BY <3>2, <3>3
  <2>12. ASSUME NEW i \in Client, Kick(i) PROVE TypeOK' /\ Named'
    <3>1. clients[i] \in Conn /\ Disconnect(clients[i], farewell)
      BY <2>12 DEF Kick
    <3>2. QED
      BY <2>12, <3>1, DisconnectType DEF Kick
  <2>13. ASSUME NEW i \in Client, CooldownEnds(i) PROVE TypeOK' /\ Named'
    BY <2>13 DEF CooldownEnds
  <2>14. CASE Patrol
    <3>1. Reap(Idle, farewell) /\ Idle \in SUBSET Conn
      BY <2>14 DEF Patrol, Idle
    <3>2. QED
      BY <2>14, <3>1, ReapType DEF Patrol
  <2>15. ASSUME NEW r \in Req, NEW p \in Port, Visit(r, p) PROVE TypeOK' /\ Named'
    <3>1. Routes(p) \subseteq Client
      BY DEF Routes, Online
    <3>2. PICK i \in Routes(p) :
            /\ rst' = [rst EXCEPT ![r] = "waiting"]
            /\ rcl' = [rcl EXCEPT ![r] = i]
            /\ first' = [first EXCEPT ![clients[i]] = IF @ = "none" THEN "other" ELSE @]
      BY <2>15 DEF Visit
    <3>3. first' \in [Conn -> FirstFrames]
      BY <3>2
    <3>4. QED
      BY <2>15, <3>1, <3>2, <3>3 DEF Visit
  <2>16. ASSUME NEW r \in Req, Pair(r) \/ VisitorLeaves(r) PROVE TypeOK' /\ Named'
    <3>1. CASE Pair(r)
      BY <3>1 DEF Pair
    <3>2. CASE VisitorLeaves(r)
      BY <3>2 DEF VisitorLeaves
    <3>3. QED
      BY <2>16, <3>1, <3>2
  <2>17. ASSUME NEW c \in Conn, Network(c) PROVE TypeOK' /\ Named'
    BY <2>17 DEF Network, PeerCloses, Reset, CloseCompletes, GoesSilent, Links
  <2>18. CASE UNCHANGED vars
    BY <2>18 DEF vars
  <2>19. QED
    BY <2>1, <2>2, <2>3, <2>4, <2>5, <2>6, <2>7, <2>8, <2>9, <2>10, <2>11, <2>12, <2>13,
       <2>14, <2>15, <2>16, <2>17, <2>18
    DEF Next, Handler, Admin, Visitor, Register, Reject
<1>3. QED
  BY <1>1, <1>2, PTL DEF Spec

-----------------------------------------------------------------------------
\* A connection that has not registered holds no port and has not been closed
\* by the server.
Fresh ==
    \A c \in Conn :
        /\ pc[c] \in {"idle", "accepted"} => held[c] = {}
        /\ pc[c] = "accepted" => link[c] # "closing"

\* The inductive invariant.  RoutableIsOpen makes the sessions of different
\* client ids different, which HeldPortsOwned needs; Fresh says that the
\* session that supersedes another starts with no port.
ControlInv ==
    TypeOK /\ Named /\ Fresh /\ RoutableIsOpen /\ KickedStaysOut /\ HeldPortsOwned

Unregistered == Fresh /\ RoutableIsOpen /\ HeldPortsOwned

\* Taking a session down leaves every other session as it was.
LEMMA DisconnectSafe ==
    ASSUME ControlInv, NEW c \in Conn, NEW fw, Disconnect(c, fw),
           UNCHANGED <<sid, held>>,
           pc' = pc \/ (pc' = [pc EXCEPT ![c] = "ended"] /\ pc[c] = "serving")
    PROVE  /\ Unregistered'
           /\ \A i \in Client : clients'[i] # NoConn => clients'[i] = clients[i]
           /\ \A i \in Client : clients'[i] # c
<1> USE DEF ControlInv, Unregistered, TypeOK, Fresh, RoutableIsOpen, HeldPortsOwned
<1>1. CASE ~IsCurrent(c)
  <2>1. UNCHANGED <<clients, owner, link>>
    BY <1>1 DEF Disconnect, TakeDown
  <2>2. \A i \in Client : clients[i] # c
    BY <1>1, ConstAssumption DEF IsCurrent
  <2>3. QED
    BY <2>1, <2>2
<1>2. CASE IsCurrent(c)
  <2>1. /\ clients' = [clients EXCEPT ![sid[c]] = NoConn]
        /\ owner' = Flushed(owner, sid[c])
        /\ link' = CloseWriter(link, c)
        /\ sid[c] \in Client
    BY <1>2 DEF Disconnect, TakeDown, IsCurrent
  <2>2. \A i \in Client : clients'[i] # NoConn => clients'[i] = clients[i] /\ clients[i] # c
    BY <2>1
  <2>3. RoutableIsOpen'
    BY <2>1, <2>2 DEF CloseWriter
  <2>4. HeldPortsOwned'
    <3> SUFFICES ASSUME NEW i \in Client, clients'[i] # NoConn, NEW p \in held[clients[i]]
                 PROVE  owner'[p] = i
      BY <2>2
    <3>1. clients[i] \in Conn /\ clients[i] # NoConn
      BY <2>2
    <3>2. owner[p] = i /\ p \in Port
      BY <3>1
    <3>3. i # sid[c]
      BY <2>1
    <3>4. QED
      BY <2>1, <3>2, <3>3 DEF Flushed
  <2>5. Fresh'
    <3>1. pc[c] = "serving" \/ pc[c] = "replacing"
      BY <1>2, <2>1, ConstAssumption DEF IsCurrent
    <3>2. QED
      BY <2>1, <3>1 DEF CloseWriter
  <2>6. QED
    BY <2>1, <2>2, <2>3, <2>4, <2>5, ConstAssumption
<1>3. QED
  BY <1>1, <1>2

LEMMA ReapSafe ==
    ASSUME ControlInv, NEW list \in SUBSET Conn, NEW fw, Reap(list, fw),
           UNCHANGED <<sid, held, pc>>
    PROVE  /\ Unregistered'
           /\ \A i \in Client : clients'[i] # NoConn => clients'[i] = clients[i]
<1>1. CASE UNCHANGED <<clients, owner, link>>
  BY <1>1 DEF ControlInv, Unregistered, Fresh, RoutableIsOpen, HeldPortsOwned
<1>2. CASE \E c \in list : Disconnect(c, fw)
  BY <1>2, DisconnectSafe
<1>3. QED
  BY <1>1, <1>2 DEF Reap

\* Claiming ports for i leaves what other ids own, and what i owns, in place.
LEMMA ClaimKeeps ==
    ASSUME NEW own \in Owners, NEW i \in Client, NEW ports, NEW j \in Client,
           NEW p \in Port, own[p] = j
    PROVE  Claimed(own, i, ports)[p] = j
  BY ConstAssumption DEF Claimed, Claimable

LEMMA FlushKeeps ==
    ASSUME NEW own \in Owners, NEW i \in Client, NEW j \in Client, i # j,
           NEW p \in Port, own[p] = j
    PROVE  Flushed(own, i)[p] = j
  BY DEF Flushed

LEMMA RegisterNowSafe ==
    ASSUME ControlInv, NEW c \in Conn, NEW i \in Client, NEW ports \in Offers,
           RegisterNow(c, i, ports)
    PROVE  (Unregistered /\ KickedStaysOut)'
<1> DEFINE free == IF clients[i] = NoConn THEN owner ELSE Flushed(owner, i)
<1> USE DEF ControlInv, TypeOK
<1>1. pc[c] = "accepted" /\ \A j \in Client : clients[j] # c
  BY ConstAssumption DEF RegisterNow, RoutableIsOpen
<1>2. sid' = [sid EXCEPT ![c] = i] /\ UNCHANGED <<link, cooling>> /\ i \notin cooling
  BY DEF RegisterNow, Refused
<1>3. free \in Owners
  BY FlushedType DEF Owners
<1>4. CASE Writable(c)
  <2>1. /\ clients' = [clients EXCEPT ![i] = c]
        /\ owner' = Claimed(free, i, ports)
        /\ held' = [held EXCEPT ![c] = Claimable(free, i, ports)]
        /\ pc' = [pc EXCEPT ![c] = "serving"]
    BY <1>4 DEF RegisterNow
  <2>2. RoutableIsOpen'
    BY <1>1, <1>2, <1>4, <2>1 DEF RoutableIsOpen, Writable
  <2>3. KickedStaysOut'
    BY <1>2, <2>1 DEF KickedStaysOut
  <2>4. Fresh'
    BY <1>2, <2>1 DEF Fresh
  <2>5. HeldPortsOwned'
    <3> SUFFICES ASSUME NEW j \in Client, clients'[j] # NoConn, NEW p \in held'[clients'[j]]
                 PROVE  owner'[p] = j
      BY DEF HeldPortsOwned
    <3>1. CASE j = i
      <4>1. p \in Claimable(free, i, ports)
        BY <2>1, <3>1
      <4>2. p \in Port
        BY <4>1, ConstAssumption DEF Claimable
      <4>3. QED
        BY <2>1, <3>1, <4>1, <4>2 DEF Claimed
    <3>2. CASE j # i
      <4>1. clients'[j] = clients[j] /\ clients[j] # c /\ clients[j] \in Conn
        BY <1>1, <2>1, <3>2
      <4>2. p \in held[clients[j]]
        BY <2>1, <4>1
      <4>3. owner[p] = j /\ p \in Port
        BY <4>1, <4>2 DEF HeldPortsOwned
      <4>4. free[p] = j
        BY <3>2, <4>3, FlushKeeps DEF Owners
      <4>5. QED
        BY <1>3, <2>1, <4>3, <4>4, ClaimKeeps
    <3>3. QED
      BY <3>1, <3>2
  <2>6. QED
    BY <2>2, <2>3, <2>4, <2>5 DEF Unregistered
<1>5. CASE ~Writable(c)
  <2>1. /\ clients' = [clients EXCEPT ![i] = NoConn]
        /\ owner' = Flushed(owner, i)
        /\ pc' = [pc EXCEPT ![c] = "ended"]
        /\ UNCHANGED held
    BY <1>5 DEF RegisterNow
  <2>2. RoutableIsOpen' /\ KickedStaysOut' /\ Fresh'
    BY <1>1, <1>2, <2>1 DEF RoutableIsOpen, KickedStaysOut, Fresh
  <2>3. HeldPortsOwned'
    <3> SUFFICES ASSUME NEW j \in Client, clients'[j] # NoConn, NEW p \in held[clients'[j]]
                 PROVE  owner'[p] = j
      BY <2>1 DEF HeldPortsOwned
    <3>1. j # i /\ clients'[j] = clients[j] /\ clients[j] \in Conn
      BY <2>1
    <3>2. owner[p] = j /\ p \in Port
      BY <3>1 DEF HeldPortsOwned
    <3>3. QED
      BY <2>1, <3>1, <3>2, FlushKeeps DEF Owners
  <2>4. QED
    BY <2>2, <2>3 DEF Unregistered
<1>6. QED
  BY <1>4, <1>5

LEMMA RegisterOverSafe ==
    ASSUME ControlInv, NEW c \in Conn, NEW i \in Client, NEW ports \in Offers,
           RegisterOver(c, i, ports)
    PROVE  (Unregistered /\ KickedStaysOut)'
<1> USE DEF ControlInv, TypeOK
<1>1. /\ pc[c] = "accepted" /\ held[c] = {} /\ link[c] # "closing"
      /\ \A j \in Client : clients[j] # c
      /\ i \notin cooling
  BY ConstAssumption DEF RegisterOver, Supersede, Refused, RoutableIsOpen, Fresh
<1>2. /\ clients' = [clients EXCEPT ![i] = c]
      /\ owner' = Flushed(owner, i)
      /\ link' = CloseWriter(link, clients[i])
      /\ sid' = [sid EXCEPT ![c] = i]
      /\ pc' = [pc EXCEPT ![c] = "replacing"]
      /\ UNCHANGED <<held, cooling>>
      /\ clients[i] \in Conn
  BY DEF RegisterOver, Supersede
<1>3. \A j \in Client : clients[j] # NoConn /\ j # i => clients[j] # clients[i]
  BY <1>2, ConstAssumption DEF RoutableIsOpen
<1>4. RoutableIsOpen'
  BY <1>1, <1>2, <1>3 DEF RoutableIsOpen, CloseWriter
<1>5. KickedStaysOut'
  BY <1>1, <1>2 DEF KickedStaysOut
<1>6. Fresh'
  <2>1. pc[clients[i]] # "accepted"
    BY <1>2, ConstAssumption DEF RoutableIsOpen
  <2>2. QED
    BY <1>2, <2>1 DEF Fresh, CloseWriter
<1>7. HeldPortsOwned'
  <2> SUFFICES ASSUME NEW j \in Client, clients'[j] # NoConn, NEW p \in held[clients'[j]]
               PROVE  owner'[p] = j
    BY <1>2 DEF HeldPortsOwned
  <2>1. j # i /\ clients'[j] = clients[j] /\ clients[j] \in Conn
    BY <1>1, <1>2
  <2>2. owner[p] = j /\ p \in Port
    BY <2>1 DEF HeldPortsOwned
  <2>3. QED
    BY <1>2, <2>1, <2>2, FlushKeeps DEF Owners
<1>8. QED
  BY <1>4, <1>5, <1>6, <1>7 DEF Unregistered

\* A resumed registration writes the ports of the session that is current by
\* then, together with their owner.
LEMMA ResumeRegisterSafe ==
    ASSUME ControlInv, NEW c \in Conn, ResumeRegister(c)
    PROVE  (Unregistered /\ KickedStaysOut)'
<1> DEFINE i == sid[c]
           now == Claimed(owner, i, offer[c])
<1> USE DEF ControlInv, TypeOK
<1>1. /\ pc[c] = "replacing" /\ i \in Client
      /\ UNCHANGED <<cooling, sid, link>>
      /\ held' = IF clients[i] = NoConn THEN held
                 ELSE [held EXCEPT ![clients[i]] = Claimable(owner, i, offer[c])]
  BY DEF ResumeRegister, Named
<1>2. \/ /\ Writable(c) /\ owner' = now /\ UNCHANGED clients
         /\ pc' = [pc EXCEPT ![c] = "serving"]
      \/ /\ link[c] = "closing" /\ owner' = now /\ UNCHANGED clients
         /\ pc' = [pc EXCEPT ![c] = "acking"]
      \/ /\ owner' = Removed(now, i) /\ clients' = [clients EXCEPT ![i] = NoConn]
         /\ pc' = [pc EXCEPT ![c] = "ended"]
  BY DEF ResumeRegister
<1>3. \A j \in Client : clients'[j] # NoConn =>
          clients'[j] = clients[j] /\ clients[j] \in Conn
  BY <1>1, <1>2
<1>4. KickedStaysOut'
  BY <1>1, <1>3 DEF KickedStaysOut
<1>5. Fresh'
  <2>1. clients[i] # NoConn => pc[clients[i]] \notin {"idle", "accepted"}
    BY <1>1 DEF RoutableIsOpen
  <2>2. \A d \in Conn : pc'[d] \in {"idle", "accepted"} => pc'[d] = pc[d]
    BY <1>1, <1>2
  <2>3. \A d \in Conn : pc[d] \in {"idle", "accepted"} => held'[d] = held[d]
    BY <1>1, <2>1
  <2>4. QED
    BY <1>1, <2>2, <2>3 DEF Fresh
<1>6. RoutableIsOpen'
  <2> SUFFICES ASSUME NEW j \in Client, clients'[j] # NoConn
               PROVE  /\ sid[clients[j]] = j
                      /\ pc'[clients[j]] \in {"replacing", "serving"}
                      /\ link[clients[j]] # "closing"
    BY <1>1, <1>3 DEF RoutableIsOpen
  <2>1. clients[j] \in Conn /\ clients[j] # NoConn
    BY <1>3
  <2>2. /\ sid[clients[j]] = j
        /\ pc[clients[j]] \in {"replacing", "serving"}
        /\ link[clients[j]] # "closing"
    BY <2>1 DEF RoutableIsOpen
  <2>3. pc'[clients[j]] \in {"replacing", "serving"}
    BY <1>1, <1>2, <2>1, <2>2
  <2>4. QED
    BY <2>2, <2>3
<1>7. HeldPortsOwned'
  <2> SUFFICES ASSUME NEW j \in Client, clients'[j] # NoConn, NEW p \in held'[clients[j]]
               PROVE  owner'[p] = j
    BY <1>3 DEF HeldPortsOwned
  <2>1. clients[j] \in Conn /\ clients[j] # NoConn
    BY <1>3
  <2>2. owner \in Owners /\ now \in Owners
    BY <1>1, ClaimedType DEF Owners
  <2>3. CASE j = i
    <3>1. p \in Claimable(owner, i, offer[c])
      BY <1>1, <2>1, <2>3
    <3>2. p \in Port /\ now[p] = i
      BY <3>1 DEF Claimable, Claimed
    <3>3. owner' = now
      BY <1>2, <2>3
    <3>4. QED
      BY <2>3, <3>2, <3>3
  <2>4. CASE j # i
    <3>1. clients[i] # clients[j]
      BY <1>1, <2>1, <2>4, ConstAssumption DEF RoutableIsOpen
    <3>2. p \in held[clients[j]]
      BY <1>1, <2>1, <3>1
    <3>3. owner[p] = j /\ p \in Port
      BY <2>1, <3>2 DEF HeldPortsOwned
    <3>4. now[p] = j
      BY <1>1, <2>2, <3>3, ClaimKeeps
    <3>5. Removed(now, i)[p] = j
      BY <1>1, <2>2, <2>4, <3>3, <3>4, FlushKeeps DEF Removed
    <3>6. QED
      BY <1>2, <3>4, <3>5
  <2>5. QED
    BY <2>3, <2>4
<1>8. QED
  BY <1>4, <1>5, <1>6, <1>7 DEF Unregistered

LEMMA FinishAckSafe ==
    ASSUME ControlInv, NEW c \in Conn, FinishAck(c)
    PROVE  (Unregistered /\ KickedStaysOut)'
<1> USE DEF ControlInv, TypeOK
<1>1. /\ pc[c] = "acking" /\ sid[c] \in Client
      /\ UNCHANGED <<cooling, sid, held, link>>
  BY DEF FinishAck, Named
<1>2. \/ /\ owner' = Removed(owner, sid[c]) /\ clients' = [clients EXCEPT ![sid[c]] = NoConn]
         /\ pc' = [pc EXCEPT ![c] = "ended"]
      \/ /\ UNCHANGED <<clients, owner>> /\ pc' = [pc EXCEPT ![c] = "serving"]
  BY DEF FinishAck
<1>3. \A j \in Client : clients'[j] # NoConn =>
          clients'[j] = clients[j] /\ clients[j] \in Conn /\ clients[j] # c
  BY <1>1, <1>2, ConstAssumption DEF RoutableIsOpen
<1>4. KickedStaysOut' /\ Fresh'
  BY <1>1, <1>2, <1>3 DEF KickedStaysOut, Fresh
<1>5. RoutableIsOpen'
  BY <1>1, <1>2, <1>3 DEF RoutableIsOpen
<1>6. HeldPortsOwned'
  <2> SUFFICES ASSUME NEW j \in Client, clients'[j] # NoConn, NEW p \in held[clients[j]]
               PROVE  owner'[p] = j
    BY <1>1, <1>3 DEF HeldPortsOwned
  <2>1. owner[p] = j /\ p \in Port
    BY <1>3 DEF HeldPortsOwned
  <2>2. QED
    BY <1>1, <1>2, <2>1, FlushKeeps DEF Owners, Removed
<1>7. QED
  BY <1>4, <1>5, <1>6 DEF Unregistered

\* Steps that leave the tables and the connections' own state alone.
LEMMA TablesKeep ==
    ASSUME ControlInv, UNCHANGED <<clients, owner, sid, held, pc>>,
           cooling' \subseteq cooling,
           \A c \in Conn : link'[c] = "closing" => link[c] = "closing"
    PROVE  (Unregistered /\ KickedStaysOut)'
<1>1. \A i \in Client : clients[i] # NoConn => clients[i] \in Conn
  BY DEF ControlInv, TypeOK
<1>2. QED
  BY <1>1 DEF ControlInv, Unregistered, Fresh, RoutableIsOpen, HeldPortsOwned, KickedStaysOut

\* The inductive invariant holds throughout.  The proof adds to TypeCorrect
\* one step per action that touches the registry's tables.
THEOREM ControlSafety == Spec => []ControlInv
<1>1. Init => Fresh /\ RoutableIsOpen /\ KickedStaysOut /\ HeldPortsOwned
  BY ConstAssumption DEF Init, Fresh, RoutableIsOpen, KickedStaysOut, HeldPortsOwned
<1>2. ControlInv /\ [Next]_vars => (Fresh /\ RoutableIsOpen /\ KickedStaysOut /\ HeldPortsOwned)'
  <2> SUFFICES ASSUME ControlInv, [Next]_vars PROVE (Unregistered /\ KickedStaysOut)'
    BY DEF Unregistered
  <2> USE DEF tables, session, dog, visitors
  <2>1. ASSUME NEW c \in Conn, Connect(c) PROVE (Unregistered /\ KickedStaysOut)'
    BY <2>1, ConstAssumption DEF Connect, ControlInv, TypeOK, Unregistered, Fresh,
       RoutableIsOpen, HeldPortsOwned, KickedStaysOut
  <2>2. ASSUME NEW c \in Conn, GiveUp(c) PROVE (Unregistered /\ KickedStaysOut)'
    BY <2>2, ConstAssumption DEF GiveUp, CloseWriter, ControlInv, TypeOK, Unregistered, Fresh,
       RoutableIsOpen, HeldPortsOwned, KickedStaysOut
  <2>3. ASSUME NEW c \in Conn, Register(c) PROVE (Unregistered /\ KickedStaysOut)'
    BY <2>3, RegisterNowSafe, RegisterOverSafe DEF Register
  <2>4. ASSUME NEW c \in Conn, ResumeRegister(c) \/ FinishAck(c)
        PROVE  (Unregistered /\ KickedStaysOut)'
    BY <2>4, ResumeRegisterSafe, FinishAckSafe
  <2>5. ASSUME NEW c \in Conn, SessionEnds(c) PROVE (Unregistered /\ KickedStaysOut)'
    <3>1. /\ Disconnect(c, farewell) /\ pc[c] = "serving"
          /\ pc' = [pc EXCEPT ![c] = "ended"] /\ UNCHANGED <<cooling, sid, held>>
      BY <2>5 DEF SessionEnds
    <3>2. Unregistered' /\ \A i \in Client : clients'[i] # NoConn => clients'[i] = clients[i]
      BY <3>1, DisconnectSafe
    <3>3. QED
      BY <3>1, <3>2 DEF KickedStaysOut, ControlInv, TypeOK
  <2>6. ASSUME NEW c \in Conn, Farewell(c) PROVE (Unregistered /\ KickedStaysOut)'
    <3>1. CASE reaping = c
      <4>1. Reap(expired, farewell \ {c}) /\ UNCHANGED <<cooling, sid, held, pc>>
        BY <2>6, <3>1 DEF Farewell
      <4>2. Unregistered' /\ \A i \in Client : clients'[i] # NoConn => clients'[i] = clients[i]
        BY <4>1, ReapSafe DEF ControlInv, TypeOK
      <4>3. QED
        BY <4>1, <4>2 DEF KickedStaysOut, ControlInv, TypeOK
    <3>2. CASE reaping # c
      BY <2>6, <3>2, TablesKeep DEF Farewell
    <3>3. QED
      BY <3>1, <3>2
  <2>7. ASSUME NEW i \in Client, Kick(i) PROVE (Unregistered /\ KickedStaysOut)'
    <3>1. /\ clients[i] # NoConn /\ clients[i] \in Conn
          /\ Disconnect(clients[i], farewell) /\ UNCHANGED <<sid, held, pc>>
          /\ cooling' \subseteq cooling \cup {i}
      BY <2>7 DEF Kick, ControlInv, TypeOK
    <3>2. /\ Unregistered'
          /\ \A j \in Client : clients'[j] # NoConn => clients'[j] = clients[j]
          /\ clients'[i] # clients[i]
      BY <3>1, DisconnectSafe
    <3>3. QED
      BY <3>1, <3>2 DEF KickedStaysOut, ControlInv, TypeOK
  <2>8. CASE Patrol
    <3>1. Reap(Idle, farewell) /\ UNCHANGED <<cooling, sid, held, pc>> /\ Idle \in SUBSET Conn
      BY <2>8 DEF Patrol, Idle
    <3>2. Unregistered' /\ \A i \in Client : clients'[i] # NoConn => clients'[i] = clients[i]
      BY <3>1, ReapSafe
    <3>3. QED
      BY <3>1, <3>2 DEF KickedStaysOut, ControlInv, TypeOK
  <2>9. CASE MappingChanged
    BY <2>9, TablesKeep DEF MappingChanged
  <2>10. ASSUME NEW i \in Client, CooldownEnds(i) PROVE (Unregistered /\ KickedStaysOut)'
    BY <2>10, TablesKeep DEF CooldownEnds
  <2>11. ASSUME NEW c \in Conn, Receive(c) \/ (\E r \in Req : ReceiveConnError(c, r))
         PROVE  (Unregistered /\ KickedStaysOut)'
    BY <2>11, TablesKeep DEF Receive, ReceiveConnError
  <2>12. ASSUME NEW r \in Req, Visitor(r) PROVE (Unregistered /\ KickedStaysOut)'
    BY <2>12, TablesKeep DEF Visitor, Visit, Pair, VisitorLeaves
  <2>13. ASSUME NEW c \in Conn, Network(c) PROVE (Unregistered /\ KickedStaysOut)'
    BY <2>13, TablesKeep
    DEF Network, PeerCloses, Reset, CloseCompletes, GoesSilent, ControlInv, TypeOK
  <2>14. CASE UNCHANGED vars
    BY <2>14, TablesKeep DEF vars
  <2>15. QED
    BY <2>1, <2>2, <2>3, <2>4, <2>5, <2>6, <2>7, <2>8, <2>9, <2>10, <2>11, <2>12, <2>13, <2>14
    DEF Next, Handler, Admin, Reject
<1>3. QED
  BY <1>1, <1>2, TypeCorrect, PTL DEF Spec, ControlInv

\* The control plane's variables keep their types, whatever the interleaving of
\* handlers, watchdog, admin calls and network.
THEOREM TypesHold == Spec => []TypeOK
  BY ControlSafety, PTL DEF ControlInv

\* A session that can be routed to is on a connection the server has not
\* closed, also while a superseding registration waits (core.py:700-759).
THEOREM RoutableSessionsOpen == Spec => []RoutableIsOpen
  BY ControlSafety, PTL DEF ControlInv

\* A kicked client id stays offline until its cooldown ends (core.py:437-475).
THEOREM KickedClientsStayOut == Spec => []KickedStaysOut
  BY ControlSafety, PTL DEF ControlInv

\* A session's local_ports are owned by its client id (registry.py:143-164).
THEOREM HeldPortsAreOwned == Spec => []HeldPortsOwned
  BY ControlSafety, PTL DEF ControlInv

-----------------------------------------------------------------------------
\* Ports keep their owner from one table to the next, or are released.
Kept(own, next) ==
    \A p \in Port : own[p] # NoClient /\ next[p] # NoClient => next[p] = own[p]

LEMMA FlushedKept ==
    ASSUME NEW own \in Owners, NEW i PROVE Kept(own, Flushed(own, i))
  BY DEF Kept, Flushed, Owners

LEMMA ClaimedKept ==
    ASSUME NEW own \in Owners, NEW i, NEW ports PROVE Kept(own, Claimed(own, i, ports))
  BY DEF Kept, Claimed, Claimable, Owners

\* A client id that has released its ports may claim them again in the same
\* step: they come back to the same owner.
LEMMA FlushedClaimedKept ==
    ASSUME NEW own \in Owners, NEW i, NEW ports
    PROVE  Kept(own, Claimed(Flushed(own, i), i, ports))
  BY DEF Kept, Claimed, Claimable, Flushed, Owners

LEMMA ClaimedFlushedKept ==
    ASSUME NEW own \in Owners, NEW i, NEW ports
    PROVE  Kept(own, Flushed(Claimed(own, i, ports), i))
  BY DEF Kept, Claimed, Claimable, Flushed, Owners

LEMMA DisconnectKept ==
    ASSUME TypeOK, NEW c, NEW fw, Disconnect(c, fw) PROVE Kept(owner, owner')
<1>1. CASE IsCurrent(c)
  BY <1>1, FlushedKept DEF Disconnect, TakeDown, TypeOK, Owners
<1>2. CASE ~IsCurrent(c)
  BY <1>2 DEF Disconnect, TakeDown, Kept
<1>3. QED
  BY <1>1, <1>2

\* No step hands a port from one client id to another: the exclusive ports of
\* registry.py:143-164, for every interleaving of registrations, kicks,
\* disconnections and failed acks.
THEOREM PortsNeverStolen == Spec => PortsNotStolen
<1>1. TypeOK /\ [Next]_vars => Kept(owner, owner')
  <2> SUFFICES ASSUME TypeOK, [Next]_vars PROVE Kept(owner, owner')
    OBVIOUS
  <2> USE DEF tables, session, dog, visitors
  <2>1. owner \in Owners
    BY DEF TypeOK, Owners
  <2>2. UNCHANGED owner => Kept(owner, owner')
    BY DEF Kept
  <2>3. ASSUME NEW c \in Conn, NEW i \in Client, NEW ports \in Offers, RegisterNow(c, i, ports)
        PROVE  Kept(owner, owner')
    BY <2>1, <2>3, ClaimedKept, FlushedKept, FlushedClaimedKept DEF RegisterNow
  <2>4. ASSUME NEW c \in Conn, NEW i \in Client, NEW ports \in Offers, RegisterOver(c, i, ports)
        PROVE  Kept(owner, owner')
    BY <2>1, <2>4, FlushedKept DEF RegisterOver, Supersede
  <2>5. ASSUME NEW c \in Conn, ResumeRegister(c) PROVE Kept(owner, owner')
    BY <2>1, <2>5, ClaimedKept, ClaimedFlushedKept DEF ResumeRegister, Removed
  <2>6. ASSUME NEW c \in Conn, FinishAck(c) PROVE Kept(owner, owner')
    BY <2>1, <2>2, <2>6, FlushedKept DEF FinishAck, Removed
  <2>7. ASSUME NEW list, NEW fw, Reap(list, fw) PROVE Kept(owner, owner')
    BY <2>2, <2>7, DisconnectKept DEF Reap
  <2>8. ASSUME NEW c \in Conn, SessionEnds(c) \/ Farewell(c) PROVE Kept(owner, owner')
    <3>1. CASE SessionEnds(c)
      BY <3>1, DisconnectKept DEF SessionEnds
    <3>2. CASE Farewell(c)
      BY <2>2, <2>7, <3>2 DEF Farewell
    <3>3. QED
      BY <2>8, <3>1, <3>2
  <2>9. CASE Admin
    <3>1. ASSUME NEW i \in Client, Kick(i) PROVE Kept(owner, owner')
      BY <3>1, DisconnectKept DEF Kick
    <3>2. QED
      BY <2>2, <2>9, <3>1 DEF Admin, MappingChanged, CooldownEnds
  <2>10. CASE Patrol
    BY <2>7, <2>10 DEF Patrol
  <2>11. ASSUME NEW c \in Conn,
                Connect(c) \/ GiveUp(c) \/ Reject(c) \/ Receive(c)
                \/ (\E r \in Req : ReceiveConnError(c, r)) \/ Network(c)
         PROVE  Kept(owner, owner')
    BY <2>2, <2>11 DEF Connect, GiveUp, Reject, Receive, ReceiveConnError, Network,
       PeerCloses, Reset, CloseCompletes, GoesSilent
  <2>12. ASSUME NEW r \in Req, Visitor(r) PROVE Kept(owner, owner')
    BY <2>2, <2>12 DEF Visitor, Visit, Pair, VisitorLeaves
  <2>13. CASE UNCHANGED vars
    BY <2>2, <2>13 DEF vars
  <2>14. QED
    BY <2>3, <2>4, <2>5, <2>6, <2>8, <2>9, <2>10, <2>11, <2>12, <2>13
    DEF Next, Handler, Register
<1>2. TypeOK /\ [Next]_vars =>
        [\A p \in Port :
            owner[p] # NoClient /\ owner'[p] # NoClient => owner'[p] = owner[p]]_vars
  BY <1>1 DEF Kept
<1>3. QED
  BY <1>2, TypesHold, PTL DEF Spec, PortsNotStolen

-----------------------------------------------------------------------------
\* The registry stays finite and within limits.max_clients.
Bounded == IsFiniteSet(Online) /\ Cardinality(Online) <= MaxClients

\* Whatever takes sessions out, or puts one in the place of another, keeps it.
LEMMA FewerStayBounded ==
    ASSUME Bounded, \A i \in Client : clients'[i] # NoConn => clients[i] # NoConn
    PROVE  Bounded'
<1>1. Online' \subseteq Online
  BY DEF Online
<1>2. IsFiniteSet(Online') /\ Cardinality(Online') <= Cardinality(Online)
  BY <1>1, FS_Subset DEF Bounded
<1>3. Cardinality(Online) \in Nat /\ Cardinality(Online') \in Nat /\ MaxClients \in Nat
  BY <1>2, FS_CardinalityType, ConstAssumption DEF Bounded
<1>4. Cardinality(Online') <= MaxClients
  BY <1>2, <1>3 DEF Bounded
<1>5. QED
  BY <1>2, <1>4 DEF Bounded

\* A new client id comes in only where there is room for one more.
LEMMA RegisterNowBounded ==
    ASSUME TypeOK, Bounded, NEW c \in Conn, NEW i \in Client, NEW ports,
           RegisterNow(c, i, ports)
    PROVE  Bounded'
<1>1. \/ clients' = [clients EXCEPT ![i] = c]
      \/ clients' = [clients EXCEPT ![i] = NoConn]
  BY DEF RegisterNow
<1>2. CASE clients[i] # NoConn \/ clients' = [clients EXCEPT ![i] = NoConn]
  BY <1>1, <1>2, FewerStayBounded DEF TypeOK
<1>3. CASE clients[i] = NoConn /\ clients' = [clients EXCEPT ![i] = c]
  <2>1. i \notin Online /\ ~(Cardinality(Online) >= MaxClients)
    BY <1>3 DEF RegisterNow, Refused, Online
  <2>2. Online' = Online \cup {i}
    BY <1>3, ConstAssumption DEF Online, TypeOK
  <2>3. IsFiniteSet(Online \cup {i}) /\ Cardinality(Online \cup {i}) = Cardinality(Online) + 1
    BY <2>1, FS_AddElement DEF Bounded
  <2>4. Cardinality(Online) \in Nat /\ MaxClients \in Nat
    BY FS_CardinalityType, ConstAssumption DEF Bounded
  <2>5. Cardinality(Online) + 1 <= MaxClients
    BY <2>1, <2>4
  <2>6. QED
    BY <2>2, <2>3, <2>5 DEF Bounded
<1>4. QED
  BY <1>1, <1>2, <1>3

\* limits.max_clients bounds the sessions online however registrations,
\* supersessions, kicks and failed acks interleave (core.py:656-667).
THEOREM CapacityHolds == Spec => []CapacityRespected
<1>1. Init => Bounded
  <2> SUFFICES ASSUME Init PROVE Bounded
    OBVIOUS
  <2>1. Online = {}
    BY DEF Init, Online
  <2>2. IsFiniteSet({}) /\ Cardinality({}) = 0
    BY FS_EmptySet
  <2>3. MaxClients \in Nat
    BY ConstAssumption
  <2>4. QED
    BY <2>1, <2>2, <2>3 DEF Bounded
<1>2. TypeOK /\ Bounded /\ [Next]_vars => Bounded'
  <2> SUFFICES ASSUME TypeOK, Bounded, [Next]_vars PROVE Bounded'
    OBVIOUS
  <2> USE DEF tables, session, dog, visitors
  <2>1. UNCHANGED clients => Bounded'
    BY FewerStayBounded
  <2>2. ASSUME NEW c, NEW fw, Disconnect(c, fw) PROVE Bounded'
    <3>1. CASE UNCHANGED clients
      BY <2>1, <3>1
    <3>2. CASE clients' = [clients EXCEPT ![sid[c]] = NoConn]
      BY <3>2, FewerStayBounded DEF TypeOK
    <3>3. QED
      BY <2>2, <3>1, <3>2 DEF Disconnect, TakeDown
  <2>3. ASSUME NEW list, NEW fw, Reap(list, fw) PROVE Bounded'
    BY <2>1, <2>2, <2>3 DEF Reap
  <2>4. ASSUME NEW c \in Conn, NEW i \in Client, NEW ports \in Offers, RegisterNow(c, i, ports)
        PROVE  Bounded'
    BY <2>4, RegisterNowBounded
  <2>5. ASSUME NEW c \in Conn, NEW i \in Client, NEW ports \in Offers, RegisterOver(c, i, ports)
        PROVE  Bounded'
    BY <2>5, FewerStayBounded DEF RegisterOver, Supersede, TypeOK
  <2>6. ASSUME NEW c \in Conn, ResumeRegister(c) PROVE Bounded'
    BY <2>1, <2>6, FewerStayBounded DEF ResumeRegister, TypeOK
  <2>7. ASSUME NEW c \in Conn, FinishAck(c) PROVE Bounded'
    BY <2>1, <2>7, FewerStayBounded DEF FinishAck, TypeOK
  <2>8. ASSUME NEW c \in Conn, SessionEnds(c) \/ Farewell(c) PROVE Bounded'
    BY <2>1, <2>2, <2>3, <2>8 DEF SessionEnds, Farewell
  <2>9. CASE Admin \/ Patrol
    BY <2>1, <2>2, <2>3, <2>9 DEF Admin, Kick, MappingChanged, CooldownEnds, Patrol
  <2>10. ASSUME NEW c \in Conn,
                Connect(c) \/ GiveUp(c) \/ Reject(c) \/ Receive(c)
                \/ (\E r \in Req : ReceiveConnError(c, r)) \/ Network(c)
         PROVE  Bounded'
    BY <2>1, <2>10 DEF Connect, GiveUp, Reject, Receive, ReceiveConnError, Network,
       PeerCloses, Reset, CloseCompletes, GoesSilent
  <2>11. ASSUME NEW r \in Req, Visitor(r) PROVE Bounded'
    BY <2>1, <2>11 DEF Visitor, Visit, Pair, VisitorLeaves
  <2>12. CASE UNCHANGED vars
    BY <2>1, <2>12 DEF vars
  <2>13. QED
    BY <2>4, <2>5, <2>6, <2>7, <2>8, <2>9, <2>10, <2>11, <2>12 DEF Next, Handler, Register
<1>3. QED
  BY <1>1, <1>2, TypesHold, PTL DEF Spec, Bounded, CapacityRespected

-----------------------------------------------------------------------------
\* A session that can be routed to has had its ack, unless it still awaits the
\* close of the one it supersedes.
AckedOrWaiting ==
    \A i \in Client :
        clients[i] # NoConn /\ first[clients[i]] = "none" => pc[clients[i]] = "replacing"

\* Sessions that leave or hear more frames keep it, as long as no other
\* session's coroutine moves.
LEMMA QuietAcks ==
    ASSUME ControlInv, AckedOrWaiting,
           \A i \in Client : clients'[i] # NoConn =>
               /\ clients'[i] = clients[i]
               /\ pc'[clients[i]] = pc[clients[i]]
               /\ first'[clients[i]] = "none" => first[clients[i]] = "none"
    PROVE  AckedOrWaiting'
  BY DEF AckedOrWaiting

\* A broadcast reaches nobody who has registered but was not answered, except
\* the sessions that wait.
LEMMA BroadcastReach ==
    ASSUME ControlInv, AckedOrWaiting, NEW c \in Conn, NEW f, f[c] = first[c],
           first[c] = "none", Broadcast(f)[c] = "other"
    PROVE  pc[c] = "replacing"
<1>1. IsCurrent(c)
  BY DEF Broadcast
<1>2. sid[c] \in Client /\ clients[sid[c]] = c
  BY <1>1 DEF IsCurrent, ControlInv, TypeOK
<1>3. QED
  BY <1>2, ConstAssumption DEF AckedOrWaiting

LEMMA BroadcastKeeps ==
    ASSUME NEW f, NEW c \in Conn, Broadcast(f)[c] = "none" PROVE f[c] = "none"
  BY DEF Broadcast

LEMMA DisconnectAcks ==
    ASSUME ControlInv, NEW c \in Conn, NEW fw, Disconnect(c, fw)
    PROVE  \A i \in Client : clients'[i] # NoConn => clients'[i] = clients[i] /\ clients[i] # c
<1>1. CASE IsCurrent(c)
  BY <1>1, ConstAssumption
  DEF Disconnect, TakeDown, IsCurrent, ControlInv, TypeOK, RoutableIsOpen
<1>2. CASE ~IsCurrent(c)
  BY <1>2, ConstAssumption
  DEF Disconnect, TakeDown, IsCurrent, ControlInv, TypeOK, RoutableIsOpen
<1>3. QED
  BY <1>1, <1>2

LEMMA ReapAcks ==
    ASSUME ControlInv, NEW list \in SUBSET Conn, NEW fw, Reap(list, fw)
    PROVE  \A i \in Client : clients'[i] # NoConn => clients'[i] = clients[i]
  BY DisconnectAcks DEF Reap

\* No frame goes to a connection before the answer to its registration, except
\* to one that waits for the session it supersedes (core.py:714-741).
THEOREM NothingComesBeforeAck == Spec => NothingBeforeAck
<1> DEFINE Silence == \A c \in Conn : first[c] = "none" /\ first'[c] = "other" => pc[c] = "replacing"
<1>1. Init => AckedOrWaiting
  BY DEF Init, AckedOrWaiting
<1>2. ControlInv /\ AckedOrWaiting /\ [Next]_vars => AckedOrWaiting' /\ Silence
  <2> SUFFICES ASSUME ControlInv, AckedOrWaiting, [Next]_vars PROVE AckedOrWaiting' /\ Silence
    OBVIOUS
  <2> USE DEF tables, session, dog, visitors
  <2>1. \A i \in Client : clients[i] # NoConn =>
            /\ clients[i] \in Conn
            /\ sid[clients[i]] = i
            /\ pc[clients[i]] \in {"replacing", "serving"}
            /\ link[clients[i]] # "closing"
    BY DEF ControlInv, TypeOK, RoutableIsOpen
  <2>2. UNCHANGED first => Silence
    BY DEF ControlInv, TypeOK
  <2>3. first' = Broadcast(first) => /\ Silence
                                     /\ \A c \in Conn : first'[c] = "none" => first[c] = "none"
    BY BroadcastReach, BroadcastKeeps
  <2>4. ASSUME NEW c \in Conn, Connect(c) \/ GiveUp(c) \/ Reject(c)
        PROVE  AckedOrWaiting' /\ Silence
    <3>1. /\ UNCHANGED <<clients, first>>
          /\ pc[c] \in {"idle", "accepted"}
          /\ \E s \in Phases : pc' = [pc EXCEPT ![c] = s]
      BY <2>4 DEF Connect, GiveUp, Reject, Phases
    <3>2. \A i \in Client : clients[i] # NoConn => clients[i] # c
      BY <2>1, <3>1
    <3>3. QED
      BY <2>1, <2>2, <3>1, <3>2, QuietAcks DEF ControlInv, TypeOK
  <2>5. ASSUME NEW c \in Conn, NEW i \in Client, NEW ports \in Offers, RegisterNow(c, i, ports)
        PROVE  AckedOrWaiting' /\ Silence
    <3>1. pc[c] = "accepted" /\ \A j \in Client : clients[j] # NoConn => clients[j] # c
      BY <2>1, <2>5 DEF RegisterNow
    <3>2. CASE Writable(c)
      <4> DEFINE f == [first EXCEPT ![c] = "ack"]
      <4>1. /\ clients' = [clients EXCEPT ![i] = c]
            /\ first' = Broadcast(f)
            /\ pc' = [pc EXCEPT ![c] = "serving"]
        BY <2>5, <3>2 DEF RegisterNow
      <4>2. first'[c] = "ack"
        BY <4>1 DEF Broadcast, ControlInv, TypeOK
      <4>3. \A d \in Conn : d # c => f[d] = first[d]
        BY DEF ControlInv, TypeOK
      <4>4. \A d \in Conn : d # c /\ first'[d] = "none" => first[d] = "none"
        BY <4>1, <4>3, BroadcastKeeps
      <4>5. AckedOrWaiting'
        BY <2>1, <3>1, <4>1, <4>2, <4>4 DEF AckedOrWaiting, ControlInv, TypeOK
      <4>6. Silence
        BY <4>1, <4>2, <4>3, BroadcastReach
      <4>7. QED
        BY <4>5, <4>6
    <3>3. CASE ~Writable(c)
      <4>1. /\ clients' = [clients EXCEPT ![i] = NoConn]
            /\ pc' = [pc EXCEPT ![c] = "ended"]
            /\ UNCHANGED first
        BY <2>5, <3>3 DEF RegisterNow
      <4>2. QED
        BY <2>1, <2>2, <3>1, <4>1, QuietAcks DEF ControlInv, TypeOK
    <3>4. QED
      BY <3>2, <3>3
  <2>6. ASSUME NEW c \in Conn, NEW i \in Client, NEW ports \in Offers, RegisterOver(c, i, ports)
        PROVE  AckedOrWaiting' /\ Silence
    <3>1. /\ clients' = [clients EXCEPT ![i] = c]
          /\ pc' = [pc EXCEPT ![c] = "replacing"]
          /\ UNCHANGED first
      BY <2>6 DEF RegisterOver, Supersede
    <3>2. AckedOrWaiting'
      BY <2>1, <3>1 DEF AckedOrWaiting, ControlInv, TypeOK
    <3>3. QED
      BY <2>2, <3>1, <3>2
  <2>7. ASSUME NEW c \in Conn, ResumeRegister(c) PROVE AckedOrWaiting' /\ Silence
    <3> DEFINE f == [first EXCEPT ![c] = IF @ = "none" THEN "ack" ELSE @]
    <3>1. pc[c] = "replacing" /\ sid[c] \in Client
      BY <2>7 DEF ResumeRegister, ControlInv, Named
    <3>2. CASE /\ Writable(c) /\ UNCHANGED clients
               /\ first' = Broadcast(f)
               /\ pc' = [pc EXCEPT ![c] = "serving"]
      <4> DEFINE answer == IF first[c] = "none" THEN "ack" ELSE first[c]
      <4>1. first \in [Conn -> FirstFrames] /\ f = [first EXCEPT ![c] = answer]
        BY DEF ControlInv, TypeOK, FirstFrames
      <4>2. answer # "none"
        OBVIOUS
      <4> HIDE DEF f, answer
      <4>3. f[c] # "none" /\ \A d \in Conn : d # c => f[d] = first[d]
        BY <4>1, <4>2
      <4>4. first'[c] # "none" /\ \A d \in Conn : first'[d] = "none" => first[d] = "none"
        BY <3>2, <4>3, BroadcastKeeps
      <4>5. AckedOrWaiting'
        BY <2>1, <3>2, <4>4 DEF AckedOrWaiting, ControlInv, TypeOK
      <4>6. Silence
        BY <3>1, <3>2, <4>3, BroadcastReach
      <4>7. QED
        BY <4>5, <4>6
    <3>3. CASE /\ link[c] = "closing" /\ UNCHANGED <<clients, first>>
               /\ pc' = [pc EXCEPT ![c] = "acking"]
      <4>1. \A i \in Client : clients[i] # NoConn => clients[i] # c
        BY <2>1, <3>3
      <4>2. QED
        BY <2>1, <2>2, <3>3, <4>1, QuietAcks DEF ControlInv, TypeOK
    <3>4. CASE /\ clients' = [clients EXCEPT ![sid[c]] = NoConn]
               /\ pc' = [pc EXCEPT ![c] = "ended"]
               /\ UNCHANGED first
      <4>1. \A i \in Client : clients'[i] # NoConn => clients'[i] = clients[i] /\ clients[i] # c
        BY <2>1, <3>1, <3>4 DEF ControlInv, TypeOK
      <4>2. QED
        BY <2>1, <2>2, <3>4, <4>1, QuietAcks DEF ControlInv, TypeOK
    <3>5. QED
      BY <2>7, <3>2, <3>3, <3>4 DEF ResumeRegister
  <2>8. ASSUME NEW c \in Conn, FinishAck(c) PROVE AckedOrWaiting' /\ Silence
    <3>1. pc[c] = "acking" /\ \A i \in Client : clients[i] # NoConn => clients[i] # c
      BY <2>1, <2>8 DEF FinishAck
    <3>2. \A i \in Client : clients'[i] # NoConn =>
              clients'[i] = clients[i] /\ pc'[clients[i]] = pc[clients[i]]
      BY <2>1, <2>8, <3>1 DEF FinishAck, ControlInv, TypeOK
    <3>3. UNCHANGED first \/ first' = Broadcast(first)
      BY <2>8 DEF FinishAck
    <3>4. QED
      BY <2>1, <2>2, <2>3, <3>2, <3>3, QuietAcks
  <2>9. ASSUME NEW c \in Conn, SessionEnds(c) PROVE AckedOrWaiting' /\ Silence
    <3>1. /\ Disconnect(c, farewell) /\ UNCHANGED first
          /\ pc' = [pc EXCEPT ![c] = "ended"]
      BY <2>9 DEF SessionEnds
    <3>2. \A i \in Client : clients'[i] # NoConn => clients'[i] = clients[i] /\ clients[i] # c
      BY <3>1, DisconnectAcks
    <3>3. QED
      BY <2>1, <2>2, <3>1, <3>2, QuietAcks DEF ControlInv, TypeOK
  <2>10. ASSUME NEW c \in Conn, Farewell(c) PROVE AckedOrWaiting' /\ Silence
    <3>1. first' = Broadcast(first) /\ UNCHANGED pc
      BY <2>10 DEF Farewell
    <3>2. \A i \in Client : clients'[i] # NoConn => clients'[i] = clients[i]
      BY <2>10, ReapAcks DEF Farewell, ControlInv, TypeOK
    <3>3. QED
      BY <2>1, <2>3, <3>1, <3>2, QuietAcks
  <2>11. CASE Admin \/ Patrol
    <3>1. UNCHANGED pc /\ (UNCHANGED first \/ first' = Broadcast(first))
      BY <2>11 DEF Admin, Kick, CooldownEnds, MappingChanged, Patrol
    <3>2. ASSUME NEW i \in Client, Kick(i)
          PROVE  \A j \in Client : clients'[j] # NoConn => clients'[j] = clients[j]
      BY <2>1, <3>2, DisconnectAcks DEF Kick
    <3>3. Patrol => \A i \in Client : clients'[i] # NoConn => clients'[i] = clients[i]
      BY ReapAcks DEF Patrol, Idle
    <3>4. \A i \in Client : clients'[i] # NoConn => clients'[i] = clients[i]
      BY <2>11, <3>2, <3>3 DEF Admin, CooldownEnds, MappingChanged
    <3>5. QED
      BY <2>1, <2>2, <2>3, <3>1, <3>4, QuietAcks
  <2>12. ASSUME NEW c \in Conn,
                Receive(c) \/ (\E r \in Req : ReceiveConnError(c, r)) \/ Network(c)
         PROVE  AckedOrWaiting' /\ Silence
    <3>1. UNCHANGED <<clients, first, pc>>
      BY <2>12 DEF Receive, ReceiveConnError, Network, PeerCloses, Reset, CloseCompletes, GoesSilent
    <3>2. QED
      BY <2>2, <3>1, QuietAcks
  <2>13. ASSUME NEW r \in Req, NEW p \in Port, Visit(r, p) PROVE AckedOrWaiting' /\ Silence
    <3>1. PICK i \in Routes(p) :
            /\ Writable(clients[i])
            /\ first' = [first EXCEPT ![clients[i]] = IF @ = "none" THEN "other" ELSE @]
      BY <2>13 DEF Visit
    <3>2. i \in Client /\ clients[i] # NoConn
      BY <3>1 DEF Routes, Online
    <3>3. UNCHANGED <<clients, pc>>
      BY <2>13 DEF Visit
    <3>4. \A c \in Conn : first'[c] = "none" => first[c] = "none"
      BY <3>1 DEF ControlInv, TypeOK
    <3>5. Silence
      BY <3>1, <3>2 DEF AckedOrWaiting, ControlInv, TypeOK
    <3>6. QED
      BY <2>1, <3>3, <3>4, <3>5, QuietAcks
  <2>14. ASSUME NEW r \in Req, Pair(r) \/ VisitorLeaves(r) PROVE AckedOrWaiting' /\ Silence
    BY <2>2, <2>14, QuietAcks DEF Pair, VisitorLeaves
  <2>15. CASE UNCHANGED vars
    BY <2>2, <2>15, QuietAcks DEF vars
  <2>16. QED
    BY <2>4, <2>5, <2>6, <2>7, <2>8, <2>9, <2>10, <2>11, <2>12, <2>13, <2>14, <2>15
    DEF Next, Handler, Visitor, Register
<1>3. ControlInv /\ AckedOrWaiting /\ [Next]_vars =>
        [\A c \in Conn : first[c] = "none" /\ first'[c] = "other" => pc[c] = "replacing"]_vars
  BY <1>2
<1>4. QED
  BY <1>1, <1>2, <1>3, ControlSafety, PTL DEF Spec, NothingBeforeAck

-----------------------------------------------------------------------------
\* A session whose removal is awaited has left the registry for good: its
\* connection does not register again.
Leavers ==
    \A c \in farewell : pc[c] \notin {"idle", "accepted"} /\ \A i \in Client : clients[i] # c

\* How client id i may leave the registry, and what becomes of its visitors.
Announced(i) ==
    clients[i] # NoConn /\ clients'[i] = NoConn =>
        \/ clients[i] \in farewell' \ farewell /\ link'[clients[i]] # "up"
        \/ \E c \in Conn : /\ sid'[c] = i
                          /\ pc[c] \in {"accepted", "replacing", "acking"}
                          /\ pc'[c] = "ended"
Released(i) ==
    clients[i] # NoConn /\ clients'[i] # clients[i]
    /\ (clients'[i] # NoConn \/ farewell' # farewell) =>
        \A r \in Req : ~(rst'[r] = "waiting" /\ rcl'[r] = i)
Leaving == \A i \in Client : Announced(i) /\ Released(i)

LEMMA FailAllReleases ==
    ASSUME NEW i \in Client, NEW r \in Req, rst' = FailAll(i), UNCHANGED rcl
    PROVE  ~(rst'[r] = "waiting" /\ rcl'[r] = i)
  BY DEF FailAll

LEMMA StayLeaving == ASSUME UNCHANGED clients PROVE Leaving
  BY DEF Leaving, Announced, Released

\* A step that moves no session in and leaves the list of removals keeps Leavers.
LEMMA LeaversKept ==
    ASSUME ControlInv, Leavers, farewell' \subseteq farewell,
           \A i \in Client : clients'[i] \in {clients[i], NoConn},
           \A c \in Conn : pc'[c] \in {"idle", "accepted"} => pc[c] \in {"idle", "accepted"}
    PROVE  Leavers'
  BY ConstAssumption DEF Leavers, ControlInv, TypeOK

\* _disconnect_session, whoever calls it: fw is what is left of the removals
\* awaited before.
LEMMA DisconnectLeaves ==
    ASSUME ControlInv, Leavers, NEW c \in Conn, NEW fw \in SUBSET farewell, Disconnect(c, fw),
           UNCHANGED rcl,
           \A d \in Conn : pc'[d] \in {"idle", "accepted"} => pc[d] \in {"idle", "accepted"}
    PROVE  Leavers' /\ Leaving
<1>1. CASE IsCurrent(c)
  <2>1. /\ sid[c] \in Client /\ clients[sid[c]] = c
        /\ clients' = [clients EXCEPT ![sid[c]] = NoConn]
        /\ rst' = FailAll(sid[c])
        /\ link' = CloseWriter(link, c)
        /\ farewell' = fw \cup {c}
    BY <1>1 DEF Disconnect, TakeDown, IsCurrent, ControlInv, TypeOK
  <2>2. pc[c] \in {"replacing", "serving"} /\ c # NoConn
    BY <2>1, ConstAssumption DEF ControlInv, RoutableIsOpen
  <2>3. \A i \in Client : clients'[i] # NoConn => clients'[i] = clients[i] /\ clients[i] # c
    BY <1>1, DisconnectAcks
  <2>4. Leavers'
    <3> SUFFICES ASSUME NEW d \in farewell'
                 PROVE  pc'[d] \notin {"idle", "accepted"} /\ \A i \in Client : clients'[i] # d
      BY DEF Leavers
    <3>1. d \in Conn /\ d # NoConn
      BY <2>1, ConstAssumption DEF ControlInv, TypeOK
    <3>2. pc[d] \notin {"idle", "accepted"}
      BY <2>1, <2>2 DEF Leavers
    <3>3. \A i \in Client : clients'[i] # d
      BY <2>1, <2>3, <3>1 DEF Leavers
    <3>4. QED
      BY <3>1, <3>2, <3>3
  <2>5. c \notin farewell
    BY <2>1 DEF Leavers
  <2>6. link'[c] # "up"
    BY <2>1 DEF CloseWriter, ControlInv, TypeOK
  <2>7. ASSUME NEW i \in Client, i # sid[c] PROVE clients'[i] = clients[i]
    BY <2>1, <2>7 DEF ControlInv, TypeOK
  <2>8. Announced(sid[c])
    BY <2>1, <2>5, <2>6 DEF Announced
  <2>9. Released(sid[c])
    BY <2>1, FailAllReleases DEF Released
  <2>10. \A i \in Client : i # sid[c] => Announced(i) /\ Released(i)
    BY <2>7 DEF Announced, Released
  <2>11. QED
    BY <2>4, <2>8, <2>9, <2>10 DEF Leaving
<1>2. CASE ~IsCurrent(c)
  BY <1>2, LeaversKept, StayLeaving DEF Disconnect, TakeDown
<1>3. QED
  BY <1>1, <1>2

LEMMA ReapLeaves ==
    ASSUME ControlInv, Leavers, NEW list \in SUBSET Conn, NEW fw \in SUBSET farewell,
           Reap(list, fw), UNCHANGED <<rcl, pc>>
    PROVE  Leavers' /\ Leaving
  BY DisconnectLeaves, LeaversKept, StayLeaving DEF Reap

\* Client id i leaves when the registration of c fails; what is taken out need
\* not be the session of c.
LEMMA FailedAckLeaves ==
    ASSUME ControlInv, Leavers, NEW c \in Conn, NEW i \in Client,
           clients' = [clients EXCEPT ![i] = NoConn], UNCHANGED farewell,
           sid'[c] = i, pc[c] \in {"accepted", "replacing", "acking"},
           pc' = [pc EXCEPT ![c] = "ended"]
    PROVE  Leavers' /\ Leaving
<1>1. pc'[c] = "ended"
  BY DEF ControlInv, TypeOK
<1>2. Announced(i) /\ Released(i)
  BY <1>1 DEF Announced, Released, ControlInv, TypeOK
<1>3. \A j \in Client : j # i => clients'[j] = clients[j]
  BY DEF ControlInv, TypeOK
<1>4. Leaving
  BY <1>2, <1>3 DEF Leaving, Announced, Released
<1>5. Leavers'
  BY LeaversKept DEF ControlInv, TypeOK
<1>6. QED
  BY <1>4, <1>5

\* Connection c becomes the session of client id i.
LEMMA NewcomerLeaves ==
    ASSUME ControlInv, Leavers, NEW c \in Conn, NEW i \in Client,
           clients' = [clients EXCEPT ![i] = c], UNCHANGED <<farewell, rcl>>,
           clients[i] # NoConn => rst' = FailAll(i),
           pc[c] = "accepted", pc' = [pc EXCEPT ![c] = "serving"]
                               \/ pc' = [pc EXCEPT ![c] = "replacing"]
    PROVE  Leavers' /\ Leaving
<1>1. c \notin farewell /\ c # NoConn
  BY ConstAssumption DEF Leavers
<1>2. Leavers'
  BY <1>1 DEF Leavers, ControlInv, TypeOK
<1>3. \A j \in Client : j # i => clients'[j] = clients[j]
  BY DEF ControlInv, TypeOK
<1>4. Announced(i)
  BY <1>1 DEF Announced, ControlInv, TypeOK
<1>5. Released(i)
  BY FailAllReleases DEF Released
<1>6. QED
  BY <1>2, <1>3, <1>4, <1>5 DEF Leaving, Announced, Released

LEMMA LeavingStep == ControlInv /\ Leavers /\ [Next]_vars => Leavers' /\ Leaving
<1> SUFFICES ASSUME ControlInv, Leavers, [Next]_vars PROVE Leavers' /\ Leaving
  OBVIOUS
<1> USE DEF tables, session, dog, visitors
<1>1. ASSUME NEW c \in Conn, NEW i \in Client, NEW ports \in Offers, RegisterNow(c, i, ports)
      PROVE  Leavers' /\ Leaving
  <2>1. CASE Writable(c)
    BY <1>1, <2>1, NewcomerLeaves DEF RegisterNow
  <2>2. CASE ~Writable(c)
    <3>1. sid'[c] = i
      BY <1>1 DEF RegisterNow, ControlInv, TypeOK
    <3>2. QED
      BY <1>1, <2>2, <3>1, FailedAckLeaves DEF RegisterNow
  <2>3. QED
    BY <2>1, <2>2
<1>2. ASSUME NEW c \in Conn, NEW i \in Client, NEW ports \in Offers, RegisterOver(c, i, ports)
      PROVE  Leavers' /\ Leaving
  BY <1>2, NewcomerLeaves DEF RegisterOver, Supersede
<1>3. ASSUME NEW c \in Conn, ResumeRegister(c) PROVE Leavers' /\ Leaving
  <2>1. pc[c] = "replacing" /\ sid[c] \in Client /\ UNCHANGED <<sid, farewell>>
    BY <1>3 DEF ResumeRegister, ControlInv, Named
  <2>2. CASE UNCHANGED clients /\ \E s \in {"serving", "acking"} : pc' = [pc EXCEPT ![c] = s]
    BY <2>1, <2>2, LeaversKept, StayLeaving DEF ControlInv, TypeOK
  <2>3. CASE /\ clients' = [clients EXCEPT ![sid[c]] = NoConn]
             /\ pc' = [pc EXCEPT ![c] = "ended"]
    BY <2>1, <2>3, FailedAckLeaves
  <2>4. QED
    BY <1>3, <2>2, <2>3 DEF ResumeRegister
<1>4. ASSUME NEW c \in Conn, FinishAck(c) PROVE Leavers' /\ Leaving
  <2>1. pc[c] = "acking" /\ sid[c] \in Client /\ UNCHANGED <<sid, farewell>>
    BY <1>4 DEF FinishAck, ControlInv, Named
  <2>2. CASE UNCHANGED clients /\ pc' = [pc EXCEPT ![c] = "serving"]
    BY <2>1, <2>2, LeaversKept, StayLeaving DEF ControlInv, TypeOK
  <2>3. CASE /\ clients' = [clients EXCEPT ![sid[c]] = NoConn]
             /\ pc' = [pc EXCEPT ![c] = "ended"]
    BY <2>1, <2>3, FailedAckLeaves
  <2>4. QED
    BY <1>4, <2>2, <2>3 DEF FinishAck
<1>5. ASSUME NEW c \in Conn, SessionEnds(c) PROVE Leavers' /\ Leaving
  <2>1. \A d \in Conn : pc'[d] \in {"idle", "accepted"} => pc[d] \in {"idle", "accepted"}
    BY <1>5 DEF SessionEnds, ControlInv, TypeOK
  <2>2. QED
    BY <1>5, <2>1, DisconnectLeaves DEF SessionEnds
<1>6. ASSUME NEW c \in Conn, Farewell(c) PROVE Leavers' /\ Leaving
  <2>1. CASE reaping # c
    BY <1>6, <2>1, LeaversKept, StayLeaving DEF Farewell
  <2>2. CASE reaping = c
    <3>1. Reap(expired, farewell \ {c}) /\ expired \in SUBSET Conn /\ UNCHANGED <<rcl, pc>>
      BY <1>6, <2>2 DEF Farewell, ControlInv, TypeOK
    <3>2. QED
      BY <3>1, ReapLeaves
  <2>3. QED
    BY <2>1, <2>2
<1>7. ASSUME NEW i \in Client, Kick(i) PROVE Leavers' /\ Leaving
  <2>1. clients[i] \in Conn /\ Disconnect(clients[i], farewell) /\ UNCHANGED <<rcl, pc>>
    BY <1>7 DEF Kick, ControlInv, TypeOK
  <2>2. QED
    BY <2>1, DisconnectLeaves
<1>8. CASE Patrol
  <2>1. Reap(Idle, farewell) /\ Idle \in SUBSET Conn /\ UNCHANGED <<rcl, pc>>
    BY <1>8 DEF Patrol, Idle
  <2>2. QED
    BY <2>1, ReapLeaves
<1>9. ASSUME NEW c \in Conn, Connect(c) \/ GiveUp(c) \/ Reject(c) PROVE Leavers' /\ Leaving
  <2>1. /\ UNCHANGED <<clients, farewell>>
        /\ \A d \in Conn : pc'[d] \in {"idle", "accepted"} => pc[d] \in {"idle", "accepted"}
    BY <1>9 DEF Connect, GiveUp, Reject, ControlInv, TypeOK
  <2>2. QED
    BY <2>1, LeaversKept, StayLeaving
<1>10. ASSUME UNCHANGED <<clients, farewell, pc>> PROVE Leavers' /\ Leaving
  BY <1>10, LeaversKept, StayLeaving
<1>11. ASSUME NEW c \in Conn,
              Receive(c) \/ (\E r \in Req : ReceiveConnError(c, r)) \/ Network(c)
       PROVE  Leavers' /\ Leaving
  BY <1>10, <1>11 DEF Receive, ReceiveConnError, Network, PeerCloses, Reset, CloseCompletes, GoesSilent
<1>12. ASSUME NEW r \in Req, Visitor(r) PROVE Leavers' /\ Leaving
  BY <1>10, <1>12 DEF Visitor, Visit, Pair, VisitorLeaves
<1>13. CASE MappingChanged \/ \E i \in Client : CooldownEnds(i)
  BY <1>10, <1>13 DEF MappingChanged, CooldownEnds
<1>14. CASE UNCHANGED vars
  BY <1>10, <1>14 DEF vars
<1>15. QED
  BY <1>1, <1>2, <1>3, <1>4, <1>5, <1>6, <1>7, <1>8, <1>9, <1>11, <1>12, <1>13, <1>14
  DEF Next, Handler, Admin, Register

LEMMA LeaversHold == Spec => [](ControlInv /\ Leavers)
<1>1. Init => Leavers
  BY DEF Init, Leavers
<1>2. QED
  BY <1>1, LeavingStep, ControlSafety, PTL DEF Spec

\* Nothing but a session's own disconnection, a supersession or a failed ack of
\* its client id takes it out of the registry (core.py:829-860).
THEOREM SessionsLeaveByThemselves == Spec => OnlyOwnDisconnect
<1>1. ControlInv /\ Leavers /\ [Next]_vars =>
        [\A i \in Client :
            clients[i] # NoConn /\ clients'[i] = NoConn =>
                \/ clients[i] \in farewell' \ farewell /\ link'[clients[i]] # "up"
                \/ \E c \in Conn : /\ sid'[c] = i
                                  /\ pc[c] \in {"accepted", "replacing", "acking"}
                                  /\ pc'[c] = "ended"]_vars
  BY LeavingStep DEF Leaving, Announced
<1>2. QED
  BY <1>1, LeaversHold, PTL DEF Spec, OnlyOwnDisconnect

\* A session that is disconnected or superseded leaves no visitor waiting
\* (core.py:713, core.py:855).
THEOREM VisitorsAreReleased == Spec => VisitorsReleased
<1>1. ControlInv /\ Leavers /\ [Next]_vars =>
        [\A i \in Client :
            clients[i] # NoConn /\ clients'[i] # clients[i]
            /\ (clients'[i] # NoConn \/ farewell' # farewell) =>
                \A r \in Req : ~(rst'[r] = "waiting" /\ rcl'[r] = i)]_vars
  BY LeavingStep DEF Leaving, Released
<1>2. QED
  BY <1>1, LeaversHold, PTL DEF Spec, VisitorsReleased

-----------------------------------------------------------------------------
(* Whoever awaits a close awaits one that was asked for.                   *)

Shut(c) == link[c] \in {"closing", "lost"}

\* A removal under way and a registration that supersedes wait for transports
\* the server has closed or the network has lost; the watchdog waits for a
\* removal that is under way.
ClosesAreAsked ==
    /\ \A c \in farewell : Shut(c)
    /\ \A c \in Conn : pc[c] = "replacing" => prev[c] \in Conn /\ Shut(prev[c])
    /\ reaping # NoConn => reaping \in farewell

Linked == \A c \in Conn : pc[c] = "idle" <=> link[c] = "none"

\* Transports only go forward.
LinksAdvance ==
    \A c \in Conn :
        /\ link[c] \in {"closing", "lost"} => link'[c] \in {"closing", "lost"}
        /\ link[c] = "none" <=> link'[c] = "none"

LEMMA AskedStays ==
    ASSUME ControlInv, ClosesAreAsked, Linked, LinksAdvance,
           \A c \in Conn : pc'[c] = "idle" <=> pc[c] = "idle",
           \A c \in farewell' : c \in farewell \/ link'[c] \in {"closing", "lost"},
           \/ reaping' = reaping /\ (reaping \in farewell => reaping \in farewell')
           \/ reaping' # NoConn => reaping' \in farewell',
           \A c \in Conn : pc'[c] = "replacing" =>
               \/ pc[c] = "replacing" /\ prev'[c] = prev[c]
               \/ prev'[c] \in Conn /\ link'[prev'[c]] \in {"closing", "lost"}
    PROVE  ClosesAreAsked' /\ Linked'
<1>1. \A c \in farewell' : link'[c] \in {"closing", "lost"}
  BY DEF ClosesAreAsked, LinksAdvance, Shut, ControlInv, TypeOK
<1>2. ASSUME NEW c \in Conn, pc'[c] = "replacing"
      PROVE  prev'[c] \in Conn /\ link'[prev'[c]] \in {"closing", "lost"}
  BY <1>2 DEF ClosesAreAsked, LinksAdvance, Shut
<1>3. reaping' # NoConn => reaping' \in farewell'
  BY DEF ClosesAreAsked
<1>4. Linked'
  BY DEF Linked, LinksAdvance
<1> QED
  BY <1>1, <1>2, <1>3, <1>4 DEF ClosesAreAsked, Shut

\* The writer of a session in the registry is there to be closed.
LEMMA ClosedIsShut ==
    ASSUME ControlInv, Linked, NEW i \in Client, clients[i] # NoConn, link' = CloseWriter(link, clients[i])
    PROVE  LinksAdvance /\ clients[i] \in Conn /\ link'[clients[i]] \in {"closing", "lost"}
<1>1. clients[i] \in Conn /\ link \in [Conn -> Links] /\ link[clients[i]] # "none"
  BY DEF ControlInv, TypeOK, RoutableIsOpen, Linked
<1>2. ASSUME NEW x \in Conn, link[x] # "none", link' = CloseWriter(link, x)
      PROVE  LinksAdvance /\ link'[x] \in {"closing", "lost"}
  <2>1. CASE link[x] \in {"up", "eof"}
    <3>1. \A d \in Conn : link'[d] = IF d = x THEN "closing" ELSE link[d]
      BY <1>1, <1>2, <2>1 DEF CloseWriter
    <3> QED
      BY <2>1, <3>1 DEF LinksAdvance
  <2>2. CASE link[x] \notin {"up", "eof"}
    BY <1>1, <1>2, <2>2 DEF CloseWriter, LinksAdvance, Links
  <2> QED
    BY <2>1, <2>2
<1> QED
  BY <1>1, <1>2

LEMMA DisconnectAsks ==
    ASSUME ControlInv, Linked, NEW c \in Conn, NEW fw, Disconnect(c, fw)
    PROVE  /\ LinksAdvance /\ fw \subseteq farewell'
           /\ \A d \in farewell' : d \in fw \/ link'[d] \in {"closing", "lost"}
           /\ IsCurrent(c) => c \in farewell'
<1>1. CASE IsCurrent(c)
  <2>1. sid[c] \in Client /\ clients[sid[c]] = c /\ c # NoConn
    BY <1>1, ConstAssumption DEF IsCurrent, ControlInv, TypeOK
  <2>2. link' = CloseWriter(link, clients[sid[c]]) /\ farewell' = fw \cup {c}
    BY <1>1, <2>1 DEF Disconnect, TakeDown
  <2>3. LinksAdvance /\ link'[c] \in {"closing", "lost"}
    <3> DEFINE i == sid[c]
    <3>1. i \in Client /\ clients[i] = c /\ clients[i] # NoConn /\ link' = CloseWriter(link, clients[i])
      BY <2>1, <2>2
    <3> HIDE DEF i
    <3> QED
      BY <3>1, ClosedIsShut
  <2> QED
    BY <2>2, <2>3
<1>2. CASE ~IsCurrent(c)
  BY <1>2 DEF Disconnect, TakeDown, LinksAdvance, Shut
<1> QED
  BY <1>1, <1>2

LEMMA ReapAsks ==
    ASSUME ControlInv, Linked, NEW list \in SUBSET Conn, NEW fw, Reap(list, fw)
    PROVE  /\ LinksAdvance /\ \A d \in farewell' : d \in fw \/ link'[d] \in {"closing", "lost"}
           /\ reaping' # NoConn => reaping' \in farewell'
<1>1. ASSUME NEW c \in list, IsCurrent(c), Disconnect(c, fw), reaping' = c
      PROVE  /\ LinksAdvance /\ \A d \in farewell' : d \in fw \/ link'[d] \in {"closing", "lost"}
             /\ reaping' # NoConn => reaping' \in farewell'
  BY <1>1, DisconnectAsks
<1>2. CASE farewell' = fw /\ reaping' = NoConn /\ UNCHANGED link
  BY <1>2 DEF LinksAdvance, Shut
<1> QED
  BY <1>1, <1>2 DEF Reap

LEMMA AskedStep ==
    ControlInv /\ ClosesAreAsked /\ Linked /\ [Next]_vars => ClosesAreAsked' /\ Linked'
<1> SUFFICES ASSUME ControlInv, ClosesAreAsked, Linked, [Next]_vars PROVE ClosesAreAsked' /\ Linked'
  OBVIOUS
<1> USE DEF tables, session, visitors, dog
<1>1. ASSUME LinksAdvance, UNCHANGED <<pc, prev, farewell, reaping>> PROVE ClosesAreAsked' /\ Linked'
  BY <1>1, AskedStays
<1>2. ASSUME UNCHANGED <<link, farewell, reaping>>, NEW c \in Conn, pc[c] # "idle",
             \A d \in Conn : d # c => pc'[d] = pc[d] /\ prev'[d] = prev[d],
             pc'[c] \notin {"replacing", "idle"}
      PROVE  ClosesAreAsked' /\ Linked'
  BY <1>2, AskedStays DEF LinksAdvance, Shut
<1>3. UNCHANGED link => LinksAdvance
  BY DEF LinksAdvance, Shut
<1>4. ASSUME NEW c \in Conn, Connect(c) \/ GiveUp(c) \/ Reject(c) PROVE ClosesAreAsked' /\ Linked'
  <2>1. CASE Connect(c)
    <3>1. /\ pc' = [pc EXCEPT ![c] = "accepted"] /\ link' = [link EXCEPT ![c] = "up"]
          /\ pc[c] = "idle" /\ UNCHANGED <<prev, farewell, reaping>>
      BY <2>1 DEF Connect
    <3>2. link[c] = "none" /\ \A d \in Conn : Shut(d) => d # c
      BY <3>1 DEF Linked, Shut
    <3>3. \A d \in Conn : /\ link'[d] = IF d = c THEN "up" ELSE link[d]
                          /\ pc'[d] = IF d = c THEN "accepted" ELSE pc[d]
      BY <3>1 DEF ControlInv, TypeOK
    <3>4. Linked'
      BY <3>3 DEF Linked
    <3>5. farewell \subseteq Conn
      BY DEF ControlInv, TypeOK
    <3>6. ASSUME NEW d \in Conn, Shut(d) PROVE link'[d] \in {"closing", "lost"}
      BY <3>2, <3>3, <3>6 DEF Shut
    <3>7. ASSUME NEW d \in Conn, pc'[d] = "replacing"
          PROVE  prev'[d] \in Conn /\ link'[prev'[d]] \in {"closing", "lost"}
      BY <3>1, <3>3, <3>6, <3>7 DEF ClosesAreAsked
    <3> QED
      BY <3>1, <3>4, <3>5, <3>6, <3>7 DEF ClosesAreAsked, Shut
  <2>2. CASE GiveUp(c)
    <3>1. /\ pc' = [pc EXCEPT ![c] = "ended"] /\ link' = CloseWriter(link, c)
          /\ pc[c] = "accepted" /\ UNCHANGED <<prev, farewell, reaping>>
      BY <2>2 DEF GiveUp
    <3>2. LinksAdvance
      BY <3>1 DEF LinksAdvance, Shut, CloseWriter, ControlInv, TypeOK
    <3>3. \A d \in Conn : pc'[d] = IF d = c THEN "ended" ELSE pc[d]
      BY <3>1 DEF ControlInv, TypeOK
    <3> QED
      BY <3>1, <3>2, <3>3, AskedStays
  <2> QED
    BY <1>4, <2>1, <2>2 DEF Reject
<1>5. ASSUME NEW c \in Conn, NEW i \in Client, NEW ports, RegisterNow(c, i, ports)
      PROVE  ClosesAreAsked' /\ Linked'
  BY <1>2, <1>5 DEF RegisterNow, ControlInv, TypeOK
<1>6. ASSUME NEW c \in Conn, NEW i \in Client, NEW ports, RegisterOver(c, i, ports)
      PROVE  ClosesAreAsked' /\ Linked'
  <2>1. /\ pc[c] = "accepted" /\ pc' = [pc EXCEPT ![c] = "replacing"]
        /\ clients[i] # NoConn /\ link' = CloseWriter(link, clients[i])
        /\ prev' = [prev EXCEPT ![c] = clients[i]] /\ UNCHANGED <<farewell, reaping>>
    BY <1>6 DEF RegisterOver, Supersede
  <2>2. LinksAdvance /\ clients[i] \in Conn /\ link'[clients[i]] \in {"closing", "lost"}
    BY <2>1, ClosedIsShut
  <2>3. \A d \in Conn : d # c => pc'[d] = pc[d] /\ prev'[d] = prev[d]
    BY <2>1 DEF ControlInv, TypeOK
  <2>4. prev'[c] = clients[i]
    BY <2>1 DEF ControlInv, TypeOK
  <2> QED
    BY <2>1, <2>2, <2>3, <2>4, AskedStays
<1>7. ASSUME NEW c \in Conn, ResumeRegister(c) \/ FinishAck(c) PROVE ClosesAreAsked' /\ Linked'
  <2>1. /\ UNCHANGED <<link, farewell, reaping>> /\ pc[c] \in {"replacing", "acking"}
        /\ pc'[c] \notin {"replacing", "idle"} /\ \A d \in Conn : d # c => pc'[d] = pc[d] /\ prev'[d] = prev[d]
    BY <1>7 DEF ResumeRegister, FinishAck, ControlInv, TypeOK
  <2> QED
    BY <1>2, <2>1
<1>8. ASSUME NEW c \in Conn, SessionEnds(c) PROVE ClosesAreAsked' /\ Linked'
  <2>1. /\ pc[c] = "serving" /\ pc' = [pc EXCEPT ![c] = "ended"] /\ Disconnect(c, farewell)
        /\ UNCHANGED <<prev, reaping>>
    BY <1>8 DEF SessionEnds
  <2>2. \A d \in Conn : pc'[d] = IF d = c THEN "ended" ELSE pc[d]
    BY <2>1 DEF ControlInv, TypeOK
  <2>3. LinksAdvance /\ farewell \subseteq farewell' /\ \A d \in farewell' : d \in farewell \/ link'[d] \in {"closing", "lost"}
    BY <2>1, DisconnectAsks
  <2> QED
    BY <2>1, <2>2, <2>3, AskedStays
<1>9. ASSUME NEW c \in Conn, Farewell(c) PROVE ClosesAreAsked' /\ Linked'
  <2>1. UNCHANGED <<pc, prev>>
    BY <1>9 DEF Farewell
  <2>2. CASE farewell' = farewell \ {c} /\ reaping # c /\ UNCHANGED <<link, reaping>>
    BY <1>3, <2>1, <2>2, AskedStays
  <2>3. CASE Reap(expired, farewell \ {c})
    <3>1. /\ LinksAdvance /\ \A d \in farewell' : d \in farewell \ {c} \/ link'[d] \in {"closing", "lost"}
          /\ reaping' # NoConn => reaping' \in farewell'
      BY <2>3, ReapAsks DEF ControlInv, TypeOK
    <3> QED
      BY <2>1, <3>1, AskedStays
  <2> QED
    BY <1>9, <2>2, <2>3 DEF Farewell
<1>10. ASSUME NEW i \in Client, Kick(i) PROVE ClosesAreAsked' /\ Linked'
  <2>1. clients[i] \in Conn /\ Disconnect(clients[i], farewell) /\ UNCHANGED <<pc, prev, reaping>>
    BY <1>10 DEF Kick, ControlInv, TypeOK
  <2>2. LinksAdvance /\ farewell \subseteq farewell' /\ \A d \in farewell' : d \in farewell \/ link'[d] \in {"closing", "lost"}
    BY <2>1, DisconnectAsks
  <2> QED
    BY <2>1, <2>2, AskedStays
<1>11. CASE Patrol
  <2>1. Reap(Idle, farewell) /\ Idle \in SUBSET Conn /\ UNCHANGED <<pc, prev>>
    BY <1>11 DEF Patrol, Idle
  <2>2. /\ LinksAdvance /\ \A d \in farewell' : d \in farewell \/ link'[d] \in {"closing", "lost"}
        /\ reaping' # NoConn => reaping' \in farewell'
    BY <2>1, ReapAsks
  <2> QED
    BY <2>1, <2>2, AskedStays
<1>12. ASSUME NEW c \in Conn, Receive(c) \/ (\E r \in Req : ReceiveConnError(c, r)) PROVE ClosesAreAsked' /\ Linked'
  BY <1>1, <1>3, <1>12 DEF Receive, ReceiveConnError
<1>13. ASSUME NEW c \in Conn, Network(c) PROVE ClosesAreAsked' /\ Linked'
  <2>1. LinksAdvance
    BY <1>13 DEF Network, PeerCloses, Reset, CloseCompletes, GoesSilent, LinksAdvance, Shut, ControlInv, TypeOK
  <2> QED
    BY <1>1, <1>13, <2>1 DEF Network, PeerCloses, Reset, CloseCompletes, GoesSilent
<1>14. ASSUME NEW r \in Req, Visitor(r) PROVE ClosesAreAsked' /\ Linked'
  BY <1>1, <1>3, <1>14 DEF Visitor, Visit, Pair, VisitorLeaves
<1>15. CASE MappingChanged \/ \E i \in Client : CooldownEnds(i)
  BY <1>1, <1>3, <1>15 DEF MappingChanged, CooldownEnds
<1>16. CASE UNCHANGED vars
  BY <1>1, <1>3, <1>16 DEF vars
<1> QED
  BY <1>4, <1>5, <1>6, <1>7, <1>8, <1>9, <1>10, <1>11, <1>12, <1>13, <1>14, <1>15, <1>16
  DEF Next, Handler, Admin, Register

\* Registrations and removals that await the close of a session await one that
\* has been closed or lost, and the watchdog a removal that is under way: no
\* order of supersessions, kicks and expiries leaves one waiting for nothing
\* (core.py:706-741 and 829-864, core/heartbeat.py:139-157).
THEOREM ClosesAwaitedAreAsked == Spec => []ClosesAreAsked
<1>1. Init => ClosesAreAsked /\ Linked
  BY DEF Init, ClosesAreAsked, Linked
<1> QED
  BY <1>1, AskedStep, ControlSafety, PTL DEF Spec
=============================================================================
