------------------------------- MODULE Pairing -------------------------------
(***************************************************************************)
(* The pairing of a visitor's connection with the data channel its client  *)
(* opens for it: PendingTable, the two futures of a PendingConn, and the   *)
(* coroutines _handle_visitor and _handle_data that meet through them.     *)
(*                                                                         *)
(* A visitor's connection is its conn_id.  Each action is a stretch of one *)
(* coroutine between two awaits; a coroutine woken by a future runs some   *)
(* time later, so what it finds may have changed since.                    *)
(***************************************************************************)
EXTENDS Naturals, FiniteSets

CONSTANTS
    Visitor,  \* visitor connections
    Data,     \* connections to the data port
    Client,   \* client ids
    Limit,    \* limits.max_conns_per_client, 0 for none
    NoData, NoClient, NoVisitor

ASSUME PairingAssumption ==
    /\ NoData \notin Data
    /\ NoClient \notin Client
    /\ NoVisitor \notin Visitor
    /\ Limit \in Nat

VARIABLES
    online,  \* client ids with a session in the registry
    at,      \* where the coroutine _handle_visitor of a visitor stands
    items,   \* PendingTable._items
    client,  \* pending.client_id
    ready,   \* the future pending._ready
    closed,  \* pending._closed
    done,    \* the future pending._done
    data,    \* pending.data_writer
    dat,     \* where the coroutine _handle_data of a data connection stands
    serves,  \* the pending it waits for
    link     \* the server's end of a data connection

pending == <<items, client, ready, closed, done, data>>
channel == <<dat, serves, link>>
vars == <<online, at, pending, channel>>

Init ==
    /\ online = {}
    /\ at     = [v \in Visitor |-> "new"]
    /\ items  = {}
    /\ client = [v \in Visitor |-> NoClient]
    /\ ready  = [v \in Visitor |-> "unset"]
    /\ closed = [v \in Visitor |-> FALSE]
    /\ done   = [v \in Visitor |-> FALSE]
    /\ data   = [v \in Visitor |-> NoData]
    /\ dat    = [d \in Data |-> "new"]
    /\ serves = [d \in Data |-> NoVisitor]
    /\ link   = [d \in Data |-> "none"]

-----------------------------------------------------------------------------
(* The table.                                                              *)

\* count_for_client, and a faulty variant that forgets the paired requests.
FaultyCount(c) == Cardinality({v \in items : client[v] = c /\ ready[v] # "yes"})
Count(c) == Cardinality({v \in items : client[v] = c})

\* attach, and a faulty variant: a request already judged a failure may still
\* be paired.
AttachableLate(v) == v \in items /\ ready[v] # "yes"
Attachable(v) == v \in items /\ ~closed[v] /\ ready[v] = "unset"

\* fail, for a set of requests.
Fail(S) ==
    /\ closed' = [v \in Visitor |-> closed[v] \/ v \in S]
    /\ ready' = [v \in Visitor |-> IF v \in S /\ ready[v] = "unset" THEN "no" ELSE ready[v]]

-----------------------------------------------------------------------------
(* The visitor's coroutine.                                                *)

\* The mapping has just lost the port (404, possible at any time), no client
\* is online (502) or the client's quota is used up (429): the visitor is
\* answered without a pending request.
TurnAway(v) ==
    /\ at[v] = "new"
    /\ at' = [at EXCEPT ![v] = "refusing"]
    /\ UNCHANGED <<online, pending, channel>>

\* The request is registered and new_conn written; the send may wait for
\* the client's control connection to take it.
Admit(v, c) ==
    /\ at[v] = "new"
    /\ c \in online
    /\ Limit > 0 => Count(c) < Limit
    /\ items' = items \cup {v}
    /\ client' = [client EXCEPT ![v] = c]
    /\ at' = [at EXCEPT ![v] = "notifying"]
    /\ UNCHANGED <<online, ready, closed, done, data, channel>>

Notified(v) ==
    /\ at[v] = "notifying"
    /\ at' = [at EXCEPT ![v] = "waiting"]
    /\ UNCHANGED <<online, pending, channel>>

\* The client's connection broke: 502, without a verdict on the request.
NotifyFails(v) ==
    /\ at[v] = "notifying"
    /\ at' = [at EXCEPT ![v] = "replying"]
    /\ UNCHANGED <<online, pending, channel>>

StartPipe(v) ==
    /\ at[v] = "waiting" /\ ready[v] = "yes"
    /\ at' = [at EXCEPT ![v] = "piping"]
    /\ UNCHANGED <<online, pending, channel>>

\* The wait ends with a failure already decided elsewhere.
HearFailure(v) ==
    /\ at[v] = "waiting" /\ ready[v] = "no"
    /\ at' = [at EXCEPT ![v] = "replying"]
    /\ UNCHANGED <<online, pending, channel>>

\* Faulty variant: the wait for a client that is online has no deadline.
PatientTimeout(v) ==
    /\ at[v] = "waiting" /\ ready[v] = "unset" /\ client[v] \notin online
    /\ Fail({v})
    /\ at' = [at EXCEPT ![v] = "replying"]
    /\ UNCHANGED <<online, items, client, done, data, channel>>

\* pair_timeout passes with the future still unset.
Timeout(v) ==
    /\ at[v] = "waiting" /\ ready[v] = "unset"
    /\ Fail({v})
    /\ at' = [at EXCEPT ![v] = "replying"]
    /\ UNCHANGED <<online, items, client, done, data, channel>>

\* The finally block for an admitted visitor: discard, finish, close the
\* data channel and wait for it.
Release(v, kept, finished) ==
    /\ items' = kept
    /\ done' = [done EXCEPT ![v] = finished]
    /\ IF data[v] = NoData
       THEN at' = [at EXCEPT ![v] = "leaving"] /\ UNCHANGED link
       ELSE /\ at' = [at EXCEPT ![v] = "releasing"]
            /\ link' = [link EXCEPT ![data[v]] = IF @ = "up" THEN "closing" ELSE @]
    /\ UNCHANGED <<online, client, ready, closed, data, dat, serves>>

\* Faulty variants: the request stays in the table; done is never set.
UndiscardedCleanUp(v) == Release(v, items, TRUE)
UnfinishedCleanUp(v) == Release(v, items \ {v}, FALSE)
CleanUp(v) == Release(v, items \ {v}, TRUE)

Replied(v) == at[v] = "replying" /\ CleanUp(v)

\* Either direction of the pipe has ended: an end of file, an error, or a
\* channel that is lost.
PipeEnds(v) == at[v] = "piping" /\ CleanUp(v)

\* The answer of a visitor turned away is out, or the closed data channel of
\* an admitted one is gone: close the visitor's connection.
Leave(v) ==
    /\ \/ at[v] = "refusing"
       \/ at[v] = "releasing" /\ link[data[v]] = "lost"
    /\ at' = [at EXCEPT ![v] = "leaving"]
    /\ UNCHANGED <<online, pending, channel>>

\* The visitor's connection is closed: REQUEST_END.
Gone(v) ==
    /\ at[v] = "leaving"
    /\ at' = [at EXCEPT ![v] = "gone"]
    /\ UNCHANGED <<online, pending, channel>>

-----------------------------------------------------------------------------
(* The data channel's coroutine.                                           *)

DataConnects(d) ==
    /\ dat[d] = "new"
    /\ dat' = [dat EXCEPT ![d] = "reading"]
    /\ link' = [link EXCEPT ![d] = "up"]
    /\ UNCHANGED <<online, at, pending, serves>>

CloseData(d) ==
    /\ dat' = [dat EXCEPT ![d] = "closing"]
    /\ link' = [link EXCEPT ![d] = IF @ = "up" THEN "closing" ELSE @]

\* register names a request the client was told of.  The frame may have been
\* buffered before the connection was lost.
Register(d, v) ==
    /\ dat[d] = "reading"
    /\ client[v] # NoClient
    /\ \/ /\ Attachable(v)
          /\ data' = [data EXCEPT ![v] = d]
          /\ ready' = [ready EXCEPT ![v] = "yes"]
          /\ serves' = [serves EXCEPT ![d] = v]
          /\ dat' = [dat EXCEPT ![d] = "waiting"]
          /\ UNCHANGED link
       \/ /\ ~Attachable(v)
          /\ CloseData(d)
          /\ UNCHANGED <<data, ready, serves>>
    /\ UNCHANGED <<online, at, items, client, closed, done>>

\* connect_timeout, a framing error or another message.
DataGivesUp(d) ==
    /\ dat[d] = "reading"
    /\ CloseData(d)
    /\ UNCHANGED <<online, at, pending, serves>>

\* Faulty variant: the handler closes the channel once it is paired.
ImpatientDataDone(d) ==
    /\ dat[d] = "waiting"
    /\ CloseData(d)
    /\ UNCHANGED <<online, at, pending, serves>>

DataDone(d) ==
    /\ dat[d] = "waiting" /\ done[serves[d]]
    /\ CloseData(d)
    /\ UNCHANGED <<online, at, pending, serves>>

DataGone(d) ==
    /\ dat[d] = "closing" /\ link[d] = "lost"
    /\ dat' = [dat EXCEPT ![d] = "gone"]
    /\ UNCHANGED <<online, at, pending, serves, link>>

DataLost(d) ==
    /\ link[d] \in {"up", "closing"}
    /\ link' = [link EXCEPT ![d] = "lost"]
    /\ UNCHANGED <<online, at, pending, dat, serves>>

-----------------------------------------------------------------------------
(* The control plane, as far as pairing depends on it.                     *)

ClientOnline(c) ==
    /\ c \notin online
    /\ online' = online \cup {c}
    /\ UNCHANGED <<at, pending, channel>>

\* The session is disconnected, or superseded by another of the same id: its
\* requests that have not been failed before are failed together.
FailAllForClient(c) == Fail({v \in items : client[v] = c /\ ~closed[v]})

ClientOffline(c) ==
    /\ c \in online
    /\ FailAllForClient(c)
    /\ online' \in {online, online \ {c}}
    /\ UNCHANGED <<at, items, client, done, data, channel>>

\* A registration whose ack cannot be sent takes its client id out without
\* failing anything.
ClientUnacked(c) ==
    /\ c \in online
    /\ online' = online \ {c}
    /\ UNCHANGED <<at, pending, channel>>

ConnError(v) ==
    /\ v \in items
    /\ Fail({v})
    /\ UNCHANGED <<online, at, items, client, done, data, channel>>

-----------------------------------------------------------------------------
VisitorStep(v) ==
    \/ TurnAway(v) \/ (\E c \in Client : Admit(v, c))
    \/ Notified(v) \/ NotifyFails(v)
    \/ StartPipe(v) \/ HearFailure(v) \/ Timeout(v)
    \/ Replied(v) \/ PipeEnds(v) \/ Leave(v) \/ Gone(v)

DataStep(d) ==
    \/ DataConnects(d) \/ (\E v \in Visitor : Register(d, v)) \/ DataGivesUp(d)
    \/ DataDone(d) \/ DataGone(d) \/ DataLost(d)

ControlStep ==
    \/ \E c \in Client : ClientOnline(c) \/ ClientOffline(c) \/ ClientUnacked(c)
    \/ \E v \in Visitor : ConnError(v)

Next ==
    \/ \E v \in Visitor : VisitorStep(v)
    \/ \E d \in Data : DataStep(d)
    \/ ControlStep

Spec == Init /\ [][Next]_vars

\* Timers fire and woken coroutines run; a send ends when TCP delivers or
\* gives up; a transport the server closes is lost in the end.  A pipe whose
\* channel is up may go on for ever.
Fairness ==
    /\ \A v \in Visitor :
          /\ WF_vars(Notified(v) \/ NotifyFails(v))
          /\ WF_vars(StartPipe(v) \/ HearFailure(v) \/ Timeout(v))
          /\ WF_vars(Replied(v) \/ Leave(v) \/ Gone(v))
          /\ WF_vars(PipeEnds(v) /\ link[data[v]] # "up")
    /\ \A d \in Data :
          /\ WF_vars(DataDone(d) \/ DataGone(d))
          /\ WF_vars(link[d] = "closing" /\ DataLost(d))

FairSpec == Spec /\ Fairness

-----------------------------------------------------------------------------
(* Properties.                                                             *)

Stages == {"new", "refusing", "notifying", "waiting", "replying", "piping",
           "releasing", "leaving", "gone"}

TypeOK ==
    /\ online \subseteq Client
    /\ at \in [Visitor -> Stages]
    /\ items \subseteq Visitor
    /\ client \in [Visitor -> Client \cup {NoClient}]
    /\ ready \in [Visitor -> {"unset", "yes", "no"}]
    /\ closed \in [Visitor -> BOOLEAN]
    /\ done \in [Visitor -> BOOLEAN]
    /\ data \in [Visitor -> Data \cup {NoData}]
    /\ dat \in [Data -> {"new", "reading", "waiting", "closing", "gone"}]
    /\ serves \in [Data -> Visitor \cup {NoVisitor}]
    /\ link \in [Data -> {"none", "up", "closing", "lost"}]

\* A visitor is piped only with the channel that registered its own conn_id,
\* and that channel's handler stays out of the way until the pipe is over:
\* it neither closes the channel nor serves another request meanwhile.
PipeHoldsChannel ==
    \A v \in Visitor : at[v] = "piping" =>
        /\ data[v] # NoData
        /\ serves[data[v]] = v
        /\ dat[data[v]] = "waiting"
        /\ link[data[v]] # "closing"

\* The handler of a paired channel always waits for the request that holds
\* its writer, so that finish() reaches it.
WaitersAreHeld ==
    \A d \in Data : dat[d] = "waiting" => data[serves[d]] = d

\* The quota counts what really runs: the visitors of a client that are
\* notified, waiting or piping, over all its sessions, stay within
\* max_conns_per_client.
QuotaRespected ==
    Limit > 0 => \A c \in Client :
        Cardinality({v \in Visitor :
            client[v] = c /\ at[v] \in {"notifying", "waiting", "piping"}}) <= Limit

\* The table holds exactly the admitted visitors whose coroutine has not
\* reached its finally block, whichever way it went.
TableExact ==
    items = {v \in Visitor : at[v] \in {"notifying", "waiting", "replying", "piping"}}

\* Whichever verdict comes first stands: pairing, conn_error, a client gone
\* and the timeout do not overrule one another (pending.py:95-112).
VerdictStands ==
    [][\A v \in Visitor : ready[v] # "unset" =>
          ready'[v] = ready[v] /\ data'[v] = data[v]]_vars

\* Every admitted visitor is piped or answered and let go, whatever the
\* client does.
VisitorSettles ==
    \A v \in Visitor :
        at[v] \in {"notifying", "waiting", "replying"} ~> at[v] \in {"piping", "gone"}

\* A data channel does not outlive its request.
ChannelReleased ==
    \A d \in Data : (dat[d] = "waiting" /\ at[serves[d]] \in {"leaving", "gone"}) ~> dat[d] = "gone"

-----------------------------------------------------------------------------
(* The abstract specification this one implements.                         *)

Phase(v) ==
    IF at[v] = "new" THEN "none"
    ELSE IF v \notin items THEN "over"
    ELSE IF ready[v] = "unset" THEN "open"
    ELSE IF ready[v] = "yes" THEN "joined" ELSE "failed"

R == INSTANCE Rendezvous WITH phase <- [v \in Visitor |-> Phase(v)], mate <- data

\* The futures, the table and the two coroutines implement the rendezvous.
ImplementsRendezvous == R!Spec
=============================================================================
