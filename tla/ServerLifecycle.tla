--------------------------- MODULE ServerLifecycle ---------------------------
(***************************************************************************)
(* The life of the server in its console: the start and stop buttons of    *)
(* the window, ServerController, and start and stop of TunnelServer with   *)
(* the ports they listen on.                                               *)
(*                                                                         *)
(* A click hands a coroutine to the event loop; coroutines interleave at   *)
(* their awaits, and nothing keeps a start and a stop apart.  A socket     *)
(* listens from the moment it is bound; the server knows of it one await   *)
(* later.                                                                  *)
(***************************************************************************)
EXTENDS Naturals

CONSTANTS
    Client,     \* clients of the server, of one connection each
    Contested,  \* bound: ports another program may take
    MaxClicks,  \* bound: clicks on start and stop
    None

Ports == {"map", "control", "data"}
Call == 1..MaxClicks
Instance == 1..MaxClicks

ASSUME LifecycleAssumption ==
    /\ Contested \subseteq Ports
    /\ MaxClicks \in Nat \ {0}
    /\ None \notin Instance
    /\ None \notin Ports \X {"own", "other"}

VARIABLES
    want,      \* _want_running of the window
    call,      \* the coroutines the clicks have handed over
    clicks,    \* their number
    current,   \* the TunnelServer of the controller
    serving,   \* the server _serve_task runs serve_forever of, None without one
    again,     \* _stopped_once
    failure,   \* why the last start failed: the port, and who held it
    heard,     \* the server whose events reach the window, None without one
    sock,      \* each socket of each server: off, bound, or known to the server
    ended,     \* servers with _stopped set
    conn,      \* each client: where it is connected and whether it is registered
    deaf,      \* clients that do not read what they are still being sent
    held,      \* servers with a piped visitor that does not read
    taken,     \* ports other programs hold
    waits,     \* Server.wait_closed waits for connections: Python 3.12 and later
    overlap    \* history: a coroutine was handed over while another one ran

controller == <<current, serving, again, failure, heard>>
world == <<conn, deaf, held, taken, waits>>
vars == <<want, call, clicks, current, serving, again, failure, heard, sock, ended, world, overlap>>

\* A coroutine: what it does next, the server it works on, the serve task it
\* has taken out, the sessions it still has to close and the one it is closing.
Running(at, srv) == [at |-> at, srv |-> srv, task |-> None, left |-> {}, shut |-> None]
Over == Running("over", None)

Offline == [srv |-> None, registered |-> FALSE]

Init ==
    /\ want = FALSE
    /\ call = [k \in Call |-> Over] /\ clicks = 0
    /\ current = 1 /\ serving = None /\ again = FALSE /\ failure = None /\ heard = None
    /\ sock = [i \in Instance |-> [p \in Ports |-> "off"]]
    /\ ended = {}
    /\ conn = [c \in Client |-> Offline]
    /\ deaf = {} /\ held = {} /\ taken = {}
    /\ waits \in BOOLEAN
    /\ overlap = FALSE

Listens(i, p) == sock[i][p] # "off"
Holder(p) == IF p \in taken THEN "other"
             ELSE IF \E i \in Instance : Listens(i, p) THEN "own" ELSE None
Up == serving # None /\ serving \notin ended
Quiet == \A k \in Call : call[k].at = "over"

At(k, where) == call[k].at = where
Goes(k, where) == call' = [call EXCEPT ![k].at = where]

-----------------------------------------------------------------------------
(* The buttons.                                                            *)

Hand(where) ==
    /\ clicks < MaxClicks
    /\ clicks' = clicks + 1
    /\ call' = [call EXCEPT ![clicks + 1] = Running(where, None)]
    /\ overlap' = (overlap \/ ~Quiet)
    /\ UNCHANGED <<controller, sock, ended, world>>

OnStart == ~want /\ want' = TRUE /\ Hand("start")
OnStop == want /\ want' = FALSE /\ Hand("stop")

-----------------------------------------------------------------------------
(* ServerController.start and TunnelServer.start.                          *)

\* The instance that has been stopped is not used again: there is a new one.
\* (Faulty: there is not.)
ReusedInstance == current
NextInstance == IF again THEN current + 1 ELSE current

BeginStart(k) ==
    /\ At(k, "start")
    /\ \/ Up /\ call' = [call EXCEPT ![k] = Over] /\ UNCHANGED controller
       \/ /\ ~Up
          /\ current' = NextInstance /\ failure' = None
          /\ heard' = IF again \/ heard = None THEN NextInstance ELSE heard
          /\ call' = [call EXCEPT ![k] = Running("map", NextInstance)]
          /\ UNCHANGED <<serving, again>>
    /\ UNCHANGED <<want, clicks, sock, ended, world, overlap>>

BoundAt(p) == CASE p = "map" -> "map_bound"
                [] p = "control" -> "control_bound"
                [] p = "data" -> "data_bound"
After(p) == CASE p = "map" -> "control" [] p = "control" -> "data" [] p = "data" -> "serve"

\* start_server binds and listens, and comes back a round of the loop later.
Bind(k, p) ==
    /\ At(k, p)
    /\ Holder(p) = None
    /\ sock' = [sock EXCEPT ![call[k].srv][p] = "bound"]
    /\ Goes(k, BoundAt(p))
    /\ UNCHANGED <<want, clicks, controller, ended, world, overlap>>

Bound(k, p) ==
    /\ At(k, BoundAt(p))
    /\ sock' = [sock EXCEPT ![call[k].srv][p] = "known"]
    /\ Goes(k, After(p))
    /\ UNCHANGED <<want, clicks, controller, ended, world, overlap>>

\* The port is not free.  The mapping is taken down again, a control port
\* that listens already is not.
BindFails(k, p) ==
    /\ At(k, p)
    /\ Holder(p) # None
    /\ failure' = <<p, Holder(p)>>
    /\ Goes(k, IF p = "map" THEN "over" ELSE "unmap")
    /\ UNCHANGED <<want, clicks, current, serving, again, heard, sock, ended, world, overlap>>

Closed(i, P) == [sock EXCEPT ![i] = [p \in Ports |-> IF p \in P /\ sock[i][p] = "known"
                                                     THEN "off" ELSE sock[i][p]]]

\* mapping.stop: the handlers of the visitors are cancelled and awaited, and
\* close_writer waits for those that do not read; then the ports are closed.
Unmap(k) ==
    /\ At(k, "unmap") /\ call[k].srv \notin held
    /\ sock' = Closed(call[k].srv, {"map"})
    /\ call' = [call EXCEPT ![k] = Over]
    /\ UNCHANGED <<want, clicks, controller, ended, world, overlap>>

\* The controller serves the instance that is its own by now.
Serve(k) ==
    /\ At(k, "serve")
    /\ serving' = current
    /\ call' = [call EXCEPT ![k] = Over]
    /\ UNCHANGED <<want, clicks, current, again, failure, heard, sock, ended, world, overlap>>

-----------------------------------------------------------------------------
(* ServerController.stop and TunnelServer.stop.                            *)

BeginStop(k) ==
    /\ At(k, "stop")
    /\ call' = [call EXCEPT ![k] = [Running("close", None) EXCEPT !.task = serving]]
    /\ serving' = None
    /\ UNCHANGED <<want, clicks, current, again, failure, heard, sock, ended, world, overlap>>

\* A server that did not come up is closed as well: it may listen already.
\* (Faulty: only one that served is; the control server is not closed before
\* it is waited for.)
ServedClose(k) ==
    /\ At(k, "close")
    /\ IF current \in ended \/ call[k].task = None
       THEN Goes(k, "finish") /\ UNCHANGED sock
       ELSE /\ sock' = Closed(current, {"control", "data"})
            /\ call' = [call EXCEPT ![k].at = "closing", ![k].srv = current]
    /\ UNCHANGED <<want, clicks, controller, ended, world, overlap>>
UnclosedClose(k) ==
    /\ At(k, "close")
    /\ IF current \in ended
       THEN Goes(k, "finish") /\ UNCHANGED sock
       ELSE /\ sock' = Closed(current, {"data"})
            /\ call' = [call EXCEPT ![k].at = "closing", ![k].srv = current]
    /\ UNCHANGED <<want, clicks, controller, ended, world, overlap>>
Close(k) ==
    /\ At(k, "close")
    /\ IF current \in ended
       THEN Goes(k, "finish") /\ UNCHANGED sock
       ELSE /\ sock' = Closed(current, {"control", "data"})
            /\ call' = [call EXCEPT ![k].at = "closing", ![k].srv = current]
    /\ UNCHANGED <<want, clicks, controller, ended, world, overlap>>

\* wait_closed of the control and the data server: from Python 3.12 on not
\* before their connections are gone.
Connected(i) == \E c \in Client : conn[c].srv = i
HeldUp(k) == waits /\ Connected(call[k].srv)

WaitClosed(k) ==
    /\ At(k, "closing") /\ ~HeldUp(k)
    /\ Goes(k, "unlisten")
    /\ UNCHANGED <<want, clicks, controller, sock, ended, world, overlap>>

\* The watchdog ends, the mapping stops, tasks are cancelled, what is pending
\* fails; then the sessions there are by now are gone through.
Unlisten(k) ==
    /\ At(k, "unlisten") /\ call[k].srv \notin held
    /\ sock' = Closed(call[k].srv, {"map"})
    /\ call' = [call EXCEPT ![k].at = "sweep",
                            ![k].left = {c \in Client : conn[c] = [srv |-> call[k].srv, registered |-> TRUE]}]
    /\ UNCHANGED <<want, clicks, controller, ended, world, overlap>>

\* One session after the other is closed; close_writer returns when the
\* connection is gone.
Sweep(k, c) ==
    /\ At(k, "sweep") /\ call[k].shut = None /\ c \in call[k].left
    /\ call' = [call EXCEPT ![k].left = @ \ {c}, ![k].shut = c]
    /\ UNCHANGED <<want, clicks, controller, sock, ended, world, overlap>>

\* The connection of a client is gone, whoever was to close it.
Lost(c) ==
    /\ conn' = [conn EXCEPT ![c] = Offline]
    /\ deaf' = deaf \ {c}
    /\ call' = [k \in Call |-> [call[k] EXCEPT !.left = @ \ {c}, !.shut = IF @ = c THEN None ELSE @]]
    /\ UNCHANGED <<want, clicks, controller, sock, ended, held, taken, waits, overlap>>

Swept(k, c) == At(k, "sweep") /\ call[k].shut = c /\ c \notin deaf /\ Lost(c)

SetStopped(k) ==
    /\ At(k, "sweep") /\ call[k].left = {} /\ call[k].shut = None
    /\ ended' = ended \cup {call[k].srv}
    /\ Goes(k, "finish")
    /\ UNCHANGED <<want, clicks, controller, sock, world, overlap>>

\* The serve task is cancelled, the subscriptions are given up.
FinishStop(k) ==
    /\ At(k, "finish")
    /\ heard' = None /\ again' = TRUE
    /\ call' = [call EXCEPT ![k] = Over]
    /\ UNCHANGED <<want, clicks, current, serving, failure, sock, ended, world, overlap>>

-----------------------------------------------------------------------------
(* Clients and other programs.                                             *)

Connect(c) ==
    /\ conn[c] = Offline
    /\ \E i \in Instance :
           /\ Listens(i, "control")
           /\ conn' = [conn EXCEPT ![c] = [srv |-> i, registered |-> FALSE]]
    /\ UNCHANGED <<want, call, clicks, controller, sock, ended, deaf, held, taken, waits, overlap>>

\* Its handler goes on whatever becomes of the server.
Register(c) ==
    /\ conn[c] # Offline /\ ~conn[c].registered
    /\ conn' = [conn EXCEPT ![c].registered = TRUE]
    /\ UNCHANGED <<want, call, clicks, controller, sock, ended, deaf, held, taken, waits, overlap>>

Leave(c) == conn[c] # Offline /\ Lost(c)

\* A client stops reading, or reads on.
Stalls(c) ==
    /\ conn[c] # Offline
    /\ deaf' = IF c \in deaf THEN deaf \ {c} ELSE deaf \cup {c}
    /\ UNCHANGED <<want, call, clicks, controller, sock, ended, conn, held, taken, waits, overlap>>

\* A visitor that is piped to a client stops reading, reads on or is lost.
\* Bound: none joins those that mapping.stop waits for.
VisitorStalls(i) ==
    /\ i \notin held
    /\ Listens(i, "map") /\ Listens(i, "data")
    /\ \E c \in Client : conn[c] = [srv |-> i, registered |-> TRUE]
    /\ \A k \in Call : call[k].srv = i => call[k].at \notin {"unmap", "unlisten"}
    /\ held' = held \cup {i}
    /\ UNCHANGED <<want, call, clicks, controller, sock, ended, conn, deaf, taken, waits, overlap>>

VisitorReads(i) ==
    /\ i \in held
    /\ held' = held \ {i}
    /\ UNCHANGED <<want, call, clicks, controller, sock, ended, conn, deaf, taken, waits, overlap>>

OtherTakes(p) ==
    /\ Holder(p) = None
    /\ taken' = taken \cup {p}
    /\ UNCHANGED <<want, call, clicks, controller, sock, ended, conn, deaf, held, waits, overlap>>

OtherLeaves(p) ==
    /\ p \in taken
    /\ taken' = taken \ {p}
    /\ UNCHANGED <<want, call, clicks, controller, sock, ended, conn, deaf, held, waits, overlap>>

-----------------------------------------------------------------------------

Step(k) ==
    \/ BeginStart(k) \/ Unmap(k) \/ Serve(k)
    \/ \E p \in Ports : Bind(k, p) \/ Bound(k, p) \/ BindFails(k, p)
    \/ BeginStop(k) \/ Close(k) \/ WaitClosed(k) \/ Unlisten(k) \/ SetStopped(k) \/ FinishStop(k)
    \/ \E c \in Client : Sweep(k, c) \/ Swept(k, c)

Next ==
    \/ OnStart \/ OnStop
    \/ \E k \in Call : Step(k)
    \/ \E c \in Client : Connect(c) \/ Register(c) \/ Leave(c) \/ Stalls(c)
    \/ \E i \in Instance : VisitorStalls(i) \/ VisitorReads(i)
    \/ \E p \in Contested : OtherTakes(p) \/ OtherLeaves(p)

\* The event loop runs every coroutine that is ready; no peer has to read or to
\* leave.
Fairness == \A k \in Call : WF_vars(Step(k))

Spec == Init /\ [][Next]_vars
FairSpec == Spec /\ Fairness

-----------------------------------------------------------------------------
(* Properties.                                                             *)

\* As long as starts and stops do not overlap, a stop leaves nothing listening
\* and a start that did not fail leaves a server that serves with all its
\* sockets and is heard by the window; no server but the last one listens
\* (server_controller.py:134-138).
SerialIsClean ==
    Quiet /\ ~overlap =>
        /\ \A i \in Instance, p \in Ports : Listens(i, p) => want /\ i = current
        /\ want /\ failure = None =>
               /\ Up /\ serving = current /\ heard = current
               /\ \A p \in Ports : sock[current][p] = "known"

\* The server is never in its own way: as long as starts and stops do not
\* overlap, a start fails only for a port another program holds, whatever
\* failed before.
NeverInOwnWay == failure # None /\ ~overlap => failure[2] = "other"

\* The peers a stop waits for give way: visitors and clients read what they
\* are still being sent, and where wait_closed waits for connections there
\* comes a moment without one.
PeersGiveWay ==
    /\ \A i \in Instance : <>[](i \notin held)
    /\ \A c \in Client : <>[](c \notin deaf)
    /\ \A k \in Call : []<>~HeldUp(k)

\* A stop comes to its end as long as no other click interferes, provided that
\* the peers it waits for give way; clients that connect and register while it
\* goes on do not hold it up (server/core.py:321-352).
StopEnds ==
    PeersGiveWay => \A k \in Call : At(k, "close") /\ ~overlap ~> At(k, "over") \/ overlap

\* A start that failed leaves no listener behind
\* (tests/test_gui_server_controller.py:465).
FailedStartIsClean ==
    Quiet /\ want /\ failure # None => \A i \in Instance, p \in Ports : ~Listens(i, p)
=============================================================================
