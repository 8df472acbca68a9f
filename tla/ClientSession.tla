---------------------------- MODULE ClientSession ----------------------------
(***************************************************************************)
(* The client: the main loop of TunnelClient with its reconnects, one      *)
(* session on the control channel, the heartbeat that watches it, the      *)
(* forwards the server asks for, and stop(), which runs beside all of them.*)
(*                                                                         *)
(* Each action is a stretch of one coroutine between two awaits.  A task   *)
(* that is cancelled gets CancelledError at the await it is suspended in;  *)
(* cancelled again before that, it gets it once.                           *)
(***************************************************************************)
EXTENDS Naturals, FiniteSets

CONSTANTS
    Fwd,      \* forward tasks; one that is over may be used again
    Limit,    \* MAX_CONCURRENT_FORWARDS
    MaxStep,  \* steps of the backoff until reconnect.max_delay is reached
    Tls       \* tls.enabled

ASSUME ClientAssumption ==
    /\ IsFiniteSet(Fwd)
    /\ Limit \in Nat
    /\ MaxStep \in Nat
    /\ Tls \in BOOLEAN

VARIABLES
    main,      \* where run() and _session() stand
    link,      \* the control connection, as the client's transport sees it
    mute,      \* the peer has vanished without closing it
    inbox,     \* a new_conn frame has arrived and recv_msg will return it
    reason,    \* how the session, or the attempt at one, ended
    running,   \* _running
    stopping,  \* _stop_event is set
    fatal,     \* _fatal
    step,      \* how far the backoff has advanced
    hb,        \* the heartbeat task runs
    stopper,   \* where stop() stands
    forwards,  \* _forward_tasks
    at,        \* where each forward stands
    back,      \* its connection to the backend
    data,      \* its data channel
    doomed,    \* forwards with a cancellation on its way
    stalled,   \* forwards that close a connection whose peer does not read
               \* what it has still been sent
    dropped,   \* what the cancel_all of _session waits for
    ended      \* what the cancel_all of stop waits for

session == <<main, reason, running, fatal, step>>
control == <<link, mute, inbox>>
tasks == <<forwards, at, back, data, doomed, stalled>>
vars == <<session, control, stopping, hb, stopper, tasks, dropped, ended>>

Stages == {"idle", "connecting", "registering", "serving", "quitting", "dropping",
           "aborting", "closing", "sleeping", "stopped"}

Init ==
    /\ main = "idle" /\ reason = "none"
    /\ link = "none" /\ mute = FALSE /\ inbox = FALSE
    /\ running = FALSE /\ stopping = FALSE /\ fatal = FALSE
    /\ step = 0 /\ hb = FALSE /\ stopper = "none"
    /\ forwards = {} /\ doomed = {} /\ stalled = {} /\ dropped = {} /\ ended = {}
    /\ at = [f \in Fwd |-> "none"]
    /\ back = [f \in Fwd |-> "none"]
    /\ data = [f \in Fwd |-> "none"]

-----------------------------------------------------------------------------
(* The control connection.                                                 *)

\* close_writer.  Faulty variant: it waits for the end without asking for it.
Unclosed(l) == l
Closed(l) == IF l \in {"up", "eof"} THEN "closing" ELSE l

\* What run() takes for a permanent failure: a 403 that may not be retried
\* and, with TLS, an end of file in the length header, a reset or an SSL
\* error.
IsFatal(why) == why = "rejected" \/ (Tls /\ why = "eof")

\* Backoff.next_delay multiplies up to max_delay.
Advanced(n) == IF n < MaxStep THEN n + 1 ELSE n

\* run() after an attempt has ended for the reason why: return, leave the
\* loop, or wait for the next attempt.
After(why) ==
    /\ reason' = why
    /\ fatal' = (fatal \/ IsFatal(why))
    /\ IF IsFatal(why) \/ ~running
       THEN main' = "stopped" /\ UNCHANGED step
       ELSE main' = "sleeping" /\ step' = Advanced(step)

Start ==
    /\ main = "idle"
    /\ main' = "connecting"
    /\ running' = TRUE
    /\ UNCHANGED <<reason, fatal, step, control, stopping, hb, stopper, tasks, dropped, ended>>

\* open_connection succeeds: the backoff starts anew, register_client is sent.
Connect ==
    /\ main = "connecting"
    /\ main' = "registering"
    /\ link' = "up" /\ mute' = FALSE /\ inbox' = FALSE
    /\ step' = 0
    /\ reason' = "none"
    /\ UNCHANGED <<running, fatal, stopping, hb, stopper, tasks, dropped, ended>>

\* It fails: refused or timed out ("retry"); with TLS possibly a handshake
\* that fails or is reset ("eof").
ConnectFails ==
    /\ main = "connecting"
    /\ \E why \in IF Tls THEN {"retry", "eof"} ELSE {"retry"} : After(why)
    /\ UNCHANGED <<running, control, stopping, hb, stopper, tasks, dropped, ended>>

\* The head of the loop of _session.  Faulty variant: while True.
LoopForever == "serving"
Loop == IF stopping THEN "quitting" ELSE "serving"

\* register_ack says yes: the heartbeat starts, and the loop, unless stop()
\* has been called meanwhile.  The ack may have been received before whatever
\* has happened to the connection since.
Registered ==
    /\ main = "registering"
    /\ main' = Loop
    /\ hb' = ~stopping
    /\ UNCHANGED <<reason, running, fatal, step, control, stopping, stopper, tasks, dropped, ended>>

\* The end of a session: cancel_all(_forward_tasks), which returns at once
\* with nothing to cancel, then close_writer.
LeaveSession ==
    /\ dropped' = forwards
    /\ doomed' = doomed \cup forwards
    /\ IF forwards = {}
       THEN main' = "closing" /\ link' = Closed(link)
       ELSE main' = "dropping" /\ UNCHANGED link

\* register_ack says no, is something else, is late, or the connection ends.
NotRegistered ==
    /\ main = "registering"
    /\ \E why \in {"rejected", "retry", "eof"} :
          /\ why = "eof" => link \in {"eof", "lost"}
          /\ reason' = why
    /\ LeaveSession
    /\ UNCHANGED <<running, fatal, step, mute, inbox, stopping, hb, stopper,
                   forwards, at, back, data, stalled, ended>>

\* recv_msg fails: the connection has ended in a length header ("eof") or
\* elsewhere; the heartbeat is cancelled.
RecvFails ==
    /\ main = "serving"
    /\ link = "lost" \/ (link = "eof" /\ ~inbox)
    /\ reason' \in {"eof", "retry"}
    /\ main' = "quitting"
    /\ hb' = FALSE
    /\ UNCHANGED <<running, fatal, step, control, stopping, stopper, tasks, dropped, ended>>

Free(f) == at[f] \in {"none", "done"} /\ f \notin forwards \cup dropped \cup ended

\* Faulty variant: one forward too many.
Overbooked == Cardinality(forwards) > Limit
AtLimit == Cardinality(forwards) >= Limit

\* new_conn: a forward is started, or its conn_error reported.  The loop
\* looks at _stop_event only afterwards.
NewConn ==
    /\ main = "serving" /\ inbox
    /\ inbox' = FALSE
    /\ \/ /\ ~AtLimit
          /\ \E f \in Fwd :
                /\ Free(f)
                /\ forwards' = forwards \cup {f}
                /\ at' = [at EXCEPT ![f] = "backend"]
                /\ back' = [back EXCEPT ![f] = "none"]
                /\ data' = [data EXCEPT ![f] = "none"]
       \/ AtLimit /\ UNCHANGED <<forwards, at, back, data>>
    /\ main' = Loop
    /\ hb' = (hb /\ ~stopping)
    /\ UNCHANGED <<reason, running, fatal, step, link, mute, stopping, stopper, doomed, stalled, dropped, ended>>

\* The heartbeat is over.  Faulty variants: the forwards are left alone, or
\* awaited but not cancelled.
QuitAlone ==
    /\ main = "quitting"
    /\ main' = "closing" /\ link' = Closed(link)
    /\ UNCHANGED <<reason, running, fatal, step, mute, inbox, stopping, hb, stopper, tasks, dropped, ended>>

QuitWaiting ==
    /\ main = "quitting"
    /\ dropped' = forwards
    /\ main' = "dropping"
    /\ UNCHANGED <<reason, running, fatal, step, control, stopping, hb, stopper, tasks, ended>>

Quit ==
    /\ main = "quitting"
    /\ LeaveSession
    /\ UNCHANGED <<reason, running, fatal, step, mute, inbox, stopping, hb, stopper,
                   forwards, at, back, data, stalled, ended>>

\* All of them have ended: the set is cleared, whatever is in it by now.
Dropped ==
    /\ main = "dropping"
    /\ \A f \in dropped : at[f] = "done"
    /\ dropped' = {}
    /\ forwards' = {}
    /\ main' = "closing" /\ link' = Closed(link)
    /\ UNCHANGED <<reason, running, fatal, step, mute, inbox, stopping, hb, stopper,
                   at, back, data, doomed, stalled, ended>>

\* close_writer returns: the session is over.
SessionOver ==
    /\ main = "closing" /\ link = "lost"
    /\ link' = "none" /\ mute' = FALSE /\ inbox' = FALSE
    /\ After(reason)
    /\ UNCHANGED <<running, stopping, hb, stopper, tasks, dropped, ended>>

\* _sleep_or_stop.
Retry ==
    /\ main = "sleeping"
    /\ main' = IF stopping THEN "stopped" ELSE "connecting"

WakeUp ==
    /\ Retry
    /\ UNCHANGED <<reason, running, fatal, step, control, stopping, hb, stopper, tasks, dropped, ended>>

Main ==
    \/ Start \/ Connect \/ ConnectFails \/ Registered \/ NotRegistered \/ RecvFails
    \/ NewConn \/ Quit \/ Dropped \/ SessionOver \/ WakeUp

-----------------------------------------------------------------------------
(* The heartbeat: no pong in time, or the ping cannot be sent.  It closes   *)
(* the connection under the main loop and ends.                             *)

HeartbeatLost ==
    /\ hb
    /\ hb' = FALSE
    /\ link' = Closed(link)
    /\ UNCHANGED <<session, mute, inbox, stopping, stopper, tasks, dropped, ended>>

-----------------------------------------------------------------------------
(* A forward.                                                               *)

\* The task ends; its done callback takes it out of _forward_tasks.
Finish(f) ==
    /\ at' = [at EXCEPT ![f] = "done"]
    /\ forwards' = forwards \ {f}
    /\ stalled' = stalled \ {f}

\* close_writer of a connection that was piped: it waits, for ever if need be,
\* until the peer has read what is left.
MayStall(f) == stalled' \in {stalled, stalled \cup {f}}

CloseData(f) ==
    /\ at' = [at EXCEPT ![f] = "closing_data"]
    /\ data' = [data EXCEPT ![f] = "closed"]
    /\ MayStall(f)
    /\ UNCHANGED <<back, forwards>>

CloseBack(f) ==
    /\ at' = [at EXCEPT ![f] = "closing_back"]
    /\ back' = [back EXCEPT ![f] = "closed"]
    /\ UNCHANGED <<data, forwards>>

BackendConnects(f) ==
    /\ at[f] = "backend"
    /\ \/ /\ at' = [at EXCEPT ![f] = "data"]
          /\ back' = [back EXCEPT ![f] = "open"]
          /\ UNCHANGED <<data, forwards, stalled>>
       \/ Finish(f) /\ UNCHANGED <<back, data>>

DataConnects(f) ==
    /\ at[f] = "data"
    /\ UNCHANGED stalled
    /\ \/ /\ at' = [at EXCEPT ![f] = "piping"]
          /\ data' = [data EXCEPT ![f] = "open"]
          /\ UNCHANGED <<back, forwards>>
       \/ CloseBack(f)

PipeEnds(f) == at[f] = "piping" /\ CloseData(f)
DataClosed(f) == at[f] = "closing_data" /\ f \notin stalled /\ CloseBack(f) /\ MayStall(f)
BackClosed(f) == at[f] = "closing_back" /\ f \notin stalled /\ Finish(f) /\ UNCHANGED <<back, data>>

Forward(f) ==
    /\ f \notin doomed
    /\ \/ BackendConnects(f) \/ DataConnects(f)
       \/ PipeEnds(f) \/ DataClosed(f) \/ BackClosed(f)
    /\ UNCHANGED <<session, control, stopping, hb, stopper, doomed, dropped, ended>>

\* CancelledError: the finally block runs, or is cut short where it stands.
Unwind(f) ==
    \/ at[f] \in {"backend", "closing_data", "closing_back"} /\ Finish(f) /\ UNCHANGED <<back, data>>
    \/ at[f] = "data" /\ CloseBack(f) /\ UNCHANGED stalled
    \/ at[f] = "piping" /\ CloseData(f)

Cancelled(f) ==
    /\ f \in doomed
    /\ doomed' = doomed \ {f}
    /\ Unwind(f) \/ (at[f] = "done" /\ UNCHANGED <<forwards, at, back, data, stalled>>)
    /\ UNCHANGED <<session, control, stopping, hb, stopper, dropped, ended>>

-----------------------------------------------------------------------------
(* stop()                                                                   *)

\* The flags, the heartbeat's stop event, the control writer if there is one,
\* and cancel_all of the forwards; without any, that of the heartbeat.
Stop ==
    /\ stopper = "none"
    /\ running' = FALSE /\ stopping' = TRUE
    /\ link' = Closed(link)
    /\ ended' = forwards
    /\ doomed' = doomed \cup forwards
    /\ IF forwards = {}
       THEN stopper' = "done" /\ hb' = FALSE
       ELSE stopper' = "cancelling" /\ UNCHANGED hb
    /\ UNCHANGED <<main, reason, fatal, step, mute, inbox, forwards, at, back, data, stalled, dropped>>

\* The forwards it found have ended: the set is cleared, the heartbeat
\* cancelled.
StopGoesOn ==
    /\ stopper = "cancelling"
    /\ \A f \in ended : at[f] = "done"
    /\ ended' = {}
    /\ forwards' = {}
    /\ stopper' = "done"
    /\ hb' = FALSE
    /\ UNCHANGED <<session, control, stopping, at, back, data, doomed, stalled, dropped>>

-----------------------------------------------------------------------------
(* The server and the network.                                              *)

Arrives ==
    /\ main = "serving" /\ link = "up" /\ ~mute /\ ~inbox
    /\ inbox' = TRUE
    /\ UNCHANGED <<session, link, mute, stopping, hb, stopper, tasks, dropped, ended>>

PeerCloses ==
    /\ link = "up" /\ ~mute
    /\ link' \in {"eof", "lost"}
    /\ UNCHANGED <<session, mute, inbox, stopping, hb, stopper, tasks, dropped, ended>>

PeerVanishes ==
    /\ link = "up" /\ ~mute
    /\ mute' = TRUE
    /\ UNCHANGED <<session, link, inbox, stopping, hb, stopper, tasks, dropped, ended>>

CloseCompletes ==
    /\ link = "closing"
    /\ link' = "lost"
    /\ UNCHANGED <<session, mute, inbox, stopping, hb, stopper, tasks, dropped, ended>>

\* The peer of a connection that is being closed reads the rest, or is lost.
ReadsOn(f) ==
    /\ f \in stalled
    /\ stalled' = stalled \ {f}
    /\ UNCHANGED <<session, control, stopping, hb, stopper, forwards, at, back, data, doomed, dropped, ended>>

Network == Arrives \/ PeerCloses \/ PeerVanishes \/ CloseCompletes \/ \E f \in Fwd : ReadsOn(f)

Next ==
    \/ Main \/ HeartbeatLost \/ Stop \/ StopGoesOn \/ Network
    \/ \E f \in Fwd : Forward(f) \/ Cancelled(f)

Spec == Init /\ [][Next]_vars

\* Coroutines run on, connect_timeout and pong_timeout fire, and the control
\* connection, on which the client has only a few frames to send, is lost in
\* the end when the client closes it.  Neither the server nor a pipe has to do
\* anything, and no peer has to read what it is sent.
Fairness ==
    /\ WF_vars(Connect \/ ConnectFails)
    /\ WF_vars(Registered \/ NotRegistered)
    /\ WF_vars(RecvFails \/ NewConn)
    /\ WF_vars(Quit \/ Dropped \/ SessionOver \/ WakeUp)
    /\ WF_vars(mute /\ HeartbeatLost)
    /\ WF_vars(CloseCompletes)
    /\ WF_vars(StopGoesOn)
    /\ \A f \in Fwd : WF_vars(Cancelled(f)) /\ WF_vars(Forward(f) /\ at[f] # "piping")

-----------------------------------------------------------------------------
(* Properties.                                                             *)

Over(f) == at[f] \in {"none", "done"}

TypeOK ==
    /\ main \in Stages
    /\ link \in {"none", "up", "eof", "closing", "lost"}
    /\ reason \in {"none", "rejected", "retry", "eof"}
    /\ {mute, inbox, running, stopping, fatal, hb} \subseteq BOOLEAN
    /\ step \in 0..MaxStep
    /\ stopper \in {"none", "cancelling", "done"}
    /\ at \in [Fwd -> {"none", "backend", "data", "piping", "closing_data", "closing_back", "done"}]
    /\ back \in [Fwd -> {"none", "open", "closed"}]
    /\ data \in [Fwd -> {"none", "open", "closed"}]
    /\ {forwards, doomed, stalled, dropped, ended} \subseteq SUBSET Fwd

\* Before the next attempt nothing of the session before is left: its
\* connection and its data channels are closed, its heartbeat and its forwards
\* over, whatever ended it and wherever they were (client/core.py:348-357).
OldSessionGone ==
    main \in {"connecting", "sleeping"} /\ ~stopping =>
        /\ link = "none" /\ ~hb
        /\ \A f \in Fwd : Over(f) /\ data[f] # "open"

\* The forwards that exist, tracked or not, stay within
\* MAX_CONCURRENT_FORWARDS (client/core.py:53-55).
ForwardsBounded == Cardinality({f \in Fwd : ~Over(f)}) <= Limit

\* After stop() no further attempt is begun.
StopIsFinal == [][stopping /\ main # "idle" /\ main' = "connecting" => main = "connecting"]_vars

\* stop() is effective wherever the client happens to be, unless a peer of a
\* forward that is closed never reads again.
PeersRead == \A f \in Fwd : []<>(f \notin stalled)
StopEnds == PeersRead => ((stopping /\ main # "idle") ~> main = "stopped")

\* A session that has ended, or whose peer has vanished without a word
\* (heartbeat.py:8-10), is followed by another attempt, or the client has
\* stopped: provided that those the forwards are connected to read, nothing
\* waits for ever in the cleaning up.
SessionRecovers ==
    PeersRead =>
        (\/ main = "serving" /\ mute
         \/ main \in {"quitting", "dropping", "closing", "sleeping"}
            ~> main \in {"connecting", "stopped"})
=============================================================================
