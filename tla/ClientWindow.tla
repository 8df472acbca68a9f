---------------------------- MODULE ClientWindow ----------------------------
(***************************************************************************)
(* The client under its window: the Connect and Disconnect buttons, the    *)
(* coroutines of GuiController they hand to the event loop, and the        *)
(* mailbox through which the window learns that the client was refused.    *)
(*                                                                         *)
(* The controller keeps one TunnelClient for good: Connect after           *)
(* Disconnect runs the same object again, with what stop() left in it.     *)
(* A click waits here for the call before it to return.                    *)
(***************************************************************************)
EXTENDS ClientSession

VARIABLES
    want,   \* _want_running, which the buttons go by
    call,   \* where start() or stop() of the controller stands
    task,   \* _client_task is not done
    axed,   \* run() has a cancellation on its way
    mail,   \* what the mailbox holds of connections made and refused
    alarm   \* state.fatal of the window

window == <<want, call, task, axed, mail, alarm>>
wvars == <<vars, window>>

WindowInit ==
    /\ Init
    /\ want = FALSE /\ call = "none" /\ task = FALSE /\ axed = FALSE
    /\ mail = "none" /\ alarm = FALSE

-----------------------------------------------------------------------------
(* The window.                                                             *)

\* Connect is there for a client that does not run, or was refused for good.
OnConnect ==
    /\ call = "none" /\ ~(want /\ ~alarm)
    /\ want' = TRUE
    /\ call' = "start"
    /\ UNCHANGED <<vars, task, axed, mail, alarm>>

OnDisconnect ==
    /\ call = "none" /\ want
    /\ want' = FALSE
    /\ call' = "stop"
    /\ UNCHANGED <<vars, task, axed, mail, alarm>>

\* _pump: of several messages the last one stands.
Pump ==
    /\ mail # "none"
    /\ alarm' = (mail = "lost")
    /\ mail' = "none"
    /\ UNCHANGED <<vars, want, call, task, axed>>

-----------------------------------------------------------------------------
(* The controller.                                                         *)

\* start(): a new task for run(), unless the last one is still going.
BeginStart ==
    /\ call = "start"
    /\ call' = "none"
    /\ task' = TRUE
    /\ IF task THEN UNCHANGED <<main, stopper>> ELSE main' = "idle" /\ stopper' = "none"
    /\ UNCHANGED <<reason, running, fatal, step, control, stopping, hb, tasks, dropped,
                   ended, want, axed, mail, alarm>>

\* stop() of the client first, which returns without a break when there is
\* nothing to cancel; then run() is cancelled.
BeginStop ==
    /\ call = "stop"
    /\ Stop
    /\ IF forwards = {} /\ ~hb
       THEN call' = "cancelling" /\ axed' = task
       ELSE call' = "stopping" /\ UNCHANGED axed
    /\ UNCHANGED <<want, task, mail, alarm>>

StopReturns ==
    /\ call = "stopping" /\ stopper = "done"
    /\ call' = "cancelling"
    /\ axed' = task
    /\ UNCHANGED <<vars, want, task, mail, alarm>>

\* CancelledError in run(): in the receive loop and in a registration the
\* finally block of _session begins; at an await of that block itself the rest
\* of it is skipped, the close of the connection with it.  While the forwards
\* are awaited they are cancelled once more, and awaited all the same.
Unwound ==
    \/ main = "serving" /\ main' = "quitting" /\ UNCHANGED <<link, doomed, dropped>>
    \/ main = "registering" /\ LeaveSession
    \/ /\ main = "dropping" /\ main' = "aborting"
       /\ doomed' = doomed \cup {f \in dropped : at[f] # "done"}
       /\ UNCHANGED <<link, dropped>>
    \/ /\ main \notin {"serving", "registering", "dropping"} /\ main' = "stopped"
       /\ UNCHANGED <<link, doomed, dropped>>

RunCancelled ==
    /\ axed
    /\ axed' = FALSE
    /\ Unwound
    /\ task' = (main' # "stopped")
    /\ hb' = FALSE
    /\ UNCHANGED <<reason, running, fatal, step, mute, inbox, stopping, stopper, forwards,
                   at, back, data, stalled, ended, want, call, mail, alarm>>

\* The forwards have ended, and run() with them.
RunAborted ==
    /\ main = "aborting"
    /\ \A f \in dropped : at[f] = "done"
    /\ main' = "stopped" /\ task' = FALSE
    /\ dropped' = {}
    /\ UNCHANGED <<reason, running, fatal, step, control, stopping, hb, stopper, tasks,
                   ended, want, call, axed, mail, alarm>>

StopDone ==
    /\ call = "cancelling" /\ ~task
    /\ call' = "none"
    /\ UNCHANGED <<vars, want, task, axed, mail, alarm>>

-----------------------------------------------------------------------------
(* The client, as long as its task exists and is not being cancelled; the  *)
(* window is told of a connection and of a refusal.                        *)

Run ==
    /\ task /\ ~axed
    /\ Main
    /\ task' = (main' # "stopped")
    /\ mail' = CASE main = "connecting" /\ main' = "registering" -> "connected"
                 [] main' = "stopped" /\ main # "sleeping" /\ IsFatal(reason') -> "lost"
                 [] OTHER -> mail
    /\ UNCHANGED <<want, call, axed, alarm>>

Beside ==
    /\ \/ HeartbeatLost \/ StopGoesOn \/ Network
       \/ \E f \in Fwd : Forward(f) \/ Cancelled(f)
    /\ UNCHANGED window

Controller == BeginStart \/ BeginStop \/ StopReturns \/ RunCancelled \/ RunAborted \/ StopDone

WindowNext == OnConnect \/ OnDisconnect \/ Pump \/ Controller \/ Run \/ Beside

WindowSpec == WindowInit /\ [][WindowNext]_wvars

\* Besides what ClientSession assumes, the event loop takes up what it is
\* handed.
FairWindowSpec == WindowSpec /\ Fairness /\ WF_wvars(Controller) /\ WF_wvars(Run /\ main = "idle")

-----------------------------------------------------------------------------
(* Properties.                                                             *)

\* A disconnect comes to its end, wherever run(), the heartbeat and the forwards
\* stand and whatever the server does, provided that those the forwards are
\* connected to read (gui/controller.py:121-136).
DisconnectReturns == PeersRead => (call = "stop" ~> call = "none")

\* While the window says that the client runs and it was not refused for good,
\* it goes on: the window has the reconnects of the command line
\* (README.md:840).
WantedKeepsRunning == want /\ call = "none" /\ ~fatal => main # "stopped"
=============================================================================
