-------------------------- MODULE ClientWindow_proofs --------------------------
(***************************************************************************)
(* What holds of the client for any number of forwards, any limit and any  *)
(* backoff, with and without TLS: theorems about ClientSession, which      *)
(* ClientWindow extends.  It goes on to hold under its window, which       *)
(* cancels run() wherever it is and runs the same object again: the last   *)
(* part is about ClientWindow.                                             *)
(***************************************************************************)
EXTENDS ClientWindow, FiniteSetTheorems, TLAPS

-----------------------------------------------------------------------------
(* Types.                                                                  *)

LEMMA ClosedType ==
    ASSUME NEW l \in {"none", "up", "eof", "closing", "lost"}
    PROVE  Closed(l) \in {"none", "up", "eof", "closing", "lost"}
  BY DEF Closed

LEMMA StepTypes ==
    /\ 0 \in 0..MaxStep
    /\ \A n \in 0..MaxStep : Advanced(n) \in 0..MaxStep
<1>1. MaxStep \in Nat
  BY ClientAssumption DEF ClientAssumption
<1>2. QED
  BY <1>1 DEF Advanced

LEMMA AfterType ==
    ASSUME TypeOK, NEW why \in {"none", "rejected", "retry", "eof"}, After(why)
    PROVE  /\ main' \in {"stopped", "sleeping"}
           /\ reason' \in {"none", "rejected", "retry", "eof"}
           /\ fatal' \in BOOLEAN
           /\ step' \in 0..MaxStep
<1>1. step' \in 0..MaxStep
  BY StepTypes DEF After, TypeOK
<1>2. IsFatal(why) \in BOOLEAN
  BY DEF IsFatal
<1>3. QED
  BY <1>1, <1>2 DEF After, TypeOK

\* One step of the main loop.
LEMMA MainType == ASSUME TypeOK, Main PROVE TypeOK'
<1>1. CASE Start
  BY <1>1 DEF Start, TypeOK, Stages, control, tasks
<1>2. CASE Connect
  BY <1>2, StepTypes DEF Connect, TypeOK, Stages, tasks
<1>3. CASE ConnectFails
  BY <1>3, AfterType DEF ConnectFails, TypeOK, Stages, control, tasks
<1>4. CASE Registered
  BY <1>4 DEF Registered, Loop, TypeOK, Stages, control, tasks
<1>5. CASE NotRegistered
  BY <1>5, ClosedType DEF NotRegistered, LeaveSession, TypeOK, Stages
<1>6. CASE RecvFails
  BY <1>6 DEF RecvFails, TypeOK, Stages, control, tasks
<1>7. CASE NewConn
  <2>1. /\ at' \in [Fwd -> {"none", "backend", "data", "piping", "closing_data", "closing_back", "done"}]
        /\ back' \in [Fwd -> {"none", "open", "closed"}]
        /\ data' \in [Fwd -> {"none", "open", "closed"}]
        /\ forwards' \in SUBSET Fwd
    BY <1>7 DEF NewConn, TypeOK
  <2>2. hb' \in BOOLEAN
    BY <1>7 DEF NewConn, TypeOK
  <2>3. QED
    BY <1>7, <2>1, <2>2 DEF NewConn, Loop, TypeOK, Stages
<1>8. CASE Quit
  BY <1>8, ClosedType DEF Quit, LeaveSession, TypeOK, Stages
<1>9. CASE Dropped
  BY <1>9, ClosedType DEF Dropped, TypeOK, Stages
<1>10. CASE SessionOver
  BY <1>10, AfterType DEF SessionOver, TypeOK, Stages, tasks
<1>11. CASE WakeUp
  BY <1>11 DEF WakeUp, Retry, TypeOK, Stages, control, tasks
<1>12. QED
  BY <1>1, <1>2, <1>3, <1>4, <1>5, <1>6, <1>7, <1>8, <1>9, <1>10, <1>11 DEF Main

\* What a forward does to its own task and connections.
LEMMA ForwardType ==
    ASSUME TypeOK, NEW f \in Fwd, Forward(f) \/ Cancelled(f)
    PROVE  TypeOK'
<1>1. CASE Forward(f)
  <2>1. /\ at' \in [Fwd -> {"none", "backend", "data", "piping", "closing_data", "closing_back", "done"}]
        /\ back' \in [Fwd -> {"none", "open", "closed"}]
        /\ data' \in [Fwd -> {"none", "open", "closed"}]
        /\ forwards' \in SUBSET Fwd /\ stalled' \in SUBSET Fwd
    BY <1>1 DEF Forward, BackendConnects, DataConnects, PipeEnds, DataClosed, BackClosed,
                Finish, CloseData, CloseBack, MayStall, TypeOK
  <2>2. QED
    BY <1>1, <2>1 DEF Forward, TypeOK, session, control
<1>2. CASE Cancelled(f)
  <2>1. /\ at' \in [Fwd -> {"none", "backend", "data", "piping", "closing_data", "closing_back", "done"}]
        /\ back' \in [Fwd -> {"none", "open", "closed"}]
        /\ data' \in [Fwd -> {"none", "open", "closed"}]
        /\ forwards' \in SUBSET Fwd /\ stalled' \in SUBSET Fwd
        /\ doomed' \in SUBSET Fwd
    BY <1>2 DEF Cancelled, Unwind, Finish, CloseData, CloseBack, MayStall, TypeOK
  <2>2. QED
    BY <1>2, <2>1 DEF Cancelled, TypeOK, session, control
<1>3. QED
  BY <1>1, <1>2

\* The heartbeat, stop() and the network.
LEMMA OthersType ==
    ASSUME TypeOK, HeartbeatLost \/ Stop \/ StopGoesOn \/ Network
    PROVE  TypeOK'
<1>1. CASE HeartbeatLost
  BY <1>1, ClosedType DEF HeartbeatLost, TypeOK, session, tasks
<1>2. CASE Stop
  BY <1>2, ClosedType DEF Stop, TypeOK
<1>3. CASE StopGoesOn
  BY <1>3 DEF StopGoesOn, TypeOK, session, control
<1>4. CASE Network
  BY <1>4 DEF Network, Arrives, PeerCloses, PeerVanishes, CloseCompletes, ReadsOn, TypeOK, session, control, tasks
<1>5. QED
  BY <1>1, <1>2, <1>3, <1>4

LEMMA TypeInit == Init => TypeOK
  BY StepTypes DEF Init, TypeOK, Stages

LEMMA TypeStep == TypeOK /\ [Next]_vars => TypeOK'
<1>1. SUFFICES ASSUME TypeOK, [Next]_vars PROVE TypeOK'
  OBVIOUS
<1>2. CASE UNCHANGED vars
  BY <1>1, <1>2 DEF TypeOK, vars, session, control, tasks
<1>3. CASE Next
  BY <1>1, <1>3, MainType, ForwardType, OthersType DEF Next
<1>4. QED
  BY <1>1, <1>2, <1>3

\* The variables of the client keep their types (client/core.py:106-125).
THEOREM ClientTypes == Spec => []TypeOK
  BY TypeInit, TypeStep, PTL DEF Spec

-----------------------------------------------------------------------------
(* Nothing of a session outlives it.                                       *)

\* Until stop() is called, every forward that runs is in _forward_tasks, which
\* is empty outside a session; while its clearing waits, nothing joins it.
Tracked ==
    ~stopping =>
        /\ stopper = "none"
        /\ \A f \in Fwd : ~Over(f) => f \in forwards
        /\ main \notin {"serving", "quitting", "dropping"} => forwards = {}
        /\ main = "dropping" => forwards \subseteq dropped

\* The heartbeat runs during the receive loop only.
Watched == hb => main = "serving"

\* Between two attempts there is no connection, nor after the last, unless
\* stop() was called.
Unlinked ==
    ~stopping /\ main \in {"idle", "connecting", "sleeping", "stopped"} => link = "none"

\* A data channel is open only under a pipe.
Piped == \A f \in Fwd : data[f] = "open" => at[f] = "piping"

SessionInv == Tracked /\ Watched /\ Unlinked /\ Piped

\* The main loop, one step for each of its actions.
LEMMA MainInv == ASSUME TypeOK, SessionInv, Main PROVE SessionInv'
<1> USE DEF SessionInv, Tracked, Watched, Unlinked, Piped, Over
<1>1. CASE Start
  BY <1>1 DEF Start, control, tasks
<1>2. CASE Connect
  BY <1>2 DEF Connect, tasks
<1>3. CASE ConnectFails
  BY <1>3 DEF ConnectFails, After, control, tasks
<1>4. CASE Registered
  BY <1>4 DEF Registered, Loop, control, tasks
<1>5. CASE NotRegistered
  BY <1>5 DEF NotRegistered, LeaveSession
<1>6. CASE RecvFails
  BY <1>6 DEF RecvFails, control, tasks
<1>7. CASE NewConn
  <2>1. Watched' /\ Unlinked'
    BY <1>7 DEF NewConn, Loop
  <2>2. CASE UNCHANGED <<forwards, at, back, data>>
    BY <1>7, <2>2 DEF NewConn, Loop
  <2>3. CASE \E f \in Fwd :
                /\ Free(f)
                /\ forwards' = forwards \cup {f}
                /\ at' = [at EXCEPT ![f] = "backend"]
                /\ data' = [data EXCEPT ![f] = "none"]
    <3>1. PICK f \in Fwd : /\ forwards' = forwards \cup {f}
                           /\ at' = [at EXCEPT ![f] = "backend"]
                           /\ data' = [data EXCEPT ![f] = "none"]
      BY <2>3
    <3>2. Piped'
      BY <3>1 DEF TypeOK
    <3>3. Tracked'
      BY <1>7, <3>1 DEF TypeOK, NewConn, Loop
    <3>4. QED
      BY <2>1, <3>2, <3>3
  <2>4. QED
    BY <1>7, <2>2, <2>3 DEF NewConn
<1>8. CASE Quit
  BY <1>8 DEF Quit, LeaveSession
<1>9. CASE Dropped
  BY <1>9 DEF Dropped
<1>10. CASE SessionOver
  BY <1>10 DEF SessionOver, After, tasks
<1>11. CASE WakeUp
  BY <1>11 DEF WakeUp, Retry, control, tasks
<1>12. QED
  BY <1>1, <1>2, <1>3, <1>4, <1>5, <1>6, <1>7, <1>8, <1>9, <1>10, <1>11 DEF Main

\* A forward leaves _forward_tasks only when it is over, and opens its data
\* channel only to enter the pipe.
LEMMA ForwardInv ==
    ASSUME TypeOK, SessionInv, NEW f \in Fwd, Forward(f) \/ Cancelled(f)
    PROVE  SessionInv'
<1>1. /\ \A g \in Fwd : g # f => at'[g] = at[g] /\ data'[g] = data[g]
      /\ \/ forwards' = forwards /\ (Over(f) => Over(f)')
         \/ forwards' = forwards \ {f} /\ at'[f] = "done"
      /\ data'[f] = "open" => at'[f] = "piping"
  <2>1. CASE Forward(f)
    BY <2>1 DEF Forward, BackendConnects, DataConnects, PipeEnds, DataClosed, BackClosed,
                Finish, CloseData, CloseBack, TypeOK, Over, SessionInv, Piped
  <2>2. CASE Cancelled(f)
    BY <2>2 DEF Cancelled, Unwind, Finish, CloseData, CloseBack, TypeOK, Over, SessionInv, Piped
  <2>3. QED
    BY <2>1, <2>2
<1>2. UNCHANGED <<session, control, stopping, hb, stopper, dropped, ended>>
  BY DEF Forward, Cancelled
<1>3. Piped'
  BY <1>1 DEF SessionInv, Piped
<1>4. Tracked'
  BY <1>1, <1>2 DEF SessionInv, Tracked, Over, session
<1>5. Watched' /\ Unlinked'
  BY <1>2 DEF SessionInv, Watched, Unlinked, session, control
<1>6. QED
  BY <1>3, <1>4, <1>5 DEF SessionInv

LEMMA OthersInv ==
    ASSUME TypeOK, SessionInv, HeartbeatLost \/ Stop \/ StopGoesOn \/ Network
    PROVE  SessionInv'
<1> USE DEF SessionInv, Tracked, Watched, Unlinked, Piped, Over
<1>1. CASE HeartbeatLost
  BY <1>1 DEF HeartbeatLost, session, tasks
<1>2. CASE Stop
  BY <1>2 DEF Stop, Closed
<1>3. CASE StopGoesOn
  BY <1>3 DEF StopGoesOn, session, control
<1>4. CASE Network
  BY <1>4 DEF Network, Arrives, PeerCloses, PeerVanishes, CloseCompletes, ReadsOn,
              session, control, tasks
<1>5. QED
  BY <1>1, <1>2, <1>3, <1>4

LEMMA SessionInit == Init => SessionInv
  BY DEF Init, SessionInv, Tracked, Watched, Unlinked, Piped, Over

LEMMA SessionStep == TypeOK /\ SessionInv /\ [Next]_vars => SessionInv'
<1>1. SUFFICES ASSUME TypeOK, SessionInv, [Next]_vars PROVE SessionInv'
  OBVIOUS
<1>2. CASE UNCHANGED vars
  BY <1>1, <1>2 DEF SessionInv, Tracked, Watched, Unlinked, Piped, Over, vars, session, control, tasks
<1>3. CASE Next
  BY <1>1, <1>3, MainInv, ForwardInv, OthersInv DEF Next
<1>4. QED
  BY <1>1, <1>2, <1>3

LEMMA SessionInvHolds == Spec => []SessionInv
  BY SessionInit, SessionStep, ClientTypes, PTL DEF Spec

LEMMA NothingLeft == SessionInv => OldSessionGone
<1>1. SUFFICES ASSUME SessionInv, main \in {"connecting", "sleeping"}, ~stopping
               PROVE  link = "none" /\ ~hb /\ \A f \in Fwd : Over(f) /\ data[f] # "open"
  BY DEF OldSessionGone
<1>2. link = "none" /\ ~hb
  BY <1>1 DEF SessionInv, Unlinked, Watched
<1>3. \A f \in Fwd : Over(f)
  BY <1>1 DEF SessionInv, Tracked
<1>4. \A f \in Fwd : data[f] # "open"
  BY <1>1, <1>3 DEF SessionInv, Piped, Over
<1>5. QED
  BY <1>2, <1>3, <1>4

\* A client that is not being stopped begins its next attempt with nothing
\* left of the session before (client/core.py:348-357).
THEOREM SessionsLeaveNothing == Spec => []OldSessionGone
  BY NothingLeft, SessionInvHolds, PTL

-----------------------------------------------------------------------------
(* The limit.                                                              *)

Live == {f \in Fwd : ~Over(f)}

\* The check against the limit counts _forward_tasks, which stop() and the end
\* of a session clear while forwards may run.  In the receive loop it still
\* counts all that run: stop() clears it only when they have ended, and the
\* loop goes on for at most one message after stop() was called.
LimitInv ==
    /\ Cardinality(Live) <= Limit
    /\ main = "serving" => Live \subseteq forwards
    /\ main = "serving" /\ stopper = "cancelling" => forwards \subseteq ended

LEMMA LiveShrinks ==
    ASSUME Cardinality(Live) <= Limit, Live' \subseteq Live
    PROVE  Cardinality(Live') <= Limit
<1>1. IsFiniteSet(Live) /\ Limit \in Nat
  BY ClientAssumption, FS_Subset DEF ClientAssumption, Live
<1>2. Cardinality(Live') <= Cardinality(Live) /\ IsFiniteSet(Live')
  BY <1>1, FS_Subset
<1>3. Cardinality(Live) \in Nat /\ Cardinality(Live') \in Nat
  BY <1>1, <1>2, FS_CardinalityType
<1>4. QED
  BY <1>1, <1>2, <1>3

\* new_conn, the only step that adds a forward.
LEMMA NewConnLimit == ASSUME TypeOK, SessionInv, LimitInv, NewConn PROVE LimitInv'
<1>1. forwards \in SUBSET Fwd /\ IsFiniteSet(Fwd) /\ Limit \in Nat
  BY ClientAssumption DEF ClientAssumption, TypeOK
<1>2. IsFiniteSet(forwards) /\ Cardinality(forwards) \in Nat
  BY <1>1, FS_Subset, FS_CardinalityType
<1>3. Live \subseteq forwards
  BY DEF NewConn, LimitInv
<1>4. stopping => main' = "quitting"
  BY DEF NewConn, Loop
<1>5. CASE AtLimit
  <2>1. UNCHANGED <<forwards, at, stopper, ended>>
    BY <1>5 DEF NewConn
  <2>2. Live' = Live
    BY <2>1 DEF Live, Over
  <2>3. QED
    BY <1>3, <2>1, <2>2 DEF LimitInv, NewConn
<1>6. CASE ~AtLimit
  <2>1. PICK f \in Fwd : forwards' = forwards \cup {f} /\ at' = [at EXCEPT ![f] = "backend"]
    BY <1>6 DEF NewConn
  <2>2. Live' \subseteq forwards'
    BY <1>3, <2>1 DEF Live, Over, TypeOK
  <2>3. IsFiniteSet(forwards') /\ Cardinality(forwards') <= Cardinality(forwards) + 1
    <3>1. IsFiniteSet(forwards \cup {f})
      BY <1>2, FS_AddElement
    <3>2. Cardinality(forwards \cup {f}) = Cardinality(forwards) \/
          Cardinality(forwards \cup {f}) = Cardinality(forwards) + 1
      BY <1>2, FS_AddElement
    <3>3. QED
      BY <1>2, <2>1, <3>1, <3>2
  <2>4. Cardinality(forwards) < Limit
    BY <1>1, <1>2, <1>6 DEF AtLimit
  <2>5. IsFiniteSet(Live') /\ Cardinality(Live') <= Cardinality(forwards')
    BY <2>2, <2>3, FS_Subset
  <2>6. Cardinality(Live') \in Nat /\ Cardinality(forwards') \in Nat
    BY <2>3, <2>5, FS_CardinalityType
  <2>7. Cardinality(Live') <= Limit
    BY <1>1, <1>2, <2>3, <2>4, <2>5, <2>6
  <2>8. stopper # "none" => stopping
    BY DEF SessionInv, Tracked, TypeOK
  <2>9. QED
    BY <1>4, <2>2, <2>7, <2>8 DEF LimitInv, NewConn
<1>7. QED
  BY <1>5, <1>6

\* A forward that goes on or is cancelled: at most it ends.
LEMMA ForwardLimit ==
    ASSUME TypeOK, LimitInv, NEW f \in Fwd, Forward(f) \/ Cancelled(f)
    PROVE  LimitInv'
<1>1. /\ \A g \in Fwd : g # f => at'[g] = at[g]
      /\ \/ forwards' = forwards /\ (Over(f) => Over(f)')
         \/ forwards' = forwards \ {f} /\ at'[f] = "done"
  <2>1. CASE Forward(f)
    BY <2>1 DEF Forward, BackendConnects, DataConnects, PipeEnds, DataClosed, BackClosed,
                Finish, CloseData, CloseBack, TypeOK, Over
  <2>2. CASE Cancelled(f)
    BY <2>2 DEF Cancelled, Unwind, Finish, CloseData, CloseBack, TypeOK, Over
  <2>3. QED
    BY <2>1, <2>2
<1>2. UNCHANGED <<main, stopper, ended>>
  BY DEF Forward, Cancelled, session
<1>3. Live' \subseteq Live
  BY <1>1 DEF Live, Over
<1>4. Live \subseteq forwards => Live' \subseteq forwards'
  BY <1>1 DEF Live, Over
<1>5. Cardinality(Live') <= Limit
  BY <1>3, LiveShrinks DEF LimitInv
<1>6. forwards' \subseteq forwards
  BY <1>1
<1>7. QED
  BY <1>2, <1>4, <1>5, <1>6 DEF LimitInv

\* Everything else leaves the forwards where they are.
LEMMA QuietLimit ==
    ASSUME TypeOK, SessionInv, LimitInv, UNCHANGED at,
           \/ main' # "serving"
           \/ UNCHANGED <<main, forwards, stopper, ended>>
           \/ Registered \/ Stop \/ StopGoesOn
    PROVE  LimitInv'
<1>1. Live' = Live
  BY DEF Live, Over
<1>2. Cardinality(Live') <= Limit
  BY <1>1 DEF LimitInv
<1>3. CASE main' # "serving"
  BY <1>2, <1>3 DEF LimitInv
<1>4. CASE UNCHANGED <<main, forwards, stopper, ended>>
  BY <1>1, <1>4 DEF LimitInv
<1>5. CASE Registered /\ main' = "serving"
  <2>1. ~stopping
    BY <1>5 DEF Registered, Loop
  <2>2. Live \subseteq forwards /\ stopper = "none"
    BY <2>1 DEF SessionInv, Tracked, Live
  <2>3. QED
    BY <1>1, <1>2, <1>5, <2>2 DEF LimitInv, Registered, tasks
<1>6. CASE Stop
  BY <1>1, <1>6 DEF LimitInv, Stop
<1>7. CASE StopGoesOn
  <2>1. main = "serving" => Live = {}
    BY <1>7 DEF LimitInv, StopGoesOn, Live, Over
  <2>2. QED
    BY <1>1, <1>2, <1>7, <2>1 DEF LimitInv, StopGoesOn, session
<1>8. QED
  BY <1>3, <1>4, <1>5, <1>6, <1>7

LEMMA LimitInit == Init => LimitInv
<1>1. SUFFICES ASSUME Init PROVE LimitInv
  OBVIOUS
<1>2. Live = {}
  BY <1>1 DEF Init, Live, Over
<1>3. Cardinality(Live) = 0 /\ Limit \in Nat
  BY <1>2, FS_EmptySet, ClientAssumption DEF ClientAssumption
<1>4. QED
  BY <1>1, <1>3 DEF LimitInv, Init

LEMMA LimitStep == TypeOK /\ SessionInv /\ LimitInv /\ [Next]_vars => LimitInv'
<1>1. SUFFICES ASSUME TypeOK, SessionInv, LimitInv, [Next]_vars PROVE LimitInv'
  OBVIOUS
<1>2. CASE UNCHANGED vars
  BY <1>1, <1>2, QuietLimit DEF vars, session, tasks
<1>3. CASE NewConn
  BY <1>1, <1>3, NewConnLimit
<1>4. CASE \E f \in Fwd : Forward(f) \/ Cancelled(f)
  BY <1>1, <1>4, ForwardLimit
<1>5. CASE Main /\ ~NewConn
  <2>1. UNCHANGED at /\ (main' # "serving" \/ Registered)
    BY <1>5 DEF Main, Start, Connect, ConnectFails, After, Registered, NotRegistered,
                RecvFails, Quit, LeaveSession, Dropped, SessionOver, WakeUp, Retry, tasks
  <2>2. QED
    BY <1>1, <2>1, QuietLimit
<1>6. CASE HeartbeatLost \/ Network
  BY <1>1, <1>6, QuietLimit DEF HeartbeatLost, Network, Arrives, PeerCloses, PeerVanishes,
                                CloseCompletes, ReadsOn, session, tasks
<1>7. CASE Stop \/ StopGoesOn
  BY <1>1, <1>7, QuietLimit DEF Stop, StopGoesOn
<1>8. QED
  BY <1>1, <1>2, <1>3, <1>4, <1>5, <1>6, <1>7 DEF Next

LEMMA LimitBounds == LimitInv => ForwardsBounded
  BY DEF LimitInv, ForwardsBounded, Live

\* However sessions end and stop() interferes, the forwards that run, tracked
\* or not, stay within MAX_CONCURRENT_FORWARDS (client/core.py:453-457).
THEOREM ForwardsStayBounded == Spec => []ForwardsBounded
  BY LimitInit, LimitStep, LimitBounds, ClientTypes, SessionInvHolds, PTL DEF Spec

-----------------------------------------------------------------------------
(* stop() is final.                                                        *)

\* Only the start of run() and a retry begin an attempt, and a retry asks
\* _stop_event (client/core.py:428-434).
THEOREM StopsForGood == Spec => StopIsFinal
<1>1. [Next]_vars => [stopping /\ main # "idle" /\ main' = "connecting" => main = "connecting"]_vars
  <2>1. SUFFICES ASSUME Next, stopping, main # "idle", main' = "connecting"
                 PROVE  main = "connecting"
    OBVIOUS
  <2>2. CASE Main
    BY <2>1, <2>2 DEF Main, Start, Connect, ConnectFails, After, Registered, Loop, NotRegistered,
                      LeaveSession, RecvFails, NewConn, Quit, Dropped, SessionOver, WakeUp, Retry
  <2>3. CASE ~Main
    BY <2>1, <2>3 DEF Next, HeartbeatLost, Stop, StopGoesOn, Network, Arrives, PeerCloses,
                      PeerVanishes, CloseCompletes, ReadsOn, Forward, Cancelled, session
  <2>4. QED
    BY <2>2, <2>3
<1>2. QED
  BY <1>1, PTL DEF Spec, StopIsFinal

-----------------------------------------------------------------------------
(* Under the window.                                                       *)

\* run() is cancelled, and its cleanup with it, after stop() of the client only;
\* without a task it has not been started or is over.
Handled ==
    /\ axed \/ call \in {"stopping", "cancelling"} \/ main = "aborting" => stopping
    /\ ~task => main \in {"idle", "stopped"}

WindowInv == TypeOK /\ SessionInv /\ LimitInv /\ Handled

LEMMA WindowInitInv == WindowInit => WindowInv
  BY TypeInit, SessionInit, LimitInit DEF WindowInit, WindowInv, Handled, Init

\* Most steps are steps of the client or leave it as it is.
LEMMA ClientSteps ==
    ASSUME WindowInv, WindowNext, ~(BeginStart /\ ~task), ~RunCancelled, ~RunAborted
    PROVE  [Next]_vars
<1>1. CASE Run \/ Beside \/ BeginStop
  BY <1>1 DEF Run, Beside, BeginStop, Next
<1>2. CASE OnConnect \/ OnDisconnect \/ Pump \/ StopReturns \/ StopDone
  BY <1>2 DEF OnConnect, OnDisconnect, Pump, StopReturns, StopDone
<1>3. CASE BeginStart /\ task
  BY <1>3 DEF BeginStart, vars, session
<1> QED
  BY <1>1, <1>2, <1>3 DEF WindowNext, Controller

\* A new task for run(): nothing is left of the one before, unless stop() was
\* called, which the client remembers.
LEMMA StartInv == ASSUME WindowInv, BeginStart, ~task PROVE TypeOK' /\ SessionInv' /\ LimitInv'
<1>1. /\ main' = "idle" /\ stopper' = "none" /\ main \in {"idle", "stopped"}
      /\ UNCHANGED <<reason, running, fatal, step, control, stopping, hb, tasks, dropped, ended>>
  BY DEF BeginStart, WindowInv, Handled
<1>2. TypeOK'
  BY <1>1 DEF WindowInv, TypeOK, Stages, control, tasks
<1>3. SessionInv'
  BY <1>1 DEF WindowInv, SessionInv, Tracked, Watched, Unlinked, Piped, Over, control, tasks
<1>4. LimitInv'
  BY <1>1, QuietLimit DEF WindowInv, tasks
<1> QED
  BY <1>2, <1>3, <1>4

\* run() is cancelled, and its finally block begins or is cut short; or the
\* forwards awaited in it have ended.
LEMMA CancelledInv == ASSUME WindowInv, RunCancelled \/ RunAborted PROVE TypeOK' /\ SessionInv' /\ LimitInv'
<1>1. /\ main' \in {"quitting", "dropping", "aborting", "closing", "stopped"}
      /\ link' \in {link, Closed(link)}
      /\ dropped' \in {dropped, forwards, {}} /\ hb' \in {hb, FALSE} /\ stopping
      /\ doomed' \in SUBSET Fwd
      /\ UNCHANGED <<reason, running, fatal, step, mute, inbox, stopping, stopper,
                     forwards, at, back, data, stalled, ended>>
  <2>1. CASE RunCancelled
    BY <2>1 DEF RunCancelled, Unwound, LeaveSession, WindowInv, Handled, TypeOK
  <2>2. CASE RunAborted
    BY <2>2 DEF RunAborted, WindowInv, Handled, TypeOK, control, tasks
  <2> QED
    BY <2>1, <2>2
<1>2. TypeOK'
  BY <1>1, ClosedType DEF WindowInv, TypeOK, Stages
<1>3. hb' => main' = "serving"
  BY DEF RunCancelled, RunAborted, WindowInv, SessionInv, Watched
<1>4. SessionInv'
  BY <1>1, <1>3 DEF WindowInv, SessionInv, Tracked, Watched, Unlinked, Piped
<1>5. LimitInv'
  BY <1>1, QuietLimit DEF WindowInv
<1> QED
  BY <1>2, <1>4, <1>5

LEMMA HandledStep == ASSUME WindowInv, [WindowNext]_wvars PROVE Handled'
<1> USE DEF Handled
<1>1. Handled
  BY DEF WindowInv
<1>2. CASE UNCHANGED wvars
  BY <1>1, <1>2 DEF wvars, window, vars, session
<1>3. CASE OnConnect \/ OnDisconnect \/ Pump \/ StopReturns \/ StopDone
  BY <1>1, <1>3 DEF OnConnect, OnDisconnect, Pump, StopReturns, StopDone, vars, session
<1>4. CASE BeginStart
  BY <1>1, <1>4 DEF BeginStart
<1>5. CASE BeginStop
  BY <1>1, <1>5 DEF BeginStop, Stop
<1>6. CASE RunCancelled \/ RunAborted
  BY <1>1, <1>6 DEF RunCancelled, RunAborted, Unwound, LeaveSession
<1>7. CASE Run
  <2>1. stopping' = stopping /\ main' # "aborting"
    BY <1>7 DEF Run, Main, Start, Connect, ConnectFails, After, Registered, Loop, NotRegistered,
                LeaveSession, RecvFails, NewConn, Quit, Dropped, SessionOver, WakeUp, Retry
  <2> QED
    BY <1>1, <1>7, <2>1 DEF Run
<1>8. CASE Beside
  <2>1. UNCHANGED <<main, stopping>>
    BY <1>8 DEF Beside, HeartbeatLost, StopGoesOn, Network, Arrives, PeerCloses, PeerVanishes,
                CloseCompletes, ReadsOn, Forward, Cancelled, session
  <2> QED
    BY <1>1, <1>8, <2>1 DEF Beside, window
<1> QED
  BY <1>2, <1>3, <1>4, <1>5, <1>6, <1>7, <1>8 DEF WindowNext, Controller

\* The client's invariants survive the window's clicks.
THEOREM WindowInvariant == WindowSpec => []WindowInv
<1>1. WindowInv /\ [WindowNext]_wvars => WindowInv'
  <2> SUFFICES ASSUME WindowInv, [WindowNext]_wvars PROVE WindowInv'
    OBVIOUS
  <2>1. CASE BeginStart /\ ~task
    BY <2>1, StartInv, HandledStep DEF WindowInv
  <2>2. CASE RunCancelled \/ RunAborted
    BY <2>2, CancelledInv, HandledStep DEF WindowInv
  <2>3. CASE [Next]_vars
    BY <2>3, TypeStep, SessionStep, LimitStep, HandledStep DEF WindowInv
  <2>4. CASE UNCHANGED wvars
    BY <2>3, <2>4 DEF wvars
  <2> QED
    BY <2>1, <2>2, <2>3, <2>4, ClientSteps
<1> QED
  BY <1>1, WindowInitInv, PTL DEF WindowSpec

\* However it is connected, disconnected and connected again, the forwards of
\* all runs of the one client together stay within MAX_CONCURRENT_FORWARDS
\* (client/core.py:453-457).
THEOREM WindowForwardsBounded == WindowSpec => []ForwardsBounded
<1>1. WindowInv => ForwardsBounded
  BY LimitBounds DEF WindowInv
<1> QED
  BY <1>1, WindowInvariant, PTL
=============================================================================
