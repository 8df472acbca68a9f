----------------------------- MODULE MappingSync -----------------------------
(***************************************************************************)
(* How the mapping table of the server reaches the windows of the clients  *)
(* and how edits made there come back: submit_mapping, _on_set_mapping and *)
(* _broadcast_mapping_list of the server, set_mapping and the handlers of  *)
(* the client, the mailbox between its event loop and its window, and the  *)
(* edit buffer MappingTableModel.                                          *)
(*                                                                         *)
(* An action is a stretch of one coroutine between two awaits, or one      *)
(* callback of the window.  drain suspends only while the buffer of the    *)
(* transport is above its high-water mark ("slow"), and the coroutines     *)
(* suspended on one transport go on in the order in which they came to it. *)
(* MappingTable has the listeners a change stops and starts; here a change *)
(* is what others see of it: the table replaced, and put back if a port    *)
(* cannot be had, with awaits before, between and after.                   *)
(***************************************************************************)
EXTENDS Naturals, Sequences, SequencesExt, FiniteSets

CONSTANTS
    Client,      \* the clients; each has a control session
    Manager,     \* those whose identity may change the mapping
    User,        \* those with a window, whose user edits the table; the others
                 \* run from the command line
    Laggard,     \* bound: those whose peer may stop reading
    Admin,       \* coroutines of the console and the watchdog
    Port,        \* public ports
    Content,     \* everything else a row holds
    Seed,        \* table at the start
    Offers,      \* tables submitted at the console
    Draft,       \* rows the users enter
    MailLimit,   \* places in the mailbox of a window
    MaxEvents,   \* bound: edits, tables submitted, slow transports, sessions
                 \* lost and kicked
    None

Row == [port : Port, content : Content]

\* What parse_mapping accepts: some rows, no public port twice.
Valid(s) == s # <<>> /\ \A i, j \in DOMAIN s : s[i].port = s[j].port => i = j

Tables == {T \in SUBSET Row :
              T # {} /\ IsFiniteSet(T) /\ \A r, q \in T : r.port = q.port => r = q}

ASSUME SyncAssumption ==
    /\ Port \subseteq Nat
    /\ Manager \subseteq Client /\ User \subseteq Client
    /\ Client \cap Admin = {} /\ None \notin Client \cup Admin
    /\ Draft \subseteq Row /\ Seed \in Tables /\ Offers \subseteq Tables
    /\ MailLimit \in Nat \ {0}

VARIABLES
    table,  \* the rules of the server
    conn,   \* each session: on, lost (its handler has not noticed), closing
            \* (out of the registry, its transport still open), off
    slow,   \* the transports whose drain suspends
    job,    \* what each coroutine of the server is suspended in
    queue,  \* the suspended coroutines, oldest first
    down,   \* messages under way to each client
    up,     \* set_mapping requests under way from each client
    view,   \* _mapping_view
    call,   \* set_mapping of each client: none, waiting, or its answer
    mail,   \* the mailbox of each window
    rows,   \* the working copy
    snap,   \* the snapshot it is compared with
    dialog, \* index of the row an open dialog edits or removes, 0 without one
    change, \* the change of the table each coroutine is in the middle of
    late,   \* history: why the last list sent is not the table: it was passed
            \* by a newer one on its way, or withdrawn after it was sent
    wrong,  \* history: what has gone wrong in each window: its mailbox dropped
            \* the newest list, or rows unlike it were marked as submitted
    fuel    \* what is left of MaxEvents

server == <<table, change, conn, slow, job, queue, late>>
core == <<view, call>>
window == <<rows, snap, dialog, wrong>>
vars == <<table, change, conn, slow, job, queue, down, up, view, call, mail, rows, snap, dialog, late, wrong, fuel>>

Task == Client \cup Admin

List(T) == [kind |-> "list", table |-> T]
Result(ok) == [kind |-> "result", ok |-> ok]

\* A suspended coroutine: the transport it waits for, and what it does then:
\* go on with a broadcast, and answer its client; or start one, when it waits
\* for a session to be closed.
Job(at, does, left, payload, reply) ==
    [at |-> at, does |-> does, left |-> left, payload |-> payload, reply |-> reply]
Idle == Job(None, "idle", {}, {}, <<>>)
Busy == Job(None, "change", {}, {}, <<>>)

\* A change from one table to another, with listeners to stop and to start.
Plan(stage, old, new, stops, starts) ==
    [stage |-> stage, old |-> old, new |-> new, stops |-> stops, starts |-> starts]
NoChange == Plan("none", {}, {}, FALSE, FALSE)

\* A table in the order of its ports.
Nth(T, n) == CHOOSE r \in T : Cardinality({q \in T : q.port <= r.port}) = n
Sorted(T) == [n \in 1..Cardinality(T) |-> Nth(T, n)]
Dirty(c) == rows[c] # snap[c]

\* T is the last list among messages; there is none; T is what a client has
\* or will have when it has read what is under way.
Newest(s, T) == \E i \in DOMAIN s : /\ s[i] = List(T)
                                    /\ \A j \in DOMAIN s : i < j => s[j].kind # "list"
NoList(s) == \A i \in DOMAIN s : s[i].kind # "list"
Shows(c, T) == Newest(down[c], T) \/ (NoList(down[c]) /\ view[c] = T)
Registered == {c \in Client : conn[c] \in {"on", "lost"}}
Spend == fuel > 0 /\ fuel' = fuel - 1

Init ==
    /\ table = Seed
    /\ conn = [c \in Client |-> "on"]
    /\ slow = {}
    /\ job = [t \in Task |-> Idle]
    /\ queue = <<>>
    /\ down = [c \in Client |-> <<>>]
    /\ up = [c \in Client |-> <<>>]
    /\ view = [c \in Client |-> Seed]
    /\ call = [c \in Client |-> "none"]
    /\ mail = [c \in Client |-> <<>>]
    /\ rows = [c \in Client |-> Sorted(Seed)]
    /\ snap = [c \in Client |-> Sorted(Seed)]
    /\ dialog = [c \in Client |-> 0]
    /\ change = [t \in Task |-> NoChange]
    /\ late = [c \in Client |-> "no"]
    /\ wrong = [c \in Client |-> {}]
    /\ fuel = MaxEvents

-----------------------------------------------------------------------------
(* The server: broadcasts.                                                 *)

\* A write reaches the client only while the session is up: the list to the
\* sessions S, the answer to the client whose handler t is.
Written(S, payload, t, reply) ==
    [c \in Client |->
        IF conn'[c] # "on" THEN down[c]
        ELSE down[c] \o (IF c \in S THEN <<List(payload)>> ELSE <<>>)
                     \o (IF c = t THEN reply ELSE <<>>)]

Outdated(S, payload) ==
    [c \in Client |-> IF c \notin S THEN late[c] ELSE IF payload = table' THEN "no" ELSE "passed"]

\* A coroutine is suspended once at a time.
Without(t) ==
    IF t \in ToSet(queue) THEN RemoveAt(queue, CHOOSE i \in DOMAIN queue : queue[i] = t) ELSE queue
Suspend(t, j) ==
    /\ job' = [job EXCEPT ![t] = j]
    /\ queue' = Append(Without(t), t)

\* Sessions are written to, then the client that asked gets its
\* mapping_result.
Ends(t, left, payload, reply) ==
    /\ down' = Written(left, payload, t, reply)
    /\ IF reply # <<>> /\ t \in slow
       THEN Suspend(t, Job(t, "cast", {}, {}, <<>>))
       ELSE /\ job' = [job EXCEPT ![t] = Idle]
            /\ queue' = Without(t)

\* The rest of a broadcast meets no full buffer.
CastEnds(t, left, payload, reply) ==
    /\ left \cap slow = {}
    /\ late' = Outdated(left, payload)
    /\ Ends(t, left, payload, reply)

\* It meets one: that session is written to as well, then drain suspends.
CastSuspends(t, left, payload, reply) ==
    \E s \in left \cap slow, S \in SUBSET (left \ slow) :
        /\ down' = Written(S \cup {s}, payload, None, <<>>)
        /\ late' = Outdated(S \cup {s}, payload)
        /\ Suspend(t, Job(s, "cast", left \ (S \cup {s}), payload, reply))

\* _broadcast_mapping_list, or the rest of one: the sessions and the table
\* are taken once, at its start.
Cast(t, left, payload, reply) ==
    \/ CastEnds(t, left, payload, reply)
    \/ CastSuspends(t, left, payload, reply)

ReadyToResume(t) ==
    /\ job[t].at # None
    /\ IF job[t].does = "cast"
       THEN job[t].at \notin slow
       ELSE conn[job[t].at] = "off"
    /\ ~ \E i, j \in DOMAIN queue : i < j /\ queue[j] = t /\ job[queue[i]].at = job[t].at

\* (Faulty: a broadcast ends at a session that is lost.)
BrittleResume(t) ==
    /\ ReadyToResume(t)
    /\ UNCHANGED <<table, change, conn>>
    /\ IF job[t].does = "cast"
       THEN Cast(t, IF conn[job[t].at] = "on" THEN job[t].left ELSE {}, job[t].payload, job[t].reply)
       ELSE Cast(t, Registered, table, <<>>)
    /\ UNCHANGED <<slow, up, core, mail, window, fuel>>

Resume(t) ==
    /\ ReadyToResume(t)
    /\ UNCHANGED <<table, change, conn>>
    /\ IF job[t].does = "cast"
       THEN Cast(t, job[t].left, job[t].payload, job[t].reply)
       ELSE Cast(t, Registered, table, <<>>)
    /\ UNCHANGED <<slow, up, core, mail, window, fuel>>

(* The server: changes of the table.                                       *)

Ports(T) == {r.port : r \in T}
Altered(o, n) == {p \in Ports(o) \cap Ports(n) : \E r \in o \ n : r.port = p}
Answer(t, ok) == IF t \in Client THEN <<Result(ok)>> ELSE <<>>
Finished(t) == change' = [change EXCEPT ![t] = NoChange]

\* apply waits: for the visitors of a port it stops, or for a port to open.
Pause(t, stage, p) ==
    /\ change' = [change EXCEPT ![t] = [p EXCEPT !.stage = stage]]
    /\ job' = [job EXCEPT ![t] = Busy]
    /\ UNCHANGED <<queue, down>>

\* apply returns and the table there is now is broadcast.  (Faulty: not when
\* the client itself has asked.)
MuteSucceed(t) == Finished(t) /\ Cast(t, IF t \in Admin THEN Registered ELSE {}, table', Answer(t, TRUE))
Succeed(t) == Finished(t) /\ Cast(t, Registered, table', Answer(t, TRUE))

\* The new table is in place before its listeners are.
Install(t, p) ==
    /\ table' = p.new
    /\ IF p.starts THEN Pause(t, "start", p) /\ UNCHANGED late ELSE Succeed(t)

\* apply up to its first await.  Of the rows altered some need another
\* listener.
BeginChange(t, T) ==
    \E moved \in SUBSET Altered(table, T) :
        LET removed == Ports(table) \ Ports(T)
            added == Ports(T) \ Ports(table)
            p == Plan("none", table, T, removed \cup moved # {}, added \cup moved # {})
        IN  \/ p.stops /\ UNCHANGED <<table, late>> /\ Pause(t, "stop", p)
            \/ Install(t, p)

\* What the clients have of a table that is put back.
Withdrawn(T) ==
    [c \in Client |-> IF Shows(c, T) THEN "no" ELSE IF late[c] = "no" THEN "withdrawn" ELSE late[c]]

\* Without a port it wants apply puts the old table back, brings back the
\* listeners it stopped and raises: there is no broadcast.
RollBack(t) ==
    /\ table' = change[t].old
    /\ late' = Withdrawn(table')
    /\ IF change[t].stops
       THEN Pause(t, "restore", change[t])
       ELSE Finished(t) /\ Ends(t, {}, {}, Answer(t, FALSE))

\* apply goes on after an await.
GoOn(t) ==
    /\ UNCHANGED <<conn, slow, up, core, mail, window, fuel>>
    /\ \/ change[t].stage = "stop" /\ Install(t, change[t])
       \/ change[t].stage = "start" /\ UNCHANGED table /\ Succeed(t)
       \/ change[t].stage = "start" /\ RollBack(t)
       \/ /\ change[t].stage = "restore"
          /\ UNCHANGED <<table, late>>
          /\ Finished(t) /\ Ends(t, {}, {}, Answer(t, FALSE))

\* submit_mapping at the console.
ConsoleSubmits(t, T) ==
    /\ job[t] = Idle
    /\ Spend
    /\ UNCHANGED conn
    /\ BeginChange(t, T)
    /\ UNCHANGED <<slow, up, core, mail, window>>

\* _on_set_mapping: the handler of c refuses its request, for want of the
\* right or because the table is not acceptable, or begins to apply it.
Decide(c, T) ==
    \/ c \in Manager /\ BeginChange(c, T)
    \/ UNCHANGED <<table, change, late>> /\ Ends(c, {}, {}, Answer(c, FALSE))

TakeRequest(c) ==
    /\ conn[c] # "off"
    /\ job[c] = Idle
    /\ up[c] # <<>>
    /\ up' = [up EXCEPT ![c] = Tail(@)]
    /\ UNCHANGED conn
    /\ Decide(c, Head(up[c]))
    /\ UNCHANGED <<slow, core, mail, window, fuel>>

(* Sessions that end and come back.                                        *)

\* Coroutines that waited for the transport of c, and have been woken, run
\* before anything new can come from the network.
Unawaited(c) == \A t \in Task : job[t].at # c

\* The peer of c stops reading, or reads on.
GetsSlow(c) ==
    /\ c \in Laggard \ slow
    /\ conn[c] = "on"
    /\ Unawaited(c)
    /\ Spend
    /\ slow' = slow \cup {c}
    /\ UNCHANGED <<table, change, conn, job, queue, late, down, up, core, mail, window>>

ReadsOn(c) ==
    /\ c \in slow
    /\ slow' = slow \ {c}
    /\ UNCHANGED <<table, change, conn, job, queue, late, down, up, core, mail, window, fuel>>

\* The connection is lost; requests that have arrived may still be read.
Drop(c) ==
    /\ conn[c] = "on"
    /\ Spend
    /\ conn' = [conn EXCEPT ![c] = "lost"]
    /\ slow' = slow \ {c}
    /\ down' = [down EXCEPT ![c] = <<>>]
    /\ \E kept \in {up[c], <<>>} : up' = [up EXCEPT ![c] = kept]
    /\ UNCHANGED <<table, change, job, queue, late, core, mail, window>>

\* Its handler notices, takes the session down and tells the others.
Leave(c) ==
    /\ conn[c] = "lost"
    /\ job[c] = Idle
    /\ up[c] = <<>>
    /\ conn' = [conn EXCEPT ![c] = "off"]
    /\ UNCHANGED <<table, change>>
    /\ Cast(c, Registered \ {c}, table, <<>>)
    /\ UNCHANGED <<slow, up, core, mail, window, fuel>>

\* kick_client and the watchdog: out of the registry at once; the broadcast
\* comes when the connection is closed, which a peer that does not read
\* holds up.
Kick(t, c) ==
    /\ job[t] = Idle
    /\ conn[c] = "on"
    /\ Spend
    /\ conn' = [conn EXCEPT ![c] = "closing"]
    /\ Suspend(t, Job(c, "close", {}, {}, <<>>))
    /\ UNCHANGED <<table, change, slow, late, down, up, core, mail, window>>

CloseCompletes(c) ==
    /\ conn[c] = "closing"
    /\ conn' = [conn EXCEPT ![c] = "off"]
    /\ slow' = slow \ {c}
    /\ down' = [down EXCEPT ![c] = <<>>]
    /\ up' = [up EXCEPT ![c] = <<>>]
    /\ UNCHANGED <<table, change, job, queue, late, core, mail, window, fuel>>

Reconnect(c) ==
    /\ conn[c] = "off"
    /\ job[c] = Idle /\ Unawaited(c)
    /\ conn' = [conn EXCEPT ![c] = "on"]
    /\ UNCHANGED <<table, change>>
    /\ Cast(c, Registered \cup {c}, table, <<>>)
    /\ UNCHANGED <<slow, up, core, mail, window, fuel>>

-----------------------------------------------------------------------------
(* The client: its event loop.                                             *)

\* UiBridge.post: a full mailbox drops the message.
Post(c, m) ==
    LET full == c \notin User \/ Len(mail[c]) >= MailLimit IN
    /\ mail' = [mail EXCEPT ![c] = IF full THEN @ ELSE Append(@, m)]
    /\ wrong' = [wrong EXCEPT ![c] =
          IF c \notin User \/ m.kind # "list" THEN @ ELSE IF full THEN @ \cup {"dropped"} ELSE @ \ {"dropped"}]

\* _on_mapping_list and _on_mapping_result: a result answers whichever call
\* waits.
Receive(c) ==
    /\ conn[c] \in {"on", "closing"}
    /\ down[c] # <<>>
    /\ down' = [down EXCEPT ![c] = Tail(@)]
    /\ LET m == Head(down[c]) IN
       \/ /\ m.kind = "list"
          /\ view' = [view EXCEPT ![c] = m.table]
          /\ Post(c, m)
          /\ UNCHANGED call
       \/ /\ m.kind = "result"
          /\ call' = [call EXCEPT ![c] = IF @ # "waiting" THEN @ ELSE IF m.ok THEN "yes" ELSE "no"]
          /\ UNCHANGED <<view, mail, wrong>>
    /\ UNCHANGED <<table, change, conn, slow, job, queue, late, up, rows, snap, dialog, fuel>>

\* set_mapping returns, or times out; submit_mapping of the controller posts
\* what came of it.
Return(c) ==
    /\ call[c] \in {"yes", "no"}
    /\ call' = [call EXCEPT ![c] = "none"]
    /\ Post(c, Result(call[c] = "yes"))
    /\ UNCHANGED <<server, down, up, view, rows, snap, dialog, fuel>>

TimesOut(c) ==
    /\ call[c] = "waiting"
    /\ call' = [call EXCEPT ![c] = "none"]
    /\ Post(c, Result(FALSE))
    /\ UNCHANGED <<server, down, up, view, rows, snap, dialog, fuel>>

\* The user presses Submit: without a connection the answer is no; with one
\* that is lost unnoticed the request goes nowhere.  A call that waits is
\* cancelled without a word.
Submit(c) ==
    /\ Dirty(c)
    /\ dialog[c] = 0
    /\ call[c] \in {"none", "waiting"}
    /\ Spend
    /\ \/ /\ conn[c] # "off"
          /\ call' = [call EXCEPT ![c] = "waiting"]
          /\ up' = [up EXCEPT ![c] = IF conn[c] = "on" THEN Append(@, ToSet(rows[c])) ELSE @]
          /\ UNCHANGED <<mail, wrong>>
       \/ /\ conn[c] # "on"
          /\ Post(c, Result(FALSE))
          /\ UNCHANGED <<call, up>>
    /\ UNCHANGED <<server, down, view, rows, snap, dialog>>

(* The client: its window.                                                 *)

\* load_remote: edits are kept, only the snapshot moves.  (Faulty: with
\* edits under way the snapshot stays as well.)
StubbornLoad(c, T) ==
    /\ snap' = [snap EXCEPT ![c] = IF Dirty(c) THEN @ ELSE Sorted(T)]
    /\ rows' = [rows EXCEPT ![c] = IF Dirty(c) THEN @ ELSE Sorted(T)]
LoadRemote(c, T) ==
    /\ snap' = [snap EXCEPT ![c] = Sorted(T)]
    /\ rows' = [rows EXCEPT ![c] = IF Dirty(c) THEN @ ELSE Sorted(T)]

\* One message of the mailbox.  mark_submitted takes the rows as they are by
\* now for the version the server has.
MarkSubmitted(c) ==
    /\ snap' = [snap EXCEPT ![c] = rows[c]]
    /\ wrong' = [wrong EXCEPT ![c] = IF ToSet(rows[c]) = ToSet(snap[c]) THEN @ ELSE @ \cup {"marked"}]
    /\ UNCHANGED rows

Apply(c, m) ==
    \/ /\ m.kind = "list"
       /\ LoadRemote(c, m.table)
       /\ wrong' = [wrong EXCEPT ![c] = @ \ {"marked"}]
    \/ m.kind = "result" /\ m.ok /\ MarkSubmitted(c)
    \/ m.kind = "result" /\ ~m.ok /\ UNCHANGED <<rows, snap, wrong>>

Pump(c) ==
    /\ mail[c] # <<>>
    /\ mail' = [mail EXCEPT ![c] = Tail(@)]
    /\ Apply(c, Head(mail[c]))
    /\ UNCHANGED <<server, core, down, up, dialog, fuel>>

\* _commit: rows that parse_mapping refuses leave the table as it is.
Commit(c, s) == rows' = [rows EXCEPT ![c] = IF Valid(s) THEN s ELSE @]

\* add_row and duplicate_row.
AddRow(c, r) ==
    /\ dialog[c] = 0
    /\ Spend
    /\ Commit(c, Append(rows[c], r))
    /\ UNCHANGED <<server, core, down, up, mail, snap, dialog, wrong>>

\* The dialogs of edit and remove are modal, and the mailbox is emptied
\* behind them: the row at the index may be another one when they close.
OpenDialog(c, i) ==
    /\ dialog[c] = 0
    /\ Spend
    /\ dialog' = [dialog EXCEPT ![c] = i]
    /\ UNCHANGED <<server, core, down, up, mail, rows, snap, wrong>>

CloseDialog(c) ==
    /\ dialog[c] # 0
    /\ dialog' = [dialog EXCEPT ![c] = 0]
    /\ \/ UNCHANGED rows
       \/ /\ dialog[c] \in DOMAIN rows[c]
          /\ \/ Commit(c, RemoveAt(rows[c], dialog[c]))
             \/ \E r \in Draft : Commit(c, [rows[c] EXCEPT ![dialog[c]] = r])
    /\ UNCHANGED <<server, core, down, up, mail, snap, wrong, fuel>>

Revert(c) ==
    /\ Dirty(c)
    /\ dialog[c] = 0
    /\ rows' = [rows EXCEPT ![c] = snap[c]]
    /\ UNCHANGED <<server, core, down, up, mail, snap, dialog, wrong, fuel>>

-----------------------------------------------------------------------------
Edit(c) ==
    \/ \E r \in Draft : AddRow(c, r)
    \/ \E i \in DOMAIN rows[c] : OpenDialog(c, i)
    \/ CloseDialog(c)
    \/ Revert(c)
    \/ Submit(c)

Next ==
    \/ \E t \in Task : Resume(t) \/ GoOn(t)
    \/ \E t \in Admin, T \in Offers : ConsoleSubmits(t, T)
    \/ \E t \in Admin, c \in Client : Kick(t, c)
    \/ \E c \in Client :
          \/ TakeRequest(c) \/ GetsSlow(c) \/ ReadsOn(c) \/ Drop(c) \/ Leave(c)
          \/ CloseCompletes(c) \/ Reconnect(c)
          \/ Receive(c) \/ Return(c) \/ TimesOut(c) \/ Pump(c)
    \/ \E c \in User : Edit(c)

\* Coroutines, messages and mailboxes are served.  A peer need not read, and
\* while it does not its connection need not come to be closed; the visitors
\* of a port need not leave; no user or client is made to act.
Fairness ==
    /\ \A t \in Task : WF_vars(Resume(t))
    /\ \A c \in Client :
          /\ WF_vars(TakeRequest(c)) /\ WF_vars(Leave(c))
          /\ WF_vars(c \notin slow /\ CloseCompletes(c)) /\ WF_vars(c \notin slow /\ Receive(c))
          /\ WF_vars(Return(c)) /\ WF_vars(TimesOut(c)) /\ WF_vars(Pump(c))

Spec == Init /\ [][Next]_vars
FairSpec == Spec /\ Fairness

-----------------------------------------------------------------------------
(* Properties.                                                             *)

Settled == \A t \in Task : job[t] = Idle
Reached(c) == conn[c] = "on" /\ down[c] = <<>> /\ late[c] = "no"

\* When no change and no broadcast is under way, every client that is
\* connected and has read its messages shows the table of the server, unless
\* the last list it was sent was outdated by then (a broadcast suspended on
\* another session that newer ones no longer visit, server/core.py:1216-1224)
\* or is one of a change that was undone (server/mapping.py:456).
QuietInSync ==
    /\ \A t \in Task : job[t].at # None <=> t \in ToSet(queue)
    /\ \A c \in Client : Valid(rows[c])
    /\ Settled => \A c \in Client : Reached(c) => view[c] = table

\* A window that shows no unsaved changes shows the table the server serves,
\* once everything sent has come in and no change is under way, with the same
\* two exceptions, and unless the mailbox dropped a list or a result declared
\* saved what it was not an answer to.
CleanMeansServed ==
    Settled => \A c \in User :
        Reached(c) /\ mail[c] = <<>> /\ ~Dirty(c) /\ wrong[c] = {} => ToSet(rows[c]) = table

Stale(c) == conn[c] = "on" /\ view[c] # table
HalfWay == \E t \in Task : change[t].stage = "start"

\* A client that shows another table than the server's gets a list, unless
\* its session ends or it is one of the two exceptions, provided that in the
\* end every peer reads and no change is stuck between its two tables:
\* whoever asked for the change, and whatever its broadcast has waited for.
CatchUp ==
    <>[](slow = {} /\ ~HalfWay) =>
        \A c \in Client : Stale(c) ~> ~Stale(c) \/ late[c] # "no"
=============================================================================
