------------------------------ MODULE Admission ------------------------------
(***************************************************************************)
(* Who may register and with which rights: the authenticators, the token   *)
(* table that is read again when its file has changed, and the decisions   *)
(* of _register_client that hang on them.                                  *)
(*                                                                         *)
(* verify runs without an await, so one registration is judged at a time;  *)
(* but the file is the operator's, who may change it between the look at   *)
(* its stamp and the reading of it.  A version of the file stands for its  *)
(* content and its stamp; a version may come back.                         *)
(***************************************************************************)
EXTENDS ServerConfig

CONSTANTS
    Client,      \* client processes
    Ask,         \* what each registers with: id, token and ports, all well-formed
    Version,     \* versions of the token file
    Content,     \* of each: kind "table", with its entries, "garbage" that is
                 \* no JSON, "binary" that is no text
    Port,        \* local ports
    MaxClients,  \* limits.max_clients
    Layers,      \* configurations the server may be started with
    ClientLayers,\* and the clients
    None

ClientSide == INSTANCE ClientConfig

Id == {Ask[c].id : c \in Client}

VARIABLES
    phase,    \* of the server: down, configured, parsed (the token table, which
              \* is not stamped yet), up
    asked,    \* the layers the server is starting with
    auth,     \* its auth section
    file,     \* version of the token file there is, None without one
    table,    \* version _tokens was read from
    stamp,    \* version whose stamp is remembered in _stamp
    verify,   \* the registration being judged
    online,   \* the session of each client id: whose it is, None's if it has none,
              \* and its rights
    stopped,  \* clients that were refused for good
    raced     \* history: the file was changed between the last look at its
              \* stamp and the last reading of it

Nobody == [by |-> None, name |-> None, manage |-> FALSE]

server == <<phase, asked, auth>>
store == <<table, stamp, raced>>
vars == <<phase, asked, auth, file, table, stamp, verify, online, stopped, raced>>

ASSUME AdmissionAssumption ==
    /\ None \notin Version \cup Client
    /\ MaxClients \in Nat \ {0}
    /\ \A c \in Client : Ask[c].ports \subseteq Port /\ Ask[c].ports # {}

Init ==
    /\ phase = "down" /\ asked = None /\ auth = None
    /\ file \in Version \cup {None}
    /\ table = None /\ stamp = None
    /\ verify = None
    /\ online = [i \in Id |-> Nobody]
    /\ stopped = {}
    /\ raced = FALSE

-----------------------------------------------------------------------------
(* The token table.                                                        *)

Fields == {"name", "token", "token_sha256", "client_id", "ports", "enabled", "can_manage_mapping"}

Digest(token) == <<"sha256", token>>

EntryParses(e) ==
    /\ DOMAIN e \subseteq Fields
    /\ Given(e, "name", "") # ""
    /\ Cardinality({"token", "token_sha256"} \cap DOMAIN e) = 1
    /\ Given(e, "token", "some") # ""
    /\ Given(e, "ports", {}) \subseteq Port
    /\ Given(e, "enabled", TRUE) \in BOOLEAN
    /\ Given(e, "can_manage_mapping", FALSE) \in BOOLEAN

\* _parse_table gives a table; otherwise it raises ConfigError, or, when the
\* file is no text, an error nobody catches.
Parses(v) ==
    /\ v # None /\ Content[v].kind = "table"
    /\ LET entries == Content[v].entries IN
       /\ entries # <<>>
       /\ \A i \in DOMAIN entries : EntryParses(entries[i])
       /\ \A i, j \in DOMAIN entries : entries[i].name = entries[j].name => i = j
Undecodable(v) == v # None /\ Content[v].kind = "binary"

Matches(e, token) ==
    IF "token" \in DOMAIN e THEN e.token = token ELSE e.token_sha256 = Digest(token)

\* The first entry that matches, revoked or not; None without one.
Lookup(v, token) ==
    LET entries == Content[v].entries
        hits == {i \in DOMAIN entries : Matches(entries[i], token)}
    IN  IF hits = {} THEN None ELSE entries[CHOOSE i \in hits : \A j \in hits : i <= j]

-----------------------------------------------------------------------------
(* The authenticators.                                                     *)

FromTable == auth.enabled /\ auth.file # ""

Identity(name, ports, manage) == [name |-> name, ports |-> ports, manage |-> manage]
Anonymous == Identity("anonymous", {}, TRUE)
Denied == Identity("nobody", {}, FALSE)

\* verify of the authenticator in force, with version v of the table.
Legacy(ask) == IF ask.token = auth.token THEN Identity("shared", {}, auth.shared) ELSE Denied
TokenFile(v, ask) ==
    LET e == Lookup(v, ask.token) IN
    IF \/ e = None
       \/ ~Given(e, "enabled", TRUE)
       \/ Given(e, "client_id", "") \notin {"", ask.id}
    THEN Denied
    ELSE Identity(e.name, Given(e, "ports", {}), Given(e, "can_manage_mapping", FALSE))
Who(v, ask) == IF ~auth.enabled THEN Anonymous
               ELSE IF FromTable THEN TokenFile(v, ask) ELSE Legacy(ask)

Full(i) == online[i].by = None /\ Cardinality({j \in Id : online[j].by # None}) >= MaxClients

\* What a registration is answered: for good, for now, or accepted.
Answer(v, c) ==
    LET who == Who(v, Ask[c]) IN
    IF who = Denied THEN "never"
    ELSE IF Full(Ask[c].id) \/ (who.ports # {} /\ ~(Ask[c].ports \subseteq who.ports))
    THEN "later" ELSE "in"

-----------------------------------------------------------------------------
(* The server starts and stops.                                            *)

Configure(l) ==
    /\ phase = "down" /\ Loads(l)
    /\ phase' = "configured"
    /\ asked' = l /\ auth' = Effective(l).auth
    /\ UNCHANGED <<file, store, verify, online, stopped>>

\* build_authenticator; TokenStore.load parses first and stamps in the
\* constructor.  A table that cannot be read keeps the server from starting.
Build ==
    /\ phase = "configured"
    /\ asked' = None
    /\ \/ ~FromTable /\ phase' = "up" /\ UNCHANGED <<auth, table>>
       \/ FromTable /\ Parses(file) /\ phase' = "parsed" /\ table' = file /\ UNCHANGED auth
       \/ FromTable /\ ~Parses(file) /\ phase' = "down" /\ auth' = None /\ UNCHANGED table
    /\ UNCHANGED <<file, stamp, raced, verify, online, stopped>>

Stamp ==
    /\ phase = "parsed"
    /\ phase' = "up"
    /\ stamp' = file /\ raced' = (file # table)
    /\ UNCHANGED <<asked, auth, file, table, verify, online, stopped>>

Exit ==
    /\ phase = "up"
    /\ phase' = "down" /\ auth' = None
    /\ table' = None /\ stamp' = None /\ raced' = FALSE
    /\ verify' = None
    /\ online' = [i \in Id |-> Nobody]
    /\ UNCHANGED <<asked, file, stopped>>

-----------------------------------------------------------------------------
(* A registration.                                                         *)

In(c) == online[Ask[c].id].by = c
Trying(c) == ~In(c) /\ c \notin stopped

\* reload_if_changed looks at the stamp.  (Faulty: only a newer file counts.)
NewerChanged == file # None /\ (stamp = None \/ file > stamp)
Changed == file # stamp

Attempt(c) ==
    /\ phase = "up" /\ verify = None
    /\ Trying(c)
    /\ verify' = [client |-> c, at |-> IF FromTable /\ Changed THEN "read" ELSE "judge",
                  stat |-> file]
    /\ UNCHANGED <<server, file, store, online, stopped>>

\* It reads the file: a table takes the place of the old one, what is none
\* leaves it; the stamp is the one seen before.
Reload ==
    /\ verify # None /\ verify.at = "read"
    /\ ~Undecodable(file)
    /\ table' = IF Parses(file) THEN file ELSE table
    /\ stamp' = verify.stat
    /\ raced' = (file # verify.stat)
    /\ verify' = [verify EXCEPT !.at = "judge"]
    /\ UNCHANGED <<server, file, online, stopped>>

\* UnicodeDecodeError ends the connection without an answer.
Escape ==
    /\ verify # None /\ verify.at = "read"
    /\ Undecodable(file)
    /\ verify' = None
    /\ UNCHANGED <<server, file, store, online, stopped>>

\* An accepted client takes the place of whoever held its id, with the
\* rights of this moment; one refused for good stops.
Judge ==
    /\ verify # None /\ verify.at = "judge"
    /\ verify' = None
    /\ LET c == verify.client
           answer == Answer(table, c)
           who == Who(table, Ask[c])
       IN  /\ online' = IF answer = "in"
                        THEN [online EXCEPT ![Ask[c].id] =
                                  [by |-> c, name |-> who.name, manage |-> who.manage]]
                        ELSE online
           /\ stopped' = IF answer = "never" THEN stopped \cup {c} ELSE stopped
    /\ UNCHANGED <<server, file, store>>

Lose(i) ==
    /\ online[i].by # None
    /\ online' = [online EXCEPT ![i] = Nobody]
    /\ UNCHANGED <<server, file, store, verify, stopped>>

-----------------------------------------------------------------------------
(* People: the operator puts another version of the file in place or takes *)
(* it away, a client that stopped is started again.                        *)

Edit(v) ==
    /\ v # file
    /\ file' = v
    /\ UNCHANGED <<server, store, verify, online, stopped>>

StartAgain(c) ==
    /\ c \in stopped
    /\ stopped' = stopped \ {c}
    /\ UNCHANGED <<server, file, store, verify, online>>

Next ==
    \/ \E l \in Layers : Configure(l)
    \/ Build \/ Stamp \/ Exit
    \/ \E c \in Client : Attempt(c) \/ StartAgain(c)
    \/ Reload \/ Escape \/ Judge
    \/ \E i \in Id : Lose(i)
    \/ \E v \in Version \cup {None} : Edit(v)

\* A client that has been refused for now or lost its session tries again,
\* whoever else does so too; a registration, once begun, is judged.
Fairness ==
    /\ \A c \in Client : SF_vars(Attempt(c))
    /\ WF_vars(Reload \/ Escape \/ Judge)

Spec == Init /\ [][Next]_vars
FairSpec == Spec /\ Fairness

-----------------------------------------------------------------------------
(* Properties.                                                             *)

\* What is given in the highest layer that speaks of authentication or of
\* encryption is what a server starts with: it never runs open, or in clear,
\* because a lower layer or a word for no was misread (README.md:138).  The
\* same goes for encryption and verification at the client.
ClientsObey == \A l \in ClientLayers : ClientSide!Loads(l) => ClientSide!TopLayerDecides(l)

TopLayerDecides ==
    /\ ClientsObey
    /\ phase = "configured" =>
           LET env == asked.env  cli == asked.cli  tls == Effective(asked).tls IN
           /\ auth.enabled <=>
                  \/ Gives(cli, {"token", "file"})
                  \/ /\ ~Gives(cli, {"no_auth"})
                     /\ Gives(env, {"token", "file"}) \/ Base(asked).auth.enabled
           /\ FromTable => auth.token = "" /\ auth.file = Given(cli, "file", Given(env, "file", Base(asked).auth.file))
           /\ auth.enabled /\ ~FromTable =>
                  auth.token = Given(cli, "token", Given(env, "token", Base(asked).auth.token))
           /\ Given(env, "shared", "") \in EnvFalse => ~auth.shared
           /\ Given(env, "tls", "") \in EnvFalse /\ ~Gives(cli, {"cert", "key", "ca"}) => ~tls.enabled
           /\ Gives(cli, {"cert"}) => tls.enabled /\ tls.cert = cli["cert"]
           /\ tls.enabled => tls.cert # "" /\ tls.key # ""

\* A registration is answered by the token file there is: when that is a
\* table and was not changed meanwhile, the answer is the one that table
\* gives, whatever versions came before.  A revoked token is out with the
\* next attempt, and only a token the file disowns stops its client.
Ends(c) == verify # None /\ verify.client = c /\ verify' = None /\ phase' = "up"
Outcome(c) == IF c \in stopped THEN "never" ELSE IF In(c) THEN "in" ELSE "later"
JudgedByFile ==
    [][\A c \in Client :
           Ends(c) /\ verify.at = "judge" /\ FromTable /\ Parses(file) /\ file = verify.stat /\ ~raced
               => Outcome(c)' = Answer(file, c)]_vars

\* A client the file entitles gets in by itself, without anything being
\* restarted: it does not go on for ever outside while there is a place for
\* it and the file is a table that lets it in.
GetsIn ==
    \A c \in Client :
        []<>~(/\ phase = "up" /\ FromTable
              /\ Parses(file) /\ ~raced
              /\ Trying(c) /\ Answer(file, c) = "in")
=============================================================================
