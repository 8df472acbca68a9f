---------------------------- MODULE ClientConfig ----------------------------
(***************************************************************************)
(* How a client comes by its configuration: the same three layers as the   *)
(* server's, each validated before the next is looked at.  Kept are where  *)
(* it connects to, what it claims, its token, its encryption, and the      *)
(* numbers that are compared with each other.                              *)
(***************************************************************************)
EXTENDS ConfigLayers

ReconnectDefault == [initial |-> 1, max |-> 60, multiplier |-> 2]
TlsDefault == [enabled |-> FALSE, ca |-> "", cert |-> "", key |-> "", check |-> TRUE, skip |-> FALSE]
Default == [host |-> "127.0.0.1", control |-> 7000, data |-> 7001, local_ports |-> <<>>, token |-> ""]

FromDict(json) ==
    [host        |-> Given(json, "host", Default.host),
     control     |-> Given(json, "control", Default.control),
     data        |-> Given(json, "data", Default.data),
     local_ports |-> Given(json, "local_ports", Default.local_ports),
     token       |-> Given(json, "token", Default.token),
     tls         |-> Section(json, "tls", TlsDefault),
     timeouts    |-> Section(json, "timeouts", TimeoutsDefault),
     reconnect   |-> Section(json, "reconnect", ReconnectDefault),
     limits      |-> Section(json, "limits", LimitsDefault)]

Known(json) ==
    /\ DOMAIN json \subseteq {"host", "control", "data", "local_ports", "token", "tls",
                              "timeouts", "reconnect", "limits"}
    /\ DOMAIN Given(json, "tls", <<>>) \subseteq DOMAIN TlsDefault
    /\ DOMAIN Given(json, "timeouts", <<>>) \subseteq DOMAIN TimeoutsDefault
    /\ DOMAIN Given(json, "reconnect", <<>>) \subseteq DOMAIN ReconnectDefault
    /\ DOMAIN Given(json, "limits", <<>>) \subseteq DOMAIN LimitsDefault

ValidReconnect(r) == r.initial > 0 /\ r.max >= r.initial /\ r.multiplier >= 1

\* A certificate for the client goes with its key, encrypted or not.
ValidTls(tls) == tls.cert = "" <=> tls.key = ""

Valid(cfg) ==
    /\ cfg.host # ""
    /\ cfg.control # cfg.data
    /\ cfg.local_ports # <<>>
    /\ \A i, j \in DOMAIN cfg.local_ports : cfg.local_ports[i] = cfg.local_ports[j] => i = j
    /\ Cardinality(DOMAIN cfg.local_ports) <= cfg.limits.max_mappings
    /\ ValidTimeouts(cfg.timeouts)
    /\ ValidReconnect(cfg.reconnect)
    /\ ValidLimits(cfg.limits)
    /\ ValidTls(cfg.tls)

-----------------------------------------------------------------------------

\* A CA or a certificate switches encryption on; a flag has the last word.
FromEnv(cfg, env) ==
    [cfg EXCEPT
        !.host = Given(env, "host", @),
        !.control = Given(env, "control", @),
        !.data = Given(env, "data", @),
        !.local_ports = Given(env, "local_ports", @),
        !.token = Given(env, "token", @),
        !.tls = [ca |-> Given(env, "ca", @.ca),
                 cert |-> Given(env, "cert", @.cert),
                 key |-> Given(env, "key", @.key),
                 enabled |-> Flag(env, "tls", @.enabled \/ Gives(env, {"ca", "cert", "key"})),
                 check |-> Flag(env, "check", @.check),
                 skip |-> Flag(env, "skip", @.skip)]]

\* argparse: a CA and no_tls exclude each other, a certificate does not.
Consistent(cli) == ~({"ca", "no_tls"} \subseteq DOMAIN cli)

\* no_tls clears first; what is given for encryption switches it on again.
TlsOver(tls, cli) ==
    [ca |-> Given(cli, "ca", tls.ca),
     cert |-> Given(cli, "cert", tls.cert),
     key |-> Given(cli, "key", tls.key),
     enabled |-> \/ tls.enabled /\ ~Gives(cli, {"no_tls"})
                 \/ Gives(cli, {"ca", "cert", "key", "skip"}),
     check |-> tls.check /\ ~Gives(cli, {"skip"}),
     skip |-> tls.skip \/ Gives(cli, {"skip"})]

FromCommandLine(cfg, cli) ==
    [cfg EXCEPT
        !.host = Given(cli, "host", @),
        !.control = Given(cli, "control", @),
        !.data = Given(cli, "data", @),
        !.local_ports = Given(cli, "local_ports", @),
        !.token = Given(cli, "token", @),
        !.tls = TlsOver(@, cli)]

-----------------------------------------------------------------------------

\* Without a JSON file, which l.found tells, one port is claimed.
Base(l) == IF l.found THEN FromDict(l.json) ELSE FromDict("local_ports" :> <<8000>>)

Effective(l) == FromCommandLine(FromEnv(Base(l), l.env), l.cli)

\* load_config comes to an end.
Loads(l) ==
    /\ l.found => Known(l.json) /\ Valid(Base(l))
    /\ Readable(l.env, {"tls", "check", "skip"}) /\ Valid(FromEnv(Base(l), l.env))
    /\ Consistent(l.cli) /\ Valid(Effective(l))

\* A client never leaves the server's certificate unverified, and never
\* sends its token in clear, unless the highest layer that speaks of it says so.
TopLayerDecides(l) ==
    LET tls == Effective(l).tls IN
    /\ tls.skip =>
           \/ Gives(l.cli, {"skip"})
           \/ Given(l.env, "skip", "") \in EnvTrue
           \/ "skip" \notin DOMAIN l.env /\ Base(l).tls.skip
    /\ ~tls.enabled =>
           /\ ~Gives(l.cli, {"ca", "cert", "key", "skip"})
           /\ \/ Gives(l.cli, {"no_tls"})
              \/ Given(l.env, "tls", "") \in EnvFalse
              \/ ~Gives(l.env, {"tls", "ca", "cert", "key"}) /\ ~Base(l).tls.enabled
    /\ tls.enabled /\ Given(l.env, "tls", "") \in EnvFalse =>
           Gives(l.cli, {"ca", "cert", "key", "skip"})
    /\ Effective(l).token = Given(l.cli, "token", Given(l.env, "token", Base(l).token))
=============================================================================
