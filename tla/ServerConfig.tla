---------------------------- MODULE ServerConfig ----------------------------
(***************************************************************************)
(* How a server comes by its configuration: the JSON file, the environment *)
(* variables and the command line, each laid over the one before and       *)
(* validated before the next is looked at.  Kept are the fields that one   *)
(* layer can turn against another: ports, credentials, encryption, the     *)
(* mapping file and the numbers that are compared with each other.         *)
(***************************************************************************)
EXTENDS ConfigLayers

-----------------------------------------------------------------------------
(* The JSON file: sections over their defaults.                            *)

AuthDefault == [enabled |-> FALSE, token |-> "", file |-> "", shared |-> TRUE]
TlsDefault == [enabled |-> FALSE, cert |-> "", key |-> "", require |-> FALSE, ca |-> "",
               visitor |-> FALSE, vcert |-> "", vkey |-> ""]
StoreDefault == [type |-> "memory", path |-> ""]
Default == [control |-> 7000, data |-> 7001, mapping |-> <<>>, cooldown |-> 30]

FromDict(json) ==
    [control  |-> Given(json, "control", Default.control),
     data     |-> Given(json, "data", Default.data),
     mapping  |-> Given(json, "mapping", Default.mapping),
     cooldown |-> Given(json, "cooldown", Default.cooldown),
     auth     |-> Section(json, "auth", AuthDefault),
     tls      |-> Section(json, "tls", TlsDefault),
     store    |-> Section(json, "store", StoreDefault),
     timeouts |-> Section(json, "timeouts", TimeoutsDefault),
     limits   |-> Section(json, "limits", LimitsDefault)]

\* A field nobody knows is refused, not ignored.
Known(json) ==
    /\ DOMAIN json \subseteq {"control", "data", "mapping", "cooldown", "auth", "tls",
                              "store", "timeouts", "limits"}
    /\ DOMAIN Given(json, "auth", <<>>) \subseteq DOMAIN AuthDefault
    /\ DOMAIN Given(json, "tls", <<>>) \subseteq DOMAIN TlsDefault
    /\ DOMAIN Given(json, "store", <<>>) \subseteq DOMAIN StoreDefault
    /\ DOMAIN Given(json, "timeouts", <<>>) \subseteq DOMAIN TimeoutsDefault
    /\ DOMAIN Given(json, "limits", <<>>) \subseteq DOMAIN LimitsDefault

-----------------------------------------------------------------------------
(* Validation.                                                             *)

ValidAuth(auth) ==
    /\ auth.token = "" \/ auth.file = ""
    /\ auth.enabled => auth.token # "" \/ auth.file # ""

ValidStore(store) ==
    /\ store.type \in {"memory", "file"}
    /\ store.type = "file" => store.path # ""

\* The visitors' certificate is one matter, that of the tunnel another.
ValidTls(tls) ==
    /\ tls.vcert = "" <=> tls.vkey = ""
    /\ tls.visitor => tls.vcert # ""
    /\ tls.enabled => /\ tls.cert # "" /\ tls.key # ""
                      /\ tls.require <=> tls.ca # ""

ValidMapping(cfg) ==
    /\ cfg.mapping # <<>>
    /\ Cardinality(DOMAIN cfg.mapping) <= cfg.limits.max_mappings
    /\ \A i \in DOMAIN cfg.mapping :
           /\ cfg.mapping[i] \notin {cfg.control, cfg.data}
           /\ \A j \in DOMAIN cfg.mapping : cfg.mapping[i] = cfg.mapping[j] => i = j

Valid(cfg) ==
    /\ cfg.control # cfg.data
    /\ ValidMapping(cfg)
    /\ ValidTimeouts(cfg.timeouts)
    /\ ValidAuth(cfg.auth)
    /\ ValidStore(cfg.store)
    /\ ValidLimits(cfg.limits)
    /\ ValidTls(cfg.tls)

-----------------------------------------------------------------------------
(* The environment.                                                        *)

\* Credentials and certificates switch on what they are for; a flag given as
\* well has the last word.
FromEnv(cfg, env) ==
    [cfg EXCEPT
        !.control = Given(env, "control", @),
        !.data = Given(env, "data", @),
        !.cooldown = Given(env, "cooldown", @),
        !.auth = [token |-> Given(env, "token", @.token),
                  file |-> Given(env, "file", @.file),
                  enabled |-> @.enabled \/ Gives(env, {"token", "file"}),
                  shared |-> Flag(env, "shared", @.shared)],
        !.store = [type |-> Given(env, "store", @.type), path |-> Given(env, "path", @.path)],
        !.tls = [cert |-> Given(env, "cert", @.cert),
                 key |-> Given(env, "key", @.key),
                 ca |-> Given(env, "ca", @.ca),
                 require |-> Flag(env, "require", @.require),
                 enabled |-> Flag(env, "tls", @.enabled \/ Gives(env, {"cert", "key"})),
                 vcert |-> Given(env, "vcert", @.vcert),
                 vkey |-> Given(env, "vkey", @.vkey),
                 visitor |-> Flag(env, "visitor", @.visitor \/ Gives(env, {"vcert", "vkey"}))]]

-----------------------------------------------------------------------------
(* The command line: the switches no_auth, no_tls and no_visitor_tls first *)
(* clear, then what is given is set.                                       *)

\* argparse refuses what contradicts itself, but not every contradiction.
Consistent(cli) ==
    /\ Cardinality({"token", "file", "no_auth"} \cap DOMAIN cli) <= 1
    /\ ~({"cert", "no_tls"} \subseteq DOMAIN cli)
    /\ ~({"vcert", "no_visitor_tls"} \subseteq DOMAIN cli)

NonEmpty(cli) == \A f \in DOMAIN cli \cap {"token", "file", "cert", "key", "ca", "vcert", "vkey"} :
                     cli[f] # ""

\* One kind of credentials takes the place of the other.
AuthOver(auth, cli) ==
    LET cleared == IF "no_auth" \in DOMAIN cli
                   THEN [auth EXCEPT !.enabled = FALSE, !.token = "", !.file = ""] ELSE auth
        filed   == IF "file" \in DOMAIN cli
                   THEN [cleared EXCEPT !.enabled = TRUE, !.token = "", !.file = cli["file"]]
                   ELSE cleared
    IN  IF "token" \in DOMAIN cli
        THEN [filed EXCEPT !.enabled = TRUE, !.token = cli["token"], !.file = ""]
        ELSE filed

TlsOver(tls, cli) ==
    [cert |-> Given(cli, "cert", tls.cert),
     key |-> Given(cli, "key", tls.key),
     ca |-> Given(cli, "ca", tls.ca),
     require |-> tls.require \/ Gives(cli, {"ca"}),
     enabled |-> \/ tls.enabled /\ ~Gives(cli, {"no_tls"})
                 \/ Gives(cli, {"cert", "key", "ca"}),
     vcert |-> Given(cli, "vcert", tls.vcert),
     vkey |-> Given(cli, "vkey", tls.vkey),
     visitor |-> \/ tls.visitor /\ ~Gives(cli, {"no_visitor_tls"})
                 \/ Gives(cli, {"vcert", "vkey"})]

\* A path for the mapping file selects it.
FromCommandLine(cfg, cli) ==
    [cfg EXCEPT
        !.control = Given(cli, "control", @),
        !.data = Given(cli, "data", @),
        !.mapping = Given(cli, "mapping", @),
        !.store = [path |-> Given(cli, "path", @.path),
                   type |-> IF Gives(cli, {"path"}) THEN "file" ELSE Given(cli, "store", @.type)],
        !.auth = AuthOver(@, cli),
        !.tls = TlsOver(@, cli)]

-----------------------------------------------------------------------------
(* All layers.  Without a JSON file, which l.found tells, there is a        *)
(* built-in mapping.                                                       *)

Base(l) == IF l.found THEN FromDict(l.json) ELSE FromDict("mapping" :> <<9028>>)

Effective(l) == FromCommandLine(FromEnv(Base(l), l.env), l.cli)

\* load_config comes to an end: every layer is valid with those below it.
Loads(l) ==
    /\ l.found => Known(l.json) /\ Valid(Base(l))
    /\ Readable(l.env, {"shared", "require", "tls", "visitor"}) /\ Valid(FromEnv(Base(l), l.env))
    /\ Consistent(l.cli) /\ NonEmpty(l.cli) /\ Valid(Effective(l))
=============================================================================
