----------------------------- MODULE MCAdmission -----------------------------
(* Instances of Admission for TLC: ann has a token of its own, bob and eve  *)
(* have another, with which eve registers under the id of ann.              *)
EXTENDS Admission

CONSTANTS ann, bob, eve, Wrong

MCAsk == ann :> [id |-> "A", token |-> "ta", ports |-> {1, 2}]
      @@ bob :> [id |-> "B", token |-> "tb", ports |-> {1}]
      @@ eve :> [id |-> "A", token |-> "tb", ports |-> {1}]

Plain(name, token) == [name |-> name, token |-> token]
Hashed(name, token) == [name |-> name, token_sha256 |-> Digest(token)]
Tokens(entries) == [kind |-> "table", entries |-> entries]

\* 1 lets all in; 2 takes a port from ann and reserves the other token for its
\* id; 3 revokes ann, with a second entry for its token; 4 is no text; 5 has a
\* flag of the wrong type.
MCContent ==
    <<Tokens(<<Hashed("na", "ta") @@ [can_manage_mapping |-> TRUE], Plain("nb", "tb")>>),
      Tokens(<<Plain("na", "ta") @@ [ports |-> {1}], Plain("nb", "tb") @@ [client_id |-> "A"]>>),
      Tokens(<<Plain("na", "ta") @@ [enabled |-> FALSE], Plain("nb", "tb"), Hashed("old", "ta")>>),
      [kind |-> "binary"],
      Tokens(<<Plain("na", "ta") @@ [enabled |-> Wrong]>>)>>

Json == {"auth" :> [file |-> "tokens.json"] @@ "mapping" :> <<9028>>,
         "auth" :> [enabled |-> TRUE, token |-> "ta"] @@ "mapping" :> <<9028>>
             @@ "tls" :> [enabled |-> TRUE, cert |-> "c", key |-> "k"],
         "auth" :> [enabled |-> TRUE, file |-> "tokens.json"] @@ "mapping" :> <<7000>>}
Env == {<<>>, "token" :> "tb" @@ "shared" :> "false", "file" :> "tokens.json" @@ "tls" :> "no",
        "cert" :> "c2" @@ "key" :> "k2" @@ "tls" :> "off", "control" :> 9028}
Cli == {<<>>, "no_auth" :> TRUE, "file" :> "tokens.json", "token" :> "tb" @@ "no_tls" :> TRUE,
        "cert" :> "c3" @@ "key" :> "k3", "path" :> "mappings.json" @@ "data" :> 7002}
MCLayers == [found : {TRUE}, json : Json, env : Env, cli : Cli]
       \cup [found : {FALSE}, json : {<<>>}, env : Env, cli : Cli]

\* A key without its certificate; a flag that takes back what the certificate
\* beside it switches on; no_tls beside a certificate.
ClientJson == {"local_ports" :> <<8000>>,
               "local_ports" :> <<8000>> @@ "token" :> "ta" @@ "tls" :> [enabled |-> TRUE, skip |-> TRUE],
               "local_ports" :> <<8000, 8001>> @@ "tls" :> [enabled |-> TRUE, ca |-> "ca"],
               "local_ports" :> <<8000>> @@ "tls" :> [key |-> "k"]}
ClientEnv == {<<>>, "tls" :> "no", "ca" :> "ca2" @@ "skip" :> "false", "skip" :> "yes" @@ "token" :> "tb",
              "cert" :> "c" @@ "key" :> "k" @@ "tls" :> "off", "check" :> "maybe"}
ClientCli == {<<>>, "no_tls" :> TRUE, "ca" :> "ca3", "cert" :> "c3" @@ "key" :> "k3" @@ "no_tls" :> TRUE,
              "skip" :> TRUE @@ "token" :> "tc", "ca" :> "ca3" @@ "no_tls" :> TRUE}
MCClientLayers == [found : {TRUE}, json : ClientJson, env : ClientEnv, cli : ClientCli]
             \cup [found : {FALSE}, json : {<<>>}, env : ClientEnv, cli : ClientCli]
=============================================================================
