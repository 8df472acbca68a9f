--------------------------- MODULE Admission_proofs ---------------------------
(***************************************************************************)
(* Theorems about Admission for every number of clients, versions of the   *)
(* token file with any content, and configurations.                        *)
(***************************************************************************)
EXTENDS Admission, TLAPS

Sessions == DOMAIN online = Id

\* Whoever is being judged is neither in nor refused for good, and is judged
\* when the version it found has been taken note of.
Judged ==
    verify # None =>
        /\ verify = [client |-> verify.client, at |-> verify.at, stat |-> verify.stat]
        /\ verify.client \in Client /\ Trying(verify.client)
        /\ phase = "up"
        /\ verify.at = "judge" /\ FromTable => stamp = verify.stat

\* The table in use is the one of the version taken note of, if that is a
\* table and was not replaced between the look and the reading.
Fresh == phase = "up" /\ FromTable /\ ~raced /\ Parses(stamp) => table = stamp
Booting == phase = "parsed" => FromTable

AdmissionInv == Sessions /\ Judged /\ Fresh /\ Booting

LEMMA AdmissionInit == Init => AdmissionInv
  BY DEF Init, AdmissionInv, Sessions, Judged, Fresh, Booting

\* A client that was not in and not refused stays so when others lose their
\* sessions or are started again.
LEMMA Outside ==
    ASSUME Sessions, NEW c \in Client, Trying(c),
           \/ UNCHANGED <<online, stopped>>
           \/ \E i \in Id : Lose(i)
           \/ \E d \in Client : StartAgain(d)
    PROVE  Trying(c)'
<1>1. CASE UNCHANGED <<online, stopped>>
  BY <1>1 DEF Trying, In
<1>2. CASE \E d \in Client : StartAgain(d)
  BY <1>2 DEF StartAgain, Trying, In
<1>3. ASSUME NEW i \in Id, Lose(i) PROVE Trying(c)'
  <2>1. Ask[c].id \in Id /\ None \notin Client
    BY AdmissionAssumption DEF Id
  <2> QED
    BY <1>3, <2>1 DEF Lose, Trying, In, Sessions, Nobody
<1> QED
  BY <1>1, <1>2, <1>3

LEMMA AdmissionStep == AdmissionInv /\ [Next]_vars => AdmissionInv'
<1> SUFFICES ASSUME AdmissionInv, [Next]_vars PROVE AdmissionInv'
  OBVIOUS
<1> USE DEF AdmissionInv
<1>1. ASSUME NEW l \in Layers, Configure(l) PROVE AdmissionInv'
  BY <1>1 DEF Configure, Sessions, Judged, Fresh, Booting, store
<1>2. CASE Build
  BY <1>2 DEF Build, Sessions, Judged, Fresh, Booting, FromTable
<1>3. CASE Stamp
  BY <1>3 DEF Stamp, Sessions, Judged, Fresh, Booting, FromTable
<1>4. CASE Exit
  BY <1>4 DEF Exit, Sessions, Judged, Fresh, Booting
<1>5. ASSUME NEW c \in Client, Attempt(c) PROVE AdmissionInv'
  BY <1>5 DEF Attempt, Sessions, Judged, Fresh, Booting, FromTable, Changed, Trying, In, server, store
<1>6. CASE Reload
  <2>1. verify' = [client |-> verify.client, at |-> "judge", stat |-> verify.stat]
    BY <1>6 DEF Reload, Judged
  <2>2. Judged'
    BY <1>6, <2>1 DEF Reload, Judged, Trying, In, server
  <2>3. Fresh'
    BY <1>6 DEF Reload, Fresh, Judged, FromTable, server
  <2> QED
    BY <1>6, <2>2, <2>3 DEF Reload, Sessions, Booting, FromTable, server
<1>7. CASE Escape
  BY <1>7 DEF Escape, Sessions, Judged, Fresh, Booting, FromTable, server, store
<1>8. CASE Judge
  BY <1>8 DEF Judge, Sessions, Judged, Fresh, Booting, FromTable, server, store
<1>9. ASSUME \/ \E i \in Id : Lose(i)
             \/ \E c \in Client : StartAgain(c)
             \/ \E v \in Version \cup {None} : Edit(v)
             \/ UNCHANGED vars
      PROVE  AdmissionInv'
  <2>1. UNCHANGED <<server, store, verify>> /\ Sessions'
    BY <1>9 DEF Lose, StartAgain, Edit, vars, server, store, Sessions
  <2>2. verify' = verify
    BY <2>1
  <2>3. ASSUME verify # None PROVE Trying(verify.client)'
    <3> DEFINE c == verify.client
    <3>1. c \in Client /\ Trying(c)
      BY <2>3 DEF Judged
    <3>2. \/ UNCHANGED <<online, stopped>>
          \/ \E i \in Id : Lose(i)
          \/ \E d \in Client : StartAgain(d)
      BY <1>9 DEF Edit, vars
    <3>3. c' = c
      BY <2>2
    <3> HIDE DEF c
    <3>4. \A d : d = c => Trying(d)'
      BY <3>1, <3>2, Outside
    <3> QED
      BY <2>2, <3>3, <3>4 DEF c
  <2> QED
    BY <2>1, <2>3 DEF Judged, Fresh, Booting, FromTable, server, store
<1> QED
  BY <1>1, <1>2, <1>3, <1>4, <1>5, <1>6, <1>7, <1>8, <1>9 DEF Next

\* What AdmissionInv says of a server that runs, for any contents of the file.
THEOREM AdmissionInvariant == Spec => []AdmissionInv
  BY AdmissionInit, AdmissionStep, PTL DEF Spec

\* A registration is answered by the table in the file, whatever its versions
\* say, however often they are replaced and whoever else registers.
THEOREM TableDecides == Spec => JudgedByFile
<1> DEFINE Step == \A c \in Client :
               Ends(c) /\ verify.at = "judge" /\ FromTable /\ Parses(file) /\ file = verify.stat /\ ~raced
                   => Outcome(c)' = Answer(file, c)
<1>1. AdmissionInv /\ [Next]_vars => [Step]_vars
  <2> SUFFICES ASSUME AdmissionInv, Next, NEW c \in Client,
                      Ends(c), verify.at = "judge", FromTable, Parses(file), file = verify.stat, ~raced
               PROVE  Outcome(c)' = Answer(file, c)
    OBVIOUS
  <2>1. Judge
    BY DEF Next, Ends, Configure, Build, Stamp, Exit, Attempt, StartAgain, Reload, Escape, Lose, Edit
  <2>2. table = file
    BY DEF AdmissionInv, Judged, Fresh, Ends
  <2>3. Trying(c) /\ c = verify.client
    BY DEF AdmissionInv, Judged, Ends
  <2>4. Ask[c].id \in DOMAIN online
    BY DEF AdmissionInv, Sessions, Id
  <2>5. CASE Answer(file, c) = "never"
    BY <2>1, <2>2, <2>3, <2>5 DEF Judge, Outcome
  <2>6. CASE Answer(file, c) = "in"
    BY <2>1, <2>2, <2>3, <2>4, <2>6 DEF Judge, Outcome, Trying, In
  <2>7. CASE Answer(file, c) = "later"
    BY <2>1, <2>2, <2>3, <2>7 DEF Judge, Outcome, Trying, In
  <2>8. Answer(file, c) \in {"never", "in", "later"}
    BY DEF Answer
  <2> QED
    BY <2>5, <2>6, <2>7, <2>8
<1> QED
  BY <1>1, AdmissionInvariant, PTL DEF JudgedByFile, Spec

-----------------------------------------------------------------------------
(* The configuration.                                                      *)

LEMMA BaseSections ==
    ASSUME NEW l
    PROVE  /\ DOMAIN Base(l) = {"control", "data", "mapping", "cooldown", "auth", "tls",
                               "store", "timeouts", "limits"}
           /\ DOMAIN ClientSide!Base(l) = {"host", "control", "data", "local_ports", "token",
                                          "tls", "timeouts", "reconnect", "limits"}
<1>1. \E json : Base(l) = FromDict(json)
  BY DEF Base
<1>2. \E json : ClientSide!Base(l) = ClientSide!FromDict(json)
  BY DEF ClientSide!Base
<1> QED
  BY <1>1, <1>2 DEF FromDict, ClientSide!FromDict

\* ClientConfig means the same by the operators of ConfigLayers.
LEMMA SameLayers ==
    /\ \A layer, field, before : ClientSide!Given(layer, field, before) = Given(layer, field, before)
    /\ \A layer, fields : ClientSide!Gives(layer, fields) <=> Gives(layer, fields)
    /\ \A env, field, before : ClientSide!Flag(env, field, before) = Flag(env, field, before)
    /\ \A env, flags : ClientSide!Readable(env, flags) <=> Readable(env, flags)
    /\ ClientSide!EnvTrue = EnvTrue /\ ClientSide!EnvFalse = EnvFalse
  BY DEF Given, Gives, Flag, Readable, EnvTrue, EnvFalse, ClientSide!Given, ClientSide!Gives,
         ClientSide!Flag, ClientSide!Readable, ClientSide!EnvTrue, ClientSide!EnvFalse

LEMMA Words == \A w \in EnvFalse : w \notin EnvTrue /\ w # ""
  BY DEF EnvFalse, EnvTrue

\* The sections a server starts with, layer over layer.
LEMMA EffectiveSections ==
    ASSUME NEW l
    PROVE  /\ Effective(l).auth = AuthOver(FromEnv(Base(l), l.env).auth, l.cli)
           /\ Effective(l).tls = TlsOver(FromEnv(Base(l), l.env).tls, l.cli)
<1> DEFINE cfg == FromEnv(Base(l), l.env)
<1>1. DOMAIN cfg = {"control", "data", "mapping", "cooldown", "auth", "tls",
                    "store", "timeouts", "limits"}
  BY BaseSections DEF FromEnv
<1> HIDE DEF cfg
<1>2. /\ FromCommandLine(cfg, l.cli).auth = AuthOver(cfg.auth, l.cli)
      /\ FromCommandLine(cfg, l.cli).tls = TlsOver(cfg.tls, l.cli)
  BY <1>1 DEF FromCommandLine
<1> QED
  BY <1>2 DEF Effective, cfg

LEMMA EnvAuth ==
    ASSUME NEW l
    PROVE  FromEnv(Base(l), l.env).auth =
               [token |-> Given(l.env, "token", Base(l).auth.token),
                file |-> Given(l.env, "file", Base(l).auth.file),
                enabled |-> Base(l).auth.enabled \/ Gives(l.env, {"token", "file"}),
                shared |-> Flag(l.env, "shared", Base(l).auth.shared)]
  BY BaseSections DEF FromEnv

\* The auth section of layers that load.
LEMMA AuthObeys ==
    ASSUME NEW l, Loads(l)
    PROVE  LET a == Effective(l).auth  base == Base(l).auth IN
           /\ a.enabled <=>
                  \/ Gives(l.cli, {"token", "file"})
                  \/ /\ ~Gives(l.cli, {"no_auth"})
                     /\ Gives(l.env, {"token", "file"}) \/ base.enabled
           /\ a.enabled /\ a.file # "" =>
                  a.token = "" /\ a.file = Given(l.cli, "file", Given(l.env, "file", base.file))
           /\ a.enabled /\ ~(a.enabled /\ a.file # "") =>
                  a.token = Given(l.cli, "token", Given(l.env, "token", base.token))
           /\ Given(l.env, "shared", "") \in EnvFalse => ~a.shared
<1> DEFINE a == Effective(l).auth
           e == FromEnv(Base(l), l.env).auth
           cli == l.cli
           env == l.env
           base == Base(l).auth
<1>1. a = AuthOver(e, cli) /\ ValidAuth(a)
  BY EffectiveSections DEF Loads, Valid
<1>2. e = [token |-> Given(env, "token", base.token), file |-> Given(env, "file", base.file),
           enabled |-> base.enabled \/ Gives(env, {"token", "file"}),
           shared |-> Flag(env, "shared", base.shared)]
  BY EnvAuth
<1>3. "file" \in DOMAIN cli => cli["file"] # ""
  BY DEF Loads, NonEmpty
<1> HIDE DEF a, e, cli, env, base
<1>4. Given(env, "shared", "") \in EnvFalse => ~e.shared
  BY <1>2, Words DEF Given, Flag
<1>5. CASE "token" \in DOMAIN cli
  <2>1. a.enabled = TRUE /\ a.token = cli["token"] /\ a.file = "" /\ a.shared = e.shared
    BY <1>1, <1>2, <1>5 DEF AuthOver
  <2> QED
    BY <1>4, <1>5, <2>1 DEF Given, Gives, a, cli, env, base
<1>6. CASE "token" \notin DOMAIN cli /\ "file" \in DOMAIN cli
  <2>1. a.enabled = TRUE /\ a.token = "" /\ a.file = cli["file"] /\ a.shared = e.shared
    BY <1>1, <1>2, <1>6 DEF AuthOver
  <2> QED
    BY <1>3, <1>4, <1>6, <2>1 DEF Given, Gives, a, cli, env, base
<1>7. CASE "token" \notin DOMAIN cli /\ "file" \notin DOMAIN cli /\ "no_auth" \in DOMAIN cli
  <2>1. a.enabled = FALSE /\ a.shared = e.shared
    BY <1>1, <1>2, <1>7 DEF AuthOver
  <2> QED
    BY <1>4, <1>7, <2>1 DEF Given, Gives, a, cli, env, base
<1>8. CASE "token" \notin DOMAIN cli /\ "file" \notin DOMAIN cli /\ "no_auth" \notin DOMAIN cli
  <2>1. a = e
    BY <1>1, <1>2, <1>8 DEF AuthOver
  <2>2. a.enabled <=> Gives(env, {"token", "file"}) \/ base.enabled
    BY <1>2, <2>1
  <2>3. a.token = Given(env, "token", base.token) /\ a.file = Given(env, "file", base.file)
    BY <1>2, <2>1
  <2>4. a.file # "" => a.token = ""
    BY <1>1 DEF ValidAuth
  <2> QED
    BY <1>4, <1>8, <2>1, <2>2, <2>3, <2>4 DEF Given, Gives, a, cli, env, base
<1> QED
  BY <1>5, <1>6, <1>7, <1>8

\* The tls section of layers that load.
LEMMA TlsObeys ==
    ASSUME NEW l, Loads(l)
    PROVE  LET tls == Effective(l).tls IN
           /\ Given(l.env, "tls", "") \in EnvFalse /\ ~Gives(l.cli, {"cert", "key", "ca"}) => ~tls.enabled
           /\ Gives(l.cli, {"cert"}) => tls.enabled /\ tls.cert = l.cli["cert"]
           /\ tls.enabled => tls.cert # "" /\ tls.key # ""
<1> DEFINE tls == Effective(l).tls
           e == FromEnv(Base(l), l.env).tls
           before == Base(l).tls.enabled \/ Gives(l.env, {"cert", "key"})
<1>1. tls = TlsOver(e, l.cli) /\ ValidTls(tls)
  BY EffectiveSections DEF Loads, Valid
<1>2. e.enabled = Flag(l.env, "tls", before)
  BY BaseSections, Zenon DEF FromEnv
<1>3. /\ tls.enabled = (\/ e.enabled /\ ~Gives(l.cli, {"no_tls"})
                        \/ Gives(l.cli, {"cert", "key", "ca"}))
      /\ tls.cert = Given(l.cli, "cert", e.cert)
  BY <1>1 DEF TlsOver
<1> HIDE DEF tls, e, before
<1>4. Given(l.env, "tls", "") \in EnvFalse => ~e.enabled
  BY <1>2, Words DEF Given, Flag
<1>5. Gives(l.cli, {"cert"}) => Gives(l.cli, {"cert", "key", "ca"}) /\ tls.cert = l.cli["cert"]
  BY <1>3 DEF Given, Gives
<1>6. tls.enabled => tls.cert # "" /\ tls.key # ""
  BY <1>1 DEF ValidTls
<1> QED
  BY <1>3, <1>4, <1>5, <1>6 DEF tls

\* Every configuration a client loads, whatever its layers say.
LEMMA ClientObeys ==
    ASSUME NEW l, ClientSide!Loads(l)
    PROVE  ClientSide!TopLayerDecides(l)
<1> DEFINE cfg == ClientSide!FromEnv(ClientSide!Base(l), l.env)
           tls == ClientSide!Effective(l).tls
           base == ClientSide!Base(l)
           before == base.tls.enabled \/ Gives(l.env, {"ca", "cert", "key"})
<1>1. /\ DOMAIN cfg = {"host", "control", "data", "local_ports", "token",
                       "tls", "timeouts", "reconnect", "limits"}
      /\ cfg.token = Given(l.env, "token", base.token)
      /\ cfg.tls.enabled = Flag(l.env, "tls", before)
      /\ cfg.tls.skip = Flag(l.env, "skip", base.tls.skip)
  BY BaseSections, SameLayers DEF ClientSide!FromEnv
<1>2. Readable(l.env, {"tls", "check", "skip"})
  BY SameLayers DEF ClientSide!Loads
<1>3. ClientSide!Effective(l) = ClientSide!FromCommandLine(cfg, l.cli)
  BY DEF ClientSide!Effective
<1> HIDE DEF cfg
<1>4. /\ tls = ClientSide!TlsOver(cfg.tls, l.cli)
      /\ ClientSide!Effective(l).token = Given(l.cli, "token", cfg.token)
  BY <1>1, <1>3, SameLayers DEF ClientSide!FromCommandLine
<1>5. /\ tls.enabled = (\/ cfg.tls.enabled /\ ~Gives(l.cli, {"no_tls"})
                        \/ Gives(l.cli, {"ca", "cert", "key", "skip"}))
      /\ tls.skip = (cfg.tls.skip \/ Gives(l.cli, {"skip"}))
  BY <1>4, SameLayers DEF ClientSide!TlsOver
<1> HIDE DEF tls, base, before
<1>6. /\ cfg.tls.skip => \/ Given(l.env, "skip", "") \in EnvTrue
                         \/ "skip" \notin DOMAIN l.env /\ base.tls.skip
  BY <1>1 DEF Flag, Given
<1>7. ~cfg.tls.enabled => \/ Given(l.env, "tls", "") \in EnvFalse
                          \/ "tls" \notin DOMAIN l.env /\ ~before
  BY <1>1, <1>2 DEF Flag, Given, Readable
<1>8. "tls" \notin DOMAIN l.env /\ ~before
        => ~Gives(l.env, {"tls", "ca", "cert", "key"}) /\ ~base.tls.enabled
  BY DEF Gives, before
<1>9. Given(l.env, "tls", "") \in EnvFalse => ~cfg.tls.enabled
  BY <1>1, Words DEF Flag, Given
<1> QED
  BY <1>1, <1>4, <1>5, <1>6, <1>7, <1>8, <1>9, SameLayers DEF ClientSide!TopLayerDecides, tls, base

\* A server that is about to build its authenticator has loaded the layers it
\* was asked to start with.
Loaded == phase = "configured" => Loads(asked) /\ auth = Effective(asked).auth

LEMMA LoadedInvariant == Spec => []Loaded
<1>1. Init => Loaded
  BY DEF Init, Loaded
<1>2. Loaded /\ [Next]_vars => Loaded'
  <2> SUFFICES ASSUME Loaded, [Next]_vars PROVE Loaded'
    OBVIOUS
  <2>1. ASSUME UNCHANGED server PROVE Loaded'
    BY <2>1 DEF Loaded, server
  <2>2. ASSUME NEW l \in Layers, Configure(l) PROVE Loaded'
    BY <2>2 DEF Configure, Loaded
  <2>3. CASE Build \/ Stamp \/ Exit
    BY <2>3 DEF Build, Stamp, Exit, Loaded
  <2> QED
    BY <2>1, <2>2, <2>3
       DEF Next, Attempt, StartAgain, Reload, Escape, Judge, Lose, Edit, vars, server
<1> QED
  BY <1>1, <1>2, PTL DEF Spec

\* Whatever the file, the environment and the command line say, the highest
\* layer that speaks of authentication or of encryption is obeyed by the server
\* and by every client: none runs open, or in clear, because of a lower one.
THEOREM LayersDecide == Spec => []TopLayerDecides
<1>1. ClientsObey
  BY ClientObeys DEF ClientsObey
<1>2. Loaded => TopLayerDecides
  <2> SUFFICES ASSUME Loaded, phase = "configured"
               PROVE  TopLayerDecides
    BY <1>1 DEF TopLayerDecides
  <2>1. Loads(asked) /\ auth = Effective(asked).auth
    BY DEF Loaded
  <2> QED
    BY <1>1, <2>1, AuthObeys, TlsObeys DEF TopLayerDecides, FromTable
<1> QED
  BY <1>2, LoadedInvariant, PTL
=============================================================================
