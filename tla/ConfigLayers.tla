---------------------------- MODULE ConfigLayers ----------------------------
(***************************************************************************)
(* What the configurations of the server and the client have in common:    *)
(* layers that are laid over each other, and two of their sections.        *)
(*                                                                         *)
(* A layer is a function whose domain is what was given in it.             *)
(***************************************************************************)
EXTENDS Naturals, FiniteSets, TLC

\* What a layer says of a field, or what was there before.
Given(layer, field, before) == IF field \in DOMAIN layer THEN layer[field] ELSE before
Gives(layer, fields) == fields \cap DOMAIN layer # {}

\* A section of the JSON file over its defaults.
Section(json, name, default) == Given(json, name, <<>>) @@ default

\* A flag is a string here; the words for no are not to be taken for yes.
\* (Faulty: any string is yes.)
EnvTrue == {"1", "true", "yes", "on"}
EnvFalse == {"0", "false", "no", "off"}
TruthyFlag(env, field, before) == IF field \in DOMAIN env THEN TRUE ELSE before
Flag(env, field, before) == IF field \in DOMAIN env THEN env[field] \in EnvTrue ELSE before
Readable(env, flags) == \A f \in DOMAIN env \cap flags : env[f] \in EnvTrue \cup EnvFalse

TimeoutsDefault == [heartbeat |-> 30, pong |-> 10, idle |-> 120]
LimitsDefault == [max_clients |-> 64, max_mappings |-> 32, max_keys |-> 4096, conns |-> 0]

ValidTimeouts(t) ==
    /\ t.heartbeat > 0 /\ t.pong > 0 /\ t.idle > 0
    /\ t.pong < t.heartbeat
    /\ t.idle > t.heartbeat

\* conns is a quota, 0 for no limit; the others are capacities.
ValidLimits(l) == l.max_clients > 0 /\ l.max_mappings > 0 /\ l.max_keys > 0 /\ l.conns >= 0
=============================================================================
