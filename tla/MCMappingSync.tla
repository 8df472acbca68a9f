---------------------------- MODULE MCMappingSync ----------------------------
(* Instances of MappingSync for TLC: two public ports, two contents.        *)
EXTENDS MappingSync, TLC

CONSTANTS a, b, k1, k2, x, y

MCSeed == {[port |-> 1, content |-> x]}
MCDraft == {[port |-> 1, content |-> y], [port |-> 2, content |-> x]}
MCOffers == {{[port |-> 1, content |-> y]}}
=============================================================================
