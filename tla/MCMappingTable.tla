--------------------------- MODULE MCMappingTable ---------------------------
(* An instance of MappingTable for TLC: rules a and b differ only in the    *)
(* local port, h in the bind address, s asks for TLS.  plain and lan are    *)
(* two addresses of the machine, which port p1 can have side by side; p2    *)
(* keeps to one.                                                            *)
EXTENDS MappingTable, TLC

CONSTANTS p1, p2, a, b, h, s, plain, lan, tls, t1, t2

MCListens == a :> plain @@ b :> plain @@ h :> lan @@ s :> tls
MCApart == {<<plain, lan>>, <<lan, plain>>}

MCSeed == p1 :> a @@ p2 :> a
MCOffers == {p1 :> h @@ p2 :> a, p1 :> b @@ p2 :> s, p1 :> NoRule @@ p2 :> a, p1 :> b @@ p2 :> NoRule}

TaskSymmetry == Permutations(Task)
=============================================================================
