--------------------------- MODULE MCControlPlane ---------------------------
(* Small instances of ControlPlane for TLC. *)
EXTENDS ControlPlane, TLC

CONSTANTS c1, c2, c3, a, b, p1, p2, r1

MCAllowed == [i \in Client |-> IF i = a THEN Port ELSE {p1}]
MCOffers  == {{p1}, {p2}}
OneOffer  == {{p1}}
ConnSymmetry == Permutations(Conn)
=============================================================================
