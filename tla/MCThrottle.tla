----------------------------- MODULE MCThrottle -----------------------------
(* Instances of Throttle for TLC: the id of one client begins with that of  *)
(* the other and a separator.                                               *)
EXTENDS Throttle, TLC

CONSTANTS p1, p2

MCUnit == {[client |-> <<"a">>, shard |-> <<"p">>], [client |-> <<"a", ":", "p">>, shard |-> <<>>]}
MCVisits == {f \in [Pipe -> Unit] : f[p1].client = <<"a">>}
MCRate == [up |-> 1, down |-> 0]
MCCapacity == [up |-> 1, down |-> 1]
MCBytes == [q \in Pump |-> IF q = <<p1, "up">> THEN 2 ELSE IF q = <<p2, "down">> THEN 0 ELSE 1]
=============================================================================
