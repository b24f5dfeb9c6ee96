--------------------------- MODULE MCRelaySession ---------------------------
(* Model values and bounds for checking RelaySession. *)
EXTENDS RelayRefinement

CONSTANTS p1, p2, a1, a2, ip1, ip2

MCPlayers == {p1, p2}
MCAddrs == {a1, a2}
MCIps == {ip1, ip2}
MCIpOf == [a \in MCAddrs |-> IF a = a1 THEN ip1 ELSE ip2]
MCLoopback == {a1}
=============================================================================
