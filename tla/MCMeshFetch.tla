----------------------------- MODULE MCMeshFetch -----------------------------
(* An HTTP GET alone, and a datagram beside an echo or another datagram.   *)
EXTENDS MeshFetch

CONSTANTS r1, r2

Mix(k1, k2) == [r \in {r1, r2} |-> IF r = r1 THEN k1 ELSE k2]
SmallMixes == {Mix("http", None), Mix("udp", "udp"), Mix("udp", "ping")}
=============================================================================
