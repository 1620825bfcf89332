------------------------------ MODULE MCFilter ------------------------------
(* A small instance of Filter: a TCP conversation, seen from both ends, and *)
(* a UDP one on the same ports, over a table of two entries.                *)
EXTENDS Filter

Pkt(next, whole, s, d) ==
    [next |-> next, whole |-> whole, peer |-> "peer", src_port |-> s, dst_port |-> d]

\* Port 2 is opened by the user in the configuration, so 1 -> 2 is admitted
\* inbound by the port and 2 -> 1 by its flow only; ICMPv6, an unknown
\* transport header and a truncated packet never touch the table.
MCTraffic ==
    {Pkt("tcp", TRUE, 1, 2), Pkt("tcp", TRUE, 2, 1), Pkt("udp", TRUE, 1, 2),
     Pkt("icmpv6", TRUE, 1, 1), Pkt("other", TRUE, 2, 1), Pkt("udp", FALSE, 2, 1)}
=============================================================================
