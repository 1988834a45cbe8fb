---------------------------- MODULE MCSteerDatapath ----------------------------
(***************************************************************************)
(* Packets of every kind to either receiver address and to another, with   *)
(* ToS bytes that have the path bit set or clear, a DSCP class or none,    *)
(* and every ECN value the properties tell apart.  A path is marked always *)
(* or never, or sampled: at 0.025%, as in steering/README.md (65 units),   *)
(* and at rates from the least the 3.x mask expresses to just below half.  *)
(***************************************************************************)
EXTENDS SteerDatapath

MCPathIp == [p \in Path |-> 10 + p]

Pkt(kind, dst, qpn, tos) ==
  [kind |-> kind, dst |-> dst, qpn |-> qpn, class |-> tos[1], bit |-> tos[2], ecn |-> tos[3]]
Tos == {<<0, 0, "ect0">>, <<1, 1, "not-ect">>, <<1, 0, "ce">>}
MCPacket ==
  {Pkt(kind, dst, 2, tos) : kind \in {"udp", "data", "cm"}, dst \in {10, 11, 12}, tos \in Tos}
  \cup {Pkt("cnp", dst, qpn, tos) : dst \in {10, 11}, qpn \in {2, 3}, tos \in Tos}
  \cup {Pkt(kind, 12, 2, <<0, 0, "not-ect">>) : kind \in {"arp", "ip6"}}

Configured(role, force, percent0, percent1) ==
  [role |-> role, force |-> force, percent |-> [p \in Path |-> IF p = 0 THEN percent0 ELSE percent1]]
Pair(c0, c1) == [h \in Host |-> IF h = 0 THEN c0 ELSE c1]

Sender(force) == Configured("egress", force, 0, 0)
Receiver == Configured("ingress", NoPath, 65, Whole)
Both == Configured("both", NoPath, 0, 65)
Marker(percent0, percent1) == Configured("ingress", NoPath, percent0, percent1)

(* As deployed, with a forced path, both roles at once, and no classifier. *)
MCSetup == {Pair(Sender(NoPath), Receiver), Pair(Sender(1), Receiver), Pair(Both, Receiver),
            Pair(Both, Both), Pair(Marker(4, 7), Marker(1000, Whole \div 2 - 1))}
BothRoles == {Pair(Both, Both)}
=============================================================================
