---------------------------- MODULE MCRateGrouping ----------------------------
(***************************************************************************)
(* Three QPNs and one more, reserved; connections to the receivers of path *)
(* 0 and 1 and to an unknown one.  The flow table and the CM tables hold   *)
(* two entries, fewer than there are QPNs and connections.                 *)
(***************************************************************************)
EXTENDS RateGrouping

MCQpn == {1, 2, 3, 4}
MCPathIp == [p \in Path |-> 10 + p]
Conn(comm, qpn, ip) == [comm |-> comm, qpn |-> qpn, ip |-> ip]
MCConnection == {Conn(1, 2, 10), Conn(2, 3, 11), Conn(3, 4, 12)}

(* Reuse: QPN 2 connects to path 0's receiver, later to path 1's. *)
ReusedQpn == {2, 3}
ReusedConnection == {Conn(1, 2, 10), Conn(2, 2, 11)}
=============================================================================
