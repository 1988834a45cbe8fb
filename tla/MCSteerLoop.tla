----------------------------- MODULE MCSteerLoop -----------------------------
(* Two QPNs, each connected to the receiver of one path; four buckets.     *)
EXTENDS SteerLoop

MCQpn == {2, 3}
MCPathIp == [p \in Path |-> 10 + p]
MCConnection == {[comm |-> p + 1, qpn |-> p + 2, ip |-> 10 + p] : p \in Path}
=============================================================================
