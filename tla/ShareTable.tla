------------------------------ MODULE ShareTable ------------------------------
(***************************************************************************)
(* What the egress dispatch table promises, without the machinery that     *)
(* keeps it: buckets move one at a time between the two paths, each path   *)
(* always keeps its MinBuckets guaranteed buckets, and a share is          *)
(* announced only when the table is exactly the split of that share.       *)
(***************************************************************************)
EXTENDS PathShare

VARIABLES
  table,     (* the path each bucket is assigned to                        *)
  announced  (* the path-0 share last announced as applied                 *)

tableVars == <<table, announced>>

(* The buckets both paths compete for. *)
Contested == MinBuckets .. MaxBuckets - 1

Init ==
  /\ table = Split(HalfShare)
  /\ announced = HalfShare

Reassign(b) ==
  /\ table' = [table EXCEPT ![b] = Other(@)]
  /\ UNCHANGED announced

Announce(s) ==
  /\ table = Split(s)
  /\ announced' = s
  /\ UNCHANGED table

Next == (\E b \in Contested : Reassign(b)) \/ (\E s \in Share : Announce(s))

Spec == Init /\ [][Next]_tableVars

=============================================================================
