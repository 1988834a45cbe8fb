------------------------------ MODULE PathTally ------------------------------
(***************************************************************************)
(* The control law on its own: a poll of steer_poll() counts the           *)
(* classified flows one by one, each at its smoothed rate, and computes    *)
(* the share of path 0 from the tally.  The flows are what the             *)
(* environment offers; every reachable tally is the tally of some flow     *)
(* table.                                                                  *)
(***************************************************************************)
EXTENDS PathShare

CONSTANTS
  MaxRateFlows,   (* MAX_RATE_FLOWS: capacity of the flow table, 256       *)
  ReportedRate    (* the smoothed rates a flow may have                    *)

ASSUME PathTallyAssumption ==
  /\ MaxRateFlows \in Nat
  /\ \A r \in ReportedRate : r \in Rate /\ r # 0   \* the device's floor is MIN_RATE = 64

VARIABLE tally

Counted == tally.total[0] + tally.total[1]

Init == tally = EmptyTally

Count(p, rate) ==
  /\ Counted < MaxRateFlows
  /\ tally' = CountFlow(tally, p, rate)

Next == \E p \in Path, rate \in ReportedRate : Count(p, rate)

Spec == Init /\ [][Next]_tally

-----------------------------------------------------------------------------
(* Tally counters are naturals and count no more flows than the table holds. *)
TypeOK ==
  /\ tally \in [total : [Path -> Nat], full : [Path -> Nat],
                reduced : [Path -> Nat], sum : [Path -> Nat]]
  /\ Counted <= MaxRateFlows

(***************************************************************************)
(* The tally is consistent: each flow is full or reduced, and the reduced  *)
(* sum is that of the reduced flows only (README, "Full-rate flows are     *)
(* excluded from each reduced-rate sum").  With FullRate = 2^20 and 256    *)
(* flows, sum * Buckets is below 2^35: the uint64_t products of steer_poll *)
(* cannot wrap.                                                            *)
(***************************************************************************)
TallyConsistent ==
  \A p \in Path :
    /\ tally.total[p] = tally.full[p] + tally.reduced[p]
    /\ tally.reduced[p] <= tally.sum[p]
    /\ tally.sum[p] <= tally.reduced[p] * (FullRate - 1)

(* No path is ever given fewer than MinBuckets buckets. *)
ShareInRange == Path0Share(tally) \in Share

(***************************************************************************)
(* Reference definition of the share (steering/README.md, "Egress          *)
(* control" 3 to 5): with reduced flows on both paths, the nearest integer *)
(* to the path-0 fraction of the buckets; with exactly one path entirely   *)
(* at full rate, everything but the minimum; the even split otherwise.     *)
(***************************************************************************)
Nearest(x, num, den) == 2 * x * den - den <= 2 * num /\ 2 * num < 2 * x * den + den
RefShare(x) ==
  IF tally.total[0] = 0 \/ tally.total[1] = 0 \/ (tally.reduced[0] = 0 /\ tally.reduced[1] = 0)
    THEN x = HalfShare
  ELSE IF tally.reduced[0] = 0 THEN x = MaxBuckets
  ELSE IF tally.reduced[1] = 0 THEN x = MinBuckets
  ELSE \E y \in 0 .. Buckets : /\ Nearest(y, tally.sum[0] * Buckets, tally.sum[0] + tally.sum[1])
                               /\ x = Clamp(y)
ShareIsReference == RefShare(Path0Share(tally))

(***************************************************************************)
(* The law does not depend on which path is called 0: exchanging the two   *)
(* paths exchanges the shares, up to the one bucket a tie is rounded to    *)
(* (Proportional rounds half up for path 0).  An odd number of buckets     *)
(* would leave the even split one short.                                   *)
(***************************************************************************)
Mirror(t) == [k \in DOMAIN t |-> [p \in Path |-> t[k][Other(p)]]]
ShareIsSymmetric ==
  Path0Share(tally) + Path0Share(Mirror(tally)) \in {2 * HalfShare, Buckets, Buckets + 1}

(***************************************************************************)
(* More demand never loses buckets: while both paths hold reduced flows, a *)
(* further reduced flow on path 0 does not shrink path 0's share, and one  *)
(* on path 1 does not grow it.                                             *)
(***************************************************************************)
ShareMonotone ==
  [][ (BothReduced(tally) /\ BothReduced(tally')) =>
        /\ tally'.sum[1] = tally.sum[1] => Path0Share(tally') >= Path0Share(tally)
        /\ tally'.sum[0] = tally.sum[0] => Path0Share(tally') <= Path0Share(tally) ]_tally

=============================================================================
