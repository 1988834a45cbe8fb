------------------------------ MODULE PathShare ------------------------------
(***************************************************************************)
(* The path-share control law of the egress steering process               *)
(* (steering/steer.c, steer_poll): how the rate reports of one poll        *)
(* interval become one sample per flow, how the samples are smoothed, how  *)
(* the flows of the two paths are tallied, and how many of the dispatch    *)
(* buckets path 0 is given.  All of it is integer arithmetic.              *)
(*                                                                         *)
(* The code computes in uint64_t; PathTally shows that the intermediate    *)
(* values stay far below that width, so Nat is faithful here.              *)
(***************************************************************************)
EXTENDS Integers

CONSTANTS
  FullRate,    (* PCC_FULL_RATE: the rate of an uncongested flow, 1 << 20  *)
  Buckets,     (* PATH_SHARE_BUCKETS: rules of the dispatch table, 64      *)
  MinBuckets,  (* PATH_SHARE_MIN_BUCKETS: least share of a path, 3         *)
  EwmaNum,     (* PATH_RATE_EWMA_NUMERATOR: weight of a new sample, 1      *)
  EwmaDen      (* PATH_RATE_EWMA_DENOMINATOR: 8                            *)

(***************************************************************************)
(* What the #defines at the top of steer.c satisfy; the bounds on the EWMA  *)
(* weight are those its #if enforces.                                      *)
(***************************************************************************)
ASSUME PathShareAssumption ==
  /\ FullRate \in Nat \ {0}
  /\ MinBuckets \in Nat
  /\ Buckets \in Nat \ {0}
  /\ 2 * MinBuckets <= Buckets
  /\ EwmaNum \in Nat \ {0}
  /\ EwmaDen \in Nat
  /\ EwmaNum <= EwmaDen

Path == 0 .. 1                  \* NB_PATHS
Other(p) == 1 - p
Rate == 0 .. FullRate
Bucket == 0 .. Buckets - 1

-----------------------------------------------------------------------------
(* One flow: the mean of the interval's reports, and the EWMA.             *)

IntervalRate(latest, sum, reports) ==
  IF reports # 0 THEN sum \div reports ELSE latest

Smooth(smoothed, rate) ==
  (smoothed * (EwmaDen - EwmaNum) + rate * EwmaNum + EwmaDen \div 2) \div EwmaDen

-----------------------------------------------------------------------------
(* All flows: how many of a path's flows run at full rate, how many are    *)
(* reduced, and the sum of the reduced rates.                              *)

EmptyTally ==
  [total |-> [p \in Path |-> 0], full |-> [p \in Path |-> 0],
   reduced |-> [p \in Path |-> 0], sum |-> [p \in Path |-> 0]]

Add(f, p, n) == [f EXCEPT ![p] = @ + n]

\* variant: a full-rate flow enters the reduced sum
CountFlowSumAll(t, p, rate) ==
  IF rate = FullRate
    THEN [total |-> Add(t.total, p, 1), full |-> Add(t.full, p, 1),
          reduced |-> t.reduced, sum |-> Add(t.sum, p, rate)]
    ELSE [total |-> Add(t.total, p, 1), full |-> t.full,
          reduced |-> Add(t.reduced, p, 1), sum |-> Add(t.sum, p, rate)]

CountFlow(t, p, rate) ==
  IF rate = FullRate
    THEN [total |-> Add(t.total, p, 1), full |-> Add(t.full, p, 1),
          reduced |-> t.reduced, sum |-> t.sum]
    ELSE [total |-> Add(t.total, p, 1), full |-> t.full,
          reduced |-> Add(t.reduced, p, 1), sum |-> Add(t.sum, p, rate)]

AllFull(t, p) == t.total[p] > 0 /\ t.full[p] = t.total[p]

\* variant: only path 0 can be the uncongested one
OneSidedPath0(t, p) == p = 0 /\ AllFull(t, 0) /\ ~AllFull(t, 1) /\ t.reduced[1] > 0
\* variant: "all full" is taken for "not all full"
OneSidedNegated(t, p) == ~AllFull(t, p) /\ AllFull(t, Other(p)) /\ t.reduced[p] > 0

OneSided(t, p) == AllFull(t, p) /\ ~AllFull(t, Other(p)) /\ t.reduced[Other(p)] > 0
BothReduced(t) == \A p \in Path : ~AllFull(t, p) /\ t.reduced[p] > 0

-----------------------------------------------------------------------------
(* The buckets of path 0.                                                  *)

HalfShare == Buckets \div 2
MaxBuckets == Buckets - MinBuckets
Share == MinBuckets .. MaxBuckets

\* variant: only the lower bound is enforced
ClampLow(x) == IF x < MinBuckets THEN MinBuckets ELSE x

Clamp(x) == IF x < MinBuckets THEN MinBuckets ELSE IF x > MaxBuckets THEN MaxBuckets ELSE x

\* variant: the mean rates of the two paths are compared instead of the sums
ProportionalMean(t) ==
  LET mean(p) == t.sum[p] \div t.reduced[p]
  IN  (mean(0) * Buckets) \div (mean(0) + mean(1))

Proportional(t) ==
  LET sum == t.sum[0] + t.sum[1]
  IN  IF sum > 0 THEN (t.sum[0] * Buckets + sum \div 2) \div sum ELSE HalfShare

Path0Share(t) ==
  IF \E p \in Path : t.total[p] = 0 THEN HalfShare
  ELSE IF OneSided(t, 0) THEN MaxBuckets
  ELSE IF OneSided(t, 1) THEN MinBuckets
  ELSE IF BothReduced(t) THEN Clamp(Proportional(t))
  ELSE HalfShare

\* variant: off by one at the boundary
WantedPathInclusive(bucket, share) == IF bucket <= share THEN 0 ELSE 1

(* The path a bucket forwards to under a share: path 0 has the low ones.   *)
WantedPath(bucket, share) == IF bucket < share THEN 0 ELSE 1
Split(share) == [b \in Bucket |-> WantedPath(b, share)]

=============================================================================
