--------------------------- MODULE PathTallyProofs ---------------------------
(***************************************************************************)
(* The control law for any table size, bucket count, minimum and rates:    *)
(* the tallies are consistent, and the share computed from them is the     *)
(* reference share, always leaves each path its minimum, and is monotone:  *)
(* more flow on a path never takes a bucket from it.                       *)
(***************************************************************************)
EXTENDS PathTally, TLAPS

Tally == [total : [Path -> Nat], full : [Path -> Nat],
          reduced : [Path -> Nat], sum : [Path -> Nat]]

(* The same bound for a product of two naturals. *)
LEMMA ProductBound ==
  ASSUME NEW a \in Nat, NEW b \in Nat, NEW c \in Nat, a <= b
  PROVE  a * c \in Nat /\ a * c <= b * c
OBVIOUS

(* Counting a flow keeps a tally a tally. *)
LEMMA CountFlowType ==
  ASSUME NEW t \in Tally, NEW p \in Path, NEW rate \in Rate
  PROVE  CountFlow(t, p, rate) \in Tally
<1>1. rate \in Nat
  BY PathShareAssumption DEF Rate
<1>2. \A f \in [Path -> Nat], n \in Nat : Add(f, p, n) \in [Path -> Nat]
  BY DEF Add
<1>3. /\ t.total \in [Path -> Nat] /\ t.full \in [Path -> Nat]
      /\ t.reduced \in [Path -> Nat] /\ t.sum \in [Path -> Nat]
  BY DEF Tally
<1>4. /\ Add(t.total, p, 1) \in [Path -> Nat] /\ Add(t.full, p, 1) \in [Path -> Nat]
      /\ Add(t.reduced, p, 1) \in [Path -> Nat] /\ Add(t.sum, p, rate) \in [Path -> Nat]
  BY <1>1, <1>2, <1>3
<1> QED
  BY <1>3, <1>4 DEF CountFlow, Tally

LEMMA TallyFields ==
  ASSUME TypeOK
  PROVE  /\ tally \in Tally
         /\ \A p \in Path : /\ tally.total[p] \in Nat /\ tally.full[p] \in Nat
                            /\ tally.reduced[p] \in Nat /\ tally.sum[p] \in Nat
BY DEF TypeOK, Tally

(* A flow that was just counted, in the fields of its path and of the other. *)
LEMMA CountedFlow ==
  ASSUME TypeOK, NEW p \in Path, NEW rate \in Rate, NEW q \in Path
  PROVE  LET t == CountFlow(tally, p, rate) IN
         /\ q # p => /\ t.total[q] = tally.total[q] /\ t.full[q] = tally.full[q]
                     /\ t.reduced[q] = tally.reduced[q] /\ t.sum[q] = tally.sum[q]
         /\ q = p => /\ t.total[q] = tally.total[q] + 1
                     /\ rate = FullRate => /\ t.full[q] = tally.full[q] + 1
                                           /\ t.reduced[q] = tally.reduced[q]
                                           /\ t.sum[q] = tally.sum[q]
                     /\ rate # FullRate => /\ t.full[q] = tally.full[q]
                                           /\ t.reduced[q] = tally.reduced[q] + 1
                                           /\ t.sum[q] = tally.sum[q] + rate
<1>1. \A f \in [Path -> Nat], n \in Nat :
        Add(f, p, n)[q] = IF q = p THEN f[q] + n ELSE f[q]
  BY DEF Add
<1>2. rate \in Nat
  BY PathShareAssumption DEF Rate
<1>3. /\ tally.total \in [Path -> Nat] /\ tally.full \in [Path -> Nat]
      /\ tally.reduced \in [Path -> Nat] /\ tally.sum \in [Path -> Nat]
  BY DEF TypeOK
<1>4. /\ Add(tally.total, p, 1)[q] = IF q = p THEN tally.total[q] + 1 ELSE tally.total[q]
      /\ Add(tally.full, p, 1)[q] = IF q = p THEN tally.full[q] + 1 ELSE tally.full[q]
      /\ Add(tally.reduced, p, 1)[q] = IF q = p THEN tally.reduced[q] + 1 ELSE tally.reduced[q]
      /\ Add(tally.sum, p, rate)[q] = IF q = p THEN tally.sum[q] + rate ELSE tally.sum[q]
  BY <1>1, <1>2, <1>3
<1> QED
  BY <1>4 DEF CountFlow

(* The inductive invariant is TypeOK with TallyConsistent. *)
THEOREM TallyInvariant == Spec => [](TypeOK /\ TallyConsistent)
<1> USE PathShareAssumption, PathTallyAssumption
<1>1. Init => TypeOK /\ TallyConsistent
  BY DEF Init, TypeOK, TallyConsistent, EmptyTally, Counted, Path
<1>2. TypeOK /\ TallyConsistent /\ [Next]_tally => TypeOK' /\ TallyConsistent'
  <2> SUFFICES ASSUME TypeOK, TallyConsistent, [Next]_tally
               PROVE  TypeOK' /\ TallyConsistent'
    OBVIOUS
  <2>1. CASE UNCHANGED tally
    BY <2>1 DEF TypeOK, TallyConsistent, Counted
  <2>2. ASSUME NEW p \in Path, NEW rate \in ReportedRate, Count(p, rate)
        PROVE  TypeOK' /\ TallyConsistent'
    <3>1. rate \in Rate /\ rate # 0 /\ rate \in Nat /\ FullRate \in Nat
      BY DEF Rate
    <3>2. tally' \in Tally
      BY <2>2, <3>1, TallyFields, CountFlowType DEF Count
    <3>3. Counted' <= MaxRateFlows
      <4>1. 0 \in Path /\ 1 \in Path /\ (p = 0 \/ p = 1)
        BY DEF Path
      <4>2. Counted < MaxRateFlows /\ Counted' = Counted + 1
        <5>1. tally' = CountFlow(tally, p, rate) /\ Counted < MaxRateFlows
          BY <2>2 DEF Count
        <5>2. /\ 0 = p => tally'.total[0] = tally.total[0] + 1
              /\ 0 # p => tally'.total[0] = tally.total[0]
              /\ 1 = p => tally'.total[1] = tally.total[1] + 1
              /\ 1 # p => tally'.total[1] = tally.total[1]
          BY <3>1, <4>1, <5>1, CountedFlow
        <5>3. tally.total[0] \in Nat /\ tally.total[1] \in Nat
          BY <4>1, TallyFields
        <5> QED
          BY <4>1, <5>1, <5>2, <5>3 DEF Counted
      <4>3. Counted \in Nat
        BY <4>1, TallyFields DEF Counted
      <4> QED
        BY <4>2, <4>3
    <3>4. TallyConsistent'
      <4> SUFFICES ASSUME NEW q \in Path
                   PROVE  /\ tally'.total[q] = tally'.full[q] + tally'.reduced[q]
                          /\ tally'.reduced[q] <= tally'.sum[q]
                          /\ tally'.sum[q] <= tally'.reduced[q] * (FullRate - 1)
        BY DEF TallyConsistent
      <4>1. /\ tally.total[q] = tally.full[q] + tally.reduced[q]
            /\ tally.reduced[q] <= tally.sum[q]
            /\ tally.sum[q] <= tally.reduced[q] * (FullRate - 1)
        BY DEF TallyConsistent
      <4>2. /\ tally.total[q] \in Nat /\ tally.full[q] \in Nat
            /\ tally.reduced[q] \in Nat /\ tally.sum[q] \in Nat
        BY TallyFields
      <4>3. tally' = CountFlow(tally, p, rate)
        BY <2>2 DEF Count
      <4>4. CASE q # p
        BY <3>1, <4>1, <4>3, <4>4, CountedFlow
      <4>5. CASE q = p /\ rate = FullRate
        BY <3>1, <4>1, <4>2, <4>3, <4>5, CountedFlow
      <4>6. CASE q = p /\ rate # FullRate
        <5>1. /\ tally'.total[q] = tally.total[q] + 1 /\ tally'.full[q] = tally.full[q]
              /\ tally'.reduced[q] = tally.reduced[q] + 1 /\ tally'.sum[q] = tally.sum[q] + rate
          BY <3>1, <4>3, <4>6, CountedFlow
        <5>2. 1 <= rate /\ rate <= FullRate - 1
          BY <3>1, <4>6 DEF Rate
        <5>3. (tally.reduced[q] + 1) * (FullRate - 1)
                = tally.reduced[q] * (FullRate - 1) + (FullRate - 1)
          BY <3>1, <4>2
        <5>4. tally.reduced[q] * (FullRate - 1) \in Int
          BY <3>1, <4>2
        <5>5. tally.sum[q] + rate <= (tally.reduced[q] + 1) * (FullRate - 1)
          BY <3>1, <4>1, <4>2, <5>2, <5>3, <5>4
        <5> QED
          BY <3>1, <4>1, <4>2, <5>1, <5>2, <5>5
      <4> QED
        BY <4>4, <4>5, <4>6
    <3> QED
      BY <3>2, <3>3, <3>4 DEF TypeOK, Tally
  <2> QED
    BY <2>1, <2>2 DEF Next
<1> QED
  BY <1>1, <1>2, PTL DEF Spec

(* Rounding half up gives the nearest integer, and two complementary       *)
(* fractions are rounded to numbers that add up to the whole or one more.  *)
Rounded(x, n, s) == (x * n + s \div 2) \div s

LEMMA Rounding ==
  ASSUME NEW a \in Nat, NEW b \in Nat, NEW n \in Nat, a + b > 0
  PROVE  /\ Rounded(a, n, a + b) \in 0 .. n
         /\ Nearest(Rounded(a, n, a + b), a * n, a + b)
         /\ Rounded(a, n, a + b) + Rounded(b, n, a + b) \in {n, n + 1}
<1> DEFINE s == a + b
           h == s \div 2
           ya == (a * n + h) \div s
           yb == (b * n + h) \div s
<1>1. s \in Nat \ {0} /\ h \in Nat /\ (2 * h = s \/ 2 * h = s - 1)
  OBVIOUS
<1>2. a * n \in Nat /\ b * n \in Nat /\ a * n + b * n = n * s /\ a * n <= n * s
  OBVIOUS
<1>3. ASSUME NEW x \in Nat
      PROVE  /\ x \div s \in Nat
             /\ (x \div s) * s \in Nat
             /\ (x \div s) * s <= x /\ x < (x \div s) * s + s
  <2> HIDE DEF s
  <2>1. x \div s \in Nat /\ (x \div s) * s \in Nat
    BY <1>1
  <2>2. (x \div s) * s <= x /\ x < (x \div s) * s + s
    BY <1>1
  <2> QED
    BY <2>1, <2>2
<1>4. /\ ya \in Nat /\ ya * s \in Nat
      /\ ya * s <= a * n + h /\ a * n + h < ya * s + s
  BY <1>1, <1>2, <1>3
<1>5. /\ yb \in Nat /\ yb * s \in Nat
      /\ yb * s <= b * n + h /\ b * n + h < yb * s + s
  BY <1>1, <1>2, <1>3
<1> HIDE DEF s, h, ya, yb
<1>6. ya \in 0 .. n
  <2>1. ya * s < n * s + s
    BY <1>1, <1>2, <1>4
  <2>2. ya * s < (n + 1) * s
    BY <1>1, <2>1
  <2>3. ~(n + 1 <= ya)
    BY <1>1, <1>4, <2>2, ProductBound
  <2> QED
    BY <1>4, <2>3
<1>7. Nearest(ya, a * n, s)
  <2>1. 2 * (ya * s) - s <= 2 * (a * n) /\ 2 * (a * n) < 2 * (ya * s) + s
    BY <1>1, <1>2, <1>4
  <2>2. 2 * ya * s = 2 * (ya * s) /\ 2 * ya * s - s = 2 * (ya * s) - s
    BY <1>1, <1>4
  <2> QED
    BY <2>1, <2>2 DEF Nearest
<1>8. ya + yb \in {n, n + 1}
  <2>1. /\ ya * s + yb * s <= n * s + s
        /\ n * s < ya * s + yb * s + s
    <3>1. n * s \in Nat
      BY <1>1
    <3> QED
      BY <1>1, <1>2, <1>4, <1>5, <3>1
  <2>2. /\ (ya + yb) * s = ya * s + yb * s
        /\ (n + 2) * s = n * s + 2 * s
        /\ n > 0 => (n - 1) * s = n * s - s
    BY <1>1, <1>4, <1>5
  <2>3. ~(n + 2 <= ya + yb)
    <3>1. n + 2 <= ya + yb => (n + 2) * s <= (ya + yb) * s
      BY <1>1, <1>4, <1>5, ProductBound
    <3>2. n * s \in Nat
      BY <1>1
    <3> QED
      BY <1>1, <1>4, <1>5, <2>1, <2>2, <3>1, <3>2
  <2>4. ~(n > 0 /\ ya + yb <= n - 1)
    <3>1. n > 0 /\ ya + yb <= n - 1 => (ya + yb) * s <= (n - 1) * s
      BY <1>1, <1>4, <1>5, ProductBound
    <3>2. n * s \in Nat
      BY <1>1
    <3> QED
      BY <1>1, <1>4, <1>5, <2>1, <2>2, <3>1, <3>2
  <2> QED
    BY <1>4, <1>5, <2>3, <2>4
<1> QED
  BY <1>6, <1>7, <1>8 DEF ya, yb, h, s, Rounded

(* In the invariant, "all full" is "none reduced" for a path with flows. *)
LEMMA AllFullIsNoneReduced ==
  ASSUME TypeOK, TallyConsistent, NEW p \in Path
  PROVE  /\ AllFull(tally, p) <=> tally.total[p] # 0 /\ tally.reduced[p] = 0
         /\ tally.reduced[p] # 0 => tally.total[p] # 0 /\ tally.sum[p] # 0
<1>1. /\ tally.total[p] \in Nat /\ tally.full[p] \in Nat
      /\ tally.reduced[p] \in Nat /\ tally.sum[p] \in Nat
  BY TallyFields
<1>2. tally.total[p] = tally.full[p] + tally.reduced[p] /\ tally.reduced[p] <= tally.sum[p]
  BY DEF TallyConsistent
<1> QED
  BY <1>1, <1>2 DEF AllFull

(* The share is that of the reference definition, whatever the flows.      *)
THEOREM ShareIsTheReference == Spec => []ShareIsReference
<1> USE PathShareAssumption
<1>1. ASSUME TypeOK, TallyConsistent PROVE ShareIsReference
  <2> DEFINE r(p) == tally.reduced[p]
             n(p) == tally.total[p]
  <2>1. 0 \in Path /\ 1 \in Path /\ Other(0) = 1 /\ Other(1) = 0 /\ Path = {0, 1}
    BY DEF Path, Other
  <2>2. /\ r(0) \in Nat /\ r(1) \in Nat /\ n(0) \in Nat /\ n(1) \in Nat
        /\ tally.sum[0] \in Nat /\ tally.sum[1] \in Nat
    BY <1>1, <2>1, TallyFields
  <2>3. /\ AllFull(tally, 0) <=> n(0) # 0 /\ r(0) = 0
        /\ AllFull(tally, 1) <=> n(1) # 0 /\ r(1) = 0
    BY <1>1, <2>1, AllFullIsNoneReduced
  <2>4. /\ OneSided(tally, 0) <=> AllFull(tally, 0) /\ ~AllFull(tally, 1) /\ r(1) > 0
        /\ OneSided(tally, 1) <=> AllFull(tally, 1) /\ ~AllFull(tally, 0) /\ r(0) > 0
    BY <2>1 DEF OneSided
  <2>5. BothReduced(tally) <=> /\ ~AllFull(tally, 0) /\ r(0) > 0
                               /\ ~AllFull(tally, 1) /\ r(1) > 0
    BY <2>1 DEF BothReduced
  <2>6. CASE n(0) = 0 \/ n(1) = 0
    BY <2>1, <2>6 DEF Path0Share, RefShare, ShareIsReference
  <2>7. CASE n(0) # 0 /\ n(1) # 0 /\ r(0) = 0 /\ r(1) = 0
    BY <2>1, <2>2, <2>3, <2>4, <2>5, <2>7 DEF Path0Share, RefShare, ShareIsReference
  <2>8. CASE n(0) # 0 /\ n(1) # 0 /\ r(0) = 0 /\ r(1) # 0
    BY <2>1, <2>2, <2>3, <2>4, <2>8 DEF Path0Share, RefShare, ShareIsReference
  <2>9. CASE n(0) # 0 /\ n(1) # 0 /\ r(0) # 0 /\ r(1) = 0
    BY <2>1, <2>2, <2>3, <2>4, <2>9 DEF Path0Share, RefShare, ShareIsReference
  <2>10. CASE n(0) # 0 /\ n(1) # 0 /\ r(0) # 0 /\ r(1) # 0
    <3> DEFINE a == tally.sum[0]
               b == tally.sum[1]
    <3>1. a \in Nat /\ b \in Nat /\ a + b > 0 /\ Buckets \in Nat
      BY <1>1, <2>1, <2>2, <2>10, AllFullIsNoneReduced
    <3>2. Path0Share(tally) = Clamp(Proportional(tally))
      BY <2>1, <2>2, <2>3, <2>4, <2>5, <2>10 DEF Path0Share
    <3>3. Proportional(tally) = Rounded(a, Buckets, a + b)
      BY <3>1 DEF Proportional, Rounded
    <3>4. /\ Proportional(tally) \in 0 .. Buckets
          /\ Nearest(Proportional(tally), a * Buckets, a + b)
      <4>1. /\ Rounded(a, Buckets, a + b) \in 0 .. Buckets
            /\ Nearest(Rounded(a, Buckets, a + b), a * Buckets, a + b)
        <5> HIDE DEF a, b
        <5> QED
          BY <3>1, Rounding
      <4> QED
        BY <3>3, <4>1
    <3> QED
      BY <2>10, <3>2, <3>4 DEF RefShare, ShareIsReference
  <2> QED
    BY <2>6, <2>7, <2>8, <2>9, <2>10
<1> QED
  BY <1>1, TallyInvariant, PTL

(* No path is ever given fewer than MinBuckets buckets. *)
THEOREM ShareAlwaysInRange == Spec => []ShareInRange
<1> USE PathShareAssumption
<1>1. HalfShare \in Share /\ MinBuckets \in Share /\ MaxBuckets \in Share
  BY DEF HalfShare, Share, MaxBuckets
<1>2. \A y \in 0 .. Buckets : Clamp(y) \in Share
  BY DEF Clamp, Share, MaxBuckets
<1>3. ShareIsReference => ShareInRange
  BY <1>1, <1>2 DEF ShareIsReference, RefShare, ShareInRange
<1> QED
  BY <1>3, ShareIsTheReference, PTL

(***************************************************************************)
(* Exchanging the paths exchanges the shares, up to the bucket of a tie.   *)
(***************************************************************************)
THEOREM ShareAlwaysSymmetric == Spec => []ShareIsSymmetric
<1> USE PathShareAssumption
<1>1. ASSUME TypeOK, TallyConsistent PROVE ShareIsSymmetric
  <2> DEFINE m == Mirror(tally)
             a == tally.sum[0]
             b == tally.sum[1]
             H == HalfShare
  <2>1. 0 \in Path /\ 1 \in Path /\ Other(0) = 1 /\ Other(1) = 0 /\ Path = {0, 1}
    BY DEF Path, Other
  <2>2. /\ m.total[0] = tally.total[1] /\ m.total[1] = tally.total[0]
        /\ m.full[0] = tally.full[1] /\ m.full[1] = tally.full[0]
        /\ m.reduced[0] = tally.reduced[1] /\ m.reduced[1] = tally.reduced[0]
        /\ m.sum[0] = tally.sum[1] /\ m.sum[1] = tally.sum[0]
    <3>1. tally \in [total : [Path -> Nat], full : [Path -> Nat],
                     reduced : [Path -> Nat], sum : [Path -> Nat]]
      BY <1>1 DEF TypeOK
    <3>2. DOMAIN tally = {"total", "full", "reduced", "sum"}
      BY <3>1
    <3> QED
      BY <2>1, <3>2 DEF Mirror
  <2>3. /\ AllFull(m, 0) <=> AllFull(tally, 1)
        /\ AllFull(m, 1) <=> AllFull(tally, 0)
    BY <2>2 DEF AllFull
  <2>4. /\ OneSided(m, 0) <=> OneSided(tally, 1)
        /\ OneSided(m, 1) <=> OneSided(tally, 0)
        /\ BothReduced(m) <=> BothReduced(tally)
    BY <2>1, <2>2, <2>3 DEF OneSided, BothReduced
  <2>5. /\ (\E p \in Path : m.total[p] = 0) <=> (\E p \in Path : tally.total[p] = 0)
        /\ ~(OneSided(tally, 0) /\ OneSided(tally, 1))
    BY <2>1, <2>2 DEF OneSided
  <2>6. H \in Nat /\ MaxBuckets \in Nat /\ MinBuckets + MaxBuckets = Buckets
    BY DEF HalfShare, MaxBuckets
  <2>7. CASE ~(BothReduced(tally) /\ ~(\E p \in Path : tally.total[p] = 0)
               /\ ~OneSided(tally, 0) /\ ~OneSided(tally, 1))
    <3>1. \/ Path0Share(tally) = H /\ Path0Share(m) = H
          \/ Path0Share(tally) = MaxBuckets /\ Path0Share(m) = MinBuckets
          \/ Path0Share(tally) = MinBuckets /\ Path0Share(m) = MaxBuckets
      <4> HIDE DEF m
      <4> QED
        BY <2>4, <2>5, <2>7 DEF Path0Share
    <3> QED
      BY <2>6, <3>1 DEF ShareIsSymmetric
  <2>8. CASE BothReduced(tally) /\ ~(\E p \in Path : tally.total[p] = 0)
             /\ ~OneSided(tally, 0) /\ ~OneSided(tally, 1)
    <3>1. a \in Nat /\ b \in Nat /\ a + b > 0 /\ Buckets \in Nat
      BY <1>1, <2>1, <2>8, TallyFields, AllFullIsNoneReduced DEF BothReduced
    <3>2. /\ Path0Share(tally) = Clamp(Proportional(tally))
          /\ Path0Share(m) = Clamp(Proportional(m))
      <4> HIDE DEF m
      <4> QED
        BY <2>4, <2>5, <2>8 DEF Path0Share
    <3>3. /\ Proportional(tally) = Rounded(a, Buckets, a + b)
          /\ Proportional(m) = Rounded(b, Buckets, a + b)
      <4>1. b + a = a + b
        BY <3>1
      <4> HIDE DEF m
      <4> QED
        BY <2>2, <3>1, <4>1 DEF Proportional, Rounded
    <3>4. /\ Proportional(tally) \in Nat /\ Proportional(m) \in Nat
          /\ Proportional(tally) + Proportional(m) \in {Buckets, Buckets + 1}
      <4>1. b + a = a + b
        BY <3>1
      <4>2. /\ Rounded(a, Buckets, a + b) \in 0 .. Buckets
            /\ Rounded(a, Buckets, a + b) + Rounded(b, Buckets, a + b) \in {Buckets, Buckets + 1}
        <5> HIDE DEF a, b
        <5> QED
          BY <3>1, Rounding
      <4>3. Rounded(b, Buckets, a + b) \in 0 .. Buckets
        <5> HIDE DEF a, b
        <5>1. Rounded(b, Buckets, b + a) \in 0 .. Buckets
          BY <3>1, <4>1, Rounding
        <5> QED
          BY <4>1, <5>1
      <4> QED
        BY <3>3, <4>2, <4>3
    <3>5. \A x, y \in Nat : x + y \in {Buckets, Buckets + 1}
                          => Clamp(x) + Clamp(y) \in {Buckets, Buckets + 1}
      BY DEF Clamp, MaxBuckets
    <3> QED
      BY <3>2, <3>4, <3>5 DEF ShareIsSymmetric
  <2> QED
    BY <2>7, <2>8
<1> QED
  BY <1>1, TallyInvariant, PTL

-----------------------------------------------------------------------------
(* More demand never loses buckets.                                        *)

LEMMA QuotientAtLeast ==
  ASSUME NEW x \in Nat, NEW d \in Nat \ {0}, NEW q \in Nat, q * d <= x
  PROVE  x \div d \in Nat /\ q <= x \div d
<1> DEFINE y == x \div d
<1>1. y \in Nat /\ y * d \in Nat /\ y * d <= x /\ x < y * d + d
  OBVIOUS
<1> HIDE DEF y
<1>2. (y + 1) * d = y * d + d
  BY <1>1
<1>3. y + 1 <= q => (y + 1) * d <= q * d
  BY <1>1, ProductBound
<1>4. q * d \in Nat
  OBVIOUS
<1>5. ~(y + 1 <= q)
  BY <1>1, <1>2, <1>3, <1>4
<1> QED
  BY <1>1, <1>5 DEF y

(* The rounded fraction a / (a + b) of n grows with a and shrinks with b.  *)
LEMMA RoundedMonotone ==
  ASSUME NEW a \in Nat, NEW b \in Nat, NEW c \in Nat, NEW n \in Nat, a + b > 0
  PROVE  /\ Rounded(a, n, a + b) <= Rounded(a + c, n, a + b + c)
         /\ Rounded(a, n, a + b + c) <= Rounded(a, n, a + b)
<1> DEFINE s == a + b
           t == a + b + c
           h == s \div 2
           k == t \div 2
           u == a * n
           y == (u + h) \div s
           z == (u + k) \div t
<1>1. /\ s \in Nat \ {0} /\ t \in Nat \ {0} /\ t = s + c
      /\ h \in Nat /\ k \in Nat /\ h <= k /\ k <= h + c
  OBVIOUS
<1>2. u \in Nat /\ n * c \in Nat /\ (a + c) * n = u + n * c
  OBVIOUS
<1>3. y = Rounded(a, n, s) /\ z = Rounded(a, n, t)
  BY DEF Rounded
<1>4. y \in 0 .. n
  <2>1. Rounded(a, n, a + b) \in 0 .. n
    BY Rounding
  <2> QED
    BY <1>3, <2>1
<1>5. y * s \in Nat /\ y * s <= u + h /\ z \in Nat /\ z * t \in Nat /\ z * t <= u + k
  <2> HIDE DEF s, t, h, k, u
  <2>1. u + h \in Nat /\ u + k \in Nat
    BY <1>1, <1>2
  <2>2. \A x \in Nat, d \in Nat \ {0} :
          x \div d \in Nat /\ (x \div d) * d \in Nat /\ (x \div d) * d <= x
    OBVIOUS
  <2> QED
    BY <1>1, <2>1, <2>2
<1> HIDE DEF s, t, h, k, u, y, z
<1>6. y <= Rounded(a + c, n, t)
  <2>1. y * c \in Nat /\ y * c <= n * c
    BY <1>4, ProductBound
  <2>2. y * t = y * s + y * c
    BY <1>1, <1>4
  <2>3. y * t <= u + n * c + k
    BY <1>1, <1>2, <1>5, <2>1, <2>2
  <2>4. u + n * c + k \in Nat
    BY <1>1, <1>2
  <2>5. y <= (u + n * c + k) \div t
    BY <1>1, <1>4, <2>3, <2>4, QuotientAtLeast
  <2> QED
    BY <1>2, <2>5 DEF Rounded, k
<1>7. z <= y
  <2>1. CASE z = 0
    BY <1>4, <2>1
  <2>2. CASE z # 0
    <3>1. c <= z * c /\ z * c \in Nat
      <4>1. 1 * c <= z * c /\ z * c \in Nat
        BY <1>5, <2>2, ProductBound
      <4> QED
        BY <4>1
    <3>2. z * t = z * s + z * c /\ z * s \in Nat
      BY <1>1, <1>5
    <3>3. z * s <= u + h
      BY <1>1, <1>2, <1>5, <3>1, <3>2
    <3>4. u + h \in Nat
      BY <1>1, <1>2
    <3>5. z <= (u + h) \div s
      BY <1>1, <1>5, <3>3, <3>4, QuotientAtLeast
    <3> QED
      BY <3>5 DEF y
  <2> QED
    BY <2>1, <2>2
<1> QED
  BY <1>3, <1>6, <1>7 DEF s, t

(* With reduced flows on both paths the share is the clamped fraction. *)
LEMMA ShareOfBoth ==
  ASSUME NEW t \in Tally, BothReduced(t),
         \A p \in Path : t.total[p] = t.full[p] + t.reduced[p] /\ t.reduced[p] <= t.sum[p]
  PROVE  /\ t.sum[0] \in Nat /\ t.sum[1] \in Nat /\ t.sum[0] + t.sum[1] > 0
         /\ Path0Share(t) = Clamp(Rounded(t.sum[0], Buckets, t.sum[0] + t.sum[1]))
<1>1. 0 \in Path /\ 1 \in Path /\ Path = {0, 1}
  BY DEF Path
<1>2. \A p \in Path : /\ t.total[p] \in Nat /\ t.full[p] \in Nat
                      /\ t.reduced[p] \in Nat /\ t.sum[p] \in Nat
  BY DEF Tally
<1>3. \A p \in Path : ~AllFull(t, p) /\ t.reduced[p] > 0
  BY DEF BothReduced
<1>4. \A p \in Path : t.total[p] # 0 /\ t.sum[p] > 0
  BY <1>2, <1>3
<1>5. ~OneSided(t, 0) /\ ~OneSided(t, 1)
  BY <1>1, <1>3 DEF OneSided
<1>6. Path0Share(t) = Clamp(Proportional(t))
  BY <1>4, <1>5 DEF Path0Share
<1>7. t.sum[0] + t.sum[1] > 0
  BY <1>1, <1>2, <1>4
<1> QED
  BY <1>1, <1>2, <1>6, <1>7 DEF Proportional, Rounded

(***************************************************************************)
(* While both paths hold reduced flows, a further flow of a path never     *)
(* shrinks the share of that path: neither the rounding nor the clamp of   *)
(* steer_poll loses a bucket.                                              *)
(***************************************************************************)
THEOREM ShareAlwaysMonotone == Spec => ShareMonotone
<1> USE PathShareAssumption, PathTallyAssumption
<1> DEFINE A == (BothReduced(tally) /\ BothReduced(tally')) =>
              /\ tally'.sum[1] = tally.sum[1] => Path0Share(tally') >= Path0Share(tally)
              /\ tally'.sum[0] = tally.sum[0] => Path0Share(tally') <= Path0Share(tally)
<1>1. ASSUME TypeOK, TallyConsistent, TypeOK', TallyConsistent', [Next]_tally,
             BothReduced(tally), BothReduced(tally')
      PROVE  /\ tally'.sum[1] = tally.sum[1] => Path0Share(tally') >= Path0Share(tally)
             /\ tally'.sum[0] = tally.sum[0] => Path0Share(tally') <= Path0Share(tally)
  <2> DEFINE a == tally.sum[0]
             b == tally.sum[1]
             x == tally'.sum[0]
             y == tally'.sum[1]
  <2>1. /\ a \in Nat /\ b \in Nat /\ a + b > 0
        /\ Path0Share(tally) = Clamp(Rounded(a, Buckets, a + b))
    BY <1>1, TallyFields, ShareOfBoth DEF TallyConsistent
  <2>2. /\ x \in Nat /\ y \in Nat /\ x + y > 0
        /\ Path0Share(tally') = Clamp(Rounded(x, Buckets, x + y))
    <3>1. tally' \in Tally
      BY <1>1 DEF TypeOK, Tally
    <3>2. \A p \in Path : /\ tally'.total[p] = tally'.full[p] + tally'.reduced[p]
                          /\ tally'.reduced[p] <= tally'.sum[p]
      BY <1>1 DEF TallyConsistent
    <3> QED
      BY <1>1, <3>1, <3>2, ShareOfBoth
  <2>3. a <= x /\ b <= y
    <3>1. CASE UNCHANGED tally
      BY <2>1, <3>1
    <3>2. ASSUME NEW p \in Path, NEW rate \in ReportedRate, Count(p, rate)
          PROVE  a <= x /\ b <= y
      <4>1. rate \in Rate /\ rate \in Nat
        BY DEF Rate
      <4>2. tally' = CountFlow(tally, p, rate) /\ 0 \in Path /\ 1 \in Path
        BY <3>2 DEF Count, Path
      <4>3. /\ x = a \/ x = a + rate
            /\ y = b \/ y = b + rate
        BY <1>1, <4>1, <4>2, CountedFlow
      <4> QED
        BY <2>1, <4>1, <4>3
    <3> QED
      BY <1>1, <3>1, <3>2 DEF Next
  <2> HIDE DEF a, b, x, y
  <2>4. \A v, w \in Nat : v <= w => Clamp(v) <= Clamp(w)
    BY DEF Clamp, MaxBuckets
  <2>5. Rounded(a, Buckets, a + b) \in Nat /\ Rounded(x, Buckets, x + y) \in Nat
    <3>1. Buckets \in Nat
      OBVIOUS
    <3>2. Rounded(a, Buckets, a + b) \in 0 .. Buckets
      BY <2>1, <3>1, Rounding
    <3>3. Rounded(x, Buckets, x + y) \in 0 .. Buckets
      BY <2>2, <3>1, Rounding
    <3> QED
      BY <3>2, <3>3
  <2>6. ASSUME y = b PROVE Path0Share(tally') >= Path0Share(tally)
    <3>1. PICK c \in Nat : x = a + c
      <4>1. x - a \in Nat /\ x = a + (x - a)
        BY <2>1, <2>2, <2>3
      <4> QED
        BY <4>1
    <3>2. Rounded(a, Buckets, a + b) <= Rounded(a + c, Buckets, a + b + c)
      BY <2>1, RoundedMonotone
    <3>3. x + y = a + b + c
      BY <2>1, <2>6, <3>1
    <3>4. Clamp(Rounded(a, Buckets, a + b)) <= Clamp(Rounded(x, Buckets, x + y))
      BY <2>4, <2>5, <3>1, <3>2, <3>3
    <3>5. \A v \in Nat : Clamp(v) \in Int
      BY DEF Clamp, MaxBuckets
    <3> QED
      BY <2>1, <2>2, <2>5, <3>4, <3>5
  <2>7. ASSUME x = a PROVE Path0Share(tally') <= Path0Share(tally)
    <3>1. PICK c \in Nat : y = b + c
      <4>1. y - b \in Nat /\ y = b + (y - b)
        BY <2>1, <2>2, <2>3
      <4> QED
        BY <4>1
    <3>2. Rounded(a, Buckets, a + b + c) <= Rounded(a, Buckets, a + b)
      BY <2>1, RoundedMonotone
    <3>3. x + y = a + b + c
      BY <2>1, <2>7, <3>1
    <3> QED
      BY <2>1, <2>2, <2>4, <2>5, <2>7, <3>2, <3>3
  <2> QED
    BY <2>6, <2>7 DEF a, b, x, y
<1>2. TypeOK /\ TallyConsistent /\ TypeOK' /\ TallyConsistent' /\ [Next]_tally => [A]_tally
  BY <1>1
<1> QED
  BY <1>2, TallyInvariant, PTL DEF Spec, ShareMonotone

=============================================================================
