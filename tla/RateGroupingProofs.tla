-------------------------- MODULE RateGroupingProofs --------------------------
(***************************************************************************)
(* The tables behind rate_lock, for any set of QPNs and connections, any   *)
(* table sizes and any rates: their types and capacities; that a flow      *)
(* which was reduced once never counts as a full-rate flow again; that the *)
(* tally is that of the table; and, while no QPN and no comm_id is used    *)
(* again, that flows are grouped by receiver whatever order CM packets and *)
(* reports come in.                                                        *)
(***************************************************************************)
EXTENDS RateGrouping, SequenceTheorems, FiniteSetTheorems, WellFoundedInduction, TLAPS

(* The control law: the EWMA stays within the range of rates, a reduced    *)
(* rate stays reduced, and the share is always one the dispatch table can  *)
(* take.                                                                   *)

Tally == [total : [Path -> Nat], full : [Path -> Nat],
          reduced : [Path -> Nat], sum : [Path -> Nat]]

(* The integer quotient of x by d is below q when x is below q * d. *)
LEMMA QuotientBound ==
  ASSUME NEW x \in Nat, NEW d \in Nat \ {0}, NEW q \in Nat, x < q * d
  PROVE  x \div d \in Nat /\ x \div d < q
<1> DEFINE y == x \div d
<1>1. y \in Nat /\ y * d <= x
  OBVIOUS
<1>2. ASSUME y >= q PROVE FALSE
  <2>1. y * d >= q * d
    BY <1>1, <1>2
  <2> QED
    BY <1>1, <2>1
<1> QED
  BY <1>1, <1>2

(* The same bound for a product of two naturals. *)
LEMMA ProductBound ==
  ASSUME NEW a \in Nat, NEW b \in Nat, NEW c \in Nat, a <= b
  PROVE  a * c \in Nat /\ a * c <= b * c
OBVIOUS

(* The weights of steer.c: the history weighs more than a new sample.       *)
HistoryOutweighs == 2 * EwmaNum < EwmaDen

(* A smoothed rate is a rate; and if the history outweighs the sample, one  *)
(* below FullRate is never rounded up to it (steer_poll, the EWMA).         *)
LEMMA SmoothRange ==
  ASSUME NEW s \in Rate, NEW r \in Rate
  PROVE  /\ Smooth(s, r) \in Rate
         /\ HistoryOutweighs /\ s # FullRate => Smooth(s, r) # FullRate
<1> USE PathShareAssumption
<1> DEFINE keep == EwmaDen - EwmaNum
           half == EwmaDen \div 2
           x == s * keep + r * EwmaNum + half
<1>1. keep \in Nat /\ half \in Nat /\ half < EwmaDen
  OBVIOUS
<1>2. s \in Nat /\ r \in Nat /\ s <= FullRate /\ r <= FullRate /\ FullRate \in Nat
  BY DEF Rate
<1>3. r * EwmaNum \in Nat /\ r * EwmaNum <= FullRate * EwmaNum
  BY <1>2, ProductBound
<1>4. s * keep \in Nat /\ s * keep <= FullRate * keep
  BY <1>1, <1>2, ProductBound
<1>5. FullRate * keep + FullRate * EwmaNum = FullRate * EwmaDen
  BY <1>2
<1>6. x \in Nat /\ x < (FullRate + 1) * EwmaDen
  <2>1. (FullRate + 1) * EwmaDen = FullRate * EwmaDen + EwmaDen
    BY <1>2
  <2> HIDE DEF keep, half
  <2> QED
    BY <1>1, <1>3, <1>4, <1>5, <2>1
<1>7. x \div EwmaDen \in Nat /\ x \div EwmaDen < FullRate + 1
  <2> HIDE DEF x
  <2> QED
    BY <1>2, <1>6, QuotientBound
<1>8. ASSUME HistoryOutweighs, s # FullRate PROVE x \div EwmaDen < FullRate
  <2>0. half < keep
    BY <1>8 DEF HistoryOutweighs
  <2>1. s * keep <= (FullRate - 1) * keep
    <3>1. FullRate - 1 \in Nat /\ s <= FullRate - 1
      BY <1>2, <1>8
    <3> HIDE DEF keep
    <3> QED
      BY <1>1, <1>2, <3>1, ProductBound
  <2>2. (FullRate - 1) * keep = FullRate * keep - keep
    BY <1>1, <1>2
  <2>3. x < FullRate * EwmaDen
    <3> HIDE DEF keep, half
    <3> QED
      BY <2>0, <1>1, <1>3, <1>4, <1>5, <2>1, <2>2
  <2> HIDE DEF x
  <2> QED
    BY <1>2, <1>6, <2>3, QuotientBound
<1>9. Smooth(s, r) = x \div EwmaDen
  BY DEF Smooth
<1> HIDE DEF x
<1> QED
  BY <1>2, <1>7, <1>8, <1>9 DEF Rate

(* The mean of the reports of an interval is a rate. *)
LEMMA IntervalRateIsRate ==
  ASSUME NEW latest \in Rate, NEW sum \in Nat, NEW reports \in Nat,
         sum <= reports * FullRate
  PROVE  IntervalRate(latest, sum, reports) \in Rate
<1> USE PathShareAssumption
<1>1. CASE reports = 0
  BY <1>1 DEF IntervalRate
<1>2. CASE reports # 0
  <2>1. sum < (FullRate + 1) * reports
    <3>1. (FullRate + 1) * reports = reports * FullRate + reports
      OBVIOUS
    <3> QED
      BY <1>2, <3>1
  <2>2. sum \div reports \in Nat /\ sum \div reports < FullRate + 1
    BY <1>2, <2>1, QuotientBound
  <2> QED
    BY <1>2, <2>2 DEF IntervalRate, Rate
<1> QED
  BY <1>1, <1>2

(* The rounded proportional share is a natural number. *)
LEMMA ProportionalIsNat ==
  ASSUME NEW t \in Tally
  PROVE  Proportional(t) \in Nat
<1> USE PathShareAssumption
<1> DEFINE s == t.sum[0] + t.sum[1]
<1>1. t.sum[0] \in Nat /\ t.sum[1] \in Nat
  BY DEF Tally, Path
<1>2. t.sum[0] * Buckets + s \div 2 \in Nat
  <2>1. t.sum[0] * Buckets \in Nat
    BY <1>1
  <2>2. s \div 2 \in Nat
    BY <1>1
  <2> QED
    BY <2>1, <2>2
<1>3. CASE s > 0
  <2>1. Proportional(t) = (t.sum[0] * Buckets + s \div 2) \div s
    BY <1>3 DEF Proportional
  <2> DEFINE x == t.sum[0] * Buckets + s \div 2
  <2>2. x \in Nat /\ s \in Nat \ {0}
    BY <1>1, <1>2, <1>3
  <2> HIDE DEF x, s
  <2>3. x \div s \in Nat
    BY <2>2
  <2> QED
    BY <2>1, <2>3 DEF x
<1>4. CASE ~(s > 0)
  BY <1>4 DEF Proportional, HalfShare
<1> QED
  BY <1>3, <1>4

(* Whatever the flows, the share leaves each path its minimum (steer_poll, *)
(* the clamp and the even split).                                          *)
LEMMA Path0ShareInShare ==
  ASSUME NEW t \in Tally
  PROVE  Path0Share(t) \in Share
<1> USE PathShareAssumption
<1>1. HalfShare \in Share /\ MinBuckets \in Share /\ MaxBuckets \in Share
  BY DEF HalfShare, Share, MaxBuckets
<1>2. \A x \in Nat : Clamp(x) \in Share
  BY DEF Clamp, Share, MaxBuckets
<1>3. Clamp(Proportional(t)) \in Share
  BY <1>2, ProportionalIsNat
<1> QED
  BY <1>1, <1>3 DEF Path0Share

(* Counting a flow keeps a tally a tally. *)
LEMMA CountFlowType ==
  ASSUME NEW t \in Tally, NEW p \in Path, NEW rate \in Rate
  PROVE  CountFlow(t, p, rate) \in Tally
<1>1. rate \in Nat
  BY PathShareAssumption DEF Rate
<1>2. \A f \in [Path -> Nat], n \in Nat : Add(f, p, n) \in [Path -> Nat]
  BY DEF Add
<1>3. /\ t.total \in [Path -> Nat] /\ t.full \in [Path -> Nat]
      /\ t.reduced \in [Path -> Nat] /\ t.sum \in [Path -> Nat]
  BY DEF Tally
<1>4. /\ Add(t.total, p, 1) \in [Path -> Nat] /\ Add(t.full, p, 1) \in [Path -> Nat]
      /\ Add(t.reduced, p, 1) \in [Path -> Nat] /\ Add(t.sum, p, rate) \in [Path -> Nat]
  BY <1>1, <1>2, <1>3
<1> QED
  BY <1>3, <1>4 DEF CountFlow, Tally

-----------------------------------------------------------------------------
(* The type invariant, and the type of the tally of the walk. *)
TypeInv == TypeOK /\ tally \in Tally

LEMMA Constants ==
  /\ PathOrUnknown = {0, 1, -1} /\ Path = {0, 1}
  /\ 0 \in Rate /\ FullRate \in Nat /\ NoRate \notin Rate
  /\ \A r \in Rate : r \in Nat
  /\ \A ip : PathOf(ip) \in PathOrUnknown
BY PathShareAssumption DEF PathOrUnknown, Path, Unknown, NoRate, Rate, PathOf

(* Changing the path of a flow. *)
LEMMA SetPathType ==
  ASSUME TypeOK, NEW q \in Qpn, NEW p \in PathOrUnknown, SetPath(q, p)
  PROVE  /\ rateFlow' \in [Qpn -> Flow]
         /\ \A r \in Qpn : /\ rateFlow'[r].sum = rateFlow[r].sum
                           /\ rateFlow'[r].reports = rateFlow[r].reports
                           /\ rateFlow'[r].smoothed = rateFlow[r].smoothed
<1>1. rateFlow \in [Qpn -> Flow]
  BY DEF TypeOK
<1> DEFINE new == [rateFlow[q] EXCEPT !.path = p]
<1>2. /\ new \in Flow /\ new.sum = rateFlow[q].sum /\ new.reports = rateFlow[q].reports
      /\ new.smoothed = rateFlow[q].smoothed
  BY <1>1 DEF Flow
<1>3. rateFlow' = [rateFlow EXCEPT ![q] = new] \/ rateFlow' = rateFlow
  BY DEF SetPath
<1> HIDE DEF new
<1> QED
  BY <1>1, <1>2, <1>3

(* A report, and a sample, of a flow.                                      *)
LEMMA ReportedType ==
  ASSUME NEW f \in Flow, f.sum <= f.reports * FullRate,
         NEW rate \in Rate, NEW known \in PathOrUnknown
  PROVE  LET g == Reported(f, rate, known) IN
         /\ g \in Flow
         /\ g.sum <= g.reports * FullRate
         /\ g.smoothed = f.smoothed
<1>1. /\ f.latest \in Rate /\ f.sum \in Nat /\ f.reports \in Nat
      /\ f.smoothed \in Rate \cup {NoRate} /\ f.path \in PathOrUnknown
  BY DEF Flow
<1>2. f.sum + rate \in Nat /\ f.reports + 1 \in Nat
  BY <1>1, Constants
<1>3. f.sum + rate <= (f.reports + 1) * FullRate
  <2>1. (f.reports + 1) * FullRate = f.reports * FullRate + FullRate
        /\ f.reports * FullRate \in Nat
    BY <1>1, Constants
  <2>2. rate <= FullRate
    BY DEF Rate
  <2> QED
    BY <1>1, <2>1, <2>2, Constants
<1> QED
  BY <1>1, <1>2, <1>3 DEF Reported, Flow

LEMMA SampleType ==
  ASSUME NEW f \in Flow, f.sum <= f.reports * FullRate
  PROVE  /\ Sample(f) \in Rate
         /\ (HistoryOutweighs /\ f.smoothed \in Rate /\ f.smoothed # FullRate) => Sample(f) # FullRate
         /\ Sampled(f, Sample(f)) \in Flow
         /\ Sampled(f, Sample(f)).sum <= Sampled(f, Sample(f)).reports * FullRate
         /\ Sampled(f, Sample(f)).smoothed = Sample(f)
<1>1. /\ f.latest \in Rate /\ f.sum \in Nat /\ f.reports \in Nat
      /\ f.smoothed \in Rate \cup {NoRate} /\ f.path \in PathOrUnknown
  BY DEF Flow
<1> DEFINE r == IntervalRate(f.latest, f.sum, f.reports)
<1>2. r \in Rate
  BY <1>1, IntervalRateIsRate
<1>3. CASE f.smoothed = NoRate
  <2>1. Sample(f) \in Rate
    BY <1>2, <1>3 DEF Sample
  <2> QED
    BY <1>1, <1>3, <2>1, Constants DEF Sampled, Flow
<1>4. CASE f.smoothed # NoRate
  <2>1. Sample(f) = Smooth(f.smoothed, r) /\ f.smoothed \in Rate
    BY <1>1, <1>4 DEF Sample
  <2>2. Sample(f) \in Rate /\ (HistoryOutweighs /\ f.smoothed # FullRate => Sample(f) # FullRate)
    BY <1>2, <2>1, SmoothRange
  <2> QED
    BY <1>1, <2>1, <2>2, Constants DEF Sampled, Flow
<1> QED
  BY <1>3, <1>4

-----------------------------------------------------------------------------
(* The type invariant is inductive together with the type of the tally.    *)

LEMMA KnownPathsType ==
  ASSUME TypeOK, NEW q \in Qpn
  PROVE  KnownPaths(q) \subseteq PathOrUnknown
<1>1. \A i \in RequestsFor(q) : i \in DOMAIN cmRequest
  BY DEF RequestsFor, FirstOf
<1>2. \A i \in DOMAIN cmRequest : cmRequest[i] \in Request
  BY DEF TypeOK
<1>3. \A i \in RequestsFor(q) : cmRequest[i].path \in PathOrUnknown
  BY <1>1, <1>2 DEF Request
<1> QED
  BY <1>3, Constants DEF KnownPaths, TypeOK, Unknown

(* Flow updates keep the sums of all other flows within their bound. *)
LEMMA FlowUpdate ==
  ASSUME TypeOK, NEW q \in Qpn, NEW f \in Flow, f.sum <= f.reports * FullRate,
         rateFlow' = [rateFlow EXCEPT ![q] = f]
  PROVE  /\ rateFlow' \in [Qpn -> Flow]
         /\ \A r \in Qpn : rateFlow'[r].sum <= rateFlow'[r].reports * FullRate
BY DEF TypeOK

LEMMA TypeInit == Init => TypeInv
<1> SUFFICES ASSUME Init PROVE TypeInv
  OBVIOUS
<1> USE PathShareAssumption, RateGroupingAssumption
<1>1. NewFlow \in Flow /\ NewFlow.sum <= NewFlow.reports * FullRate
  BY Constants DEF NewFlow, Flow, NoRate, Unknown
<1>2. rateFlow \in [Qpn -> Flow] /\ \A q \in Qpn : rateFlow[q].sum <= rateFlow[q].reports * FullRate
  BY <1>1 DEF Init
<1>3. Cardinality(tracked) = 0 /\ tracked = {} /\ todo = {}
  BY FS_EmptySet DEF Init
<1>4. Paired = {} /\ Cardinality(Paired) = 0 /\ qpnPair \in [Qpn -> PathOrUnknown]
  BY FS_EmptySet, Constants DEF Init, Paired, Unknown
<1>5. cmRequest \in Seq(Request) /\ Len(cmRequest) = 0
  BY DEF Init
<1>6. cnpEntry \in Seq([qpn : Qpn, path : Path]) /\ Len(cnpEntry) = 0
  BY DEF Init
<1>7. wanted \in Share
  BY DEF Init, HalfShare, Share, MaxBuckets
<1>8. tally \in Tally
  BY DEF Init, EmptyTally, Tally
<1> QED
  BY <1>2, <1>3, <1>4, <1>5, <1>6, <1>7, <1>8 DEF Init, TypeInv, TypeOK

(* A critical section of the CM parser keeps the flow table typed.          *)
LEMMA CmType ==
  ASSUME TypeInv, UNCHANGED <<live, tracked, walk>>,
         \/ UNCHANGED rateFlow
         \/ \E q \in Qpn, p \in PathOrUnknown : SetPath(q, p),
         cmRequest' \in Seq(Request), Len(cmRequest') <= MaxCmConnections,
         qpnPair' \in [Qpn -> PathOrUnknown], Cardinality(Paired') <= MaxCmConnections,
         cnpEntry' \in Seq([qpn : Qpn, path : Path]), Len(cnpEntry') <= MaxCnpQps
  PROVE  TypeInv'
<1>1. /\ rateFlow' \in [Qpn -> Flow]
      /\ \A q \in Qpn : rateFlow'[q].sum <= rateFlow'[q].reports * FullRate
  BY SetPathType DEF TypeInv, TypeOK
<1> QED
  BY <1>1 DEF TypeInv, TypeOK, walk

LEMMA TypeStep == TypeInv /\ [Next]_vars => TypeInv'
<1> SUFFICES ASSUME TypeInv, [Next]_vars PROVE TypeInv'
  OBVIOUS
<1> USE PathShareAssumption, RateGroupingAssumption
<1>0. TypeOK /\ tally \in Tally
  BY DEF TypeInv
<1>1. CASE UNCHANGED vars
  BY <1>1 DEF vars, tables, walk, TypeInv, TypeOK, Paired
<1>2. ASSUME NEW c \in Connection, Open(c) PROVE TypeInv'
  BY <1>2 DEF Open, tables, walk, TypeInv, TypeOK, Paired
<1>3. ASSUME NEW c \in Connection, RememberCmRequest(c) PROVE TypeInv'
  <2> DEFINE path == PathOf(c.ip)
             entry == [comm |-> c.comm, qpn |-> c.qpn, path |-> path]
  <2>1. entry \in Request /\ c.qpn \in Qpn /\ path \in PathOrUnknown
    BY Constants DEF Request
  <2>2. /\ UNCHANGED <<live, tracked, qpnPair, cnpEntry, walk>>
        /\ \/ /\ \E i \in RequestsBy(c.comm) : cmRequest' = [cmRequest EXCEPT ![i] = entry]
              /\ UNCHANGED rateFlow
           \/ /\ cmRequest' = IF Len(cmRequest) < MaxCmConnections
                                THEN Append(cmRequest, entry) ELSE cmRequest
              /\ (UNCHANGED rateFlow \/ SetPath(c.qpn, path))
    BY <1>3 DEF RememberCmRequest
  <2> HIDE DEF path, entry
  <2>3. cmRequest \in Seq(Request) /\ Len(cmRequest) <= MaxCmConnections
    BY <1>0 DEF TypeOK
  <2>4. \A i \in RequestsBy(c.comm) : i \in 1 .. Len(cmRequest)
    BY <2>3 DEF RequestsBy, FirstOf
  <2>5. cmRequest' \in Seq(Request) /\ Len(cmRequest') <= MaxCmConnections
    <3>1. ASSUME NEW i \in RequestsBy(c.comm), cmRequest' = [cmRequest EXCEPT ![i] = entry]
          PROVE  cmRequest' \in Seq(Request) /\ Len(cmRequest') <= MaxCmConnections
      BY <2>1, <2>3, <2>4, <3>1, ExceptSeq
    <3>2. CASE cmRequest' = Append(cmRequest, entry) /\ Len(cmRequest) < MaxCmConnections
      <4>1. cmRequest' \in Seq(Request) /\ Len(cmRequest') = Len(cmRequest) + 1
        BY <2>1, <2>3, <3>2, AppendProperties
      <4>2. Len(cmRequest) \in Nat
        BY <2>3, LenProperties
      <4> QED
        BY <3>2, <4>1, <4>2
    <3>3. CASE cmRequest' = cmRequest
      BY <2>3, <3>3
    <3> QED
      BY <2>2, <3>1, <3>2, <3>3
  <2>6. /\ qpnPair' \in [Qpn -> PathOrUnknown] /\ Cardinality(Paired') <= MaxCmConnections
        /\ cnpEntry' \in Seq([qpn : Qpn, path : Path]) /\ Len(cnpEntry') <= MaxCnpQps
    BY <1>0, <2>2 DEF TypeOK, Paired
  <2>7. UNCHANGED rateFlow \/ \E q \in Qpn, p \in PathOrUnknown : SetPath(q, p)
    BY <2>1, <2>2
  <2> QED
    BY <2>2, <2>5, <2>6, <2>7, CmType
<1>4. ASSUME NEW c \in Connection, CompleteCmMapping(c) PROVE TypeInv'
  <2>1. PICK i \in RequestsBy(c.comm) :
          LET q == cmRequest[i].qpn
              p == cmRequest[i].path
          IN /\ p # Unknown
             /\ qpnPair' = IF q \in Paired \/ Cardinality(Paired) < MaxCmConnections
                             THEN [qpnPair EXCEPT ![q] = p] ELSE qpnPair
             /\ SetPath(q, p)
             /\ InstallSenderCnpEntry(q, p)
    BY <1>4 DEF CompleteCmMapping
  <2>2. UNCHANGED <<live, tracked, cmRequest, walk>>
    BY <1>4 DEF CompleteCmMapping
  <2>3. cmRequest[i] \in Request
    BY <1>0 DEF TypeOK, RequestsBy, FirstOf
  <2> DEFINE q == cmRequest[i].qpn
             p == cmRequest[i].path
  <2>4. q \in Qpn /\ p \in Path /\ p \in PathOrUnknown
    BY <2>1, <2>3, Constants DEF Request, Unknown
  <2>5. /\ qpnPair' = IF q \in Paired \/ Cardinality(Paired) < MaxCmConnections
                        THEN [qpnPair EXCEPT ![q] = p] ELSE qpnPair
        /\ SetPath(q, p)
        /\ InstallSenderCnpEntry(q, p)
    BY <2>1
  <2> HIDE DEF q, p
  <2>6. qpnPair' \in [Qpn -> PathOrUnknown]
    BY <1>0, <2>4, <2>5 DEF TypeOK
  <2>7. Cardinality(Paired') <= MaxCmConnections
    <3>1. IsFiniteSet(Paired) /\ Cardinality(Paired) <= MaxCmConnections /\ Cardinality(Paired) \in Nat
      BY <1>0, FS_Subset, FS_CardinalityType DEF TypeOK, Paired
    <3>2. CASE qpnPair' = qpnPair
      <4>1. Paired' = Paired
        BY <3>2 DEF Paired
      <4> QED
        BY <3>1, <4>1
    <3>3. CASE (q \in Paired \/ Cardinality(Paired) < MaxCmConnections)
               /\ qpnPair' = [qpnPair EXCEPT ![q] = p]
      <4>1. Paired' = Paired \cup {q}
        BY <1>0, <2>4, <3>3, Constants DEF Paired, TypeOK, Unknown
      <4>2. Cardinality(Paired \cup {q}) = IF q \in Paired THEN Cardinality(Paired)
                                                           ELSE Cardinality(Paired) + 1
        BY <3>1, FS_AddElement
      <4> QED
        BY <3>1, <3>3, <4>1, <4>2
    <3> QED
      BY <2>5, <3>2, <3>3
  <2>8. cnpEntry' \in Seq([qpn : Qpn, path : Path]) /\ Len(cnpEntry') <= MaxCnpQps
    <3>1. cnpEntry \in Seq([qpn : Qpn, path : Path]) /\ Len(cnpEntry) <= MaxCnpQps
      BY <1>0 DEF TypeOK
    <3>2. [qpn |-> q, path |-> p] \in [qpn : Qpn, path : Path]
      BY <2>4
    <3>3. CASE cnpEntry' = Append(cnpEntry, [qpn |-> q, path |-> p]) /\ Len(cnpEntry) < MaxCnpQps
      <4>1. cnpEntry' \in Seq([qpn : Qpn, path : Path]) /\ Len(cnpEntry') = Len(cnpEntry) + 1
        BY <3>1, <3>2, <3>3, AppendProperties
      <4>2. Len(cnpEntry) \in Nat
        BY <3>1, LenProperties
      <4> QED
        BY <3>3, <4>1, <4>2
    <3>4. CASE cnpEntry' = cnpEntry
      BY <3>1, <3>4
    <3> QED
      BY <2>5, <3>3, <3>4 DEF InstallSenderCnpEntry
  <2>9. cmRequest' \in Seq(Request) /\ Len(cmRequest') <= MaxCmConnections
    BY <1>0, <2>2 DEF TypeOK
  <2> QED
    BY <2>2, <2>4, <2>5, <2>6, <2>7, <2>8, <2>9, CmType
<1>5. ASSUME NEW q \in Qpn, NEW rate \in ReportedRate, Report(q, rate) PROVE TypeInv'
  <2>1. PICK known \in KnownPaths(q) :
          rateFlow' = [rateFlow EXCEPT ![q] = Reported(rateFlow[q], rate, known)]
    BY <1>5 DEF Report
  <2>2. known \in PathOrUnknown /\ rate \in Rate
    BY <1>0, KnownPathsType
  <2>3. rateFlow[q] \in Flow /\ rateFlow[q].sum <= rateFlow[q].reports * FullRate
    BY <1>0 DEF TypeOK
  <2> DEFINE g == Reported(rateFlow[q], rate, known)
  <2>4. g \in Flow /\ g.sum <= g.reports * FullRate
    BY <2>2, <2>3, ReportedType
  <2> HIDE DEF g
  <2>5. /\ rateFlow' \in [Qpn -> Flow]
        /\ \A r \in Qpn : rateFlow'[r].sum <= rateFlow'[r].reports * FullRate
    BY <1>0, <2>1, <2>4, FlowUpdate DEF g
  <2>6. /\ tracked' = tracked \cup {q} /\ tracked' \subseteq Qpn
        /\ q \in tracked \/ Cardinality(tracked) < MaxRateFlows
        /\ UNCHANGED <<live, cmRequest, qpnPair, cnpEntry, walk>>
    BY <1>0, <1>5 DEF Report, TypeOK
  <2>7. Cardinality(tracked') <= MaxRateFlows
    <3>1. IsFiniteSet(tracked) /\ Cardinality(tracked) <= MaxRateFlows /\ Cardinality(tracked) \in Nat
      BY <1>0, FS_Subset, FS_CardinalityType DEF TypeOK
    <3>2. Cardinality(tracked \cup {q}) = IF q \in tracked THEN Cardinality(tracked)
                                                          ELSE Cardinality(tracked) + 1
      BY <3>1, FS_AddElement
    <3> QED
      BY <2>6, <3>1, <3>2
  <2> QED
    BY <2>5, <2>6, <2>7 DEF TypeInv, TypeOK, walk, Paired
<1>6. CASE BeginTally
  <2>1. EmptyTally \in Tally
    BY DEF EmptyTally, Tally
  <2> QED
    BY <1>6, <2>1 DEF BeginTally, tables, TypeInv, TypeOK, Paired
<1>7. ASSUME NEW q \in Qpn, TallyFlow(q) PROVE TypeInv'
  <2> DEFINE f == rateFlow[q]
             s == Sample(f)
             g == Sampled(f, s)
  <2>1. f \in Flow /\ f.sum <= f.reports * FullRate
    BY <1>0 DEF TypeOK
  <2>2. s \in Rate /\ g \in Flow /\ g.sum <= g.reports * FullRate
    BY <2>1, SampleType
  <2>3. /\ rateFlow' = [rateFlow EXCEPT ![q] = g]
        /\ tally' = IF f.path = Unknown THEN tally ELSE CountFlow(tally, f.path, s)
        /\ todo' = todo \ {q}
        /\ UNCHANGED <<live, tracked, cmRequest, qpnPair, cnpEntry, lock, wanted>>
    BY <1>7 DEF TallyFlow
  <2>4. f.path = Unknown \/ f.path \in Path
    BY <2>1, Constants DEF Flow, Unknown
  <2> HIDE DEF f, s, g
  <2>5. tally' \in Tally
    BY <1>0, <2>2, <2>3, <2>4, CountFlowType
  <2>6. /\ rateFlow' \in [Qpn -> Flow]
        /\ \A r \in Qpn : rateFlow'[r].sum <= rateFlow'[r].reports * FullRate
    BY <1>0, <2>2, <2>3, FlowUpdate
  <2> QED
    BY <1>0, <2>3, <2>5, <2>6 DEF TypeInv, TypeOK, Paired
<1>8. CASE EndTally
  <2>1. wanted' \in Share
    BY <1>0, <1>8, Path0ShareInShare DEF EndTally
  <2> QED
    BY <1>8, <2>1 DEF EndTally, tables, TypeInv, TypeOK, Paired
<1> QED
  BY <1>1, <1>2, <1>3, <1>4, <1>5, <1>6, <1>7, <1>8 DEF Next, Poll

(* Types and table capacities hold throughout, and the computed share is    *)
(* always one the dispatch table can take.                                  *)
THEOREM TypeInvariant == Spec => [](TypeOK /\ tally \in Tally)
BY TypeInit, TypeStep, PTL DEF Spec, TypeInv

-----------------------------------------------------------------------------
(* Only the walk changes a smoothed rate, and never from below FullRate to  *)
(* FullRate.                                                                *)
LEMMA ReducedStep ==
  ASSUME HistoryOutweighs, TypeInv, [Next]_vars, NEW q \in tracked,
         rateFlow[q].smoothed \in 0 .. FullRate - 1
  PROVE  rateFlow'[q].smoothed # FullRate
<1> USE RateGroupingAssumption
<1>0. TypeOK /\ q \in Qpn /\ rateFlow \in [Qpn -> Flow] /\ rateFlow[q].smoothed # FullRate
      /\ rateFlow[q].smoothed \in Rate
  <2>1. TypeOK /\ q \in Qpn /\ rateFlow \in [Qpn -> Flow]
    BY DEF TypeInv, TypeOK
  <2>2. rateFlow[q].smoothed # FullRate /\ rateFlow[q].smoothed \in Rate
    BY Constants DEF Rate
  <2> QED
    BY <2>1, <2>2
<1>1. CASE UNCHANGED rateFlow
  BY <1>0, <1>1
<1>2. ASSUME NEW c \in Connection, RememberCmRequest(c)
      PROVE  rateFlow'[q].smoothed # FullRate
  <2>1. UNCHANGED rateFlow \/ SetPath(c.qpn, PathOf(c.ip))
    BY <1>2 DEF RememberCmRequest
  <2>2. c.qpn \in Qpn /\ PathOf(c.ip) \in PathOrUnknown
    BY Constants
  <2> QED
    BY <1>0, <1>1, <2>1, <2>2, SetPathType
<1>3. ASSUME NEW c \in Connection, CompleteCmMapping(c)
      PROVE  rateFlow'[q].smoothed # FullRate
  <2>1. PICK i \in RequestsBy(c.comm) : SetPath(cmRequest[i].qpn, cmRequest[i].path)
    BY <1>3 DEF CompleteCmMapping
  <2>2. cmRequest[i] \in Request
    BY <1>0 DEF TypeOK, RequestsBy, FirstOf
  <2>3. cmRequest[i].qpn \in Qpn /\ cmRequest[i].path \in PathOrUnknown
    BY <2>2 DEF Request
  <2> QED
    BY <1>0, <2>1, <2>3, SetPathType
<1>4. ASSUME NEW r \in Qpn, NEW rate \in ReportedRate, Report(r, rate)
      PROVE  rateFlow'[q].smoothed # FullRate
  <2>1. PICK known \in KnownPaths(r) :
          rateFlow' = [rateFlow EXCEPT ![r] = Reported(rateFlow[r], rate, known)]
    BY <1>4 DEF Report
  <2> QED
    BY <1>0, <2>1 DEF Reported
<1>5. ASSUME NEW r \in Qpn, TallyFlow(r) PROVE rateFlow'[q].smoothed # FullRate
  <2>1. rateFlow' = [rateFlow EXCEPT ![r] = Sampled(rateFlow[r], Sample(rateFlow[r]))]
    BY <1>5 DEF TallyFlow
  <2>2. CASE q = r
    <3>1. rateFlow[q] \in Flow /\ rateFlow[q].sum <= rateFlow[q].reports * FullRate
      BY <1>0 DEF TypeOK
    <3>2. Sample(rateFlow[q]) # FullRate
      BY <1>0, <3>1, SampleType
    <3> QED
      BY <1>0, <2>1, <2>2, <3>2 DEF Sampled
  <2>3. CASE q # r
    BY <1>0, <2>1, <2>3
  <2> QED
    BY <2>2, <2>3
<1> QED
  BY <1>1, <1>2, <1>3, <1>4, <1>5 DEF Next, Poll, vars, tables, walk, Open, BeginTally, EndTally

(* A flow whose smoothed rate was below full rate never counts as a         *)
(* full-rate flow again (the EWMA of steer_poll), whenever a new sample     *)
(* weighs less than the history: 2 * 1 < 8 for the constants of steer.c.    *)
THEOREM ReducedStaysReduced ==
  ASSUME HistoryOutweighs PROVE Spec => ReducedForGood
<1>1. TypeInv /\ [Next]_vars =>
        [\A q \in tracked : rateFlow[q].smoothed \in 0 .. FullRate - 1
                              => rateFlow'[q].smoothed # FullRate]_vars
  BY ReducedStep
<1>2. Spec => []TypeInv
  BY TypeInit, TypeStep, PTL DEF Spec
<1> QED
  BY <1>1, <1>2, PTL DEF Spec, ReducedForGood

-----------------------------------------------------------------------------
(* The walk, half way: the tally is that of the flows it has passed, whose  *)
(* interval is closed.                                                      *)
Walked(p) == {q \in tracked \ todo : rateFlow[q].path = p}
WalkedFull(p) == {q \in Walked(p) : rateFlow[q].smoothed = FullRate}
TallySoFar ==
  lock = "held" =>
    /\ \A p \in Path : /\ tally.total[p] = Cardinality(Walked(p))
                       /\ tally.full[p] = Cardinality(WalkedFull(p))
    /\ \A q \in tracked \ todo : rateFlow[q].reports = 0

LEMMA CountFlowCounts ==
  ASSUME NEW t \in Tally, NEW p \in Path, NEW rate \in Rate, NEW r \in Path
  PROVE  LET u == CountFlow(t, p, rate) IN
         /\ u.total[r] = IF r = p THEN t.total[r] + 1 ELSE t.total[r]
         /\ u.full[r] = IF r = p /\ rate = FullRate THEN t.full[r] + 1 ELSE t.full[r]
<1>1. t.total \in [Path -> Nat] /\ t.full \in [Path -> Nat]
  BY DEF Tally
<1>2. \A f \in [Path -> Nat] : Add(f, p, 1)[r] = IF r = p THEN f[r] + 1 ELSE f[r]
  BY DEF Add
<1> QED
  BY <1>1, <1>2 DEF CountFlow

LEMMA TallyFlowStep ==
  ASSUME TypeInv, TallySoFar, NEW q \in Qpn, TallyFlow(q)
  PROVE  TallySoFar'
<1> DEFINE f == rateFlow[q]
           s == Sample(f)
           g == Sampled(f, s)
<1>0. TypeOK /\ tally \in Tally
  BY DEF TypeInv
<1>1. f \in Flow /\ f.sum <= f.reports * FullRate /\ rateFlow \in [Qpn -> Flow]
  BY <1>0 DEF TypeOK
<1>2. s \in Rate /\ g.smoothed = s /\ g.path = f.path /\ g.reports = 0
  BY <1>1, SampleType DEF Sampled
<1>3. /\ rateFlow' = [rateFlow EXCEPT ![q] = g]
      /\ tally' = IF f.path = Unknown THEN tally ELSE CountFlow(tally, f.path, s)
      /\ q \in todo /\ todo' = todo \ {q} /\ lock = "held" /\ tracked' = tracked
  BY DEF TallyFlow
<1>4. f.path = Unknown \/ f.path \in Path
  BY <1>1, Constants DEF Flow, Unknown
<1>5. tracked' \ todo' = (tracked \ todo) \cup {q} /\ q \notin tracked \ todo
      /\ tracked \subseteq Qpn /\ IsFiniteSet(tracked)
  BY <1>0, <1>3, RateGroupingAssumption, FS_Subset DEF TypeOK
<1>6. /\ rateFlow'[q] = g
      /\ \A r \in tracked \ todo : rateFlow'[r] = rateFlow[r]
  BY <1>1, <1>3, <1>5
<1>7. \A p \in Path : /\ tally.total[p] = Cardinality(Walked(p))
                      /\ tally.full[p] = Cardinality(WalkedFull(p))
  BY <1>3 DEF TallySoFar
<1> HIDE DEF f, s, g
<1>8. \A r \in tracked' \ todo' : rateFlow'[r].reports = 0
  BY <1>2, <1>3, <1>5, <1>6 DEF TallySoFar
<1>9. ASSUME NEW p \in Path
      PROVE  /\ tally'.total[p] = Cardinality(Walked(p)')
             /\ tally'.full[p] = Cardinality(WalkedFull(p)')
  <2>1. IsFiniteSet(Walked(p)) /\ IsFiniteSet(WalkedFull(p))
    <3>1. Walked(p) \in SUBSET tracked /\ WalkedFull(p) \in SUBSET tracked
      BY DEF Walked, WalkedFull
    <3> QED
      BY <1>5, <3>1, FS_Subset
  <2>2. q \notin Walked(p) /\ q \notin WalkedFull(p)
    BY <1>5 DEF Walked, WalkedFull
  <2>3. Walked(p)' = IF f.path = p THEN Walked(p) \cup {q} ELSE Walked(p)
    BY <1>2, <1>5, <1>6 DEF Walked
  <2>4. WalkedFull(p)' = IF f.path = p /\ s = FullRate THEN WalkedFull(p) \cup {q} ELSE WalkedFull(p)
    <3>1. \A r \in Walked(p) : r \in tracked \ todo
      BY DEF Walked
    <3> QED
      BY <1>2, <1>6, <2>2, <2>3, <3>1 DEF WalkedFull
  <2>5. /\ Cardinality(Walked(p)') = IF f.path = p THEN Cardinality(Walked(p)) + 1
                                                   ELSE Cardinality(Walked(p))
        /\ Cardinality(WalkedFull(p)') = IF f.path = p /\ s = FullRate
                                           THEN Cardinality(WalkedFull(p)) + 1
                                           ELSE Cardinality(WalkedFull(p))
    BY <2>1, <2>2, <2>3, <2>4, FS_AddElement
  <2>6. CASE f.path = Unknown
    <3>1. f.path # p
      BY <2>6 DEF Unknown, Path
    <3> QED
      BY <1>3, <1>7, <2>5, <2>6, <3>1
  <2>7. CASE f.path # Unknown
    <3>1. f.path \in Path /\ tally' = CountFlow(tally, f.path, s)
      BY <1>3, <1>4, <2>7
    <3>2. /\ tally'.total[p] = IF p = f.path THEN tally.total[p] + 1 ELSE tally.total[p]
          /\ tally'.full[p] = IF p = f.path /\ s = FullRate THEN tally.full[p] + 1 ELSE tally.full[p]
      BY <1>0, <1>2, <3>1, CountFlowCounts
    <3> QED
      BY <1>7, <2>5, <3>2
  <2> QED
    BY <2>6, <2>7
<1> QED
  BY <1>8, <1>9 DEF TallySoFar

LEMMA TallyStep == TypeInv /\ TallySoFar /\ [Next]_vars => TallySoFar'
<1> SUFFICES ASSUME TypeInv, TallySoFar, [Next]_vars PROVE TallySoFar'
  OBVIOUS
<1>1. CASE lock = "held" /\ UNCHANGED <<tracked, rateFlow, lock, todo, tally>>
  BY <1>1 DEF TallySoFar, Walked, WalkedFull
<1>2. CASE lock = "free" /\ lock' = "free"
  BY <1>2 DEF TallySoFar
<1>3. CASE BeginTally
  <2>1. tracked' \ todo' = {} /\ tally' = EmptyTally
    BY <1>3 DEF BeginTally, tables
  <2>2. \A p \in Path : Walked(p)' = {} /\ WalkedFull(p)' = {}
    BY <2>1 DEF Walked, WalkedFull
  <2>3. \A p \in Path : tally'.total[p] = 0 /\ tally'.full[p] = 0
    BY <2>1 DEF EmptyTally
  <2> QED
    BY <2>1, <2>2, <2>3, FS_EmptySet DEF TallySoFar
<1>4. ASSUME NEW q \in Qpn, TallyFlow(q) PROVE TallySoFar'
  BY <1>4, TallyFlowStep
<1>5. CASE EndTally
  BY <1>5 DEF EndTally, TallySoFar
<1>6. lock \in {"free", "held"}
  BY DEF TypeInv, TypeOK
<1>7. ASSUME NEW c \in Connection, Open(c) \/ RememberCmRequest(c) \/ CompleteCmMapping(c)
      PROVE  TallySoFar'
  BY <1>1, <1>2, <1>6, <1>7 DEF Open, RememberCmRequest, CompleteCmMapping, tables, walk
<1>8. ASSUME NEW q \in Qpn, NEW rate \in ReportedRate, Report(q, rate) PROVE TallySoFar'
  BY <1>2, <1>8 DEF Report, walk
<1>9. CASE UNCHANGED vars
  BY <1>1, <1>2, <1>6, <1>9 DEF vars, tables, walk
<1> QED
  BY <1>3, <1>4, <1>5, <1>7, <1>8, <1>9 DEF Next, Poll

(* When the walk ends its tally is that of the table as it stands, for any  *)
(* number of flows and whatever arrives meanwhile.                          *)
THEOREM AlwaysTallyOfTheTable == Spec => []TallyIsOfTheTable
<1>1. Init => TallySoFar
  BY DEF Init, TallySoFar
<1>2. TypeInv /\ TallySoFar => TallyIsOfTheTable
  <2> SUFFICES ASSUME TallySoFar, lock = "held", todo = {}, NEW p \in Path
               PROVE  /\ tally.total[p] = Cardinality(Grouped(p))
                      /\ tally.full[p] = Cardinality({q \in Grouped(p) : rateFlow[q].smoothed = FullRate})
                      /\ \A q \in tracked : rateFlow[q].reports = 0
    BY DEF TallyIsOfTheTable
  <2>1. Grouped(p) = Walked(p) /\ tracked \ todo = tracked
    BY DEF Grouped, Walked
  <2>2. {q \in Grouped(p) : rateFlow[q].smoothed = FullRate} = WalkedFull(p)
    BY <2>1 DEF WalkedFull
  <2> QED
    BY <2>1, <2>2 DEF TallySoFar
<1> QED
  BY <1>1, <1>2, TypeInit, TypeStep, TallyStep, PTL DEF Spec

-----------------------------------------------------------------------------
(* A non-empty set of positions has a first one. *)
LEMMA FirstExists ==
  ASSUME NEW S, S \subseteq Nat, S # {}
  PROVE  FirstOf(S) # {}
<1>1. PICK x \in S : \A y \in S : ~ (<<y, x>> \in OpToRel(<, Nat))
  BY NatLessThanWellFounded, WFMin
<1>2. \A y \in S : ~ (y < x)
  BY <1>1 DEF OpToRel
<1>3. \A y \in S : x <= y
  BY <1>2
<1> QED
  BY <1>3 DEF FirstOf

LEMMA NoRequestBy ==
  ASSUME TypeOK, NEW comm, RequestsBy(comm) = {}
  PROVE  \A i \in DOMAIN cmRequest : cmRequest[i].comm # comm
<1> DEFINE S == {i \in DOMAIN cmRequest : cmRequest[i].comm = comm}
<1>1. S \subseteq Nat
  BY LenProperties DEF TypeOK
<1>2. FirstOf(S) = {}
  BY DEF RequestsBy
<1>3. S = {}
  <2> HIDE DEF S
  <2> QED
    BY <1>1, <1>2, FirstExists
<1> QED
  BY <1>3

LEMMA NoRequestFor ==
  ASSUME TypeOK, NEW q, RequestsFor(q) = {}
  PROVE  \A i \in DOMAIN cmRequest : cmRequest[i].qpn = q => cmRequest[i].path = Unknown
<1> DEFINE S == {i \in DOMAIN cmRequest : cmRequest[i].qpn = q /\ cmRequest[i].path # Unknown}
<1>1. S \subseteq Nat
  BY LenProperties DEF TypeOK
<1>2. FirstOf(S) = {}
  BY DEF RequestsFor
<1>3. S = {}
  <2> HIDE DEF S
  <2> QED
    BY <1>1, <1>2, FirstExists
<1> QED
  BY <1>3

(* What is found is there. *)
LEMMA Found ==
  /\ \A comm : \A i \in RequestsBy(comm) : i \in DOMAIN cmRequest /\ cmRequest[i].comm = comm
  /\ \A q : \A i \in RequestsFor(q) :
       i \in DOMAIN cmRequest /\ cmRequest[i].qpn = q /\ cmRequest[i].path # Unknown
BY DEF RequestsBy, RequestsFor, FirstOf

(* Writing at a position, or at the end, when no other entry has the key. *)
LEMMA EntriesStayDistinct ==
  ASSUME TypeOK, OneEntryEach, NEW e \in Request, NEW t,
         \/ t = cmRequest
         \/ \E i \in DOMAIN cmRequest : cmRequest[i].comm = e.comm /\ t = [cmRequest EXCEPT ![i] = e]
         \/ t = Append(cmRequest, e) /\ \A i \in DOMAIN cmRequest : cmRequest[i].comm # e.comm
  PROVE  \A i, j \in DOMAIN t : t[i].comm = t[j].comm => i = j
<1>1. cmRequest \in Seq(Request) /\ Len(cmRequest) \in Nat /\ DOMAIN cmRequest = 1 .. Len(cmRequest)
  BY LenProperties DEF TypeOK
<1>2. \A i, j \in DOMAIN cmRequest : cmRequest[i].comm = cmRequest[j].comm => i = j
  BY DEF OneEntryEach
<1>3. CASE t = cmRequest
  BY <1>2, <1>3
<1>4. ASSUME NEW k \in DOMAIN cmRequest, cmRequest[k].comm = e.comm,
             t = [cmRequest EXCEPT ![k] = e]
      PROVE  \A i, j \in DOMAIN t : t[i].comm = t[j].comm => i = j
  <2>1. DOMAIN t = DOMAIN cmRequest /\ \A i \in DOMAIN t : t[i].comm = cmRequest[i].comm
    BY <1>1, <1>4
  <2> QED
    BY <1>2, <2>1
<1>5. CASE t = Append(cmRequest, e) /\ \A i \in DOMAIN cmRequest : cmRequest[i].comm # e.comm
  <2>1. /\ DOMAIN t = 1 .. Len(cmRequest) + 1
        /\ \A i \in 1 .. Len(cmRequest) : t[i] = cmRequest[i]
        /\ t[Len(cmRequest) + 1] = e
    <3>1. /\ Append(cmRequest, e) \in Seq(Request)
          /\ Len(Append(cmRequest, e)) = Len(cmRequest) + 1
          /\ \A i \in 1 .. Len(cmRequest) : Append(cmRequest, e)[i] = cmRequest[i]
          /\ Append(cmRequest, e)[Len(cmRequest) + 1] = e
      BY <1>1, AppendProperties
    <3>2. DOMAIN Append(cmRequest, e) = 1 .. Len(cmRequest) + 1
      BY <3>1, LenProperties
    <3> QED
      BY <1>5, <3>1, <3>2
  <2>2. \A i \in DOMAIN t : i \in DOMAIN cmRequest \/ i = Len(cmRequest) + 1
    <3>1. \A i \in 1 .. Len(cmRequest) + 1 : i \in 1 .. Len(cmRequest) \/ i = Len(cmRequest) + 1
      BY <1>1
    <3> QED
      BY <1>1, <2>1, <3>1
  <2>3. \A i \in DOMAIN cmRequest : t[i] = cmRequest[i] /\ t[i].comm # t[Len(cmRequest) + 1].comm
    BY <1>1, <1>5, <2>1
  <2> QED
    BY <1>2, <2>2, <2>3
<1> QED
  BY <1>3, <1>4, <1>5

LEMMA CountersStayDistinct ==
  ASSUME TypeOK, OneEntryEach, NEW q \in Qpn, NEW p \in Path, InstallSenderCnpEntry(q, p)
  PROVE  \A i, j \in DOMAIN cnpEntry' : cnpEntry'[i].qpn = cnpEntry'[j].qpn => i = j
<1> DEFINE e == [qpn |-> q, path |-> p]
<1>0. e \in [qpn : Qpn, path : Path] /\ e.qpn = q
  OBVIOUS
<1>1. /\ cnpEntry \in Seq([qpn : Qpn, path : Path]) /\ Len(cnpEntry) \in Nat
      /\ DOMAIN cnpEntry = 1 .. Len(cnpEntry)
  BY LenProperties DEF TypeOK
<1>2. \A i, j \in DOMAIN cnpEntry : cnpEntry[i].qpn = cnpEntry[j].qpn => i = j
  BY DEF OneEntryEach
<1>3. CASE cnpEntry' = cnpEntry
  BY <1>2, <1>3
<1>4. CASE ~Counted(q) /\ cnpEntry' = Append(cnpEntry, e)
  <2>1. \A i \in DOMAIN cnpEntry : cnpEntry[i].qpn # q
    BY <1>4 DEF Counted
  <2> HIDE DEF e
  <2>2. /\ DOMAIN cnpEntry' = 1 .. Len(cnpEntry) + 1
        /\ \A i \in 1 .. Len(cnpEntry) : cnpEntry'[i] = cnpEntry[i]
        /\ cnpEntry'[Len(cnpEntry) + 1] = e
    BY <1>0, <1>1, <1>4, AppendProperties
  <2>3. \A i \in DOMAIN cnpEntry' : i \in DOMAIN cnpEntry \/ i = Len(cnpEntry) + 1
    BY <1>1, <2>2
  <2> QED
    BY <1>0, <1>1, <1>2, <2>1, <2>2, <2>3
<1> QED
  BY <1>3, <1>4 DEF InstallSenderCnpEntry
LEMMA OneEntryStep == TypeInv /\ OneEntryEach /\ [Next]_vars => OneEntryEach'
<1> SUFFICES ASSUME TypeOK, OneEntryEach, [Next]_vars PROVE OneEntryEach'
  BY DEF TypeInv
<1> USE RateGroupingAssumption
<1>1. CASE UNCHANGED <<cmRequest, cnpEntry>>
  BY <1>1 DEF OneEntryEach
<1>2. ASSUME NEW c \in Connection, RememberCmRequest(c) PROVE OneEntryEach'
  <2> DEFINE e == [comm |-> c.comm, qpn |-> c.qpn, path |-> PathOf(c.ip)]
  <2>1. e \in Request /\ e.comm = c.comm
    BY Constants DEF Request
  <2>2. /\ cnpEntry' = cnpEntry
        /\ \/ \E i \in RequestsBy(c.comm) : cmRequest' = [cmRequest EXCEPT ![i] = e]
           \/ RequestsBy(c.comm) = {} /\ cmRequest' = Append(cmRequest, e)
           \/ cmRequest' = cmRequest
    BY <1>2 DEF RememberCmRequest
  <2> HIDE DEF e
  <2>3. \A i, j \in DOMAIN cmRequest' : cmRequest'[i].comm = cmRequest'[j].comm => i = j
    <3>1. \/ cmRequest' = cmRequest
          \/ \E i \in DOMAIN cmRequest :
               cmRequest[i].comm = e.comm /\ cmRequest' = [cmRequest EXCEPT ![i] = e]
          \/ cmRequest' = Append(cmRequest, e) /\ \A i \in DOMAIN cmRequest : cmRequest[i].comm # e.comm
      BY <2>1, <2>2, Found, NoRequestBy
    <3> QED
      BY <2>1, <3>1, EntriesStayDistinct
  <2> QED
    BY <2>2, <2>3 DEF OneEntryEach
<1>3. ASSUME NEW c \in Connection, CompleteCmMapping(c) PROVE OneEntryEach'
  <2>1. PICK i \in RequestsBy(c.comm) :
          /\ cmRequest[i].path # Unknown
          /\ InstallSenderCnpEntry(cmRequest[i].qpn, cmRequest[i].path)
    BY <1>3 DEF CompleteCmMapping
  <2>2. cmRequest[i] \in Request
    BY Found DEF TypeOK
  <2>3. cmRequest[i].qpn \in Qpn /\ cmRequest[i].path \in Path
    BY <2>1, <2>2, Constants DEF Request, Unknown
  <2>4. \A k, j \in DOMAIN cnpEntry' : cnpEntry'[k].qpn = cnpEntry'[j].qpn => k = j
    BY <2>1, <2>3, CountersStayDistinct
  <2>5. cmRequest' = cmRequest
    BY <1>3 DEF CompleteCmMapping
  <2> QED
    BY <2>4, <2>5 DEF OneEntryEach
<1> QED
  BY <1>1, <1>2, <1>3 DEF Next, Poll, vars, tables, walk, Open, Report, BeginTally, TallyFlow, EndTally

(* However often CM packets are repeated, and whichever connections they    *)
(* belong to, a QPN gets one counter rule and a comm_id one request.        *)
THEOREM AlwaysOneEntryEach == Spec => []OneEntryEach
<1>1. Init => OneEntryEach
  BY DEF Init, OneEntryEach
<1> QED
  BY <1>1, TypeInit, TypeStep, OneEntryStep, PTL DEF Spec

-----------------------------------------------------------------------------
(* QPNs and comm_ids are not used again: two connections share neither.     *)
NoReuse == \A c, d \in Connection : c.qpn = d.qpn \/ c.comm = d.comm => c = d

(* A path learned of a QPN is that of its connection's receiver.            *)
Right(q, p) == p = Unknown \/ (live[q] \in Connection /\ p = PathOf(live[q].ip))

(* Where everything learned comes from: an entry is that of an open         *)
(* connection, word for word.                                               *)
IsOf(r, c) == r.comm = c.comm /\ r.qpn = c.qpn /\ r.path = PathOf(c.ip)
OpenOnes == \A q \in Qpn : live[q] = NoConnection \/ (live[q] \in Connection /\ live[q].qpn = q)
RequestsOpen == \A i \in DOMAIN cmRequest :
                  \E c \in Connection : live[c.qpn] = c /\ IsOf(cmRequest[i], c)
FlowsRight == \A q \in Qpn : Right(q, rateFlow[q].path)
PairsRight == \A q \in Qpn : Right(q, qpnPair[q])
CountersRight == \A i \in DOMAIN cnpEntry : Right(cnpEntry[i].qpn, cnpEntry[i].path)
Learned == OpenOnes /\ RequestsOpen /\ FlowsRight /\ PairsRight /\ CountersRight

(* No pair and no request knows the path of a flow that is pending.         *)
Pending ==
  \A q \in tracked : rateFlow[q].path = Unknown =>
    /\ qpnPair[q] = Unknown
    /\ \A i \in DOMAIN cmRequest : cmRequest[i].qpn = q => cmRequest[i].path = Unknown

LEMMA KnownIsRight ==
  ASSUME Learned, NEW q \in Qpn, NEW p \in KnownPaths(q)
  PROVE  Right(q, p)
<1>1. CASE p = Unknown
  BY <1>1 DEF Right
<1>2. CASE p = qpnPair[q]
  BY <1>2 DEF Learned, PairsRight
<1>3. CASE \E i \in RequestsFor(q) : p = cmRequest[i].path
  <2>1. PICK i \in DOMAIN cmRequest : cmRequest[i].qpn = q /\ p = cmRequest[i].path
    BY <1>3, Found
  <2>2. PICK c \in Connection : live[c.qpn] = c /\ IsOf(cmRequest[i], c)
    BY <2>1 DEF Learned, RequestsOpen
  <2> QED
    BY <2>1, <2>2 DEF IsOf, Right
<1> QED
  BY <1>1, <1>2, <1>3 DEF KnownPaths

(* An open connection is never disturbed by another that opens.             *)
LEMMA OpenKeeps ==
  ASSUME NoReuse, TypeOK, OpenOnes, NEW c \in Connection, Open(c)
  PROVE  /\ \A q \in Qpn : live[q] \in Connection => live'[q] = live[q]
         /\ OpenOnes'
<1> USE RateGroupingAssumption
<1>1. c.qpn \in Qpn /\ live[c.qpn] # c
  BY DEF Open
<1>2. \A q \in Qpn : live'[q] = IF q = c.qpn THEN c
                                ELSE IF live[q].comm = c.comm THEN NoConnection ELSE live[q]
  BY DEF Open
<1>3. \A q \in Qpn : live[q] \in Connection => live'[q] = live[q]
  <2> SUFFICES ASSUME NEW q \in Qpn, live[q] \in Connection PROVE live'[q] = live[q]
    OBVIOUS
  <2>1. NoConnection \notin Connection
    BY DEF NoConnection
  <2>2. live[q].qpn = q
    BY <2>1 DEF OpenOnes
  <2>3. q # c.qpn
    BY <1>1, <2>2 DEF NoReuse
  <2>4. live[q].comm # c.comm
    BY <2>2, <2>3 DEF NoReuse
  <2> QED
    BY <1>2, <2>3, <2>4
<1>4. OpenOnes'
  BY <1>2 DEF OpenOnes
<1> QED
  BY <1>3, <1>4

(* What was right stays so while open connections stay.                     *)
LEMMA StaysLearned ==
  ASSUME RateGroupingAssumption, TypeOK, Learned, UNCHANGED tables, OpenOnes',
         \A q \in Qpn : live[q] \in Connection => live'[q] = live[q]
  PROVE  Learned'
<1>1. UNCHANGED <<rateFlow, cmRequest, qpnPair, cnpEntry>>
  BY DEF tables
<1>2. \A q \in Qpn : \A p : Right(q, p) => Right(q, p)'
  BY DEF Right
<1>3. \A i \in DOMAIN cnpEntry : cnpEntry[i].qpn \in Qpn
  <2>1. \A i \in DOMAIN cnpEntry : cnpEntry[i] \in [qpn : Qpn, path : Path]
    <3>1. cnpEntry \in Seq([qpn : Qpn, path : Path])
      BY DEF TypeOK
    <3> QED
      BY <3>1, LenProperties
  <2> QED
    BY <2>1
<1>4. RequestsOpen'
  BY <1>1 DEF Learned, RequestsOpen
<1> QED
  BY <1>1, <1>2, <1>3, <1>4 DEF Learned, FlowsRight, PairsRight, CountersRight

LEMMA RightFlow ==
  ASSUME TypeOK, FlowsRight, live' = live, NEW q \in Qpn, NEW f, Right(q, f.path),
         rateFlow' = [rateFlow EXCEPT ![q] = f] \/ rateFlow' = rateFlow
  PROVE  FlowsRight'
<1>1. \A r \in Qpn : rateFlow'[r] = rateFlow[r] \/ (r = q /\ rateFlow'[r] = f)
  BY DEF TypeOK
<1> QED
  BY <1>1 DEF FlowsRight, Right

LEMMA SetPathIs ==
  ASSUME TypeOK, NEW q \in Qpn, NEW p, SetPath(q, p)
  PROVE  \A r \in Qpn : rateFlow'[r].path = IF r = q /\ q \in tracked THEN p ELSE rateFlow[r].path
<1>1. CASE q \in tracked
  <2> DEFINE g == [rateFlow[q] EXCEPT !.path = p]
  <2>1. rateFlow \in [Qpn -> Flow] /\ rateFlow[q] \in Flow
    BY DEF TypeOK
  <2>2. g.path = p
    BY <2>1 DEF Flow
  <2>3. rateFlow' = [rateFlow EXCEPT ![q] = g]
    BY <1>1 DEF SetPath
  <2> HIDE DEF g
  <2> QED
    BY <1>1, <2>1, <2>2, <2>3
<1>2. CASE q \notin tracked
  BY <1>2 DEF SetPath
<1> QED
  BY <1>1, <1>2

LEMMA RightPath ==
  ASSUME TypeOK, FlowsRight, live' = live, NEW q \in Qpn, NEW p, Right(q, p),
         SetPath(q, p) \/ UNCHANGED rateFlow
  PROVE  FlowsRight'
<1>1. \A r \in Qpn : rateFlow'[r].path = rateFlow[r].path \/ (r = q /\ rateFlow'[r].path = p)
  BY SetPathIs
<1> QED
  BY <1>1 DEF FlowsRight, Right

(* The request a clone leaves, and the one it finds.                        *)
LEMMA RequestWritten ==
  ASSUME NoReuse, TypeOK, Learned, NEW c \in Connection, RememberCmRequest(c)
  PROVE  \/ cmRequest' = cmRequest /\ rateFlow' = rateFlow
         \/ /\ SetPath(c.qpn, PathOf(c.ip)) \/ (PathOf(c.ip) = Unknown /\ UNCHANGED rateFlow)
            /\ DOMAIN cmRequest \subseteq DOMAIN cmRequest'
            /\ \A i \in DOMAIN cmRequest' :
                 \/ i \in DOMAIN cmRequest /\ cmRequest'[i] = cmRequest[i]
                 \/ IsOf(cmRequest'[i], c)
<1> DEFINE e == [comm |-> c.comm, qpn |-> c.qpn, path |-> PathOf(c.ip)]
<1>0. IsOf(e, c) /\ e \in Request
  BY Constants, RateGroupingAssumption DEF IsOf, Request
<1>1. \/ /\ \E i \in RequestsBy(c.comm) : cmRequest' = [cmRequest EXCEPT ![i] = e]
         /\ UNCHANGED rateFlow
      \/ /\ cmRequest' = cmRequest \/ cmRequest' = Append(cmRequest, e)
         /\ SetPath(c.qpn, PathOf(c.ip)) \/ (PathOf(c.ip) = Unknown /\ UNCHANGED rateFlow)
  BY DEF RememberCmRequest
<1>2. /\ cmRequest \in Seq(Request) /\ Len(cmRequest) \in Nat
      /\ DOMAIN cmRequest = 1 .. Len(cmRequest)
  BY LenProperties DEF TypeOK
<1>3. ASSUME NEW i \in RequestsBy(c.comm), cmRequest' = [cmRequest EXCEPT ![i] = e]
      PROVE  cmRequest' = cmRequest
  <2>1. i \in DOMAIN cmRequest /\ cmRequest[i].comm = c.comm
    BY Found
  <2>2. PICK d \in Connection : IsOf(cmRequest[i], d)
    BY <2>1 DEF Learned, RequestsOpen
  <2>3. d = c
    BY <2>1, <2>2 DEF IsOf, NoReuse
  <2>4. cmRequest[i] \in Request
    BY <1>2, <2>1
  <2>5. cmRequest[i] = e
    BY <1>0, <2>2, <2>3, <2>4 DEF IsOf, Request
  <2> HIDE DEF e
  <2> QED
    BY <1>2, <1>3, <2>1, <2>5
<1> HIDE DEF e
<1>4. CASE cmRequest' = Append(cmRequest, e)
  <2>1. /\ cmRequest' \in Seq(Request) /\ Len(cmRequest') = Len(cmRequest) + 1
        /\ \A i \in 1 .. Len(cmRequest) : cmRequest'[i] = cmRequest[i]
        /\ cmRequest'[Len(cmRequest) + 1] = e
    BY <1>0, <1>2, <1>4, AppendProperties
  <2>2. DOMAIN cmRequest' = 1 .. Len(cmRequest) + 1
    BY <2>1, LenProperties
  <2>3. \A i \in 1 .. Len(cmRequest) + 1 : i \in 1 .. Len(cmRequest) \/ i = Len(cmRequest) + 1
    BY <1>2
  <2>4. 1 .. Len(cmRequest) \subseteq 1 .. Len(cmRequest) + 1
    BY <1>2
  <2>5. /\ DOMAIN cmRequest \subseteq DOMAIN cmRequest'
        /\ \A i \in DOMAIN cmRequest' :
             \/ i \in DOMAIN cmRequest /\ cmRequest'[i] = cmRequest[i]
             \/ IsOf(cmRequest'[i], c)
    BY <1>0, <1>2, <2>1, <2>2, <2>3, <2>4
  <2>6. CASE SetPath(c.qpn, PathOf(c.ip)) \/ (PathOf(c.ip) = Unknown /\ UNCHANGED rateFlow)
    BY <2>5, <2>6
  <2> QED
    BY <1>1, <1>3, <2>5, <2>6
<1>5. CASE cmRequest' = cmRequest
  BY <1>1, <1>5
<1> QED
  BY <1>1, <1>3, <1>4, <1>5

LEMMA LearnedStep ==
  ASSUME NoReuse PROVE TypeInv /\ Learned /\ [Next]_vars => Learned'
<1> SUFFICES ASSUME TypeOK, Learned, [Next]_vars PROVE Learned'
  BY DEF TypeInv
<1> USE RateGroupingAssumption
<1>0. /\ OpenOnes /\ RequestsOpen /\ FlowsRight /\ PairsRight /\ CountersRight
      /\ \A c \in Connection : c.qpn \in Qpn
  BY DEF Learned
<1>1. CASE UNCHANGED <<live, rateFlow, cmRequest, qpnPair, cnpEntry>>
  BY <1>0, <1>1 DEF Learned, OpenOnes, RequestsOpen, FlowsRight, PairsRight, CountersRight, Right
<1>2. ASSUME NEW c \in Connection, Open(c) PROVE Learned'
  BY <1>0, <1>2, OpenKeeps, StaysLearned DEF Open
<1>3. ASSUME NEW c \in Connection, RememberCmRequest(c) PROVE Learned'
  <2>1. live[c.qpn] = c /\ UNCHANGED <<live, qpnPair, cnpEntry>>
    BY <1>3 DEF RememberCmRequest
  <2>2. Right(c.qpn, PathOf(c.ip))
    BY <2>1 DEF Right
  <2>3. FlowsRight'
    BY <1>0, <1>3, <2>1, <2>2, RequestWritten, RightPath
  <2>4. RequestsOpen'
    <3>1. \A i \in DOMAIN cmRequest' :
            \/ i \in DOMAIN cmRequest /\ cmRequest'[i] = cmRequest[i]
            \/ IsOf(cmRequest'[i], c)
      BY <1>3, RequestWritten
    <3> QED
      BY <1>0, <2>1, <3>1 DEF RequestsOpen
  <2> QED
    BY <1>0, <2>1, <2>3, <2>4 DEF Learned, OpenOnes, PairsRight, CountersRight, Right
<1>4. ASSUME NEW c \in Connection, CompleteCmMapping(c) PROVE Learned'
  <2>1. PICK i \in RequestsBy(c.comm) :
          LET q == cmRequest[i].qpn
              p == cmRequest[i].path
          IN /\ p # Unknown
             /\ qpnPair' = IF q \in Paired \/ Cardinality(Paired) < MaxCmConnections
                             THEN [qpnPair EXCEPT ![q] = p] ELSE qpnPair
             /\ SetPath(q, p)
             /\ InstallSenderCnpEntry(q, p)
    BY <1>4 DEF CompleteCmMapping
  <2>2. UNCHANGED <<live, cmRequest>>
    BY <1>4 DEF CompleteCmMapping
  <2>3. PICK d \in Connection : live[d.qpn] = d /\ IsOf(cmRequest[i], d)
    BY <1>0, Found DEF RequestsOpen
  <2> DEFINE q == cmRequest[i].qpn
             p == cmRequest[i].path
  <2>4. q \in Qpn /\ Right(q, p)
    BY <1>0, <2>3 DEF IsOf, Right
  <2>5. /\ qpnPair' = [qpnPair EXCEPT ![q] = p] \/ qpnPair' = qpnPair
        /\ SetPath(q, p)
        /\ cnpEntry' = Append(cnpEntry, [qpn |-> q, path |-> p]) \/ cnpEntry' = cnpEntry
    BY <2>1 DEF InstallSenderCnpEntry
  <2> HIDE DEF q, p
  <2>6. FlowsRight'
    BY <1>0, <2>2, <2>4, <2>5, RightPath
  <2>7. PairsRight'
    <3>1. \A r \in Qpn : qpnPair'[r] = qpnPair[r] \/ (r = q /\ qpnPair'[r] = p)
      BY <2>5 DEF TypeOK
    <3> QED
      BY <1>0, <2>2, <2>4, <3>1 DEF PairsRight, Right
  <2>8. CountersRight'
    <3>1. CASE cnpEntry' = cnpEntry
      BY <1>0, <2>2, <3>1 DEF CountersRight, Right
    <3>2. CASE cnpEntry' = Append(cnpEntry, [qpn |-> q, path |-> p])
      <4> DEFINE e == [qpn |-> q, path |-> p]
                 S == [qpn : Qpn, path : Path] \cup {e}
      <4>0. e.qpn = q /\ e.path = p /\ e \in S
        OBVIOUS
      <4>1. cnpEntry \in Seq([qpn : Qpn, path : Path])
        BY DEF TypeOK
      <4>2. cnpEntry \in Seq(S)
        BY <4>1, SeqMonotonic
      <4> HIDE DEF e, S
      <4>3. /\ Append(cnpEntry, e) \in Seq(S) /\ Len(Append(cnpEntry, e)) = Len(cnpEntry) + 1
            /\ \A j \in 1 .. Len(cnpEntry) : Append(cnpEntry, e)[j] = cnpEntry[j]
            /\ Append(cnpEntry, e)[Len(cnpEntry) + 1] = e
        BY <4>0, <4>2, AppendProperties
      <4>4. /\ Len(cnpEntry) \in Nat /\ DOMAIN cnpEntry = 1 .. Len(cnpEntry)
            /\ DOMAIN Append(cnpEntry, e) = 1 .. Len(cnpEntry) + 1
        BY <4>2, <4>3, LenProperties
      <4>5. \A j \in 1 .. Len(cnpEntry) + 1 : j \in 1 .. Len(cnpEntry) \/ j = Len(cnpEntry) + 1
        BY <4>4
      <4>6. cnpEntry' = Append(cnpEntry, e)
        BY <3>2 DEF e
      <4>7. \A j \in DOMAIN cnpEntry' : \/ j \in DOMAIN cnpEntry /\ cnpEntry'[j] = cnpEntry[j]
                                       \/ cnpEntry'[j] = e
        BY <4>3, <4>4, <4>5, <4>6
      <4> QED
        BY <1>0, <2>2, <2>4, <4>0, <4>7 DEF CountersRight, Right
    <3> QED
      BY <2>5, <3>1, <3>2
  <2> QED
    BY <1>0, <2>2, <2>6, <2>7, <2>8 DEF Learned, OpenOnes, RequestsOpen
<1>5. ASSUME NEW q \in Qpn, NEW rate \in ReportedRate, Report(q, rate) PROVE Learned'
  <2>1. PICK known \in KnownPaths(q) :
          rateFlow' = [rateFlow EXCEPT ![q] = Reported(rateFlow[q], rate, known)]
    BY <1>5 DEF Report
  <2>2. UNCHANGED <<live, cmRequest, qpnPair, cnpEntry>>
    BY <1>5 DEF Report
  <2>3. Right(q, Reported(rateFlow[q], rate, known).path)
    BY <1>0, KnownIsRight DEF Reported, FlowsRight
  <2>4. FlowsRight'
    BY <1>0, <2>1, <2>2, <2>3, RightFlow
  <2> QED
    BY <1>0, <2>2, <2>4 DEF Learned, OpenOnes, RequestsOpen, PairsRight, CountersRight, Right
<1>6. ASSUME NEW q \in Qpn, TallyFlow(q) PROVE Learned'
  <2>1. /\ rateFlow' = [rateFlow EXCEPT ![q] = Sampled(rateFlow[q], Sample(rateFlow[q]))]
        /\ UNCHANGED <<live, cmRequest, qpnPair, cnpEntry>>
    BY <1>6 DEF TallyFlow
  <2>2. Right(q, Sampled(rateFlow[q], Sample(rateFlow[q])).path)
    BY <1>0 DEF Sampled, FlowsRight
  <2>3. FlowsRight'
    BY <1>0, <2>1, <2>2, RightFlow
  <2> QED
    BY <1>0, <2>1, <2>3 DEF Learned, OpenOnes, RequestsOpen, PairsRight, CountersRight, Right
<1> QED
  BY <1>1, <1>2, <1>3, <1>4, <1>5, <1>6 DEF Next, Poll, vars, tables, walk, BeginTally, EndTally

LEMMA LearnedInit == Init => Learned
BY DEF Init, Learned, OpenOnes, RequestsOpen, FlowsRight, PairsRight, CountersRight, Right, NewFlow

(* Whatever is learned of a QPN, from requests, replies and reports in any  *)
(* order and with any of them lost or repeated, is the path of its          *)
(* connection's receiver, as long as no QPN or comm_id is used again.       *)
THEOREM AlwaysGroupedByReceiver ==
  ASSUME NoReuse PROVE Spec => []GroupedByReceiver
<1>1. TypeInv /\ Learned => GroupedByReceiver
  <2> SUFFICES ASSUME TypeOK, Learned, NEW q \in Qpn
               PROVE  {rateFlow[q].path, qpnPair[q]}
                        \cup {cnpEntry[i].path : i \in {j \in DOMAIN cnpEntry : cnpEntry[j].qpn = q}}
                        \subseteq {Unknown, PathOf(live[q].ip)}
    BY DEF TypeInv, GroupedByReceiver
  <2>1. /\ Right(q, rateFlow[q].path) /\ Right(q, qpnPair[q])
        /\ \A i \in DOMAIN cnpEntry : cnpEntry[i].qpn = q => Right(q, cnpEntry[i].path)
    BY DEF Learned, FlowsRight, PairsRight, CountersRight
  <2> QED
    BY <2>1 DEF Right
<1> QED
  BY <1>1, LearnedInit, LearnedStep, TypeInit, TypeStep, PTL DEF Spec

-----------------------------------------------------------------------------
LEMMA PendingStep ==
  ASSUME NoReuse PROVE TypeInv /\ Learned /\ Pending /\ [Next]_vars => Pending'
<1> SUFFICES ASSUME TypeOK, Learned, Pending, [Next]_vars PROVE Pending'
  BY DEF TypeInv
<1> USE RateGroupingAssumption
<1>0. tracked \subseteq Qpn /\ rateFlow \in [Qpn -> Flow] /\ qpnPair \in [Qpn -> PathOrUnknown]
  BY DEF TypeOK
<1>1. CASE UNCHANGED <<tracked, rateFlow, cmRequest, qpnPair>>
  BY <1>1 DEF Pending
<1>2. ASSUME NEW c \in Connection, RememberCmRequest(c) PROVE Pending'
  <2>1. UNCHANGED <<tracked, qpnPair>>
    BY <1>2 DEF RememberCmRequest
  <2>2. CASE cmRequest' = cmRequest /\ rateFlow' = rateFlow
    BY <2>1, <2>2, <1>1
  <2>3. CASE /\ SetPath(c.qpn, PathOf(c.ip)) \/ (PathOf(c.ip) = Unknown /\ UNCHANGED rateFlow)
             /\ \A i \in DOMAIN cmRequest' :
                  \/ i \in DOMAIN cmRequest /\ cmRequest'[i] = cmRequest[i]
                  \/ IsOf(cmRequest'[i], c)
    <3>1. SUFFICES ASSUME NEW q \in tracked, rateFlow'[q].path = Unknown
                   PROVE  /\ qpnPair[q] = Unknown
                          /\ \A i \in DOMAIN cmRequest' :
                               cmRequest'[i].qpn = q => cmRequest'[i].path = Unknown
      BY <2>1 DEF Pending
    <3>2. /\ q \in Qpn
          /\ \/ UNCHANGED rateFlow
             \/ rateFlow'[q].path = IF q = c.qpn THEN PathOf(c.ip) ELSE rateFlow[q].path
      BY <1>0, <2>3, <3>1, SetPathIs
    <3>3. CASE q = c.qpn /\ PathOf(c.ip) # Unknown
      <4>1. SetPath(c.qpn, PathOf(c.ip))
        BY <2>3, <3>3
      <4>2. rateFlow'[q].path = PathOf(c.ip)
        BY <3>2, <3>3, <4>1, SetPathIs
      <4> QED
        BY <3>1, <3>3, <4>2
    <3>4. CASE q # c.qpn \/ PathOf(c.ip) = Unknown
      <4>1. ASSUME rateFlow[q].path = Unknown
            PROVE  /\ qpnPair[q] = Unknown
                   /\ \A i \in DOMAIN cmRequest' :
                        cmRequest'[i].qpn = q => cmRequest'[i].path = Unknown
        BY <2>3, <3>1, <3>4, <4>1 DEF Pending, IsOf
      <4>2. CASE q # c.qpn
        BY <3>1, <3>2, <4>1, <4>2
      <4>3. ASSUME q = c.qpn, PathOf(c.ip) = Unknown, rateFlow[q].path # Unknown
            PROVE  FALSE
        <5>1. Right(q, rateFlow[q].path) /\ live[q] = c
          BY <1>2, <3>2, <4>3 DEF Learned, FlowsRight, RememberCmRequest
        <5> QED
          BY <4>3, <5>1 DEF Right
      <4> QED
        BY <3>4, <4>1, <4>2, <4>3
    <3> QED
      BY <3>3, <3>4
  <2> QED
    BY <1>2, <2>2, <2>3, RequestWritten DEF Learned
<1>3. ASSUME NEW c \in Connection, CompleteCmMapping(c) PROVE Pending'
  <2>1. PICK i \in RequestsBy(c.comm) :
          LET q == cmRequest[i].qpn
              p == cmRequest[i].path
          IN /\ p # Unknown
             /\ qpnPair' = IF q \in Paired \/ Cardinality(Paired) < MaxCmConnections
                             THEN [qpnPair EXCEPT ![q] = p] ELSE qpnPair
             /\ SetPath(q, p)
    BY <1>3 DEF CompleteCmMapping
  <2>2. UNCHANGED <<tracked, cmRequest>>
    BY <1>3 DEF CompleteCmMapping
  <2>3. cmRequest[i] \in Request
    BY Found DEF TypeOK
  <2> DEFINE q == cmRequest[i].qpn
             p == cmRequest[i].path
  <2>4. q \in Qpn /\ p # Unknown /\ SetPath(q, p)
        /\ (qpnPair' = [qpnPair EXCEPT ![q] = p] \/ qpnPair' = qpnPair)
    BY <2>1, <2>3 DEF Request
  <2> HIDE DEF q, p
  <2>5. \A r \in tracked : rateFlow'[r].path = IF r = q THEN p ELSE rateFlow[r].path
    BY <1>0, <2>4, SetPathIs
  <2>6. \A r \in tracked : r # q => qpnPair'[r] = qpnPair[r]
    BY <1>0, <2>4
  <2> QED
    BY <2>2, <2>4, <2>5, <2>6 DEF Pending
<1>4. ASSUME NEW q \in Qpn, NEW rate \in ReportedRate, Report(q, rate) PROVE Pending'
  <2>1. PICK known \in KnownPaths(q) :
          rateFlow' = [rateFlow EXCEPT ![q] = Reported(rateFlow[q], rate, known)]
    BY <1>4 DEF Report
  <2>2. tracked' = tracked \cup {q} /\ UNCHANGED <<cmRequest, qpnPair>>
    BY <1>4 DEF Report
  <2>3. /\ rateFlow'[q].path = IF rateFlow[q].path = Unknown THEN known ELSE rateFlow[q].path
        /\ \A r \in tracked : r # q => rateFlow'[r] = rateFlow[r]
    BY <1>0, <2>1 DEF Reported
  <2>4. ASSUME known = Unknown
        PROVE  /\ qpnPair[q] = Unknown
               /\ \A i \in DOMAIN cmRequest : cmRequest[i].qpn = q => cmRequest[i].path = Unknown
    <3>1. qpnPair[q] = Unknown
      BY <2>4 DEF KnownPaths
    <3>2. RequestsFor(q) = {}
      <4>1. \A i \in RequestsFor(q) : cmRequest[i].path # Unknown
        BY Found
      <4> QED
        BY <2>4, <3>1, <4>1 DEF KnownPaths
    <3> QED
      BY <3>1, <3>2, NoRequestFor
  <2> QED
    BY <2>2, <2>3, <2>4 DEF Pending
<1>5. ASSUME NEW q \in Qpn, TallyFlow(q) PROVE Pending'
  <2>1. /\ rateFlow' = [rateFlow EXCEPT ![q] = Sampled(rateFlow[q], Sample(rateFlow[q]))]
        /\ UNCHANGED <<tracked, cmRequest, qpnPair>>
    BY <1>5 DEF TallyFlow
  <2>2. \A r \in tracked : rateFlow'[r].path = rateFlow[r].path
    BY <1>0, <2>1 DEF Sampled
  <2> QED
    BY <2>1, <2>2 DEF Pending
<1> QED
  BY <1>1, <1>2, <1>3, <1>4, <1>5 DEF Next, Poll, vars, tables, walk, Open, BeginTally, EndTally

(* A flow is left out of the tally only while the host has nothing that     *)
(* would classify it, in whatever order REQ, REP and reports came.          *)
THEOREM AlwaysPendingHasNoMapping ==
  ASSUME NoReuse PROVE Spec => []PendingHasNoMapping
<1>1. Init => Pending
  BY DEF Init, Pending
<1>2. TypeInv /\ Pending => PendingHasNoMapping
  <2> SUFFICES ASSUME Pending, NEW q \in tracked, rateFlow[q].path = Unknown
               PROVE  KnownPaths(q) = {Unknown}
    BY DEF PendingHasNoMapping
  <2>1. qpnPair[q] = Unknown /\ RequestsFor(q) = {}
    BY Found DEF Pending
  <2> QED
    BY <2>1 DEF KnownPaths
<1> QED
  BY <1>1, <1>2, LearnedInit, LearnedStep, PendingStep, TypeInit, TypeStep, PTL DEF Spec

=============================================================================
