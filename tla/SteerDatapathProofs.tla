-------------------------- MODULE SteerDatapathProofs --------------------------
(***************************************************************************)
(* Theorems about SteerDatapath, for any packets, configurations, receiver *)
(* addresses and CNP rules.  The invariant says, for each stretch of the   *)
(* pipeline, what a packet in it has become; it is written in six parts,   *)
(* each of which is a reason one of the properties holds.  The rates of    *)
(* the sampler, which are arithmetic, come last.                           *)
(***************************************************************************)
EXTENDS SteerDatapath, FiniteSetTheorems, SequenceTheorems, WellFoundedInduction, TLAPS

SfPipe == {"ARP_CHECK_SF", "QP1_CHECK_SF", "EGRESS_ROCE_CHECK", "EGRESS_CLASSIFY", "DELIVER_WIRE"}
BeforeDemux == {"ARP_CHECK_WIRE", "QP1_CHECK_WIRE", "EGRESS_CNP_COUNT", "INGRESS_ROCE_CHECK",
                "INGRESS_PATH_DEMUX"}
AfterDemux == {"PATH_IP_MATCH", "RANDOM_SAMPLE", "CE_MARK", "INGRESS_CLEAR_PATH"}
LastPipe == {"RECEIVER_IP_DEMUX", "DELIVER_SF0", "DELIVER_SF1"}
WirePipe == BeforeDemux \cup AfterDemux \cup LastPipe

(* The packet is on the right host, in a pipe that host's role has.        *)
RightPipe ==
  /\ at \in SfPipe => host = origin
  /\ at \in WirePipe => host = Peer(origin)
  /\ at \in {"EGRESS_ROCE_CHECK", "EGRESS_CLASSIFY", "EGRESS_CNP_COUNT"} => Egress(host)
  /\ at \in {"ARP_CHECK_SF", "ARP_CHECK_WIRE", "INGRESS_ROCE_CHECK", "INGRESS_PATH_DEMUX",
             "RECEIVER_IP_DEMUX"} \cup AfterDemux => Ingress(host)

(* What no pipe changes, what the ingress half changes only at its end, and *)
(* what the RoCE checks admit.                                             *)
Kept ==
  /\ pkt.kind = sent.kind /\ pkt.dst = sent.dst
  /\ at \in WirePipe => arrived.kind = sent.kind /\ arrived.dst = sent.dst
  /\ at \in BeforeDemux \cup AfterDemux => pkt = arrived
  /\ at \in LastPipe => pkt.class = arrived.class /\ pkt.ecn \in {arrived.ecn, "ce"}
  /\ at \in {"EGRESS_CLASSIFY", "INGRESS_PATH_DEMUX"} \cup AfterDemux => IsRoce(sent)
  /\ at \in {"EGRESS_ROCE_CHECK", "EGRESS_CLASSIFY", "EGRESS_CNP_COUNT", "INGRESS_ROCE_CHECK",
             "INGRESS_PATH_DEMUX"} \cup AfterDemux => sent.kind # "cm"

(* Only RoCE packets other than CM get a path, and it is what they carry.  *)
PathInBit ==
  /\ chosen # NoPath => IsRoce(sent) /\ sent.kind # "cm" /\ at \notin SfPipe \ {"DELIVER_WIRE"}
  /\ chosen # NoPath /\ at = "DELIVER_WIRE" => pkt.bit = chosen
  /\ chosen # NoPath /\ at \in WirePipe => arrived.bit = chosen

MayMark ==
  /\ IsRoce(sent)
  /\ sent.dst = PathIp[arrived.bit]
  /\ config[host].percent[arrived.bit] > 0

(* A CNP that EGRESS_CNP_COUNT may take past the ingress half.             *)
Skips == Egress(host) /\ sent.kind = "cnp"

(* What has been marked was allowed to be; what is about to be delivered   *)
(* has been cleared, and sent to its own SF.                               *)
MarkedAndCleared ==
  /\ at \in {"RANDOM_SAMPLE", "CE_MARK"} => MayMark
  /\ at \in LastPipe /\ pkt.ecn = "ce" /\ arrived.ecn # "ce" => MayMark
  /\ at \in LastPipe /\ chosen # NoPath /\ Ingress(host) /\ ~Skips => pkt.bit = 0
  /\ \A p \in Path : at = DeliverPipe(p) /\ Ingress(host) /\ ~Skips => SfPort(p) \in OwnSf(sent)

(* A packet to QP1 has been cloned once on each host it has crossed;       *)
(* nothing else has come out before the packet does.                       *)
IsClone(c, h) == c.host = h /\ c.port = "rss"
ClonedOncePerHost ==
  /\ at \in SfPipe \ {"DELIVER_WIRE"} => out = <<>>
  /\ at \in {"DELIVER_WIRE"} \cup BeforeDemux \cup AfterDemux =>
       \/ sent.kind # "cm" /\ out = <<>>
       \/ sent.kind = "cm" /\ Len(out) = 1 /\ IsClone(out[1], origin)
  /\ at \in LastPipe =>
       \/ sent.kind # "cm" /\ out = <<>>
       \/ /\ sent.kind = "cm" /\ Len(out) = 2
          /\ IsClone(out[1], origin) /\ IsClone(out[2], Peer(origin))

(* Between a classifying host and one that only marks, the counters differ *)
(* by the packet that is under way.                                        *)
UnderWay(h, p) == origin = h /\ chosen = p /\ at \in {"DELIVER_WIRE"} \cup BeforeDemux
Counting ==
  \A h \in Host : Egress(h) /\ ~Egress(Peer(h)) =>
    /\ \A p \in Path : IF UnderWay(h, p) THEN rewritten[h][p] = demuxed[Peer(h)][p] + 1
                                         ELSE rewritten[h][p] = demuxed[Peer(h)][p]
    /\ origin = h /\ IsRoce(sent) /\ sent.kind # "cm" /\ at \in {"DELIVER_WIRE"} \cup BeforeDemux =>
         chosen # NoPath

-----------------------------------------------------------------------------
(* Facts about hosts, roles and headers.                                   *)

LEMMA Hosts ==
  /\ \A h \in Host : Peer(h) \in Host /\ Peer(h) # h /\ Peer(Peer(h)) = h
  /\ \A h, g \in Host : g = h \/ g = Peer(h)
BY DEF Host, Peer

(* A host runs one half at least; its percentages are in range. *)
LEMMA Roles ==
  ASSUME config \in Setup, NEW h \in Host
  PROVE  /\ Ingress(h) \/ Egress(h)
         /\ config[h].role = "ingress" <=> ~Egress(h)
         /\ \A p \in Path : config[h].percent[p] \in 0 .. Whole
<1>1. config[h] \in Config
  BY SteerDatapathAssumption
<1> QED
  BY <1>1 DEF Config, Ingress, Egress

(* A rewritten packet is a packet, with the fields it was given. *)
LEMMA RemarkIsHeader ==
  ASSUME NEW k \in Header, NEW class \in 0 .. 1, NEW bit \in Path, NEW ecn \in Ecn
  PROVE  /\ Remark(k, class, bit, ecn) \in Header
         /\ Remark(k, class, bit, ecn).kind = k.kind
         /\ Remark(k, class, bit, ecn).dst = k.dst
         /\ Remark(k, class, bit, ecn).class = class
         /\ Remark(k, class, bit, ecn).bit = bit
         /\ Remark(k, class, bit, ecn).ecn = ecn
BY DEF Remark, Header

(* What an application sends is a packet. *)
LEMMA PacketIsHeader == \A k \in Packet : k \in Header
BY SteerDatapathAssumption

(* One counter of one host goes up. *)
LEMMA CountedIs ==
  ASSUME NEW count \in [Host -> [Path -> Nat]], NEW h \in Host, NEW p \in Path
  PROVE  /\ Counted(count, h, p) \in [Host -> [Path -> Nat]]
         /\ Counted(count, h, p)[h][p] = count[h][p] + 1
         /\ \A q \in Path : q # p => Counted(count, h, p)[h][q] = count[h][q]
         /\ \A g \in Host : g # h => Counted(count, h, p)[g] = count[g]
<1>1. [count[h] EXCEPT ![p] = @ + 1] \in [Path -> Nat]
  OBVIOUS
<1>2. /\ [count[h] EXCEPT ![p] = @ + 1][p] = count[h][p] + 1
      /\ \A q \in Path : q # p => [count[h] EXCEPT ![p] = @ + 1][q] = count[h][q]
  OBVIOUS
<1> QED
  BY <1>1, <1>2 DEF Counted

(* A percentage that does not lead to the clearing pipe is positive.       *)
LEMMA CeTargets ==
  ASSUME config \in Setup, NEW h \in Host, NEW p \in Path
  PROVE  /\ PathCeTarget(h, p) \in {"CE_MARK", "INGRESS_CLEAR_PATH", "RANDOM_SAMPLE"}
         /\ PathCeTarget(h, p) # "INGRESS_CLEAR_PATH" => config[h].percent[p] > 0
<1>1. config[h].percent[p] \in Int
  BY Roles
<1> QED
  BY <1>1, SteerDatapathAssumption DEF PathCeTarget, SelectedRate

-----------------------------------------------------------------------------
(* TypeOK is inductive by itself.                                          *)

LEMMA CopyIsDelivery ==
  ASSUME TypeOK, NEW port \in {"sf0", "sf1", "rss"}
  PROVE  Copy(port) \in Delivery
BY DEF TypeOK, Copy, Delivery

LEMMA TypeStep == TypeOK /\ [Next]_vars => TypeOK'
<1> SUFFICES ASSUME TypeOK, [Next]_vars PROVE TypeOK'
  OBVIOUS
<1> USE DEF TypeOK, PipeName, fixed, counters
<1>0. /\ Peer(host) \in Host
      /\ \A p \in Path : PathCeTarget(host, p) \in PipeName
      /\ 0 \in Path /\ pkt.bit \in Path /\ pkt.ecn \in Ecn /\ pkt.class \in 0 .. 1
  BY Hosts, CeTargets DEF Header, Path
<1>a. ASSUME NEW port \in {"sf0", "sf1", "rss"}
      PROVE  /\ Copy(port) \in Delivery /\ <<Copy(port)>> \in Seq(Delivery)
             /\ Append(out, Copy(port)) \in Seq(Delivery)
             /\ out \o <<Copy(port)>> \in Seq(Delivery)
  <2>1. Copy(port) \in Delivery
    BY <1>a, CopyIsDelivery
  <2> QED
    BY <2>1
<1>1. CASE ArpCheckWire
  <2>1. out \o <<Copy("sf0"), Copy("sf1")>> \in Seq(Delivery)
    BY <1>a
  <2> QED
    BY <1>1, <2>1 DEF ArpCheckWire, Deliver, Forward
<1>2. CASE ArpCheckSf
  BY <1>2, <1>0 DEF ArpCheckSf, PutOnWire, WireTarget, Forward
<1>3. CASE QP1CheckWire
  BY <1>3, <1>a DEF QP1CheckWire, FloodTo, Forward, ReceiverTarget, CnpWireTarget, RoceWireTarget
<1>4. CASE QP1CheckSf
  BY <1>4, <1>a DEF QP1CheckSf, FloodTo, Forward, RoceSfTarget
<1>5. CASE EgressRoceCheck
  BY <1>5 DEF EgressRoceCheck, Forward
<1>6. ASSUME NEW p \in Path, Classify(p) PROVE TypeOK'
  <2>1. pkt' \in Header
    BY <1>6, RemarkIsHeader DEF Classify, Rewrite, Ecn
  <2>2. rewritten' \in [Host -> [Path -> Nat]]
    BY <1>6, CountedIs DEF Classify
  <2> QED
    BY <1>6, <2>1, <2>2 DEF Classify, Rewrite
<1>7. CASE CnpCount
  BY <1>7 DEF CnpCount, Forward, RoceWireTarget, ReceiverTarget
<1>8. CASE IngressRoceCheck
  BY <1>8 DEF IngressRoceCheck, Forward
<1>9. CASE PathDemux
  <2>1. demuxed' \in [Host -> [Path -> Nat]]
    BY <1>9, <1>0, CountedIs DEF PathDemux
  <2> QED
    BY <1>9, <2>1 DEF PathDemux, Forward
<1>10. CASE PathIpMatch
  BY <1>10, <1>0 DEF PathIpMatch, Forward
<1>11. CASE RandomSample
  BY <1>11 DEF RandomSample, Forward
<1>12. CASE SelectedMark
  <2>1. pkt' \in Header
    BY <1>12, <1>0, RemarkIsHeader DEF SelectedMark, Rewrite, Ecn, Path
  <2> QED
    BY <1>12, <2>1 DEF SelectedMark, Rewrite
<1>13. CASE ClearPath
  <2>1. pkt' \in Header
    <3>1. Remark(pkt, pkt.class, 0, pkt.ecn) \in Header
      BY <1>0, RemarkIsHeader
    <3> QED
      BY <1>13, <3>1 DEF ClearPath, Rewrite
  <2> QED
    BY <1>13, <2>1 DEF ClearPath, Rewrite
<1>14. CASE ReceiverIpDemux
  BY <1>14 DEF ReceiverIpDemux, Forward, DeliverPipe
<1>15. ASSUME NEW p \in Path, DeliverSf(p) PROVE TypeOK'
  <2>1. out' \in Seq(Delivery)
    BY <1>15, <1>a DEF DeliverSf, Deliver, Drop, Forward, SfPort
  <2> QED
    BY <1>15, <2>1 DEF DeliverSf, Deliver, Drop, Forward
<1>16. CASE DeliverWire
  BY <1>16, <1>0 DEF DeliverWire, PutOnWire, Drop, Forward, WireTarget
<1>17. ASSUME NEW h \in Host, NEW k \in Packet, Send(h, k) PROVE TypeOK'
  BY <1>17, PacketIsHeader, SteerDatapathAssumption DEF Send, SfTarget
<1>18. ASSUME NEW h \in Host, NEW q \in Qpn, InstallCnpEntry(h, q) PROVE TypeOK'
  BY <1>18 DEF InstallCnpEntry
<1>19. CASE UNCHANGED vars
  BY <1>19 DEF vars
<1> QED
  BY <1>1, <1>2, <1>3, <1>4, <1>5, <1>6, <1>7, <1>8, <1>9, <1>10, <1>11, <1>12, <1>13, <1>14,
     <1>15, <1>16, <1>17, <1>18, <1>19 DEF Next, Pipe

-----------------------------------------------------------------------------
(* Each part of the invariant is preserved by every step.                  *)

LEMMA TypeFacts ==
  ASSUME TypeOK
  PROVE  /\ host \in Host /\ origin \in Host
         /\ Peer(host) \in Host /\ Peer(Peer(host)) = host
         /\ Ingress(host) \/ Egress(host)
         /\ \A p \in Path : PathCeTarget(host, p) \in AfterDemux /\ p # NoPath
         /\ 0 \in Path /\ pkt.bit \in Path /\ pkt.ecn \in Ecn /\ pkt.class \in 0 .. 1
         /\ 0 \in 0 .. 1 /\ "ce" \in Ecn /\ "ect0" \in Ecn
<1>1. config \in Setup /\ host \in Host /\ origin \in Host /\ pkt \in Header
  BY DEF TypeOK
<1>2. /\ pkt.bit \in Path /\ pkt.ecn \in Ecn /\ pkt.class \in 0 .. 1
      /\ 0 \in Path /\ \A p \in Path : p # NoPath
  BY <1>1 DEF Header, Path, NoPath
<1> QED
  BY <1>1, <1>2, Hosts, Roles, CeTargets DEF AfterDemux, Ecn

(* What writing the ToS byte of the packet leaves in it. *)
LEMMA RemarkedPkt ==
  ASSUME TypeOK, NEW class \in 0 .. 1, NEW bit \in Path, NEW ecn \in Ecn
  PROVE  /\ Remark(pkt, class, bit, ecn).kind = pkt.kind
         /\ Remark(pkt, class, bit, ecn).dst = pkt.dst
         /\ Remark(pkt, class, bit, ecn).class = class
         /\ Remark(pkt, class, bit, ecn).bit = bit
         /\ Remark(pkt, class, bit, ecn).ecn = ecn
BY RemarkIsHeader DEF TypeOK

(* Every target the assembly of steer_start() leads to fits the role. *)
LEMMA RightPipeStep == TypeOK /\ RightPipe /\ [Next]_vars => RightPipe'
<1> SUFFICES ASSUME TypeOK, RightPipe, [Next]_vars PROVE RightPipe'
  OBVIOUS
<1> USE DEF RightPipe, SfPipe, BeforeDemux, AfterDemux, LastPipe, WirePipe, Ingress, Egress, fixed,
           counters
<1>1. CASE ArpCheckWire
  BY <1>1, TypeFacts DEF ArpCheckWire, Deliver, Copy, Forward
<1>2. CASE ArpCheckSf
  BY <1>2, TypeFacts DEF ArpCheckSf, PutOnWire, WireTarget, Forward
<1>3. CASE QP1CheckWire
  BY <1>3, TypeFacts DEF QP1CheckWire, FloodTo, Copy, Forward, ReceiverTarget,
            CnpWireTarget, RoceWireTarget
<1>4. CASE QP1CheckSf
  BY <1>4, TypeFacts DEF QP1CheckSf, FloodTo, Copy, Forward, RoceSfTarget
<1>5. CASE EgressRoceCheck
  BY <1>5, TypeFacts DEF EgressRoceCheck, Forward
<1>6. ASSUME NEW p \in Path, Classify(p) PROVE RightPipe'
  BY <1>6, TypeFacts DEF Classify, Rewrite
<1>7. CASE CnpCount
  BY <1>7, TypeFacts DEF CnpCount, Forward, RoceWireTarget, ReceiverTarget
<1>8. CASE IngressRoceCheck
  BY <1>8, TypeFacts DEF IngressRoceCheck, Forward
<1>9. CASE PathDemux
  BY <1>9, TypeFacts DEF PathDemux, Forward
<1>10. CASE PathIpMatch
  BY <1>10, TypeFacts DEF PathIpMatch, Forward
<1>11. CASE RandomSample
  BY <1>11, TypeFacts DEF RandomSample, Forward
<1>12. CASE SelectedMark
  BY <1>12, TypeFacts DEF SelectedMark, Rewrite
<1>13. CASE ClearPath
  BY <1>13, TypeFacts DEF ClearPath, Rewrite
<1>14. CASE ReceiverIpDemux
  BY <1>14, TypeFacts DEF ReceiverIpDemux, Forward, DeliverPipe
<1>15. ASSUME NEW p \in Path, DeliverSf(p) PROVE RightPipe'
  BY <1>15, TypeFacts DEF DeliverSf, DeliverPipe, Deliver, Drop, Forward
<1>16. CASE DeliverWire
  BY <1>16, TypeFacts DEF DeliverWire, PutOnWire, Drop, Forward, WireTarget
<1>17. ASSUME NEW h \in Host, NEW k \in Packet, Send(h, k) PROVE RightPipe'
  BY <1>17, TypeFacts DEF Send, SfTarget
<1>18. ASSUME NEW h \in Host, NEW q \in Qpn, InstallCnpEntry(h, q) PROVE RightPipe'
  BY <1>18, TypeFacts DEF InstallCnpEntry
<1>19. CASE UNCHANGED vars
  BY <1>19 DEF vars
<1> QED
  BY <1>1, <1>2, <1>3, <1>4, <1>5, <1>6, <1>7, <1>8, <1>9,
     <1>10, <1>11, <1>12, <1>13, <1>14, <1>15, <1>16, <1>17, <1>18, <1>19
  DEF Next, Pipe

(* No pipe changes what a packet is or its address; the ToS byte changes late. *)
LEMMA KeptStep == TypeOK /\ Kept /\ [Next]_vars => Kept'
<1> SUFFICES ASSUME TypeOK, Kept, [Next]_vars PROVE Kept'
  OBVIOUS
<1> USE DEF Kept, IsRoce, SfPipe, BeforeDemux, AfterDemux, LastPipe, WirePipe, fixed,
           counters
<1>1. CASE ArpCheckWire
  BY <1>1, TypeFacts DEF ArpCheckWire, Deliver, Copy, Forward
<1>2. CASE ArpCheckSf
  BY <1>2, TypeFacts DEF ArpCheckSf, PutOnWire, WireTarget, Forward
<1>3. CASE QP1CheckWire
  BY <1>3, TypeFacts DEF QP1CheckWire, FloodTo, Copy, Forward, ReceiverTarget,
            CnpWireTarget, RoceWireTarget
<1>4. CASE QP1CheckSf
  BY <1>4, TypeFacts DEF QP1CheckSf, FloodTo, Copy, Forward, RoceSfTarget
<1>5. CASE EgressRoceCheck
  BY <1>5, TypeFacts DEF EgressRoceCheck, Forward
<1>6. ASSUME NEW p \in Path, Classify(p) PROVE Kept'
  BY <1>6, TypeFacts, RemarkedPkt DEF Classify, Rewrite
<1>7. CASE CnpCount
  BY <1>7, TypeFacts DEF CnpCount, Forward, RoceWireTarget, ReceiverTarget
<1>8. CASE IngressRoceCheck
  BY <1>8, TypeFacts DEF IngressRoceCheck, Forward
<1>9. CASE PathDemux
  BY <1>9, TypeFacts DEF PathDemux, Forward
<1>10. CASE PathIpMatch
  BY <1>10, TypeFacts DEF PathIpMatch, Forward
<1>11. CASE RandomSample
  BY <1>11, TypeFacts DEF RandomSample, Forward
<1>12. CASE SelectedMark
  BY <1>12, TypeFacts, RemarkedPkt DEF SelectedMark, Rewrite
<1>13. CASE ClearPath
  BY <1>13, TypeFacts, RemarkedPkt DEF ClearPath, Rewrite
<1>14. CASE ReceiverIpDemux
  BY <1>14, TypeFacts DEF ReceiverIpDemux, Forward, DeliverPipe
<1>15. ASSUME NEW p \in Path, DeliverSf(p) PROVE Kept'
  BY <1>15, TypeFacts DEF DeliverSf, DeliverPipe, Deliver, Drop, Forward
<1>16. CASE DeliverWire
  BY <1>16, TypeFacts DEF DeliverWire, PutOnWire, Drop, Forward, WireTarget
<1>17. ASSUME NEW h \in Host, NEW k \in Packet, Send(h, k) PROVE Kept'
  BY <1>17, TypeFacts DEF Send, SfTarget
<1>18. ASSUME NEW h \in Host, NEW q \in Qpn, InstallCnpEntry(h, q) PROVE Kept'
  BY <1>18, TypeFacts DEF InstallCnpEntry
<1>19. CASE UNCHANGED vars
  BY <1>19 DEF vars
<1> QED
  BY <1>1, <1>2, <1>3, <1>4, <1>5, <1>6, <1>7, <1>8, <1>9,
     <1>10, <1>11, <1>12, <1>13, <1>14, <1>15, <1>16, <1>17, <1>18, <1>19
  DEF Next, Pipe

(* Only EGRESS_PATHn_REWRITE gives a path, and nothing before the demux undoes it. *)
LEMMA PathInBitStep == TypeOK /\ RightPipe /\ Kept /\ PathInBit /\ [Next]_vars => PathInBit'
<1> SUFFICES ASSUME TypeOK, RightPipe, Kept, PathInBit, [Next]_vars PROVE PathInBit'
  OBVIOUS
<1> USE DEF PathInBit, IsRoce, SfPipe, BeforeDemux, AfterDemux, LastPipe, WirePipe, fixed,
           counters
<1>1. CASE ArpCheckWire
  BY <1>1, TypeFacts DEF ArpCheckWire, Deliver, Copy, Forward
<1>2. CASE ArpCheckSf
  BY <1>2, TypeFacts DEF ArpCheckSf, PutOnWire, WireTarget, Forward
<1>3. CASE QP1CheckWire
  BY <1>3, TypeFacts DEF QP1CheckWire, FloodTo, Copy, Forward, ReceiverTarget,
            CnpWireTarget, RoceWireTarget
<1>4. CASE QP1CheckSf
  BY <1>4 DEF QP1CheckSf, FloodTo, Forward, RoceSfTarget
<1>5. CASE EgressRoceCheck
  BY <1>5, TypeFacts DEF EgressRoceCheck, Forward
<1>6. ASSUME NEW p \in Path, Classify(p) PROVE PathInBit'
  <2>1. pkt'.bit = p
    BY <1>6, TypeFacts, RemarkedPkt DEF Classify, Rewrite
  <2> QED
    BY <1>6, <2>1 DEF Classify, Rewrite, Kept
<1>7. CASE CnpCount
  BY <1>7, TypeFacts DEF CnpCount, Forward, RoceWireTarget, ReceiverTarget
<1>8. CASE IngressRoceCheck
  BY <1>8, TypeFacts DEF IngressRoceCheck, Forward
<1>9. CASE PathDemux
  BY <1>9, TypeFacts DEF PathDemux, Forward
<1>10. CASE PathIpMatch
  BY <1>10, TypeFacts DEF PathIpMatch, Forward
<1>11. CASE RandomSample
  BY <1>11, TypeFacts DEF RandomSample, Forward
<1>12. CASE SelectedMark
  BY <1>12, TypeFacts DEF SelectedMark, Rewrite
<1>13. CASE ClearPath
  BY <1>13, TypeFacts DEF ClearPath, Rewrite
<1>14. CASE ReceiverIpDemux
  BY <1>14, TypeFacts DEF ReceiverIpDemux, Forward, DeliverPipe
<1>15. ASSUME NEW p \in Path, DeliverSf(p) PROVE PathInBit'
  BY <1>15, TypeFacts DEF DeliverSf, DeliverPipe, Deliver, Drop, Forward
<1>16. CASE DeliverWire
  BY <1>16, TypeFacts DEF DeliverWire, PutOnWire, Drop, Forward, WireTarget
<1>17. ASSUME NEW h \in Host, NEW k \in Packet, Send(h, k) PROVE PathInBit'
  BY <1>17, TypeFacts DEF Send, SfTarget
<1>18. ASSUME NEW h \in Host, NEW q \in Qpn, InstallCnpEntry(h, q) PROVE PathInBit'
  BY <1>18, TypeFacts DEF InstallCnpEntry
<1>19. CASE UNCHANGED vars
  BY <1>19 DEF vars
<1> QED
  BY <1>1, <1>2, <1>3, <1>4, <1>5, <1>6, <1>7, <1>8, <1>9,
     <1>10, <1>11, <1>12, <1>13, <1>14, <1>15, <1>16, <1>17, <1>18, <1>19
  DEF Next, Pipe

(* The SFs of an address depend on nothing else in the packet. *)
LEMMA OwnSfOf ==
  ASSUME NEW k, NEW m, k.kind = m.kind, k.dst = m.dst
  PROVE  /\ ReceiverPaths(k) = ReceiverPaths(m)
         /\ ReceiverPaths(k) = {} => SfPort(0) \in OwnSf(m)
         /\ \A p \in ReceiverPaths(k) : SfPort(p) \in OwnSf(m)
BY DEF ReceiverPaths, IsIp4, OwnSf, SfPort

(* No branch of the ingress half leaves out the clearing, or marks uncalled-for. *)
LEMMA MarkedAndClearedStep ==
  TypeOK /\ RightPipe /\ Kept /\ PathInBit /\ MarkedAndCleared /\ [Next]_vars => MarkedAndCleared'
<1> SUFFICES ASSUME TypeOK, RightPipe, Kept, PathInBit, MarkedAndCleared, [Next]_vars
             PROVE  MarkedAndCleared'
  OBVIOUS
<1> USE DEF MarkedAndCleared, MayMark, Skips, DeliverPipe, IsRoce, Ingress, Egress,
           SfPipe, BeforeDemux, AfterDemux, LastPipe, WirePipe, fixed, counters
<1>1. CASE ArpCheckWire
  BY <1>1, TypeFacts DEF ArpCheckWire, Deliver, Copy, Forward
<1>2. CASE ArpCheckSf
  BY <1>2, TypeFacts DEF ArpCheckSf, PutOnWire, WireTarget, Forward
<1>3. CASE QP1CheckWire
  BY <1>3, TypeFacts DEF QP1CheckWire, FloodTo, Forward, ReceiverTarget, CnpWireTarget,
            RoceWireTarget, Kept, PathInBit
<1>4. CASE QP1CheckSf
  BY <1>4, TypeFacts DEF QP1CheckSf, FloodTo, Copy, Forward, RoceSfTarget
<1>5. CASE EgressRoceCheck
  BY <1>5, TypeFacts DEF EgressRoceCheck, Forward
<1>6. ASSUME NEW p \in Path, Classify(p) PROVE MarkedAndCleared'
  BY <1>6, TypeFacts DEF Classify, Rewrite
<1>7. CASE CnpCount
  BY <1>7, TypeFacts DEF CnpCount, Forward, RoceWireTarget, ReceiverTarget, RightPipe, Kept
<1>8. CASE IngressRoceCheck
  BY <1>8 DEF IngressRoceCheck, Forward, Kept, PathInBit
<1>9. CASE PathDemux
  BY <1>9, TypeFacts DEF PathDemux, Forward
<1>10. CASE PathIpMatch
  <2>1. at' \in {"RANDOM_SAMPLE", "CE_MARK"} => MayMark'
    BY <1>10, TypeFacts, CeTargets DEF PathIpMatch, Forward, Kept, TypeOK
  <2> QED
    BY <1>10, <2>1, TypeFacts DEF PathIpMatch, Forward
<1>11. CASE RandomSample
  BY <1>11, TypeFacts DEF RandomSample, Forward
<1>12. CASE SelectedMark
  BY <1>12, TypeFacts, RemarkedPkt DEF SelectedMark, Rewrite
<1>13. CASE ClearPath
  BY <1>13, TypeFacts, RemarkedPkt DEF ClearPath, Rewrite, Kept
<1>14. CASE ReceiverIpDemux
  <2>1. \A p \in Path : at' = DeliverPipe(p) => SfPort(p) \in OwnSf(sent)
    BY <1>14, OwnSfOf DEF ReceiverIpDemux, Forward, Kept, Path, ReceiverPaths
  <2> QED
    BY <1>14, <2>1 DEF ReceiverIpDemux, Forward, ReceiverPaths
<1>15. ASSUME NEW p \in Path, DeliverSf(p) PROVE MarkedAndCleared'
  BY <1>15, TypeFacts DEF DeliverSf, DeliverPipe, Deliver, Drop, Forward
<1>16. CASE DeliverWire
  BY <1>16, TypeFacts DEF DeliverWire, PutOnWire, Drop, Forward, WireTarget
<1>17. ASSUME NEW h \in Host, NEW k \in Packet, Send(h, k) PROVE MarkedAndCleared'
  BY <1>17, TypeFacts DEF Send, SfTarget
<1>18. ASSUME NEW h \in Host, NEW q \in Qpn, InstallCnpEntry(h, q) PROVE MarkedAndCleared'
  BY <1>18, TypeFacts DEF InstallCnpEntry
<1>19. CASE UNCHANGED vars
  BY <1>19 DEF vars
<1> QED
  BY <1>1, <1>2, <1>3, <1>4, <1>5, <1>6, <1>7, <1>8, <1>9,
     <1>10, <1>11, <1>12, <1>13, <1>14, <1>15, <1>16, <1>17, <1>18, <1>19
  DEF Next, Pipe

(* A second element leaves the first where it is. *)
LEMMA AppendedToOne ==
  ASSUME NEW S, NEW s \in Seq(S), Len(s) = 1, NEW e \in S
  PROVE  Len(Append(s, e)) = 2 /\ Append(s, e)[1] = s[1] /\ Append(s, e)[2] = e
<1>1. Len(Append(s, e)) = Len(s) + 1 /\ Append(s, e)[Len(s) + 1] = e
  BY AppendProperties
<1>2. Append(s, e)[1] = s[1]
  BY AppendProperties
<1> QED
  BY <1>1, <1>2

(* The two QP1 clone pipes are crossed once each. *)
LEMMA ClonedOncePerHostStep ==
  TypeOK /\ RightPipe /\ Kept /\ ClonedOncePerHost /\ [Next]_vars => ClonedOncePerHost'
<1> SUFFICES ASSUME TypeOK, RightPipe, Kept, ClonedOncePerHost, [Next]_vars PROVE ClonedOncePerHost'
  OBVIOUS
<1> USE DEF ClonedOncePerHost, IsClone, SfPipe, BeforeDemux, AfterDemux, LastPipe, WirePipe, fixed,
           counters
<1>1. CASE ArpCheckWire
  BY <1>1, TypeFacts DEF ArpCheckWire, Deliver, Copy, Forward
<1>2. CASE ArpCheckSf
  BY <1>2, TypeFacts DEF ArpCheckSf, PutOnWire, WireTarget, Forward, Kept
<1>3. CASE QP1CheckWire
  <2>1. CASE pkt.kind = "cm"
    <3>1. /\ Copy("rss") \in Delivery /\ out \in Seq(Delivery)
          /\ Len(out) = 1 /\ IsClone(out[1], origin)
      BY <1>3, <2>1, CopyIsDelivery DEF QP1CheckWire, Kept, TypeOK
    <3>2. Len(out') = 2 /\ out'[1] = out[1] /\ out'[2] = Copy("rss")
      BY <1>3, <2>1, <3>1, AppendedToOne DEF QP1CheckWire, FloodTo
    <3> QED
      BY <1>3, <2>1, <3>1, <3>2 DEF QP1CheckWire, FloodTo, Copy, ReceiverTarget, Kept, RightPipe
  <2>2. CASE pkt.kind # "cm"
    BY <1>3, <2>2 DEF QP1CheckWire, Forward, ReceiverTarget, CnpWireTarget, RoceWireTarget, Kept
  <2> QED
    BY <2>1, <2>2
<1>4. CASE QP1CheckSf
  BY <1>4, TypeFacts DEF QP1CheckSf, FloodTo, Copy, Forward, RoceSfTarget, Kept, RightPipe
<1>5. CASE EgressRoceCheck
  BY <1>5 DEF EgressRoceCheck, Forward, Kept
<1>6. ASSUME NEW p \in Path, Classify(p) PROVE ClonedOncePerHost'
  BY <1>6 DEF Classify, Rewrite, Kept
<1>7. CASE CnpCount
  BY <1>7, TypeFacts DEF CnpCount, Forward, RoceWireTarget, ReceiverTarget, Kept
<1>8. CASE IngressRoceCheck
  BY <1>8 DEF IngressRoceCheck, Forward, Kept
<1>9. CASE PathDemux
  BY <1>9, TypeFacts DEF PathDemux, Forward
<1>10. CASE PathIpMatch
  BY <1>10, TypeFacts DEF PathIpMatch, Forward
<1>11. CASE RandomSample
  BY <1>11, TypeFacts DEF RandomSample, Forward
<1>12. CASE SelectedMark
  BY <1>12 DEF SelectedMark, Rewrite, Kept
<1>13. CASE ClearPath
  BY <1>13 DEF ClearPath, Rewrite, Kept
<1>14. CASE ReceiverIpDemux
  BY <1>14, TypeFacts DEF ReceiverIpDemux, Forward, DeliverPipe
<1>15. ASSUME NEW p \in Path, DeliverSf(p) PROVE ClonedOncePerHost'
  BY <1>15, TypeFacts DEF DeliverSf, DeliverPipe, Deliver, Drop, Forward
<1>16. CASE DeliverWire
  BY <1>16, TypeFacts DEF DeliverWire, PutOnWire, Drop, Forward, WireTarget
<1>17. ASSUME NEW h \in Host, NEW k \in Packet, Send(h, k) PROVE ClonedOncePerHost'
  BY <1>17, TypeFacts DEF Send, SfTarget
<1>18. ASSUME NEW h \in Host, NEW q \in Qpn, InstallCnpEntry(h, q) PROVE ClonedOncePerHost'
  BY <1>18, TypeFacts DEF InstallCnpEntry
<1>19. CASE UNCHANGED vars
  BY <1>19 DEF vars
<1> QED
  BY <1>1, <1>2, <1>3, <1>4, <1>5, <1>6, <1>7, <1>8, <1>9,
     <1>10, <1>11, <1>12, <1>13, <1>14, <1>15, <1>16, <1>17, <1>18, <1>19
  DEF Next, Pipe

(* A counted packet reaches the counter of the other side. *)
LEMMA CountingStep ==
  TypeOK /\ RightPipe /\ Kept /\ PathInBit /\ Counting /\ [Next]_vars => Counting'
<1> SUFFICES ASSUME TypeOK, RightPipe, Kept, PathInBit, Counting, [Next]_vars PROVE Counting'
  OBVIOUS
<1> USE DEF Counting, UnderWay, Egress, IsRoce, SfPipe, BeforeDemux, AfterDemux, LastPipe, WirePipe,
           fixed, counters
<1>1. CASE ArpCheckWire
  BY <1>1, TypeFacts DEF ArpCheckWire, Deliver, Forward, Kept, PathInBit
<1>2. CASE ArpCheckSf
  BY <1>2, TypeFacts DEF ArpCheckSf, PutOnWire, WireTarget, Forward, Kept, PathInBit
<1>3. CASE QP1CheckWire
  <2>1. CASE pkt.kind = "cm"
    BY <1>3, <2>1, TypeFacts DEF QP1CheckWire, FloodTo, Kept, PathInBit
  <2>2. CASE pkt.kind # "cm"
    <3>1. at' \notin {"DELIVER_WIRE"} \cup BeforeDemux => ~Egress(host) /\ ~Ingress(host)
      BY <1>3, <2>2 DEF QP1CheckWire, Forward, CnpWireTarget, RoceWireTarget
    <3> QED
      BY <1>3, <2>2, <3>1, TypeFacts DEF QP1CheckWire, Forward, Kept, PathInBit
  <2> QED
    BY <2>1, <2>2
<1>4. CASE QP1CheckSf
  BY <1>4, TypeFacts DEF QP1CheckSf, FloodTo, Forward, RoceSfTarget, Kept, RightPipe, PathInBit
<1>5. CASE EgressRoceCheck
  BY <1>5, TypeFacts DEF EgressRoceCheck, Forward, Kept, PathInBit
<1>6. ASSUME NEW p \in Path, Classify(p) PROVE Counting'
  <2> SUFFICES ASSUME NEW h \in Host, Egress(h), ~Egress(Peer(h))
               PROVE  \A q \in Path :
                        IF UnderWay(h, q)' THEN rewritten'[h][q] = demuxed'[Peer(h)][q] + 1
                                           ELSE rewritten'[h][q] = demuxed'[Peer(h)][q]
    BY <1>6, TypeFacts DEF Classify, Rewrite
  <2>1. chosen = NoPath /\ host = origin /\ Egress(host)
    BY <1>6 DEF Classify, PathInBit, RightPipe
  <2>2. h = host
    BY <2>1, TypeFacts, Hosts
  <2>3. \A q \in Path : rewritten[h][q] = demuxed[Peer(h)][q]
    BY <2>1, TypeFacts
  <2>4. /\ rewritten'[h][p] = rewritten[h][p] + 1
        /\ \A q \in Path : q # p => rewritten'[h][q] = rewritten[h][q]
    <3>1. rewritten \in [Host -> [Path -> Nat]]
      BY DEF TypeOK
    <3>2. rewritten' = Counted(rewritten, host, p)
      BY <1>6 DEF Classify
    <3> QED
      BY <1>6, <2>2, <3>1, <3>2, CountedIs
  <2> QED
    BY <1>6, <2>1, <2>2, <2>3, <2>4 DEF Classify, Rewrite
<1>7. CASE CnpCount
  BY <1>7, TypeFacts DEF CnpCount, Forward, RoceWireTarget, ReceiverTarget, RightPipe
<1>8. CASE IngressRoceCheck
  BY <1>8, TypeFacts DEF IngressRoceCheck, Forward, Kept, PathInBit
<1>9. CASE PathDemux
  <2> SUFFICES ASSUME NEW h \in Host, Egress(h), ~Egress(Peer(h))
               PROVE  \A q \in Path : rewritten'[h][q] = demuxed'[Peer(h)][q]
    BY <1>9 DEF PathDemux, Forward
  <2>1. host = Peer(origin) /\ IsRoce(sent) /\ sent.kind # "cm" /\ pkt = arrived
    BY <1>9 DEF PathDemux, RightPipe, Kept
  <2>2. rewritten' = rewritten /\ demuxed' = Counted(demuxed, host, pkt.bit)
    BY <1>9 DEF PathDemux
  <2>9. demuxed \in [Host -> [Path -> Nat]]
    BY DEF TypeOK
  <2>3. CASE h = origin
    <3>1. chosen = pkt.bit
      BY <1>9, <2>1, <2>3 DEF PathDemux, PathInBit
    <3>2. /\ demuxed'[Peer(h)][pkt.bit] = demuxed[Peer(h)][pkt.bit] + 1
          /\ \A q \in Path : q # pkt.bit => demuxed'[Peer(h)][q] = demuxed[Peer(h)][q]
      BY <2>1, <2>2, <2>3, <2>9, TypeFacts, CountedIs
    <3>3. \A q \in Path : UnderWay(h, q) <=> q = pkt.bit
      BY <1>9, <2>3, <3>1 DEF PathDemux
    <3> QED
      BY <2>2, <3>2, <3>3, TypeFacts
  <2>4. CASE h # origin
    <3>1. Peer(h) # host /\ Peer(h) \in Host
      BY <2>1, <2>4, TypeFacts, Hosts
    <3>2. demuxed'[Peer(h)] = demuxed[Peer(h)]
      BY <2>2, <2>9, <3>1, TypeFacts, CountedIs
    <3> QED
      BY <2>2, <2>4, <3>2
  <2> QED
    BY <2>3, <2>4
<1>10. CASE PathIpMatch
  BY <1>10, TypeFacts DEF PathIpMatch, Forward
<1>11. CASE RandomSample
  BY <1>11, TypeFacts DEF RandomSample, Forward
<1>12. CASE SelectedMark
  BY <1>12, TypeFacts DEF SelectedMark, Rewrite
<1>13. CASE ClearPath
  BY <1>13, TypeFacts DEF ClearPath, Rewrite
<1>14. CASE ReceiverIpDemux
  BY <1>14, TypeFacts DEF ReceiverIpDemux, Forward, DeliverPipe
<1>15. ASSUME NEW p \in Path, DeliverSf(p) PROVE Counting'
  BY <1>15, TypeFacts DEF DeliverSf, DeliverPipe, Deliver, Drop, Forward
<1>16. CASE DeliverWire
  BY <1>16, TypeFacts DEF DeliverWire, PutOnWire, Drop, Forward, WireTarget, Kept, PathInBit, IsIp4
<1>17. ASSUME NEW h \in Host, NEW k \in Packet, Send(h, k) PROVE Counting'
  BY <1>17, TypeFacts DEF Send, SfTarget
<1>18. ASSUME NEW h \in Host, NEW q \in Qpn, InstallCnpEntry(h, q) PROVE Counting'
  BY <1>18, TypeFacts DEF InstallCnpEntry
<1>19. CASE UNCHANGED vars
  BY <1>19 DEF vars
<1> QED
  BY <1>1, <1>2, <1>3, <1>4, <1>5, <1>6, <1>7, <1>8, <1>9,
     <1>10, <1>11, <1>12, <1>13, <1>14, <1>15, <1>16, <1>17, <1>18, <1>19
  DEF Next, Pipe

-----------------------------------------------------------------------------
Parts == /\ TypeOK /\ RightPipe /\ Kept /\ PathInBit
         /\ MarkedAndCleared /\ ClonedOncePerHost /\ Counting

(* The initial state satisfies the invariant: no packet is under way. *)
LEMMA InitParts == Init => Parts
<1> SUFFICES ASSUME Init PROVE Parts
  OBVIOUS
<1>1. TypeOK
  <2>1. AnyPacket \in Packet /\ AnyPacket \in Header
    BY SteerDatapathAssumption, PacketIsHeader DEF AnyPacket
  <2> QED
    BY <2>1, SteerDatapathAssumption DEF Init, TypeOK, Host
<1>2. at = "out" /\ chosen = NoPath /\ pkt = sent
  BY DEF Init
<1>3. RightPipe /\ Kept /\ PathInBit /\ ClonedOncePerHost
  BY <1>2 DEF RightPipe, Kept, PathInBit, ClonedOncePerHost, SfPipe, WirePipe, BeforeDemux,
              AfterDemux, LastPipe
<1>4. MarkedAndCleared
  BY <1>2 DEF MarkedAndCleared, LastPipe, DeliverPipe
<1>5. Counting
  BY <1>2, Hosts DEF Counting, UnderWay, BeforeDemux, Init
<1> QED
  BY <1>1, <1>3, <1>4, <1>5 DEF Parts

(* The parts together are inductive. *)
LEMMA NextParts == Parts /\ [Next]_vars => Parts'
BY TypeStep, RightPipeStep, KeptStep, PathInBitStep, MarkedAndClearedStep, ClonedOncePerHostStep,
   CountingStep DEF Parts

(* The invariant holds in every reachable state. *)
LEMMA PartsHold == Spec => []Parts
<1> QED
  BY InitParts, NextParts, PTL DEF Spec

(* Every variable keeps its type. *)
THEOREM TypeInvariant == Spec => []TypeOK
<1>1. Parts => TypeOK
  BY DEF Parts
<1> QED
  BY <1>1, PartsHold, PTL

(***************************************************************************)
(* The counters of EGRESS_PATHn_REWRITE and INGRESS_PATH_DEMUX agree       *)
(* between a sender that only classifies or does both and a receiver that  *)
(* only marks, whenever no packet is under way.                            *)
(***************************************************************************)
THEOREM CountersAlwaysAgree == Spec => []CountersAgree
<1>1. Parts => CountersAgree
  <2> SUFFICES ASSUME Parts, NEW h \in Host, at = "out", Egress(h),
                      config[Peer(h)].role = "ingress"
               PROVE  demuxed[Peer(h)] = rewritten[h]
    BY DEF CountersAgree
  <2>1. Peer(h) \in Host /\ ~Egress(Peer(h))
    BY Hosts, Roles DEF Parts, TypeOK
  <2>2. \A p \in Path : rewritten[h][p] = demuxed[Peer(h)][p]
    BY <2>1 DEF Parts, Counting, UnderWay, BeforeDemux
  <2>3. rewritten[h] \in [Path -> Nat] /\ demuxed[Peer(h)] \in [Path -> Nat]
    BY <2>1 DEF Parts, TypeOK
  <2> QED
    BY <2>2, <2>3
<1> QED
  BY <1>1, PartsHold, PTL

-----------------------------------------------------------------------------
(* What a step delivers.                                                   *)

LEMMA NoneAtSf == TypeOK /\ ClonedOncePerHost /\ at # "out" => ToSf = {}
<1> SUFFICES ASSUME TypeOK, ClonedOncePerHost, at # "out", NEW i \in DOMAIN out
             PROVE  out[i].port = "rss"
  BY DEF ToSf
<1>1. \/ out = <<>>
      \/ Len(out) = 1 /\ out[1].port = "rss"
      \/ Len(out) = 2 /\ out[1].port = "rss" /\ out[2].port = "rss"
  <2>1. at \in (SfPipe \ {"DELIVER_WIRE"}) \cup ({"DELIVER_WIRE"} \cup BeforeDemux \cup AfterDemux)
                \cup LastPipe
    BY DEF TypeOK, PipeName, SfPipe, BeforeDemux, AfterDemux, LastPipe
  <2> QED
    BY <2>1 DEF ClonedOncePerHost, IsClone
<1>2. i \in 1 .. Len(out)
  BY DEF TypeOK
<1> QED
  BY <1>1, <1>2

(* The same of the next state. *)
LEMMA NoneAtSfNext == (TypeOK /\ ClonedOncePerHost /\ at # "out" => ToSf = {})'
BY NoneAtSf, PTL

SamePacket == UNCHANGED <<config, origin, sent, sends, chosen, arrived>>
FloodsArp ==
  /\ SamePacket
  /\ at = "ARP_CHECK_WIRE" /\ pkt.kind = "arp"
  /\ \A i \in ToSf' : out'[i].host = host /\ out'[i].pkt = pkt
DeliversOne(p) ==
  /\ SamePacket
  /\ at = DeliverPipe(p) /\ IsIp4(pkt)
  /\ out' = Append(out, Copy(SfPort(p)))
  /\ ToSf' = {Len(out) + 1}

(* A step delivers nothing to an SF, floods an ARP packet, or delivers one copy. *)
LEMMA WhatComesOut ==
  ASSUME TypeOK, ClonedOncePerHost, TypeOK', ClonedOncePerHost', [Next]_vars
  PROVE  \/ SamePacket /\ UNCHANGED <<at, out>>
         \/ ToSf' = {} /\ (at' # "out" \/ (SamePacket /\ ~IsIp4(pkt)))
         \/ FloodsArp
         \/ \E p \in Path : DeliversOne(p)
<1> USE DEF fixed
<1>1. at # "out" => ToSf = {}
  BY NoneAtSf
<1>2. at' # "out" => ToSf' = {}
  BY NoneAtSfNext
<1>3. CASE ArpCheckWire
  <2>1. CASE pkt.kind = "arp"
    <3>1. SamePacket /\ at = "ARP_CHECK_WIRE" /\ out' = out \o <<Copy("sf0"), Copy("sf1")>>
      BY <1>3, <2>1 DEF ArpCheckWire, Deliver, SamePacket
    <3>2. \A i \in ToSf' : out'[i] \in {Copy("sf0"), Copy("sf1")}
      <4>1. SUFFICES ASSUME NEW i \in DOMAIN out', out'[i].port # "rss"
                     PROVE  out'[i] \in {Copy("sf0"), Copy("sf1")}
        BY DEF ToSf
      <4>2. out \in Seq(Delivery) /\ Copy("sf0") \in Delivery /\ Copy("sf1") \in Delivery
        BY CopyIsDelivery DEF TypeOK
      <4>3. (i \in 1 .. Len(out) /\ out'[i] = out[i]) \/ out'[i] \in {Copy("sf0"), Copy("sf1")}
        BY <3>1, <4>2
      <4>4. i \in 1 .. Len(out) => out[i].port = "rss"
        BY <3>1, <1>1, <4>2 DEF ToSf
      <4> QED
        BY <4>1, <4>3, <4>4
    <3>3. \A i \in ToSf' : out'[i].host = host /\ out'[i].pkt = pkt
      BY <3>2 DEF Copy
    <3> QED
      BY <3>1, <3>3, <2>1 DEF FloodsArp
  <2>2. CASE pkt.kind # "arp"
    BY <1>2, <1>3, <2>2 DEF ArpCheckWire, Forward
  <2> QED
    BY <2>1, <2>2
<1>4. ASSUME NEW p \in Path, DeliverSf(p)
      PROVE  (ToSf' = {} /\ SamePacket /\ ~IsIp4(pkt)) \/ DeliversOne(p)
  <2>1. at = DeliverPipe(p) /\ at # "out" /\ SamePacket
    BY <1>4 DEF DeliverSf, DeliverPipe, Deliver, Drop, Forward, SamePacket
  <2>2. CASE ~IsIp4(pkt)
    <3>1. out' = out
      BY <1>4, <2>2 DEF DeliverSf, Drop, Forward
    <3> QED
      BY <1>1, <2>1, <2>2, <3>1 DEF ToSf
  <2>3. CASE IsIp4(pkt)
    <3> DEFINE c == Copy(SfPort(p))
    <3>1. out \in Seq(Delivery) /\ c \in Delivery /\ c.port # "rss"
      BY CopyIsDelivery DEF TypeOK, SfPort, Copy
    <3>2. out' = out \o <<c>>
      BY <1>4, <2>3 DEF DeliverSf, Deliver
    <3> HIDE DEF c
    <3>3. out' = Append(out, c)
      BY <3>1, <3>2, AppendIsConcat
    <3>4. \A i \in 1 .. Len(out) : out[i].port = "rss"
      BY <1>1, <2>1, <3>1 DEF ToSf
    <3>5. /\ Len(out') = Len(out) + 1 /\ out'[Len(out) + 1] = c
          /\ \A i \in 1 .. Len(out) : out'[i] = out[i]
      BY <3>1, <3>3, AppendProperties
    <3>6. DOMAIN out' = 1 .. Len(out) + 1
      BY <3>5 DEF TypeOK
    <3>7. ToSf' = {Len(out) + 1}
      BY <3>1, <3>4, <3>5, <3>6 DEF ToSf
    <3> QED
      BY <2>1, <2>3, <3>3, <3>7 DEF DeliversOne, c
  <2> QED
    BY <2>2, <2>3
<1>5. CASE DeliverWire
  <2>1. CASE IsIp4(pkt)
    BY <1>2, <1>5, <2>1 DEF DeliverWire, PutOnWire, WireTarget
  <2>2. CASE ~IsIp4(pkt)
    <3>1. out' = out /\ at # "out" /\ SamePacket
      BY <1>5, <2>2 DEF DeliverWire, Drop, Forward, SamePacket
    <3> QED
      BY <1>1, <2>2, <3>1 DEF ToSf
  <2> QED
    BY <2>1, <2>2
<1>6. CASE ArpCheckSf \/ QP1CheckWire \/ QP1CheckSf \/ EgressRoceCheck \/ CnpCount
  <2>1. at' # "out"
    BY <1>6 DEF ArpCheckSf, PutOnWire, WireTarget, Forward, QP1CheckWire, FloodTo, ReceiverTarget,
                CnpWireTarget, RoceWireTarget, QP1CheckSf, RoceSfTarget, EgressRoceCheck, CnpCount
  <2> QED
    BY <1>2, <2>1
<1>7. CASE IngressRoceCheck \/ PathDemux \/ PathIpMatch \/ RandomSample \/ SelectedMark \/ ClearPath
           \/ ReceiverIpDemux \/ (\E p \in Path : Classify(p))
  <2>1. at' # "out"
    BY <1>7, TypeFacts DEF IngressRoceCheck, PathDemux, PathIpMatch, RandomSample, SelectedMark,
      ClearPath, ReceiverIpDemux, Classify, Forward, Rewrite, DeliverPipe, AfterDemux
  <2> QED
    BY <1>2, <2>1
<1>8. ASSUME NEW h \in Host, NEW k \in Packet, Send(h, k) PROVE ToSf' = {} /\ at' # "out"
  BY <1>2, <1>8 DEF Send, SfTarget
<1>9. ASSUME NEW h \in Host, NEW q \in Qpn, InstallCnpEntry(h, q)
      PROVE  SamePacket /\ UNCHANGED <<at, out>>
  BY <1>9 DEF InstallCnpEntry, SamePacket
<1>10. CASE UNCHANGED vars
  BY <1>10 DEF vars, SamePacket
<1> QED
  BY <1>3, <1>4, <1>5, <1>6, <1>7, <1>8, <1>9, <1>10 DEF Next, Pipe

(* The packet a step delivers to an SF, as the invariant has it. *)
LEMMA WhatIsDelivered ==
  ASSUME Parts, NEW p \in Path, DeliversOne(p), NEW i \in ToSf'
  PROVE  /\ i = Len(out) + 1 /\ out'[i] = Copy(SfPort(p)) /\ at \in LastPipe
         /\ out'[i].host = Peer(origin) /\ host = Peer(origin)
         /\ out'[i].pkt = pkt /\ out'[i].port = SfPort(p) /\ pkt.kind = sent.kind
         /\ PassesIngress(i)' => Ingress(host) /\ ~Skips
<1>1. out \in Seq(Delivery) /\ Copy(SfPort(p)) \in Delivery
  BY CopyIsDelivery DEF Parts, TypeOK, SfPort
<1>2. i = Len(out) + 1 /\ out'[i] = Copy(SfPort(p)) /\ at \in LastPipe
  BY <1>1, AppendProperties DEF DeliversOne, DeliverPipe, LastPipe
<1>3. host = Peer(origin) /\ pkt.kind = sent.kind
  BY <1>2 DEF Parts, RightPipe, Kept, WirePipe
<1>4. out'[i].host = host /\ out'[i].pkt = pkt /\ out'[i].port = SfPort(p)
  BY <1>2 DEF Copy
<1>5. config' = config
  BY DEF DeliversOne, SamePacket
<1>6. PassesIngress(i)' => Ingress(host) /\ ~Skips
  BY <1>3, <1>4, <1>5 DEF PassesIngress, Ingress, Egress, Skips
<1> QED
  BY <1>2, <1>3, <1>4, <1>6

(* The same, from the invariant. *)
LEMMA Delivering == Parts /\ [Next]_vars =>
  \/ SamePacket /\ UNCHANGED <<at, out>>
  \/ ToSf' = {} /\ (at' # "out" \/ (SamePacket /\ ~IsIp4(pkt)))
  \/ FloodsArp
  \/ \E p \in Path : DeliversOne(p)
BY WhatComesOut, NextParts DEF Parts

-----------------------------------------------------------------------------
(***************************************************************************)
(* An RDMA sender's path choice never reaches an SF: whatever path the     *)
(* classifier wrote, whatever the sampler does with the packet, the        *)
(* ingress half delivers it with the path bit clear.                       *)
(***************************************************************************)
THEOREM MarkerAlwaysPrivate == Spec => []MarkerStaysPrivate
<1>1. Init => MarkerStaysPrivate
  BY DEF Init, MarkerStaysPrivate
<1>2. Parts /\ MarkerStaysPrivate /\ [Next]_vars => MarkerStaysPrivate'
  <2> SUFFICES ASSUME Parts, MarkerStaysPrivate, [Next]_vars PROVE MarkerStaysPrivate'
    OBVIOUS
  <2>1. CASE SamePacket /\ UNCHANGED <<at, out>>
    BY <2>1 DEF SamePacket, MarkerStaysPrivate, ToSf, PassesIngress, Ingress, Egress
  <2>2. CASE ToSf' = {}
    BY <2>2 DEF MarkerStaysPrivate
  <2>3. CASE FloodsArp
    <3>1. chosen' = NoPath
      BY <2>3 DEF FloodsArp, SamePacket, Parts, Kept, PathInBit, IsRoce
    <3> QED
      BY <3>1 DEF MarkerStaysPrivate
  <2>4. ASSUME NEW p \in Path, DeliversOne(p) PROVE MarkerStaysPrivate'
    <3> SUFFICES ASSUME NEW i \in ToSf', chosen' # NoPath, PassesIngress(i)'
                 PROVE  out'[i].pkt.bit = 0
      BY DEF MarkerStaysPrivate
    <3>1. chosen # NoPath
      BY <2>4 DEF DeliversOne, SamePacket
    <3> QED
      BY <2>4, <3>1, WhatIsDelivered DEF Parts, MarkedAndCleared
  <2> QED
    BY <2>1, <2>2, <2>3, <2>4, Delivering
<1> QED
  BY <1>1, <1>2, PartsHold, PTL DEF Spec

(***************************************************************************)
(* A packet is newly CE-marked only on the path of its own receiver        *)
(* address, when it came by that path and the path has a percentage.       *)
(***************************************************************************)
THEOREM NewCeAlwaysOwnPath == Spec => []NewCeIsOwnPath
<1>1. Init => NewCeIsOwnPath
  BY DEF Init, NewCeIsOwnPath, ToSf
<1>2. Parts /\ NewCeIsOwnPath /\ [Next]_vars => NewCeIsOwnPath'
  <2> SUFFICES ASSUME Parts, NewCeIsOwnPath, [Next]_vars PROVE NewCeIsOwnPath'
    OBVIOUS
  <2>1. CASE SamePacket /\ UNCHANGED <<at, out>>
    BY <2>1 DEF SamePacket, NewCeIsOwnPath, ToSf, IsRoce
  <2>2. CASE ToSf' = {}
    BY <2>2 DEF NewCeIsOwnPath
  <2>3. CASE FloodsArp
    <3>1. pkt = arrived /\ arrived' = arrived
      BY <2>3 DEF FloodsArp, SamePacket, Parts, Kept, BeforeDemux
    <3> QED
      BY <2>3, <3>1 DEF NewCeIsOwnPath, FloodsArp
  <2>4. ASSUME NEW p \in Path, DeliversOne(p) PROVE NewCeIsOwnPath'
    <3> SUFFICES ASSUME NEW i \in ToSf', out'[i].pkt.ecn = "ce", arrived'.ecn # "ce"
                 PROVE  /\ IsRoce(sent')
                        /\ chosen' \in {NoPath, arrived'.bit}
                        /\ sent'.dst = PathIp[arrived'.bit]
                        /\ config'[out'[i].host].percent[arrived'.bit] > 0
      BY DEF NewCeIsOwnPath
    <3>1. arrived' = arrived /\ sent' = sent /\ chosen' = chosen /\ config' = config
      BY <2>4 DEF DeliversOne, SamePacket
    <3>2. at \in LastPipe /\ pkt.ecn = "ce" /\ arrived.ecn # "ce" /\ out'[i].host = host
      BY <2>4, <3>1, WhatIsDelivered
    <3>3. MayMark
      BY <3>2 DEF Parts, MarkedAndCleared
    <3>4. chosen \in {NoPath, arrived.bit}
      BY <3>2 DEF Parts, PathInBit, WirePipe
    <3> QED
      BY <3>1, <3>2, <3>3, <3>4 DEF MayMark
  <2> QED
    BY <2>1, <2>2, <2>3, <2>4, Delivering
<1> QED
  BY <1>1, <1>2, PartsHold, PTL DEF Spec

(***************************************************************************)
(* From the wire to the SF the DSCP bits other than the path bit survive,  *)
(* and the ECN field is what it was or CE.                                 *)
(***************************************************************************)
THEOREM IngressAlwaysPreserves == Spec => []IngressPreserves
<1>1. Init => IngressPreserves
  BY DEF Init, IngressPreserves, ToSf
<1>2. Parts /\ IngressPreserves /\ [Next]_vars => IngressPreserves'
  <2> SUFFICES ASSUME Parts, IngressPreserves, [Next]_vars PROVE IngressPreserves'
    OBVIOUS
  <2>1. CASE SamePacket /\ UNCHANGED <<at, out>>
    BY <2>1 DEF SamePacket, IngressPreserves, ToSf
  <2>2. CASE ToSf' = {}
    BY <2>2 DEF IngressPreserves
  <2>3. CASE FloodsArp
    <3>1. pkt = arrived /\ arrived' = arrived
      BY <2>3 DEF FloodsArp, SamePacket, Parts, Kept, BeforeDemux
    <3> QED
      BY <2>3, <3>1 DEF IngressPreserves, FloodsArp
  <2>4. ASSUME NEW p \in Path, DeliversOne(p) PROVE IngressPreserves'
    <3>1. arrived' = arrived
      BY <2>4 DEF DeliversOne, SamePacket
    <3>2. ASSUME NEW i \in ToSf'
          PROVE  out'[i].pkt.class = arrived.class /\ out'[i].pkt.ecn \in {arrived.ecn, "ce"}
      BY <2>4, WhatIsDelivered DEF Parts, Kept
    <3> QED
      BY <3>1, <3>2 DEF IngressPreserves
  <2> QED
    BY <2>1, <2>2, <2>3, <2>4, Delivering
<1> QED
  BY <1>1, <1>2, PartsHold, PTL DEF Spec

-----------------------------------------------------------------------------
(* The clones before the copy at an SF: none, or one on each host.         *)

-----------------------------------------------------------------------------
(* The clones before the copy at an SF: none, or one on each host.         *)
LEMMA ClonesAndOne ==
  ASSUME Parts, NEW p \in Path, DeliversOne(p), NEW h \in Host
  PROVE  Copies(h, "rss")' = IF sent.kind = "cm" THEN 1 ELSE 0
<1> DEFINE c == Copy(SfPort(p))
           clones == {i \in DOMAIN out' : out'[i].host = h /\ out'[i].port = "rss"}
<1>1. out \in Seq(Delivery) /\ c \in Delivery /\ c.port # "rss"
  BY CopyIsDelivery DEF Parts, TypeOK, SfPort, Copy
<1>2. out' = Append(out, c) /\ at \in LastPipe
  BY DEF DeliversOne, DeliverPipe, LastPipe
<1>3. \/ sent.kind # "cm" /\ out = <<>>
      \/ /\ sent.kind = "cm" /\ Len(out) = 2
         /\ IsClone(out[1], origin) /\ IsClone(out[2], Peer(origin))
  BY <1>2 DEF Parts, ClonedOncePerHost
<1>4. Copies(h, "rss")' = Cardinality(clones)
  BY DEF Copies
<1> HIDE DEF c
<1>5. /\ DOMAIN out' = 1 .. Len(out) + 1 /\ out'[Len(out) + 1] = c
      /\ \A i \in 1 .. Len(out) : out'[i] = out[i]
  BY <1>1, <1>2, AppendProperties
<1>6. CASE sent.kind # "cm"
  <2>1. clones = {}
    BY <1>1, <1>3, <1>5, <1>6
  <2> QED
    BY <1>4, <1>6, <2>1, FS_EmptySet
<1>7. CASE sent.kind = "cm"
  <2>1. /\ DOMAIN out' = {1, 2, 3} /\ out'[3].port # "rss"
        /\ IsClone(out'[1], origin) /\ IsClone(out'[2], Peer(origin))
    <3>1. Len(out) = 2 /\ IsClone(out[1], origin) /\ IsClone(out[2], Peer(origin))
      BY <1>3, <1>7
    <3>2. 1 .. 2 + 1 = {1, 2, 3} /\ 1 \in 1 .. 2 /\ 2 \in 1 .. 2
      OBVIOUS
    <3>3. DOMAIN out' = {1, 2, 3} /\ out'[3] = c /\ out'[1] = out[1] /\ out'[2] = out[2]
      BY <1>5, <3>1, <3>2
    <3> QED
      BY <1>1, <3>1, <3>3
  <2>2. origin \in Host
    BY DEF Parts, TypeOK
  <2>3. clones = {1} \/ clones = {2}
    <3>1. CASE h = origin
      BY <2>1, <2>2, <3>1, Hosts DEF IsClone
    <3>2. CASE h = Peer(origin)
      BY <2>1, <2>2, <3>2, Hosts DEF IsClone
    <3> QED
      BY <2>2, <3>1, <3>2, Hosts
  <2> QED
    BY <1>4, <1>7, <2>3, FS_Singleton
<1> QED
  BY <1>6, <1>7

(***************************************************************************)
(* Every IPv4 packet comes out at exactly one SF, at the other host and,   *)
(* through the ingress half, that of its address; a packet to QP1 has been *)
(* cloned exactly once on each host and no other packet has.               *)
(***************************************************************************)
THEOREM AlwaysDeliveredOnce == Spec => []DeliveredOnce
<1>1. Init => DeliveredOnce
  BY DEF Init, DeliveredOnce
<1>2. Parts /\ DeliveredOnce /\ [Next]_vars => DeliveredOnce'
  <2> SUFFICES ASSUME Parts, DeliveredOnce, [Next]_vars PROVE DeliveredOnce'
    OBVIOUS
  <2>1. CASE SamePacket /\ UNCHANGED <<at, out>>
    BY <2>1 DEF SamePacket, DeliveredOnce, ToSf, Copies, PassesIngress, Ingress, Egress, IsIp4
  <2>2. CASE ToSf' = {} /\ (at' # "out" \/ (SamePacket /\ ~IsIp4(pkt)))
    BY <2>2 DEF DeliveredOnce, SamePacket, IsIp4, Parts, Kept
  <2>3. CASE FloodsArp
    BY <2>3 DEF DeliveredOnce, FloodsArp, SamePacket, IsIp4, Parts, Kept
  <2>4. ASSUME NEW p \in Path, DeliversOne(p) PROVE DeliveredOnce'
    <3>1. Cardinality(ToSf') = 1
      BY <2>4, FS_Singleton DEF DeliversOne
    <3>2. origin' = origin /\ sent' = sent
      BY <2>4 DEF DeliversOne, SamePacket
    <3>3. ASSUME NEW i \in ToSf'
          PROVE  /\ out'[i].host = Peer(origin)
                 /\ PassesIngress(i)' => out'[i].port \in OwnSf(sent)
      BY <2>4, WhatIsDelivered DEF Parts, MarkedAndCleared, DeliversOne
    <3>4. \A h \in Host : Copies(h, "rss")' = IF sent.kind = "cm" THEN 1 ELSE 0
      BY <2>4, ClonesAndOne
    <3> QED
      BY <3>1, <3>2, <3>3, <3>4 DEF DeliveredOnce
  <2> QED
    BY <2>1, <2>2, <2>3, <2>4, Delivering
<1> QED
  BY <1>1, <1>2, PartsHold, PTL DEF Spec

-------------------------------------------------------------------------------
(* The sampler: the rates it supports, and the one it selects.             *)

(* The powers of two the rates are fractions by are positive.              *)
LEMMA TwoTo == \A i \in 0 .. RandomWidth : 2 ^ i \in Nat \ {0}
<1> DEFINE Bad == {i \in 0 .. RandomWidth : 2 ^ i \notin Nat \ {0}}
<1>1. SUFFICES ASSUME Bad # {} PROVE FALSE
  OBVIOUS
<1>0. RandomWidth \in Nat \ {0} /\ Bad \subseteq Nat
  BY SteerDatapathAssumption
<1>2. PICK i \in Bad : \A m \in Bad : ~(m < i)
  <2> HIDE DEF Bad
  <2>1. PICK i \in Bad : \A m \in Bad : <<m, i>> \notin OpToRel(<, Nat)
    BY <1>0, <1>1, NatLessThanWellFounded, WFMin
  <2>2. \A m \in Bad : m < i => <<m, i>> \in OpToRel(<, Nat)
    BY <1>0, <2>1 DEF OpToRel
  <2> QED
    BY <2>1, <2>2
<1>3. i # 0
  <2>1. 2 ^ 0 \in Nat \ {0} /\ 2 ^ i \notin Nat \ {0}
    BY <1>2, PowersOfTwo
  <2> QED
    BY <2>1
<1>4. i - 1 \in 0 .. RandomWidth - 1 /\ i - 1 \notin Bad /\ (i - 1) + 1 = i
  BY <1>0, <1>2, <1>3
<1>5. 2 ^ (i - 1) \in Nat \ {0}
  BY <1>0, <1>4
<1>6. 2 ^ i = 2 * 2 ^ (i - 1)
  BY <1>4, PowersOfTwo
<1>7. \A x \in Nat \ {0} : 2 * x \in Nat \ {0}
  OBVIOUS
<1> QED
  BY <1>2, <1>5, <1>6, <1>7

(* 2^i times 2^(W-i).                                                    *)
LEMMA PowerSplit ==
  \A i \in 0 .. RandomWidth : 2 ^ i * 2 ^ (RandomWidth - i) = 2 ^ RandomWidth
<1> DEFINE W   == RandomWidth
           Bad == {i \in 0 .. W : 2 ^ i * 2 ^ (W - i) # 2 ^ W}
<1>0. W \in Nat \ {0} /\ Bad \subseteq Nat
  BY SteerDatapathAssumption
<1>1. SUFFICES ASSUME Bad # {} PROVE FALSE
  OBVIOUS
<1>2. PICK i \in Bad : \A m \in Bad : ~(m < i)
  <2> HIDE DEF Bad
  <2>1. PICK i \in Bad : \A m \in Bad : <<m, i>> \notin OpToRel(<, Nat)
    BY <1>0, <1>1, NatLessThanWellFounded, WFMin
  <2>2. \A m \in Bad : m < i => <<m, i>> \in OpToRel(<, Nat)
    BY <1>0, <2>1 DEF OpToRel
  <2> QED
    BY <2>1, <2>2
<1>3. i \in 0 .. W /\ 2 ^ i * 2 ^ (W - i) # 2 ^ W
  BY <1>2
<1>4. i # 0
  <2>1. CASE i = 0
    <3>1. W - i = W /\ 2 ^ i = 1 /\ 2 ^ W \in Nat
      BY <1>0, <2>1, PowersOfTwo, TwoTo
    <3> QED
      BY <1>3, <3>1
  <2> QED
    BY <2>1
<1>5. i - 1 \in 0 .. W /\ i - 1 \in 0 .. W - 1 /\ W - i \in 0 .. W /\ W - i \in 0 .. W - 1 /\ i - 1 < i
  BY <1>0, <1>3, <1>4
<1>6. 2 ^ (i - 1) * 2 ^ (W - (i - 1)) = 2 ^ W
  <2>1. i - 1 \notin Bad
    BY <1>2, <1>5
  <2> QED
    BY <1>5, <2>1
<1>7. (i - 1) + 1 = i /\ W - (i - 1) = (W - i) + 1
  BY <1>0, <1>3
<1>8. 2 ^ i = 2 * 2 ^ (i - 1) /\ 2 ^ (W - (i - 1)) = 2 * 2 ^ (W - i)
  BY <1>5, <1>7, PowersOfTwo
<1>9. PICK a \in Nat, b \in Nat : a = 2 ^ (i - 1) /\ b = 2 ^ (W - i)
  <2>1. 2 ^ (i - 1) \in Nat /\ 2 ^ (W - i) \in Nat
    BY <1>0, <1>5, TwoTo
  <2> QED
    BY <2>1
<1>10. (2 * a) * b = a * (2 * b)
  OBVIOUS
<1>11. (2 * a) * b = 2 ^ i * 2 ^ (W - i) /\ a * (2 * b) = 2 ^ W
  BY <1>6, <1>8, <1>9, Zenon
<1> QED
  BY <1>3, <1>10, <1>11, Zenon

(* One more bit of the mask halves the rate, exactly.                      *)
LEMMA RatesHalve ==
  /\ Whole \div 2 ^ 0 = Whole
  /\ \A i \in 0 .. RandomWidth : Whole \div 2 ^ i \in Nat
  /\ \A i \in 1 .. RandomWidth : Whole \div 2 ^ (i - 1) = 2 * (Whole \div 2 ^ i)
<1> DEFINE W == RandomWidth
<1>0. W \in Nat \ {0} /\ Whole \in Nat \ {0}
  BY SteerDatapathAssumption
<1>1. PICK q \in Nat, R \in Nat \ {0} : R = 2 ^ W /\ Whole = R * q
  <2>1. PICK R \in Nat \ {0}, w \in Nat : R = 2 ^ W /\ w = Whole
    BY <1>0, TwoTo
  <2>2. w % R = 0
    BY <2>1, SteerDatapathAssumption
  <2>3. (w \div R) \in Nat /\ w = R * (w \div R) + (w % R)
    OBVIOUS
  <2>4. w = R * (w \div R)
    BY <2>2, <2>3
  <2> QED
    BY <2>1, <2>3, <2>4
<1>2. ASSUME NEW i \in 0 .. W PROVE Whole \div 2 ^ i = 2 ^ (W - i) * q
  <2>1. W - i \in 0 .. W
    BY <1>0
  <2>2. PICK a \in Nat \ {0}, d \in Nat \ {0} : a = 2 ^ i /\ d = 2 ^ (W - i)
    BY <1>0, <2>1, TwoTo
  <2>3. a * d = R
    BY <1>1, <2>2, PowerSplit
  <2>4. PICK e \in Nat : e = d * q
    OBVIOUS
  <2>5. Whole = a * e
    <3>1. (a * d) * q = a * (d * q)
      OBVIOUS
    <3> QED
      BY <1>1, <2>3, <2>4, <3>1
  <2>6. (a * e) \div a = e
    OBVIOUS
  <2> QED
    BY <2>2, <2>4, <2>5, <2>6, Zenon
<1>3. \A i \in 0 .. W : Whole \div 2 ^ i \in Nat
  <2> SUFFICES ASSUME NEW i \in 0 .. W PROVE Whole \div 2 ^ i \in Nat
    OBVIOUS
  <2>1. W - i \in 0 .. W
    BY <1>0
  <2>2. PICK d \in Nat : d = 2 ^ (W - i)
    BY <2>1, TwoTo
  <2>3. d * q \in Nat
    OBVIOUS
  <2> QED
    BY <1>2, <2>2, <2>3
<1>4. ASSUME NEW i \in 1 .. W PROVE Whole \div 2 ^ (i - 1) = 2 * (Whole \div 2 ^ i)
  <2>1. i \in 0 .. W /\ i - 1 \in 0 .. W /\ W - i \in 0 .. W - 1 /\ W - i \in 0 .. W
        /\ W - (i - 1) = (W - i) + 1
    BY <1>0
  <2>2. PICK d \in Nat : d = 2 ^ (W - i)
    BY <2>1, TwoTo
  <2>3. 2 ^ (W - (i - 1)) = 2 * d
    BY <2>1, <2>2, PowersOfTwo
  <2>4. (2 * d) * q = 2 * (d * q)
    OBVIOUS
  <2>5. Whole \div 2 ^ (i - 1) = (2 * d) * q /\ Whole \div 2 ^ i = d * q
    BY <1>2, <2>1, <2>2, <2>3
  <2> QED
    BY <2>4, <2>5, Zenon
<1>5. Whole \div 2 ^ 0 = Whole
  <2>1. 2 ^ 0 = 1
    BY PowersOfTwo
  <2>2. \A x \in Nat : x \div 1 = x
    OBVIOUS
  <2> QED
    BY <1>0, <2>1, <2>2
<1> QED
  BY <1>3, <1>4, <1>5

(* The least number of bits whose rate is reached, if there is one.        *)
LEMMA RandomBitsLeast ==
  ASSUME NEW rate \in Int, RandomWidth > 1, rate >= Whole \div 2 ^ (RandomWidth - 1)
  PROVE  /\ RandomBits(rate) \in 1 .. RandomWidth - 1
         /\ rate >= Whole \div 2 ^ RandomBits(rate)
         /\ \A j \in 1 .. RandomBits(rate) - 1 : ~(rate >= Whole \div 2 ^ j)
<1> DEFINE W       == RandomWidth
           reached == {i \in 1 .. W - 1 : rate >= Whole \div 2 ^ i}
           least(i) == \A j \in reached : i <= j
<1>0. W \in Nat \ {0}
  BY SteerDatapathAssumption
<1>1. W - 1 \in reached /\ reached \subseteq Nat /\ reached \subseteq Int
  BY <1>0
<1>2. \E i \in reached : least(i)
  <2> HIDE DEF reached
  <2>1. PICK i \in reached : \A m \in reached : <<m, i>> \notin OpToRel(<, Nat)
    BY <1>1, NatLessThanWellFounded, WFMin
  <2>2. \A m \in reached : m < i => <<m, i>> \in OpToRel(<, Nat)
    BY <1>1, <2>1 DEF OpToRel
  <2>3. \A m \in reached : ~(m < i)
    BY <2>1, <2>2
  <2>4. \A m \in reached : m \in Int /\ i \in Int
    BY <1>1, <2>1
  <2>5. \A m \in reached : i <= m
    BY <2>3, <2>4
  <2> QED
    BY <2>1, <2>5
<1> DEFINE k == CHOOSE i \in reached : least(i)
<1>3. RandomBits(rate) = k
  BY <1>1 DEF RandomBits
<1>4. k \in reached /\ least(k)
  <2> HIDE DEF reached, least
  <2> QED
    BY <1>2
<1> HIDE DEF k
<1>5. k \in 1 .. W - 1 /\ rate >= Whole \div 2 ^ k
  BY <1>4
<1>6. \A j \in 1 .. k - 1 : j \in 1 .. W - 1 /\ j \notin reached
  BY <1>0, <1>4, <1>5
<1>7. \A j \in 1 .. k - 1 : ~(rate >= Whole \div 2 ^ j)
  BY <1>6, Zenon
<1> QED
  BY <1>3, <1>5, <1>7

(* The rate is reached with these bits, and was not with one bit less.     *)
LEMMA RoundsDown ==
  ASSUME TypeOK, NEW h \in Host, NEW p \in Path
  PROVE  LET rate == SelectedRate(config[h].percent[p])
         IN  PathCeTarget(h, p) = "RANDOM_SAMPLE" /\ rate >= Whole \div 2 ^ (RandomWidth - 1) =>
               SampledRate(rate) <= rate /\ rate < 2 * SampledRate(rate)
<1> DEFINE rate == SelectedRate(config[h].percent[p])
           W    == RandomWidth
<1> SUFFICES ASSUME PathCeTarget(h, p) = "RANDOM_SAMPLE", rate >= Whole \div 2 ^ (W - 1)
             PROVE  SampledRate(rate) <= rate /\ rate < 2 * SampledRate(rate)
  OBVIOUS
<1>0. W \in Nat \ {0} /\ Whole \in Nat
  BY SteerDatapathAssumption
<1>1. rate \in Int
  <2>1. config[h].percent[p] \in Int
    BY SteerDatapathAssumption DEF TypeOK, Config
  <2> QED
    BY <1>0, <2>1 DEF SelectedRate
<1>2. ~(rate >= Whole)
  BY DEF PathCeTarget
<1> HIDE DEF rate
<1>3. W > 1
  <2>1. CASE W = 1
    <3>1. W - 1 = 0
      BY <2>1
    <3> QED
      BY <1>2, <3>1, RatesHalve
  <2> QED
    BY <1>0, <2>1
<1> DEFINE i == RandomBits(rate)
<1>4. /\ i \in 1 .. W - 1 /\ rate >= Whole \div 2 ^ i
      /\ \A j \in 1 .. i - 1 : ~(rate >= Whole \div 2 ^ j)
  BY <1>1, <1>3, RandomBitsLeast
<1> HIDE DEF i
<1>5. i \in 1 .. W /\ i \in 0 .. W /\ i - 1 \in 0 .. W
  BY <1>0, <1>4
<1>6. PICK u \in Nat, v \in Nat : u = Whole \div 2 ^ i /\ v = Whole \div 2 ^ (i - 1) /\ v = 2 * u
  BY <1>5, RatesHalve
<1>7. ~(rate >= v)
  <2>1. CASE i = 1
    <3>1. i - 1 = 0
      BY <2>1
    <3> QED
      BY <1>2, <1>6, <3>1, RatesHalve
  <2>2. CASE i # 1
    <3>1. i - 1 \in 1 .. i - 1
      BY <1>5, <2>2
    <3> QED
      BY <1>4, <1>6, <3>1
  <2> QED
    BY <2>1, <2>2
<1>8. u <= rate /\ rate < 2 * u
  BY <1>1, <1>4, <1>6, <1>7
<1> QED
  BY <1>6, <1>8 DEF SampledRate, i

(***************************************************************************)
(* SampleRoundsDown: the rate get_random_mask() selects is not above the   *)
(* one asked for and more than half of it, for every percentage and every  *)
(* width of the random field.                                              *)
(***************************************************************************)
THEOREM SampleAlwaysRoundsDown == Spec => []SampleRoundsDown
<1>1. TypeOK => SampleRoundsDown
  BY RoundsDown DEF SampleRoundsDown
<1> QED
  BY <1>1, TypeInvariant, PTL

=============================================================================
