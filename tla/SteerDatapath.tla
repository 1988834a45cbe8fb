----------------------------- MODULE SteerDatapath -----------------------------
(***************************************************************************)
(* The packet pipeline steer_start() of steering/steer.c builds on the     *)
(* eSwitch (DOCA 3.x), and two hosts joined by a cable that each run it in *)
(* one role: egress (classify RoCE packets to a virtual path and write the *)
(* path bit), ingress (CE-mark by path, clear the bit, choose the SF), or  *)
(* both.  One action per pipe; a packet is followed from the SF that sends *)
(* it to every port it comes out of.  Packets do not interact in the       *)
(* pipeline, so one is followed at a time.                                 *)
(*                                                                         *)
(* The ToS byte is kept as the path bit (DSCP 0x04), the ECN field and     *)
(* whether any other DSCP bit is set.  Random choices of the hardware      *)
(* (bucket, sampling) are nondeterministic: ClassifyDispatch shows that    *)
(* both paths always have buckets.  The pipes' own rules are taken as      *)
(* installed: each create_* function exits the process otherwise.  What    *)
(* the eSwitch does with a packet that misses a pipe without fwd_miss      *)
(* (non-IPv4 at a DELIVER pipe) is not steer.c's: it comes out nowhere.    *)
(***************************************************************************)
EXTENDS Integers, Sequences, FiniteSets

CONSTANTS
  Qpn,           (* queue pair numbers a CNP may be for                    *)
  PathIp,        (* opts.path_ip: the receiver address of each path        *)
  Packet,        (* packets the hosts' applications send                   *)
  Setup,         (* the pairs of configurations the two processes run with *)
  RandomWidth,   (* RANDOM_FIELD_WIDTH, 16                                 *)
  Whole,         (* 100%, in the units percentages are given in            *)
  MaxPackets     (* bound: packets sent in a behaviour                     *)

Path == 0 .. 1
Host == 0 .. 1
Peer(h) == 1 - h
NoPath == -1

Kind == {"arp", "ip6", "udp", "data", "cm", "cnp"}
Ecn == {"not-ect", "ect0", "ect1", "ce"}
Config == [role : {"ingress", "egress", "both"}, force : Path \cup {NoPath},
           percent : [Path -> 0 .. Whole]]
Header == [kind : Kind, dst : {k.dst : k \in Packet}, qpn : Qpn, class : 0 .. 1, bit : Path,
           ecn : Ecn]
Delivery == [host : Host, port : {"sf0", "sf1", "rss"}, pkt : Header]

(* Every rate the sampler supports is a whole number of units.             *)
ASSUME SteerDatapathAssumption ==
  /\ RandomWidth \in Nat \ {0}
  /\ Whole \in Nat \ {0}
  /\ Whole % 2 ^ RandomWidth = 0
  /\ Packet # {}
  /\ Packet \subseteq Header
  /\ Setup \subseteq [Host -> Config]
  /\ MaxPackets \in Nat

(* What a power of two is; the provers know 2 ^ i as a number only.        *)
ASSUME PowersOfTwo == 2 ^ 0 = 1 /\ \A i \in 0 .. RandomWidth - 1 : 2 ^ (i + 1) = 2 * 2 ^ i

VARIABLES
  config,      (* g_steer.opts of the two processes                        *)
  counted,     (* sender QPNs with a rule in EGRESS_CNP_COUNT              *)
  host, at,    (* where the packet is; at = "out" when it has come out     *)
  pkt,         (* the packet as it is                                      *)
  origin, sent,  (* the host that sent it, and the packet as sent          *)
  chosen,      (* the path a rewrite pipe wrote into it                    *)
  arrived,     (* the packet as it came off the wire                       *)
  out,         (* the copies delivered                                     *)
  rewritten, demuxed,  (* counters of EGRESS_PATHn_REWRITE and INGRESS_PATH_DEMUX *)
  sends        (* packets sent so far                                      *)

fixed == <<config, origin, sent, sends>>
counters == <<rewritten, demuxed>>
vars == <<fixed, counted, host, at, pkt, chosen, arrived, out, counters>>

IsIp4(k) == k.kind \notin {"arp", "ip6"}
IsRoce(k) == k.kind \in {"data", "cm", "cnp"}

Ingress(h) == config[h].role # "egress"
Egress(h) == config[h].role # "ingress"
SfPort(p) == IF p = 0 THEN "sf0" ELSE "sf1"
DeliverPipe(p) == IF p = 0 THEN "DELIVER_SF0" ELSE "DELIVER_SF1"
ReceiverPaths(k) == {p \in Path : IsIp4(k) /\ k.dst = PathIp[p]}

-----------------------------------------------------------------------------
(* The assembly of steer_start(): wire_target and sf_target start as plain *)
(* delivery, and each half the role asks for puts its pipes in front.      *)

ReceiverTarget(h) == IF Ingress(h) THEN "RECEIVER_IP_DEMUX" ELSE "DELIVER_SF0"
RoceWireTarget(h) == IF Ingress(h) THEN "INGRESS_ROCE_CHECK" ELSE ReceiverTarget(h)
CnpWireTarget(h) == IF Egress(h) THEN "EGRESS_CNP_COUNT" ELSE RoceWireTarget(h)
WireTarget(h) == IF Ingress(h) THEN "ARP_CHECK_WIRE" ELSE "QP1_CHECK_WIRE"

RoceSfTarget(h) == IF Egress(h) THEN "EGRESS_ROCE_CHECK" ELSE "DELIVER_WIRE"
SfTarget(h) == IF Ingress(h) THEN "ARP_CHECK_SF" ELSE "QP1_CHECK_SF"

-----------------------------------------------------------------------------
(* Random sampling: path_ce_target() and get_random_mask().                *)

SelectedRate(percent) == IF 2 * percent > Whole THEN Whole ELSE 2 * percent

\* variant: the loop stops one step too early
RandomBitsShort(rate) ==
  LET reached == {i \in 1 .. RandomWidth : rate >= Whole \div 2 ^ i}
  IN  IF reached = {} THEN RandomWidth
      ELSE (CHOOSE i \in reached : \A j \in reached : i <= j) - 1

(* Bits of parser_meta.random that must be zero.  The 3.x mask is shifted  *)
(* left by one in 16 bits, so it never has more than 15.                   *)
RandomBits(rate) ==
  LET reached == {i \in 1 .. RandomWidth - 1 : rate >= Whole \div 2 ^ i}
  IN  IF reached = {} THEN RandomWidth - 1
      ELSE CHOOSE i \in reached : \A j \in reached : i <= j

SampledRate(rate) == Whole \div 2 ^ RandomBits(rate)

PathCeTarget(h, p) ==
  LET rate == SelectedRate(config[h].percent[p])
  IN  IF rate >= Whole THEN "CE_MARK"
      ELSE IF rate <= 0 THEN "INGRESS_CLEAR_PATH" ELSE "RANDOM_SAMPLE"

-----------------------------------------------------------------------------
AnyPacket == CHOOSE k \in Packet : TRUE

Init ==
  /\ config \in Setup
  /\ counted = [h \in Host |-> {}]
  /\ host = 0 /\ at = "out"
  /\ origin = 0 /\ sent = AnyPacket /\ pkt = AnyPacket /\ arrived = AnyPacket
  /\ chosen = NoPath
  /\ out = <<>>
  /\ rewritten = [h \in Host |-> [p \in Path |-> 0]]
  /\ demuxed = [h \in Host |-> [p \in Path |-> 0]]
  /\ sends = 0

(* An application sends a packet through an SF of its host; PORT_DEMUX     *)
(* takes every SF port it knows to the same target.                        *)
Send(h, k) ==
  /\ at = "out"
  /\ sends < MaxPackets
  /\ origin' = h /\ host' = h
  /\ sent' = k /\ pkt' = k /\ arrived' = k
  /\ at' = SfTarget(h)
  /\ chosen' = NoPath
  /\ out' = <<>>
  /\ sends' = sends + 1
  /\ UNCHANGED <<config, counted, counters>>

(* install_sender_cnp_entry(), for a QPN learned from the CM packets.      *)
InstallCnpEntry(h, q) ==
  /\ Egress(h)
  /\ counted' = [counted EXCEPT ![h] = @ \cup {q}]
  /\ UNCHANGED <<fixed, host, at, pkt, chosen, arrived, out, counters>>

-----------------------------------------------------------------------------
(* What a pipe does with its packet: forward it to the next pipe, deliver  *)
(* copies to ports of this host, put it on the wire, or drop it.           *)

Forward(pipe) == at' = pipe /\ UNCHANGED <<host, pkt, arrived, out>>
Rewrite(pipe, k) == at' = pipe /\ pkt' = k /\ UNCHANGED <<host, arrived, out>>
Copy(port) == [host |-> host, port |-> port, pkt |-> pkt]
Deliver(copies) ==
  /\ out' = out \o copies
  /\ at' = "out"
  /\ UNCHANGED <<host, pkt, arrived>>
Drop == Forward("out")
PutOnWire ==
  /\ host' = Peer(host)
  /\ at' = WireTarget(Peer(host))
  /\ arrived' = pkt
  /\ UNCHANGED <<pkt, out>>

(* The ToS byte of a packet replaced. *)
Remark(k, class, bit, ecn) ==
  [kind |-> k.kind, dst |-> k.dst, qpn |-> k.qpn, class |-> class, bit |-> bit, ecn |-> ecn]

(* The counters of a host with one more packet of path p. *)
Counted(count, h, p) == [count EXCEPT ![h] = [count[h] EXCEPT ![p] = @ + 1]]

ArpCheckWire ==
  /\ at = "ARP_CHECK_WIRE"
  /\ IF pkt.kind = "arp" THEN Deliver(<<Copy("sf0"), Copy("sf1")>>)     \* ARP_FLOOD_TO_SFS
                         ELSE Forward("QP1_CHECK_WIRE")
  /\ UNCHANGED <<fixed, counted, chosen, counters>>

ArpCheckSf ==
  /\ at = "ARP_CHECK_SF"
  /\ IF pkt.kind = "arp" THEN PutOnWire ELSE Forward("QP1_CHECK_SF")
  /\ UNCHANGED <<fixed, counted, chosen, counters>>

(* A packet to QP1 is flooded: to QP1_RSS, and around the direction's      *)
(* other pipes to plain delivery.                                          *)
FloodTo(pipe) ==
  /\ out' = Append(out, Copy("rss"))
  /\ at' = pipe
  /\ UNCHANGED <<host, pkt, arrived>>

\* variant: the clone pipe is an ordinary one: hits go to RSS only
QP1CheckWireSteals ==
  /\ at = "QP1_CHECK_WIRE"
  /\ IF pkt.kind = "cm" THEN Deliver(<<Copy("rss")>>) ELSE Forward(CnpWireTarget(host))
  /\ UNCHANGED <<fixed, counted, chosen, counters>>

QP1CheckWire ==
  /\ at = "QP1_CHECK_WIRE"
  /\ IF pkt.kind = "cm" THEN FloodTo(ReceiverTarget(host)) ELSE Forward(CnpWireTarget(host))
  /\ UNCHANGED <<fixed, counted, chosen, counters>>

QP1CheckSf ==
  /\ at = "QP1_CHECK_SF"
  /\ IF pkt.kind = "cm" THEN FloodTo("DELIVER_WIRE") ELSE Forward(RoceSfTarget(host))
  /\ UNCHANGED <<fixed, counted, chosen, counters>>

-----------------------------------------------------------------------------
(* The egress half.                                                        *)

EgressRoceCheck ==
  /\ at = "EGRESS_ROCE_CHECK"
  /\ Forward(IF IsRoce(pkt) THEN "EGRESS_CLASSIFY" ELSE "DELIVER_WIRE")
  /\ UNCHANGED <<fixed, counted, chosen, counters>>

\* variant: the packet is counted, but its ToS byte is left alone
ClassifyCountsOnly(p) ==
  /\ at = "EGRESS_CLASSIFY"
  /\ config[host].force \in {NoPath, p}
  /\ Rewrite("DELIVER_WIRE", pkt)
  /\ chosen' = p
  /\ rewritten' = Counted(rewritten, host, p)
  /\ UNCHANGED <<fixed, counted, demuxed>>

\* variant: the bit's value in the ToS byte is taken for the path
ClassifyRawValue(p) ==
  /\ at = "EGRESS_CLASSIFY"
  /\ config[host].force \in {NoPath, p}
  /\ Rewrite("DELIVER_WIRE", Remark(pkt, 0, 4 * p, "ect0"))
  /\ chosen' = p
  /\ rewritten' = Counted(rewritten, host, p)
  /\ UNCHANGED <<fixed, counted, demuxed>>

(* EGRESS_CLASSIFY picks a bucket, EGRESS_BUCKET_DISPATCH its path, and    *)
(* EGRESS_PATHp_REWRITE writes the whole ToS byte: the bit and ECT(0).  A  *)
(* forced path leaves out the first two.                                   *)
Classify(p) ==
  /\ at = "EGRESS_CLASSIFY"
  /\ config[host].force \in {NoPath, p}
  /\ Rewrite("DELIVER_WIRE", Remark(pkt, 0, p, "ect0"))
  /\ chosen' = p
  /\ rewritten' = Counted(rewritten, host, p)
  /\ UNCHANGED <<fixed, counted, demuxed>>

(* A hit goes straight to SF0, a miss to the rest of the wire pipes. *)
CnpCount ==
  /\ at = "EGRESS_CNP_COUNT"
  /\ Forward(IF pkt.kind = "cnp" /\ pkt.qpn \in counted[host] THEN "DELIVER_SF0"
                                                              ELSE RoceWireTarget(host))
  /\ UNCHANGED <<fixed, counted, chosen, counters>>

-----------------------------------------------------------------------------
(* The ingress half.                                                       *)

IngressRoceCheck ==
  /\ at = "INGRESS_ROCE_CHECK"
  /\ Forward(IF IsRoce(pkt) THEN "INGRESS_PATH_DEMUX" ELSE "RECEIVER_IP_DEMUX")
  /\ UNCHANGED <<fixed, counted, chosen, counters>>

PathDemux ==
  /\ at = "INGRESS_PATH_DEMUX"
  /\ Forward("PATH_IP_MATCH")
  /\ demuxed' = Counted(demuxed, host, pkt.bit)
  /\ UNCHANGED <<fixed, counted, chosen, rewritten>>

\* variant: any receiver address makes a packet eligible
PathIpMatchAny ==
  /\ at = "PATH_IP_MATCH"
  /\ Forward(IF \E p \in Path : pkt.dst = PathIp[p] THEN PathCeTarget(host, pkt.bit)
                                                   ELSE "INGRESS_CLEAR_PATH")
  /\ UNCHANGED <<fixed, counted, chosen, counters>>

(* PATHp_IP_MATCH, for the path p of the packet's bit. *)
PathIpMatch ==
  /\ at = "PATH_IP_MATCH"
  /\ Forward(IF pkt.dst = PathIp[pkt.bit] THEN PathCeTarget(host, pkt.bit)
                                          ELSE "INGRESS_CLEAR_PATH")
  /\ UNCHANGED <<fixed, counted, chosen, counters>>

\* variant: a packet that is not sampled skips the clearing
RandomSampleSkips ==
  /\ at = "RANDOM_SAMPLE"
  /\ Forward("CE_MARK") \/ Forward("RECEIVER_IP_DEMUX")
  /\ UNCHANGED <<fixed, counted, chosen, counters>>

RandomSample ==
  /\ at = "RANDOM_SAMPLE"
  /\ Forward("CE_MARK") \/ Forward("INGRESS_CLEAR_PATH")
  /\ UNCHANGED <<fixed, counted, chosen, counters>>

(* Masked write of 0x03 under 0x07. *)
SelectedMark ==
  /\ at = "CE_MARK"
  /\ Rewrite("RECEIVER_IP_DEMUX", Remark(pkt, pkt.class, 0, "ce"))
  /\ UNCHANGED <<fixed, counted, chosen, counters>>

\* variant: the mask of the write is the whole byte
ClearPathUnmasked ==
  /\ at = "INGRESS_CLEAR_PATH"
  /\ Rewrite("RECEIVER_IP_DEMUX", Remark(pkt, 0, 0, "not-ect"))
  /\ UNCHANGED <<fixed, counted, chosen, counters>>

(* Masked write of 0 under 0x04. *)
ClearPath ==
  /\ at = "INGRESS_CLEAR_PATH"
  /\ Rewrite("RECEIVER_IP_DEMUX", Remark(pkt, pkt.class, 0, pkt.ecn))
  /\ UNCHANGED <<fixed, counted, chosen, counters>>

\* variant: the miss target is the assembled wire target, not plain delivery
ReceiverIpDemuxLoops ==
  /\ at = "RECEIVER_IP_DEMUX"
  /\ \/ \E p \in ReceiverPaths(pkt) : Forward(DeliverPipe(p))
     \/ ReceiverPaths(pkt) = {} /\ Forward(RoceWireTarget(host))
  /\ UNCHANGED <<fixed, counted, chosen, counters>>

ReceiverIpDemux ==
  /\ at = "RECEIVER_IP_DEMUX"
  /\ \/ \E p \in ReceiverPaths(pkt) : Forward(DeliverPipe(p))
     \/ ReceiverPaths(pkt) = {} /\ Forward(DeliverPipe(0))
  /\ UNCHANGED <<fixed, counted, chosen, counters>>

DeliverSf(p) ==
  /\ at = DeliverPipe(p)
  /\ IF IsIp4(pkt) THEN Deliver(<<Copy(SfPort(p))>>) ELSE Drop
  /\ UNCHANGED <<fixed, counted, chosen, counters>>

DeliverWire ==
  /\ at = "DELIVER_WIRE"
  /\ IF IsIp4(pkt) THEN PutOnWire ELSE Drop
  /\ UNCHANGED <<fixed, counted, chosen, counters>>

Pipe ==
  \/ ArpCheckWire \/ ArpCheckSf \/ QP1CheckWire \/ QP1CheckSf
  \/ EgressRoceCheck \/ (\E p \in Path : Classify(p)) \/ CnpCount
  \/ IngressRoceCheck \/ PathDemux \/ PathIpMatch \/ RandomSample \/ SelectedMark \/ ClearPath
  \/ ReceiverIpDemux \/ (\E p \in Path : DeliverSf(p)) \/ DeliverWire

Next ==
  \/ Pipe
  \/ \E h \in Host, k \in Packet : Send(h, k)
  \/ \E h \in Host, q \in Qpn : InstallCnpEntry(h, q)

(* The hardware does not stall. *)
Spec == Init /\ [][Next]_vars /\ WF_vars(Pipe)

-----------------------------------------------------------------------------
PipeName == {"ARP_CHECK_WIRE", "ARP_CHECK_SF", "QP1_CHECK_WIRE", "QP1_CHECK_SF",
  "EGRESS_ROCE_CHECK", "EGRESS_CLASSIFY", "EGRESS_CNP_COUNT", "INGRESS_ROCE_CHECK",
  "INGRESS_PATH_DEMUX", "PATH_IP_MATCH", "RANDOM_SAMPLE", "CE_MARK", "INGRESS_CLEAR_PATH",
  "RECEIVER_IP_DEMUX", "DELIVER_SF0", "DELIVER_SF1", "DELIVER_WIRE"}

TypeOK ==
  /\ config \in Setup
  /\ counted \in [Host -> SUBSET Qpn]
  /\ host \in Host /\ origin \in Host
  /\ at \in PipeName \cup {"out"}
  /\ pkt \in Header /\ sent \in Packet /\ arrived \in Header
  /\ chosen \in Path \cup {NoPath}
  /\ out \in Seq(Delivery)
  /\ rewritten \in [Host -> [Path -> Nat]] /\ demuxed \in [Host -> [Path -> Nat]]
  /\ sends \in 0 .. MaxPackets

ToSf == {i \in DOMAIN out : out[i].port # "rss"}

(* A CNP is taken by EGRESS_CNP_COUNT before the ingress half, if its host *)
(* runs both halves.                                                       *)
PassesIngress(i) == Ingress(out[i].host) /\ ~(Egress(out[i].host) /\ out[i].pkt.kind = "cnp")

(***************************************************************************)
(* The path bit is private to the wire: whatever path the sender's         *)
(* classifier wrote into a packet, and whether it was matched, sampled or  *)
(* neither, the ingress half delivers it to an SF with the bit clear.      *)
(***************************************************************************)
MarkerStaysPrivate ==
  \A i \in ToSf : chosen # NoPath /\ PassesIngress(i) => out[i].pkt.bit = 0

(***************************************************************************)
(* The same with no exception, as the header of steer.c has it: "all       *)
(* branches clear the private path marker before SF delivery".             *)
(***************************************************************************)
AllBranchesClear ==
  \A i \in ToSf : chosen # NoPath /\ Ingress(out[i].host) => out[i].pkt.bit = 0

(***************************************************************************)
(* Congestion is signalled on the right path: a packet is newly CE-marked  *)
(* only if it is RoCE, the path it came by (the one its sender's           *)
(* classifier chose, if that runs) is the path of its receiver address,    *)
(* and that path has a percentage.                                         *)
(***************************************************************************)
NewCeIsOwnPath ==
  \A i \in ToSf : out[i].pkt.ecn = "ce" /\ arrived.ecn # "ce" =>
    /\ IsRoce(sent)
    /\ chosen \in {NoPath, arrived.bit}
    /\ sent.dst = PathIp[arrived.bit]
    /\ config[out[i].host].percent[arrived.bit] > 0

(***************************************************************************)
(* steering/README.md: from the wire to the SF, unrelated DSCP bits and an *)
(* existing ECN mark are preserved; the only new ECN value is CE.          *)
(***************************************************************************)
IngressPreserves ==
  \A i \in ToSf : /\ out[i].pkt.class = arrived.class
                   /\ out[i].pkt.ecn \in {arrived.ecn, "ce"}

(***************************************************************************)
(* An IPv4 packet comes out at exactly one SF, that of its address at the  *)
(* other host, whatever half of the pipeline it crosses; a packet to QP1   *)
(* is cloned exactly once on each host, and no other packet is.            *)
(***************************************************************************)
Copies(h, port) == Cardinality({i \in DOMAIN out : out[i].host = h /\ out[i].port = port})
OwnSf(k) == IF ReceiverPaths(k) = {} THEN {"sf0"} ELSE {SfPort(p) : p \in ReceiverPaths(k)}
DeliveredOnce ==
  at = "out" /\ sends > 0 /\ IsIp4(sent) =>
    /\ Cardinality(ToSf) = 1
    /\ \A i \in ToSf : /\ out[i].host = Peer(origin)
                       /\ PassesIngress(i) => out[i].port \in OwnSf(sent)
    /\ \A h \in Host : Copies(h, "rss") = (IF sent.kind = "cm" THEN 1 ELSE 0)

(***************************************************************************)
(* The throughput the receiver reports per path is the traffic the sender  *)
(* classified to it: with an egress and an ingress process, the counters   *)
(* of EGRESS_PATHn_REWRITE and INGRESS_PATH_DEMUX agree.                   *)
(***************************************************************************)
CountersAgree ==
  \A h \in Host :
    at = "out" /\ Egress(h) /\ config[Peer(h)].role = "ingress" => demuxed[Peer(h)] = rewritten[h]

(***************************************************************************)
(* The sampler marks no more than it is asked to, and more than half of it *)
(* (get_random_mask, "rounds the request down to the nearest supported     *)
(* one"), for rates the 15 usable bits can express.                        *)
(***************************************************************************)
SampleRoundsDown ==
  \A h \in Host, p \in Path :
    LET rate == SelectedRate(config[h].percent[p])
    IN  PathCeTarget(h, p) = "RANDOM_SAMPLE" /\ rate >= Whole \div 2 ^ (RandomWidth - 1) =>
          SampledRate(rate) <= rate /\ rate < 2 * SampledRate(rate)

(* The pipes form no loop: every packet comes out. *)
EveryPacketComesOut == (at # "out") ~> (at = "out")

=============================================================================
