----------------------------- MODULE RateGrouping -----------------------------
(***************************************************************************)
(* The tables behind rate_lock in steering/steer.c: the rate of every      *)
(* sender QPN the device reports, the RDMA-CM requests and QPN pairs that  *)
(* tell which path a QPN belongs to, and the CNP counters of the learned   *)
(* QPNs.                                                                   *)
(*                                                                         *)
(* Two threads use them.  The PCC trace thread calls                       *)
(* steer_update_pcc_rate() for each report.  The main thread learns from   *)
(* cloned RDMA-CM packets and, once per poll, walks the flows to tally     *)
(* them.  The walk holds rate_lock for many steps, so it is one step per   *)
(* flow here; the other critical sections are straight-line code and one   *)
(* step each.                                                              *)
(*                                                                         *)
(* CM packets are cloned to the RX queue: a clone may be lost, and a       *)
(* retransmitted packet is cloned again.  Not kept: receiver and responder *)
(* QPNs and receiver_ip, which are only logged.                            *)
(***************************************************************************)
EXTENDS PathShare, Sequences, FiniteSets

CONSTANTS
  Qpn,               (* queue pair numbers, naturals; 0 and 1 are reserved *)
  Connection,        (* connections: [comm, qpn, ip]                       *)
  PathIp,            (* opts.path_ip: the receiver address of each path    *)
  ReportedRate,      (* rates the device reports                           *)
  MaxRateFlows,      (* MAX_RATE_FLOWS, 256                                *)
  MaxCmConnections,  (* MAX_CM_CONNECTIONS, 256                            *)
  MaxCnpQps,         (* MAX_CNP_TRACKED_QPS, 64                            *)
  MaxReports         (* bound: reports of a flow within one poll interval  *)

ASSUME RateGroupingAssumption ==
  /\ Qpn \subseteq Nat
  /\ IsFiniteSet(Qpn)
  /\ \A c \in Connection : c.qpn \in Qpn /\ c.qpn > 1
  /\ \A r \in ReportedRate : r \in Rate
  /\ MaxRateFlows \in Nat
  /\ MaxCmConnections \in Nat
  /\ MaxCnpQps \in Nat
  /\ MaxReports \in Nat

VARIABLES
  live,       (* the connection of each QPN that is open, by the hosts     *)
  tracked,    (* QPNs with an entry in rate_flow                           *)
  rateFlow,   (* rate_flow[], by QPN                                       *)
  cmRequest,  (* cm_request[]                                              *)
  qpnPair,    (* qpn_pair[]: the path of each paired initiator QPN         *)
  cnpEntry,   (* cnp_sender_qpn[], cnp_path[]                              *)
  lock,       (* rate_lock: free, or held by the main thread's walk        *)
  todo,       (* flows the walk has not reached                            *)
  tally,      (* total, full, reduced and reduced_sum of the walk          *)
  wanted      (* path0, the share the last poll computed                   *)

tables == <<tracked, rateFlow, cmRequest, qpnPair, cnpEntry>>
walk == <<lock, todo, tally, wanted>>
vars == <<live, tables, walk>>

NoRate == -1        \* smoothed_rate_valid = false
Unknown == -1       \* path_known = false, or classified = false
PathOrUnknown == Path \cup {Unknown}
NoConnection == [comm |-> 0, qpn |-> 0, ip |-> 0]

NewFlow == [latest |-> 0, sum |-> 0, reports |-> 0, smoothed |-> NoRate, path |-> Unknown]

-----------------------------------------------------------------------------
(* Look-ups.                                                               *)

PathOf(ip) ==
  IF PathIp[0] = ip THEN 0 ELSE IF PathIp[1] = ip THEN 1 ELSE Unknown

FirstOf(S) == {i \in S : \A j \in S : i <= j}
RequestsBy(comm) == FirstOf({i \in DOMAIN cmRequest : cmRequest[i].comm = comm})
\* variant: the first request with a known receiver, whatever its QPN
RequestsForAny(q) == FirstOf({i \in DOMAIN cmRequest : cmRequest[i].path # Unknown})

RequestsFor(q) ==
  FirstOf({i \in DOMAIN cmRequest : cmRequest[i].qpn = q /\ cmRequest[i].path # Unknown})

(* What steer_update_pcc_rate() finds: the pair first, then the requests.  *)
KnownPaths(q) ==
  IF qpnPair[q] # Unknown THEN {qpnPair[q]}
  ELSE IF RequestsFor(q) = {} THEN {Unknown}
  ELSE {cmRequest[i].path : i \in RequestsFor(q)}

Paired == {q \in Qpn : qpnPair[q] # Unknown}
Counted(q) == \E i \in DOMAIN cnpEntry : cnpEntry[i].qpn = q

SetPath(q, p) ==
  rateFlow' = IF q \in tracked THEN [rateFlow EXCEPT ![q] = [@ EXCEPT !.path = p]] ELSE rateFlow

-----------------------------------------------------------------------------
Init ==
  /\ live = [q \in Qpn |-> NoConnection]
  /\ tracked = {}
  /\ rateFlow = [q \in Qpn |-> NewFlow]
  /\ cmRequest = <<>>
  /\ qpnPair = [q \in Qpn |-> Unknown]
  /\ cnpEntry = <<>>
  /\ lock = "free"
  /\ todo = {}
  /\ tally = EmptyTally
  /\ wanted = HalfShare

(* A host opens a connection; its QPN and comm_id may have been used       *)
(* before, by connections that are closed now.                             *)
Open(c) ==
  /\ live[c.qpn] # c
  /\ live' = [q \in Qpn |-> IF q = c.qpn THEN c
                            ELSE IF live[q].comm = c.comm THEN NoConnection ELSE live[q]]
  /\ UNCHANGED <<tables, walk>>

Reported(f, rate, known) ==
  [latest |-> rate, sum |-> f.sum + rate, reports |-> f.reports + 1, smoothed |-> f.smoothed,
   path |-> IF f.path = Unknown THEN known ELSE f.path]

\* variant: the capacity of the table is not checked
ReportNoLimit(q, rate) ==
  /\ lock = "free"
  /\ q > 1
  /\ rateFlow[q].reports < MaxReports
  /\ tracked' = tracked \cup {q}
  /\ \E known \in KnownPaths(q) :
       rateFlow' = [rateFlow EXCEPT ![q] = Reported(@, rate, known)]
  /\ UNCHANGED <<live, cmRequest, qpnPair, cnpEntry, walk>>

\* variant: the trace thread does not take the lock
ReportUnlocked(q, rate) ==
  /\ q > 1
  /\ q \in tracked \/ Cardinality(tracked) < MaxRateFlows
  /\ rateFlow[q].reports < MaxReports
  /\ tracked' = tracked \cup {q}
  /\ \E known \in KnownPaths(q) :
       rateFlow' = [rateFlow EXCEPT ![q] = Reported(@, rate, known)]
  /\ UNCHANGED <<live, cmRequest, qpnPair, cnpEntry, walk>>

(* steer_update_pcc_rate(), on the trace thread.  A full table drops the   *)
(* report.                                                                 *)
Report(q, rate) ==
  /\ lock = "free"
  /\ q > 1
  /\ q \in tracked \/ Cardinality(tracked) < MaxRateFlows
  /\ rateFlow[q].reports < MaxReports
  /\ tracked' = tracked \cup {q}
  /\ \E known \in KnownPaths(q) :
       rateFlow' = [rateFlow EXCEPT ![q] = Reported(@, rate, known)]
  /\ UNCHANGED <<live, cmRequest, qpnPair, cnpEntry, walk>>

\* variant: only an already tracked flow is classified by a report, never by a request
RememberCmRequestOnly(c) ==
  /\ lock = "free"
  /\ live[c.qpn] = c
  /\ IF RequestsBy(c.comm) = {} /\ Len(cmRequest) < MaxCmConnections
       THEN cmRequest' = Append(cmRequest, [comm |-> c.comm, qpn |-> c.qpn, path |-> PathOf(c.ip)])
       ELSE UNCHANGED cmRequest
  /\ UNCHANGED <<live, tracked, rateFlow, qpnPair, cnpEntry, walk>>

(* remember_cm_request(): a clone of the REQ of an open connection.  A     *)
(* known comm_id only has its entry overwritten; a new one is appended     *)
(* while there is room, and classifies the flow if its receiver is known.  *)
RememberCmRequest(c) ==
  LET path == PathOf(c.ip)
      entry == [comm |-> c.comm, qpn |-> c.qpn, path |-> path]
  IN
  /\ lock = "free"
  /\ live[c.qpn] = c
  /\ \/ /\ RequestsBy(c.comm) # {}
        /\ \E i \in RequestsBy(c.comm) : cmRequest' = [cmRequest EXCEPT ![i] = entry]
        /\ UNCHANGED rateFlow
     \/ /\ RequestsBy(c.comm) = {}
        /\ cmRequest' = IF Len(cmRequest) < MaxCmConnections
                          THEN Append(cmRequest, entry) ELSE cmRequest
        /\ IF path # Unknown THEN SetPath(c.qpn, path) ELSE UNCHANGED rateFlow
  /\ UNCHANGED <<live, tracked, qpnPair, cnpEntry, walk>>

\* variant: the table is not searched for the QPN first
InstallSenderCnpEntryAgain(q, p) ==
  cnpEntry' = IF Len(cnpEntry) < MaxCnpQps THEN Append(cnpEntry, [qpn |-> q, path |-> p])
              ELSE cnpEntry

(* install_sender_cnp_entry(): a QPN that has a counter keeps it as it is. *)
(* Adding the rule may fail, and is then tried again at the next REP.      *)
InstallSenderCnpEntry(q, p) ==
  \/ /\ ~Counted(q) /\ Len(cnpEntry) < MaxCnpQps
     /\ cnpEntry' = Append(cnpEntry, [qpn |-> q, path |-> p])
  \/ UNCHANGED cnpEntry

(* complete_cm_mapping(): a clone of the REP; the request it answers is    *)
(* found by comm_id.                                                       *)
CompleteCmMapping(c) ==
  /\ lock = "free"
  /\ live[c.qpn] = c
  /\ \E i \in RequestsBy(c.comm) :
       LET q == cmRequest[i].qpn
           p == cmRequest[i].path
       IN
       /\ p # Unknown
       /\ qpnPair' = IF q \in Paired \/ Cardinality(Paired) < MaxCmConnections
                       THEN [qpnPair EXCEPT ![q] = p] ELSE qpnPair
       /\ SetPath(q, p)
       /\ InstallSenderCnpEntry(q, p)
  /\ UNCHANGED <<live, tracked, cmRequest, walk>>

-----------------------------------------------------------------------------
(* steer_poll(): the walk over the flows, under the lock, and the share.   *)

BeginTally ==
  /\ lock = "free"
  /\ lock' = "held"
  /\ todo' = tracked
  /\ tally' = EmptyTally
  /\ UNCHANGED <<live, tables, wanted>>

\* variant: a sample replaces the history when it is at full rate
SampleForgets(f) ==
  LET rate == IntervalRate(f.latest, f.sum, f.reports)
  IN  IF f.smoothed = NoRate \/ rate = FullRate THEN rate ELSE Smooth(f.smoothed, rate)

Sample(f) ==
  LET rate == IntervalRate(f.latest, f.sum, f.reports)
  IN  IF f.smoothed = NoRate THEN rate ELSE Smooth(f.smoothed, rate)

Sampled(f, s) ==
  [latest |-> f.latest, sum |-> 0, reports |-> 0, smoothed |-> s, path |-> f.path]

TallyFlow(q) ==
  /\ lock = "held"
  /\ q \in todo
  /\ todo' = todo \ {q}
  /\ LET f == rateFlow[q]
         s == Sample(f)
     IN  /\ rateFlow' = [rateFlow EXCEPT ![q] = Sampled(f, s)]
         /\ tally' = IF f.path = Unknown THEN tally ELSE CountFlow(tally, f.path, s)
  /\ UNCHANGED <<live, tracked, cmRequest, qpnPair, cnpEntry, lock, wanted>>

EndTally ==
  /\ lock = "held"
  /\ todo = {}
  /\ lock' = "free"
  /\ wanted' = Path0Share(tally)
  /\ UNCHANGED <<live, tables, todo, tally>>

Poll == BeginTally \/ (\E q \in Qpn : TallyFlow(q)) \/ EndTally

Next ==
  \/ \E c \in Connection : Open(c) \/ RememberCmRequest(c) \/ CompleteCmMapping(c)
  \/ \E q \in Qpn, rate \in ReportedRate : Report(q, rate)
  \/ Poll

Spec == Init /\ [][Next]_vars

-----------------------------------------------------------------------------
Flow == [latest : Rate, sum : Nat, reports : Nat, smoothed : Rate \cup {NoRate},
         path : PathOrUnknown]
Request == [comm : {c.comm : c \in Connection}, qpn : Qpn, path : PathOrUnknown]

TypeOK ==
  /\ live \in [Qpn -> Connection \cup {NoConnection}]
  /\ tracked \subseteq Qpn /\ Cardinality(tracked) <= MaxRateFlows
  /\ rateFlow \in [Qpn -> Flow]
  /\ \A q \in Qpn : rateFlow[q].sum <= rateFlow[q].reports * FullRate
  /\ cmRequest \in Seq(Request) /\ Len(cmRequest) <= MaxCmConnections
  /\ qpnPair \in [Qpn -> PathOrUnknown] /\ Cardinality(Paired) <= MaxCmConnections
  /\ cnpEntry \in Seq([qpn : Qpn, path : Path]) /\ Len(cnpEntry) <= MaxCnpQps
  /\ lock \in {"free", "held"}
  /\ todo \subseteq tracked
  /\ wanted \in Share

(***************************************************************************)
(* Learning is independent of the order in which REQ, REP and reports      *)
(* arrive: a flow that is still unclassified has no mapping the host       *)
(* knows.  (While comm_ids are not reused: see README.)                    *)
(***************************************************************************)
PendingHasNoMapping ==
  \A q \in tracked : rateFlow[q].path = Unknown => KnownPaths(q) = {Unknown}

(***************************************************************************)
(* Whatever the host has learned of a QPN, in whichever table, is the path *)
(* of the receiver its connection goes to.  (While QPNs are not reused.)   *)
(***************************************************************************)
GroupedByReceiver ==
  \A q \in Qpn :
    LET learned == {rateFlow[q].path, qpnPair[q]}
                   \cup {cnpEntry[i].path : i \in {j \in DOMAIN cnpEntry : cnpEntry[j].qpn = q}}
    IN  learned \subseteq {Unknown, PathOf(live[q].ip)}

(* A QPN has one CNP counter rule, a comm_id one request, however often    *)
(* the packets are retransmitted.                                          *)
OneEntryEach ==
  /\ \A i, j \in DOMAIN cnpEntry : cnpEntry[i].qpn = cnpEntry[j].qpn => i = j
  /\ \A i, j \in DOMAIN cmRequest : cmRequest[i].comm = cmRequest[j].comm => i = j

(***************************************************************************)
(* The share is computed from one consistent picture of the flow table:    *)
(* when the walk ends, the tally is that of the table as it stands,        *)
(* whatever the trace thread did around it.                                *)
(***************************************************************************)
Grouped(p) == {q \in tracked : rateFlow[q].path = p}
TallyIsOfTheTable ==
  lock = "held" /\ todo = {} =>
    \A p \in Path :
      /\ tally.total[p] = Cardinality(Grouped(p))
      /\ tally.full[p] = Cardinality({q \in Grouped(p) : rateFlow[q].smoothed = FullRate})
      /\ \A q \in tracked : rateFlow[q].reports = 0

(***************************************************************************)
(* A flow whose smoothed rate has once been below full rate never counts   *)
(* as a full-rate flow again: the rounding of the EWMA cannot reach        *)
(* FullRate from below (steer_poll(); README.md of steering/, "Egress      *)
(* control", 5, so never applies again to the group of that flow).         *)
(***************************************************************************)
ReducedForGood ==
  [][\A q \in tracked :
       rateFlow[q].smoothed \in 0 .. FullRate - 1 => rateFlow'[q].smoothed # FullRate]_vars

(***************************************************************************)
(* steering/README.md: "Returning CNP counters are grouped using the same  *)
(* learned sender-QPN path association."                                   *)
(***************************************************************************)
CnpPathIsLearnedPath ==
  \A i \in DOMAIN cnpEntry : cnpEntry[i].path = qpnPair[cnpEntry[i].qpn]

=============================================================================
