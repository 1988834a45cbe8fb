------------------------------- MODULE SteerLoop -------------------------------
(***************************************************************************)
(* The closed loop of the egress process: RateGrouping and                 *)
(* ClassifyDispatch run by the main thread's loop.  steer_poll() first     *)
(* drains the cloned CM packets, then walks the flow table, then applies   *)
(* the share; the trace thread reports rates at any time the lock is free, *)
(* and the hardware executes rule updates at its own pace.                 *)
(*                                                                         *)
(* Left out here: the sender CNP counters (no counter pipe, as in a DOCA   *)
(* 2.9 build), whose use of the same queue is in ClassifyDispatch.         *)
(***************************************************************************)
EXTENDS PathShare, Sequences, FiniteSets

CONSTANTS
  Qpn, Connection, PathIp, ReportedRate, MaxRateFlows, MaxCmConnections, MaxReports,
  MaxFaults, MaxTimeouts,
  MaxTotalReports   (* bound: reports the device sends in a behaviour      *)

ASSUME SteerLoopAssumption ==
  /\ Qpn \subseteq Nat
  /\ IsFiniteSet(Qpn)
  /\ \A c \in Connection : c.qpn \in Qpn /\ c.qpn > 1
  /\ \A r \in ReportedRate : r \in Rate
  /\ MaxRateFlows \in Nat
  /\ MaxCmConnections \in Nat
  /\ MaxReports \in Nat
  /\ MaxFaults \in Nat
  /\ MaxTimeouts \in Nat
  /\ MaxTotalReports \in Nat

VARIABLES
  live, tracked, rateFlow, cmRequest, qpnPair, lock, todo, tally,   (* RateGrouping *)
  wanted,                                                           (* in both *)
  pc, target, bucketPath, applied, rule, queue, faults, timeouts,   (* ClassifyDispatch *)
  main,      (* the main thread: receiving, walking the flows, or applying *)
  reported   (* reports the device has sent                                *)

Grouping == INSTANCE RateGrouping WITH cnpEntry <- <<>>, MaxCnpQps <- 0
Dispatch == INSTANCE ClassifyDispatch
              WITH cnpEntries <- 0, MaxCnpQps <- 0, RequestedShare <- Share

groupingVars == <<live, tracked, rateFlow, cmRequest, qpnPair, lock, todo, tally>>
dispatchVars == <<pc, target, bucketPath, applied, rule, queue, faults, timeouts>>
vars == <<groupingVars, wanted, dispatchVars, main, reported>>

-----------------------------------------------------------------------------
Init ==
  /\ Grouping!Init
  /\ Dispatch!Init
  /\ main = "receive"
  /\ reported = 0

(* The hosts, and the trace thread. *)
Open(c) == Grouping!Open(c) /\ UNCHANGED <<dispatchVars, main, reported>>

Report(q, rate) ==
  /\ reported < MaxTotalReports
  /\ Grouping!Report(q, rate)
  /\ reported' = reported + 1
  /\ UNCHANGED <<dispatchVars, main>>

(* steer_poll_rx(): between polls and at the start of each. *)
Receive(c) ==
  /\ main = "receive"
  /\ Grouping!RememberCmRequest(c) \/ Grouping!CompleteCmMapping(c)
  /\ UNCHANGED <<dispatchVars, main, reported>>

StartWalk ==
  /\ main = "receive"
  /\ Grouping!BeginTally
  /\ main' = "walk"
  /\ UNCHANGED <<dispatchVars, reported>>

WalkFlow(q) == Grouping!TallyFlow(q) /\ UNCHANGED <<dispatchVars, main, reported>>

\* variant: the share is recorded as applied before it is
FinishWalkCommits ==
  /\ Grouping!EndTally
  /\ applied' = wanted'
  /\ main' = IF wanted' = applied THEN "receive" ELSE "apply"
  /\ UNCHANGED <<pc, target, bucketPath, rule, queue, faults, timeouts, reported>>

\* variant: a share is applied only when it differs from the last computed one
FinishWalkOnce ==
  /\ Grouping!EndTally
  /\ main' = IF wanted' = wanted THEN "receive" ELSE "apply"
  /\ UNCHANGED <<dispatchVars, reported>>

(* apply_path_share() returns at once if the share is the applied one. *)
FinishWalk ==
  /\ Grouping!EndTally
  /\ main' = IF wanted' = applied THEN "receive" ELSE "apply"
  /\ UNCHANGED <<dispatchVars, reported>>

ApplyStep ==
  /\ main = "apply"
  /\ Dispatch!Apply
  /\ main' = IF pc' = "idle" THEN "receive" ELSE "apply"
  /\ UNCHANGED <<groupingVars, reported>>

HardwareStep == Dispatch!Hardware /\ UNCHANGED <<groupingVars, main, reported>>

Poll == StartWalk \/ (\E q \in Qpn : WalkFlow(q)) \/ FinishWalk \/ ApplyStep

Next ==
  \/ \E c \in Connection : Open(c) \/ Receive(c)
  \/ \E q \in Qpn, rate \in ReportedRate : Report(q, rate)
  \/ Poll
  \/ HardwareStep

(* The main loop polls once per second; the hardware does not stall. *)
Spec == Init /\ [][Next]_vars /\ WF_vars(Poll)
             /\ WF_vars(Dispatch!HwExecute /\ UNCHANGED <<groupingVars, main, reported>>)

-----------------------------------------------------------------------------
(* The loop is one of the runs ClassifyDispatch allows, and so keeps the   *)
(* promise of ShareTable.                                                  *)
LoopRefinesDispatch == Dispatch!Spec

(***************************************************************************)
(* When the device has nothing more to report, the smoothed rates settle,  *)
(* the share computed from them settles, and it is applied; if no rule     *)
(* update failed or timed out, the hardware forwards exactly that share.   *)
(***************************************************************************)
LoopSettles ==
  /\ <>[](applied = wanted)
  /\ <>[](faults = 0 /\ timeouts = 0 => rule = Split(wanted))
  /\ \E s \in Share : <>[](wanted = s)

=============================================================================
