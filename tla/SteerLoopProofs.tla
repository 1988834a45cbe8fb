---------------------------- MODULE SteerLoopProofs ----------------------------
(***************************************************************************)
(* The closed loop, for any sizes of its tables, any rates and connections,*)
(* and any number of reports, faults and timeouts.  Each of its steps is a *)
(* step of the rate tables and a step of the dispatch table (or leaves one *)
(* of them alone), so that what is proved of the two parts on their own    *)
(* holds of the running process: RateGroupingProofs and                    *)
(* ClassifyDispatchProofs are instantiated, not proved again.              *)
(***************************************************************************)
EXTENDS SteerLoop, TLAPS

Tables == INSTANCE RateGroupingProofs WITH cnpEntry <- <<>>, MaxCnpQps <- 0
Table == INSTANCE ClassifyDispatchProofs
           WITH cnpEntries <- 0, MaxCnpQps <- 0, RequestedShare <- Share

(* The constants of the loop are what both parts assume of theirs. *)
LEMMA PartAssumptions ==
  /\ Tables!PathShareAssumption /\ Tables!RateGroupingAssumption
  /\ Table!PathShareAssumption /\ Table!ClassifyDispatchAssumption
<1>1. Tables!PathShareAssumption
  BY PathShareAssumption DEF Tables!PathShareAssumption
<1>2. Tables!RateGroupingAssumption
  BY SteerLoopAssumption
     DEF Tables!RateGroupingAssumption, Tables!IsFiniteSet, IsFiniteSet, Tables!Rate, Rate
<1>3. Table!PathShareAssumption
  BY PathShareAssumption DEF Table!PathShareAssumption
<1>4. Table!ClassifyDispatchAssumption
  BY SteerLoopAssumption
     DEF Table!ClassifyDispatchAssumption, Table!Share, Share, Table!MaxBuckets, MaxBuckets
<1> QED
  BY <1>1, <1>2, <1>3, <1>4

-----------------------------------------------------------------------------
(* The loop as a run of the rate tables.                                   *)

(* The two instances of RateGrouping, one with and one without the proofs, *)
(* have the same initial states and the same actions.                      *)
LEMMA SameInit == Grouping!Init => Tables!Init
BY DEF Grouping!Init, Tables!Init, Grouping!NoConnection, Tables!NoConnection,
       Grouping!NewFlow, Tables!NewFlow, Grouping!NoRate, Tables!NoRate,
       Grouping!Unknown, Tables!Unknown, Grouping!EmptyTally, Tables!EmptyTally,
       Grouping!Path, Tables!Path, Grouping!HalfShare, Tables!HalfShare

LEMMA SameOpen ==
  ASSUME NEW c \in Connection, Grouping!Open(c)
  PROVE  Tables!Open(c)
BY DEF Grouping!Open, Tables!Open, Grouping!NoConnection, Tables!NoConnection,
       Grouping!tables, Tables!tables, Grouping!walk, Tables!walk

LEMMA SameReport ==
  ASSUME NEW q \in Qpn, NEW rate \in ReportedRate, Grouping!Report(q, rate)
  PROVE  Tables!Report(q, rate)
BY DEF Grouping!Report, Tables!Report, Grouping!Reported, Tables!Reported,
       Grouping!KnownPaths, Tables!KnownPaths, Grouping!RequestsFor, Tables!RequestsFor,
       Grouping!FirstOf, Tables!FirstOf, Grouping!Unknown, Tables!Unknown,
       Grouping!walk, Tables!walk, Grouping!Cardinality, Tables!Cardinality, Cardinality

LEMMA SameRequest ==
  ASSUME NEW c \in Connection, Grouping!RememberCmRequest(c)
  PROVE  Tables!RememberCmRequest(c)
BY DEF Grouping!RememberCmRequest, Tables!RememberCmRequest, Grouping!walk, Tables!walk,
       Grouping!RequestsBy, Tables!RequestsBy, Grouping!FirstOf, Tables!FirstOf,
       Grouping!PathOf, Tables!PathOf, Grouping!SetPath, Tables!SetPath,
       Grouping!Unknown, Tables!Unknown

LEMMA SameMapping ==
  ASSUME NEW c \in Connection, Grouping!CompleteCmMapping(c)
  PROVE  Tables!CompleteCmMapping(c)
BY DEF Grouping!CompleteCmMapping, Tables!CompleteCmMapping, Grouping!walk, Tables!walk,
       Grouping!RequestsBy, Tables!RequestsBy, Grouping!FirstOf, Tables!FirstOf,
       Grouping!Paired, Tables!Paired, Grouping!SetPath, Tables!SetPath,
       Grouping!InstallSenderCnpEntry, Tables!InstallSenderCnpEntry,
       Grouping!Counted, Tables!Counted, Grouping!Unknown, Tables!Unknown,
       Grouping!Cardinality, Tables!Cardinality, Cardinality

LEMMA SameBegin == Grouping!BeginTally => Tables!BeginTally
BY DEF Grouping!BeginTally, Tables!BeginTally, Grouping!tables, Tables!tables,
       Grouping!EmptyTally, Tables!EmptyTally, Grouping!Path, Tables!Path

LEMMA SameTally ==
  ASSUME NEW q \in Qpn, Grouping!TallyFlow(q)
  PROVE  Tables!TallyFlow(q)
BY DEF Grouping!TallyFlow, Tables!TallyFlow, Grouping!Sample, Tables!Sample,
       Grouping!IntervalRate, Tables!IntervalRate, Grouping!Smooth, Tables!Smooth,
       Grouping!Sampled, Tables!Sampled, Grouping!CountFlow, Tables!CountFlow,
       Grouping!Add, Tables!Add, Grouping!NoRate, Tables!NoRate,
       Grouping!Unknown, Tables!Unknown

LEMMA SameEnd == Grouping!EndTally => Tables!EndTally
BY DEF Grouping!EndTally, Tables!EndTally, Grouping!tables, Tables!tables,
       Grouping!Path0Share, Tables!Path0Share, Grouping!Proportional, Tables!Proportional,
       Grouping!OneSided, Tables!OneSided, Grouping!BothReduced, Tables!BothReduced,
       Grouping!AllFull, Tables!AllFull, Grouping!Other, Tables!Other, Grouping!Path, Tables!Path,
       Grouping!Clamp, Tables!Clamp, Grouping!HalfShare, Tables!HalfShare,
       Grouping!MaxBuckets, Tables!MaxBuckets

(* A step of the dispatch table leaves the rate tables alone. *)
LEMMA ApplyKeepsShare == Dispatch!Apply \/ Dispatch!Hardware => UNCHANGED wanted
BY DEF Dispatch!Apply, Dispatch!BeginApply, Dispatch!SubmitUpdate, Dispatch!UpdateRejected,
       Dispatch!UpdateProcessed, Dispatch!UpdateTimedOut, Dispatch!DrainAndCommit,
       Dispatch!Hardware, Dispatch!HwExecute, Dispatch!HwFail

LEMMA GroupingStep == [Next]_vars => [Tables!Next]_Tables!vars
<1> SUFFICES ASSUME [Next]_vars PROVE [Tables!Next]_Tables!vars
  OBVIOUS
<1> DEFINE Same == UNCHANGED <<groupingVars, wanted>>
<1>0. Same => UNCHANGED Tables!vars
  BY DEF groupingVars, Tables!vars, Tables!tables, Tables!walk
<1>1. CASE UNCHANGED vars
  BY <1>0, <1>1 DEF vars
<1>2. ASSUME NEW c \in Connection, Open(c) PROVE Tables!Next
  BY <1>2, SameOpen DEF Open, Tables!Next
<1>3. ASSUME NEW c \in Connection, Receive(c) PROVE Tables!Next
  BY <1>3, SameRequest, SameMapping DEF Receive, Tables!Next
<1>4. ASSUME NEW q \in Qpn, NEW rate \in ReportedRate, Report(q, rate) PROVE Tables!Next
  BY <1>4, SameReport DEF Report, Tables!Next
<1>5. CASE StartWalk
  BY <1>5, SameBegin DEF StartWalk, Tables!Next, Tables!Poll
<1>6. ASSUME NEW q \in Qpn, WalkFlow(q) PROVE Tables!Next
  BY <1>6, SameTally DEF WalkFlow, Tables!Next, Tables!Poll
<1>7. CASE FinishWalk
  BY <1>7, SameEnd DEF FinishWalk, Tables!Next, Tables!Poll
<1>8. CASE ApplyStep
  BY <1>0, <1>8, ApplyKeepsShare DEF ApplyStep
<1>9. CASE HardwareStep
  BY <1>0, <1>9, ApplyKeepsShare DEF HardwareStep
<1> QED
  BY <1>1, <1>2, <1>3, <1>4, <1>5, <1>6, <1>7, <1>8, <1>9 DEF Next, Poll

(***************************************************************************)
(* The loop is one of the runs RateGrouping allows: applying a share never *)
(* interferes with learning, reporting and tallying.                       *)
(***************************************************************************)
THEOREM LoopRefinesGrouping == Spec => Tables!Spec
<1>1. Init => Tables!Init
  BY SameInit DEF Init
<1> QED
  BY <1>1, GroupingStep, PTL DEF Spec, Tables!Spec

-----------------------------------------------------------------------------
(* The loop as a run of the dispatch table.                                *)

(* The walk ends with a share the table can take. *)
LEMMA DispatchStep == Tables!TypeInv' /\ [Next]_vars => [Dispatch!Next]_Dispatch!vars
<1> SUFFICES ASSUME Tables!TypeInv', [Next]_vars PROVE [Dispatch!Next]_Dispatch!vars
  OBVIOUS
<1>0. UNCHANGED <<wanted, dispatchVars>> => UNCHANGED Dispatch!vars
  BY DEF dispatchVars, Dispatch!vars, Dispatch!steerVars, Dispatch!portVars
<1>1. CASE UNCHANGED vars
  BY <1>0, <1>1 DEF vars
<1>2. ASSUME NEW c \in Connection, Open(c) PROVE UNCHANGED Dispatch!vars
  BY <1>0, <1>2 DEF Open, Grouping!Open, Grouping!walk
<1>3. ASSUME NEW c \in Connection, Receive(c) PROVE UNCHANGED Dispatch!vars
  BY <1>0, <1>3
     DEF Receive, Grouping!RememberCmRequest, Grouping!CompleteCmMapping, Grouping!walk
<1>4. ASSUME NEW q \in Qpn, NEW rate \in ReportedRate, Report(q, rate)
      PROVE  UNCHANGED Dispatch!vars
  BY <1>0, <1>4 DEF Report, Grouping!Report, Grouping!walk
<1>5. CASE StartWalk
  BY <1>0, <1>5 DEF StartWalk, Grouping!BeginTally
<1>6. ASSUME NEW q \in Qpn, WalkFlow(q) PROVE UNCHANGED Dispatch!vars
  BY <1>0, <1>6 DEF WalkFlow, Grouping!TallyFlow
<1>7. CASE FinishWalk
  <2>1. wanted' \in Share
    BY DEF Tables!TypeInv, Tables!TypeOK, Tables!Share, Tables!MaxBuckets, Share, MaxBuckets
  <2>2. Dispatch!Demand(wanted')
    BY <1>7 DEF FinishWalk, dispatchVars, Dispatch!Demand, Dispatch!steerVars, Dispatch!portVars
  <2> QED
    BY <2>1, <2>2 DEF Dispatch!Next
<1>8. CASE ApplyStep
  BY <1>8 DEF ApplyStep, Dispatch!Next
<1>9. CASE HardwareStep
  BY <1>9 DEF HardwareStep, Dispatch!Next
<1> QED
  BY <1>1, <1>2, <1>3, <1>4, <1>5, <1>6, <1>7, <1>8, <1>9 DEF Next, Poll

(***************************************************************************)
(* The loop is one of the runs ClassifyDispatch allows.                    *)
(***************************************************************************)
THEOREM LoopAlwaysRefinesDispatch == Spec => LoopRefinesDispatch
<1>1. Spec => []Tables!TypeInv
  <2>1. Init => Tables!TypeInv
    BY PartAssumptions, SameInit, Tables!TypeInit DEF Init
  <2>2. Tables!TypeInv /\ [Next]_vars => Tables!TypeInv'
    BY PartAssumptions, GroupingStep, Tables!TypeStep
  <2> QED
    BY <2>1, <2>2, PTL DEF Spec
<1>2. Init => Dispatch!Init
  BY DEF Init
<1> QED
  BY <1>1, <1>2, DispatchStep, PTL DEF Spec, LoopRefinesDispatch, Dispatch!Spec

-----------------------------------------------------------------------------
(* What the refinements carry over to the loop.                            *)

(* The two instances of ClassifyDispatch have the same steps as well. *)
LEMMA SameDispatchInit == Dispatch!Init => Table!Init
BY DEF Dispatch!Init, Table!Init, Dispatch!HalfShare, Table!HalfShare, Dispatch!Split,
       Table!Split, Dispatch!WantedPath, Table!WantedPath, Dispatch!Bucket, Table!Bucket

LEMMA SameDispatchStep == [Dispatch!Next]_Dispatch!vars => [Table!Next]_Table!vars
<1> SUFFICES ASSUME [Dispatch!Next]_Dispatch!vars PROVE [Table!Next]_Table!vars
  OBVIOUS
<1>1. Dispatch!BeginApply => Table!BeginApply
  BY DEF Dispatch!BeginApply, Table!BeginApply, Dispatch!portVars, Table!portVars
<1>2. Dispatch!SubmitUpdate => Table!SubmitUpdate
  BY DEF Dispatch!SubmitUpdate, Table!SubmitUpdate, Dispatch!Stale, Table!Stale,
         Dispatch!AtBucket, Table!AtBucket, Dispatch!Submit, Table!Submit,
         Dispatch!WantedPath, Table!WantedPath, Dispatch!Bucket, Table!Bucket
<1>3. Dispatch!UpdateRejected => Table!UpdateRejected
  BY DEF Dispatch!UpdateRejected, Table!UpdateRejected, Dispatch!Stale, Table!Stale,
         Dispatch!Rejected, Table!Rejected, Dispatch!WantedPath, Table!WantedPath,
         Dispatch!Bucket, Table!Bucket, Dispatch!portVars, Table!portVars
<1>4. Dispatch!UpdateProcessed => Table!UpdateProcessed
  BY DEF Dispatch!UpdateProcessed, Table!UpdateProcessed, Dispatch!Stale, Table!Stale,
         Dispatch!AtBucket, Table!AtBucket, Dispatch!Reap, Table!Reap, Dispatch!WantedPath,
         Table!WantedPath, Dispatch!Bucket, Table!Bucket
<1>5. Dispatch!UpdateTimedOut => Table!UpdateTimedOut
  BY DEF Dispatch!UpdateTimedOut, Table!UpdateTimedOut, Dispatch!TimeOut, Table!TimeOut
<1>6. Dispatch!DrainAndCommit => Table!DrainAndCommit
  BY DEF Dispatch!DrainAndCommit, Table!DrainAndCommit, Dispatch!Stale, Table!Stale,
         Dispatch!FirstPending, Table!FirstPending, Dispatch!WantedPath, Table!WantedPath,
         Dispatch!Bucket, Table!Bucket
<1>7. Dispatch!SubmitCnp => Table!SubmitCnp
  BY DEF Dispatch!SubmitCnp, Table!SubmitCnp, Dispatch!Submit, Table!Submit
<1>8. Dispatch!CnpRejected => Table!CnpRejected
  BY DEF Dispatch!CnpRejected, Table!CnpRejected, Dispatch!Rejected, Table!Rejected,
         Dispatch!steerVars, Table!steerVars, Dispatch!portVars, Table!portVars
<1>9. Dispatch!CnpProcessed => Table!CnpProcessed
  BY DEF Dispatch!CnpProcessed, Table!CnpProcessed, Dispatch!Reap, Table!Reap
<1>10. Dispatch!CnpTimedOut => Table!CnpTimedOut
  BY DEF Dispatch!CnpTimedOut, Table!CnpTimedOut, Dispatch!TimeOut, Table!TimeOut
<1>11. Dispatch!HwExecute => Table!HwExecute
  BY DEF Dispatch!HwExecute, Table!HwExecute, Dispatch!FirstPending, Table!FirstPending,
         Dispatch!steerVars, Table!steerVars
<1>12. Dispatch!HwFail => Table!HwFail
  BY DEF Dispatch!HwFail, Table!HwFail, Dispatch!FirstPending, Table!FirstPending,
         Dispatch!steerVars, Table!steerVars
<1>13. \A s \in Share : Dispatch!Demand(s) => Table!Demand(s)
  BY DEF Dispatch!Demand, Table!Demand, Dispatch!steerVars, Table!steerVars,
         Dispatch!portVars, Table!portVars
<1>14. UNCHANGED Dispatch!vars => UNCHANGED Table!vars
  BY DEF Dispatch!vars, Table!vars, Dispatch!steerVars, Table!steerVars, Dispatch!portVars,
         Table!portVars
<1> QED
  BY <1>1, <1>2, <1>3, <1>4, <1>5, <1>6, <1>7, <1>8, <1>9, <1>10, <1>11, <1>12, <1>13, <1>14
     DEF Dispatch!Next, Table!Next, Dispatch!Apply, Table!Apply, Dispatch!Cnp, Table!Cnp,
         Dispatch!Hardware, Table!Hardware

(***************************************************************************)
(* In the running process, whatever the device reports and the hardware    *)
(* fails or delays: no path is ever starved, rules and software agree      *)
(* until a completion is given up on, and every announced share is the     *)
(* split the table is at.                                                  *)
(***************************************************************************)
THEOREM LoopKeepsTheTable ==
  Spec => [](Table!NoPathStarved /\ Table!RulesMirrored) /\ Table!PromiseKept
<1>1. Dispatch!Spec => Table!Spec
  BY SameDispatchInit, SameDispatchStep, PTL DEF Dispatch!Spec, Table!Spec
<1>2. Table!Spec => []Table!NoPathStarved
  BY PartAssumptions, Table!NeverStarved
<1>3. Table!Spec => []Table!RulesMirrored
  BY PartAssumptions, Table!MirroredUntilTimeout
<1>4. Table!Spec => Table!PromiseKept
  BY PartAssumptions, Table!KeepsThePromise
<1> QED
  BY <1>1, <1>2, <1>3, <1>4, LoopAlwaysRefinesDispatch, PTL DEF LoopRefinesDispatch

(***************************************************************************)
(* And the share is computed from the flow table as it stands at the end   *)
(* of the walk, while a flow that was reduced once stays reduced.          *)
(***************************************************************************)
THEOREM LoopKeepsTheTally ==
  ASSUME Tables!HistoryOutweighs
  PROVE  Spec => []Tables!TallyIsOfTheTable /\ Tables!ReducedForGood
<1>1. Tables!Spec => []Tables!TallyIsOfTheTable
  BY PartAssumptions, Tables!AlwaysTallyOfTheTable
<1>2. Tables!Spec => Tables!ReducedForGood
  BY PartAssumptions, Tables!ReducedStaysReduced
<1> QED
  BY <1>1, <1>2, LoopRefinesGrouping, PTL

-----------------------------------------------------------------------------
(* The order the main thread imposes on the two parts.                     *)

(***************************************************************************)
(* steer_poll() holds rate_lock only while it walks the flows, and calls   *)
(* apply_path_share() after the walk, for the share the walk computed.     *)
(***************************************************************************)
InOrder ==
  /\ main \in {"receive", "walk", "apply"}
  /\ lock = IF main = "walk" THEN "held" ELSE "free"
  /\ main # "apply" => pc = "idle"
  /\ pc # "idle" => target = wanted

LEMMA InOrderStep == InOrder /\ [Next]_vars => InOrder'
<1> SUFFICES ASSUME InOrder, [Next]_vars PROVE InOrder'
  OBVIOUS
<1>1. CASE UNCHANGED vars
  BY <1>1 DEF vars, groupingVars, dispatchVars, InOrder
<1>2. ASSUME NEW c \in Connection, Open(c) PROVE InOrder'
  BY <1>2 DEF Open, Grouping!Open, Grouping!walk, dispatchVars, InOrder
<1>3. ASSUME NEW c \in Connection, Receive(c) PROVE InOrder'
  BY <1>3 DEF Receive, Grouping!RememberCmRequest, Grouping!CompleteCmMapping, Grouping!walk,
              dispatchVars, InOrder
<1>4. ASSUME NEW q \in Qpn, NEW rate \in ReportedRate, Report(q, rate) PROVE InOrder'
  BY <1>4 DEF Report, Grouping!Report, Grouping!walk, dispatchVars, InOrder
<1>5. CASE StartWalk
  BY <1>5 DEF StartWalk, Grouping!BeginTally, dispatchVars, InOrder
<1>6. ASSUME NEW q \in Qpn, WalkFlow(q) PROVE InOrder'
  BY <1>6 DEF WalkFlow, Grouping!TallyFlow, dispatchVars, InOrder
<1>7. CASE FinishWalk
  BY <1>7 DEF FinishWalk, Grouping!EndTally, dispatchVars, InOrder
<1>8. CASE ApplyStep
  <2>1. /\ main = "apply" /\ UNCHANGED <<lock, wanted>>
        /\ main' = IF pc' = "idle" THEN "receive" ELSE "apply"
        /\ Dispatch!Apply
    BY <1>8, ApplyKeepsShare DEF ApplyStep, groupingVars
  <2>2. pc' # "idle" => target' = wanted
    BY <2>1 DEF InOrder, Dispatch!Apply, Dispatch!BeginApply, Dispatch!SubmitUpdate,
                Dispatch!UpdateRejected, Dispatch!UpdateProcessed, Dispatch!UpdateTimedOut,
                Dispatch!DrainAndCommit
  <2> QED
    BY <2>1, <2>2 DEF InOrder
<1>9. CASE HardwareStep
  BY <1>9 DEF HardwareStep, groupingVars, Dispatch!Hardware, Dispatch!HwExecute, Dispatch!HwFail,
              Dispatch!steerVars, InOrder
<1> QED
  BY <1>1, <1>2, <1>3, <1>4, <1>5, <1>6, <1>7, <1>8, <1>9 DEF Next, Poll

(***************************************************************************)
(* Rules are never rewritten under rate_lock, which would block the trace  *)
(* thread for the time of the hardware, and what they are rewritten to is  *)
(* the share of the last walk, never that of an earlier one.               *)
(***************************************************************************)
THEOREM AppliesTheLastShare == Spec => [](pc # "idle" => lock = "free" /\ target = wanted)
<1>1. Init => InOrder
  BY DEF Init, Grouping!Init, Dispatch!Init, InOrder
<1>2. InOrder => (pc # "idle" => lock = "free" /\ target = wanted)
  BY DEF InOrder
<1> QED
  BY <1>1, <1>2, InOrderStep, PTL DEF Spec
=============================================================================
