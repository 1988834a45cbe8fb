--------------------------- MODULE ClassifyDispatch ---------------------------
(***************************************************************************)
(* The live dispatch table of the egress classifier: apply_path_share() of *)
(* steering/steer.c rewrites, one hardware rule at a time, the buckets     *)
(* whose path the new share changes.  Every rule operation is submitted to *)
(* queue 0 of the DOCA Flow port and its completion is polled for at most  *)
(* 10 ms.  install_sender_cnp_entry() uses the same queue, and it is what  *)
(* makes a completion that was given up on matter.                         *)
(*                                                                         *)
(* The port, its queue and its rules are DOCA's: they are modelled from    *)
(* how steer.c uses them (entry_process_cb, process_entries, the checks    *)
(* after doca_flow_entries_process).  Operations take effect in the order  *)
(* they were submitted, each at some time after its submission.  The two   *)
(* faults steer.c handles are bounded: MaxFaults operations that fail      *)
(* (rejected when submitted or completed with an error), and MaxTimeouts   *)
(* calls of doca_flow_entries_process() that return too early.             *)
(*                                                                         *)
(* g_classify_batch is not kept: it is cleared before each update and read *)
(* only after the one call that may have filled it.                        *)
(***************************************************************************)
EXTENDS PathShare, Sequences

CONSTANTS
  RequestedShare,  (* the shares the control law asks for                  *)
  MaxCnpQps,       (* MAX_CNP_TRACKED_QPS: capacity of the CNP table, 64   *)
  MaxFaults,       (* bound: operations that fail                          *)
  MaxTimeouts      (* bound: polls for a completion that time out          *)

ASSUME ClassifyDispatchAssumption ==
  /\ RequestedShare \subseteq Share
  /\ MaxCnpQps \in Nat
  /\ MaxFaults \in Nat
  /\ MaxTimeouts \in Nat

VARIABLES
  wanted,       (* the share the rate table currently asks for             *)
  pc,           (* where the polling thread is                             *)
  target,       (* path0_share of the apply_path_share() under way         *)
  bucketPath,   (* g_steer.classify_bucket_path                            *)
  applied,      (* g_steer.applied_path0_share                             *)
  cnpEntries,   (* g_steer.cnp_entry_count                                 *)
  rule,         (* the forward of each bucket's hardware rule              *)
  queue,        (* operations submitted and not yet polled                 *)
  faults,       (* operations that failed so far                           *)
  timeouts      (* polls that timed out so far                             *)

steerVars == <<pc, target, bucketPath, applied, cnpEntries>>
portVars == <<rule, queue>>
vars == <<wanted, steerVars, portVars, faults, timeouts>>

OpStatus == {"pending", "ok", "failed"}
BucketOp == [kind : {"bucket"}, bucket : Bucket, path : Path, status : OpStatus]
CnpOp == [kind : {"cnp"}, status : OpStatus]

-----------------------------------------------------------------------------
(* The DOCA Flow port (external).                                          *)

Submit(op) == queue' = Append(queue, op)

FirstPending(i) ==
  /\ i \in DOMAIN queue
  /\ queue[i].status = "pending"
  /\ \A j \in 1 .. i - 1 : queue[j].status # "pending"

(* The hardware executes the oldest operation it has not executed. *)
HwExecute ==
  \E i \in DOMAIN queue :
    /\ FirstPending(i)
    /\ queue' = [queue EXCEPT ![i] = [@ EXCEPT !.status = "ok"]]
    /\ rule' = IF queue[i].kind = "bucket"
                 THEN [rule EXCEPT ![queue[i].bucket] = queue[i].path] ELSE rule
    /\ UNCHANGED <<wanted, steerVars, faults, timeouts>>

HwFail ==
  \E i \in DOMAIN queue :
    /\ FirstPending(i)
    /\ faults < MaxFaults
    /\ queue' = [queue EXCEPT ![i] = [@ EXCEPT !.status = "failed"]]
    /\ faults' = faults + 1
    /\ UNCHANGED <<wanted, steerVars, rule, timeouts>>

(* doca_flow_entries_process(port, 0, timeout, 1): the oldest operation's  *)
(* completion, or none if it is not executed in time.                      *)
Reap ==
  /\ queue # <<>> /\ Head(queue).status # "pending"
  /\ queue' = Tail(queue)
  /\ UNCHANGED timeouts

TimeOut ==
  /\ queue # <<>> /\ Head(queue).status = "pending"
  /\ timeouts < MaxTimeouts
  /\ timeouts' = timeouts + 1
  /\ UNCHANGED queue

Rejected == faults < MaxFaults /\ faults' = faults + 1

-----------------------------------------------------------------------------
Init ==
  /\ wanted = HalfShare
  /\ pc = "idle"
  /\ target = HalfShare
  /\ bucketPath = Split(HalfShare)
  /\ applied = HalfShare
  /\ cnpEntries = 0
  /\ rule = Split(HalfShare)
  /\ queue = <<>>
  /\ faults = 0
  /\ timeouts = 0

(* Rate reports arrive on their own thread and change what a poll computes. *)
Demand(s) ==
  /\ wanted' = s
  /\ UNCHANGED <<steerVars, portVars, faults, timeouts>>

(* apply_path_share(): nothing to do when the share is the applied one. *)
BeginApply ==
  /\ pc = "idle"
  /\ wanted # applied
  /\ target' = wanted
  /\ pc' = "update"
  /\ UNCHANGED <<wanted, bucketPath, applied, cnpEntries, portVars, faults, timeouts>>

(* The buckets the loop still has to move, and the one it is at. *)
Stale == {b \in Bucket : bucketPath[b] # WantedPath(b, target)}
AtBucket(b) == b \in Stale /\ \A c \in Stale : b <= c

\* variant: completions are not waited for, and the last update commits
SubmitUpdateNoWait ==
  /\ pc = "update"
  /\ \E b \in Stale :
       /\ AtBucket(b)
       /\ Submit([kind |-> "bucket", bucket |-> b, path |-> WantedPath(b, target),
                  status |-> "pending"])
       /\ bucketPath' = [bucketPath EXCEPT ![b] = WantedPath(b, target)]
       /\ IF Stale = {b} THEN pc' = "idle" /\ applied' = target ELSE UNCHANGED <<pc, applied>>
  /\ UNCHANGED <<wanted, target, cnpEntries, rule, faults, timeouts>>

SubmitUpdate ==
  /\ pc = "update"
  /\ \E b \in Stale :
       /\ AtBucket(b)
       /\ Submit([kind |-> "bucket", bucket |-> b, path |-> WantedPath(b, target),
                  status |-> "pending"])
  /\ pc' = "process"
  /\ UNCHANGED <<wanted, target, bucketPath, applied, cnpEntries, rule, faults, timeouts>>

\* variant: the loop is left by break, not by return
UpdateRejectedCommits ==
  /\ pc = "update" /\ Stale # {}
  /\ Rejected
  /\ applied' = target
  /\ pc' = "idle"
  /\ UNCHANGED <<wanted, target, bucketPath, cnpEntries, portVars, timeouts>>

(* Any failure abandons the loop ("will retry"): the buckets already moved *)
(* stay moved and applied_path0_share keeps the old share.                 *)
UpdateRejected ==
  /\ pc = "update" /\ Stale # {}
  /\ Rejected
  /\ pc' = "idle"
  /\ UNCHANGED <<wanted, target, bucketPath, applied, cnpEntries, portVars, timeouts>>

\* variant: the software table is updated whatever the completion says
UpdateProcessedUnchecked ==
  /\ pc = "process"
  /\ Reap
  /\ \E b \in Stale : /\ AtBucket(b)
                       /\ bucketPath' = [bucketPath EXCEPT ![b] = WantedPath(b, target)]
  /\ pc' = "update"
  /\ UNCHANGED <<wanted, target, applied, cnpEntries, rule, faults>>

UpdateProcessed ==
  /\ pc = "process"
  /\ Reap
  /\ IF Head(queue).status = "ok"
       THEN /\ \E b \in Stale : /\ AtBucket(b)
                                /\ bucketPath' = [bucketPath EXCEPT ![b] = WantedPath(b, target)]
            /\ pc' = "update"
       ELSE pc' = "idle" /\ UNCHANGED bucketPath
  /\ UNCHANGED <<wanted, target, applied, cnpEntries, rule, faults>>

UpdateTimedOut ==
  /\ pc = "process"
  /\ TimeOut
  /\ pc' = "idle"
  /\ UNCHANGED <<wanted, target, bucketPath, applied, cnpEntries, rule, faults>>

\* variant: the applied share is not recorded
DrainAndForget ==
  /\ pc = "update" /\ Stale = {}
  /\ \A i \in DOMAIN queue : queue[i].status # "pending"
  /\ queue' = <<>>
  /\ pc' = "idle"
  /\ UNCHANGED <<wanted, target, bucketPath, applied, cnpEntries, rule, faults, timeouts>>

(* doca_flow_entries_process(port, 0, timeout, 0) takes every completion   *)
(* there is; its error is only logged.                                     *)
DrainAndCommit ==
  /\ pc = "update" /\ Stale = {}
  /\ \/ /\ \A i \in DOMAIN queue : queue[i].status # "pending"
        /\ queue' = <<>>
        /\ UNCHANGED timeouts
     \/ /\ timeouts < MaxTimeouts
        /\ \E i \in DOMAIN queue :
             FirstPending(i) /\ queue' = SubSeq(queue, i, Len(queue))
        /\ timeouts' = timeouts + 1
  /\ applied' = target
  /\ pc' = "idle"
  /\ UNCHANGED <<wanted, target, bucketPath, cnpEntries, rule, faults>>

\* variant: the capacity is not checked
SubmitCnpNoLimit ==
  /\ pc = "idle"
  /\ Submit([kind |-> "cnp", status |-> "pending"])
  /\ pc' = "cnp"
  /\ UNCHANGED <<wanted, target, bucketPath, applied, cnpEntries, rule, faults, timeouts>>

(* install_sender_cnp_entry(), once per learned sender QPN: process_entries *)
(* exits the process unless the one completion it takes is its own, and ok. *)
SubmitCnp ==
  /\ pc = "idle" /\ cnpEntries < MaxCnpQps
  /\ Submit([kind |-> "cnp", status |-> "pending"])
  /\ pc' = "cnp"
  /\ UNCHANGED <<wanted, target, bucketPath, applied, cnpEntries, rule, faults, timeouts>>

CnpRejected ==
  /\ pc = "idle" /\ cnpEntries < MaxCnpQps
  /\ Rejected
  /\ UNCHANGED <<wanted, steerVars, portVars, timeouts>>

CnpProcessed ==
  /\ pc = "cnp"
  /\ Reap
  /\ IF Head(queue).kind = "cnp" /\ Head(queue).status = "ok"
       THEN pc' = "idle" /\ cnpEntries' = cnpEntries + 1
       ELSE pc' = "exited" /\ UNCHANGED cnpEntries
  /\ UNCHANGED <<wanted, target, bucketPath, applied, rule, faults>>

CnpTimedOut ==
  /\ pc = "cnp"
  /\ TimeOut
  /\ pc' = "exited"
  /\ UNCHANGED <<wanted, target, bucketPath, applied, cnpEntries, rule, faults>>

Apply ==
  BeginApply \/ SubmitUpdate \/ UpdateRejected \/ UpdateProcessed \/ UpdateTimedOut \/ DrainAndCommit
Cnp == SubmitCnp \/ CnpRejected \/ CnpProcessed \/ CnpTimedOut
Hardware == HwExecute \/ HwFail

Next == Apply \/ Cnp \/ Hardware \/ \E s \in RequestedShare : Demand(s)

Spec == Init /\ [][Next]_vars

(***************************************************************************)
(* The application polls once per second for as long as it runs, and the   *)
(* hardware executes what it is given.  Neither rate reports nor new       *)
(* connections have to come.                                               *)
(***************************************************************************)
Fairness ==
  /\ WF_vars(Apply)
  /\ WF_vars(CnpProcessed)
  /\ WF_vars(HwExecute)

FairSpec == Spec /\ Fairness

-----------------------------------------------------------------------------
TypeOK ==
  /\ wanted \in Share
  /\ pc \in {"idle", "update", "process", "cnp", "exited"}
  /\ target \in Share
  /\ bucketPath \in [Bucket -> Path]
  /\ applied \in Share
  /\ cnpEntries \in 0 .. MaxCnpQps
  /\ rule \in [Bucket -> Path]
  /\ queue \in Seq(BucketOp \cup CnpOp)
  /\ faults \in 0 .. MaxFaults
  /\ timeouts \in 0 .. MaxTimeouts

(***************************************************************************)
(* At every moment, in the middle of a rewrite, after one that was         *)
(* abandoned, and whatever completes late, the hardware forwards at least  *)
(* MinBuckets buckets to each path: neither path is ever starved.          *)
(***************************************************************************)
MayServe(b, p) == (b < MinBuckets => p = 0) /\ (b >= MaxBuckets => p = 1)
Guaranteed(f) == \A b \in Bucket : MayServe(b, f[b])
NoPathStarved == Guaranteed(rule) /\ Guaranteed(bucketPath)

(***************************************************************************)
(* As long as no poll for a completion has timed out, classify_bucket_path *)
(* is what the hardware does whenever apply_path_share() is not waiting,   *)
(* and no completion is left behind for the next caller.                   *)
(***************************************************************************)
RulesMirrored ==
  timeouts = 0 /\ pc \in {"idle", "update"} => rule = bucketPath /\ queue = <<>>

(***************************************************************************)
(* The process exits only over a fault: without one, every completion is   *)
(* taken by the caller that submitted the operation.                       *)
(***************************************************************************)
ExitOnlyOnFault == pc = "exited" => faults > 0 \/ timeouts > 0

(***************************************************************************)
(* What the table promises: a share is announced only when every bucket is *)
(* where that share wants it, and no guaranteed bucket ever moves.         *)
(***************************************************************************)
Promise == INSTANCE ShareTable WITH table <- bucketPath, announced <- applied
PromiseKept == Promise!Spec

(***************************************************************************)
(* A share that keeps being wanted is applied, if the process lives: after *)
(* a failure the next polls try again until they succeed.                  *)
(***************************************************************************)
WantedIsApplied ==
  \A s \in RequestedShare : (wanted = s) ~> (applied = s \/ wanted # s \/ pc = "exited")

(***************************************************************************)
(* The claim of the log line of an abandoned update, "will retry": while a *)
(* share stays wanted, the table ends up as its split.                     *)
(***************************************************************************)
AbandonedIsRetried ==
  \A s \in RequestedShare :
    (wanted = s) ~> (bucketPath = Split(s) \/ wanted # s \/ pc = "exited")

=============================================================================
