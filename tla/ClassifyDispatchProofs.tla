------------------------ MODULE ClassifyDispatchProofs ------------------------
(***************************************************************************)
(* The live dispatch table, for any number of buckets, any minimum, and    *)
(* any number of faults and timeouts: its types; that no path is ever      *)
(* starved; that rules and classify_bucket_path agree until a completion   *)
(* is given up on; and that it keeps the promise of ShareTable.            *)
(***************************************************************************)
EXTENDS ClassifyDispatch, SequenceTheorems, TLAPS

Op == BucketOp \cup CnpOp

(* Executing or failing an operation changes its status and nothing else. *)
LEMMA WithStatus ==
  ASSUME NEW op \in Op, NEW st \in OpStatus
  PROVE  LET new == [op EXCEPT !.status = st] IN
         /\ new \in Op
         /\ new.status = st
         /\ new.kind = op.kind
         /\ op.kind = "bucket" => /\ op \in BucketOp
                                  /\ new.bucket = op.bucket
                                  /\ new.path = op.path
<1>1. CASE op \in BucketOp
  BY <1>1 DEF Op, BucketOp, OpStatus
<1>2. CASE op \in CnpOp
  BY <1>2 DEF Op, CnpOp, OpStatus
<1> QED
  BY <1>1, <1>2 DEF Op

(* What HwExecute and HwFail do to the queue. *)
LEMMA Marked ==
  ASSUME TypeOK, NEW i \in DOMAIN queue, NEW st \in OpStatus,
         queue' = [queue EXCEPT ![i] = [@ EXCEPT !.status = st]]
  PROVE  /\ queue' \in Seq(Op) /\ Len(queue') = Len(queue)
         /\ \A j \in DOMAIN queue' :
              /\ j \in DOMAIN queue
              /\ queue'[j].kind = queue[j].kind
              /\ queue[j].kind = "bucket" => /\ queue'[j].bucket = queue[j].bucket
                                             /\ queue'[j].path = queue[j].path
              /\ queue'[j].status = IF j = i THEN st ELSE queue[j].status
<1>1. queue \in Seq(Op) /\ DOMAIN queue = 1 .. Len(queue) /\ queue[i] \in Op
  BY DEF TypeOK, Op
<1> DEFINE new == [queue[i] EXCEPT !.status = st]
<1>2. /\ new \in Op /\ new.status = st /\ new.kind = queue[i].kind
      /\ queue[i].kind = "bucket" => new.bucket = queue[i].bucket /\ new.path = queue[i].path
  BY <1>1, WithStatus
<1>3. queue' = [queue EXCEPT ![i] = new]
  OBVIOUS
<1> HIDE DEF new
<1>4. /\ queue' \in Seq(Op) /\ Len(queue') = Len(queue)
      /\ \A j \in 1 .. Len(queue) : queue'[j] = IF j = i THEN new ELSE queue[j]
  BY <1>1, <1>2, <1>3, ExceptSeq
<1>5. DOMAIN queue' = DOMAIN queue
  BY <1>1, <1>3
<1> QED
  BY <1>1, <1>2, <1>4, <1>5

(* What submitting an operation does to the queue. *)
LEMMA Submitted ==
  ASSUME TypeOK, NEW op \in Op, Submit(op)
  PROVE  /\ queue' \in Seq(Op) /\ Len(queue') = Len(queue) + 1
         /\ \A j \in DOMAIN queue' : (j \in DOMAIN queue /\ queue'[j] = queue[j])
                                     \/ queue'[j] = op
         /\ queue = <<>> => queue'[1] = op
<1>1. queue \in Seq(Op)
  BY DEF TypeOK, Op
<1> QED
  BY <1>1, AppendProperties DEF Submit

(* What polling for one completion does to the queue. *)
LEMMA Reaped ==
  ASSUME TypeOK, Reap
  PROVE  /\ queue' \in Seq(Op) /\ Len(queue') = Len(queue) - 1
         /\ \A j \in DOMAIN queue' : j + 1 \in DOMAIN queue /\ queue'[j] = queue[j + 1]
         /\ 1 \in DOMAIN queue /\ Head(queue) = queue[1] /\ Head(queue) \in Op
         /\ Head(queue).status # "pending"
<1>1. queue \in Seq(Op) /\ queue # <<>> /\ queue' = Tail(queue)
  BY DEF TypeOK, Op, Reap
<1> QED
  BY <1>1, HeadTailProperties DEF Reap

(* What the drain at the end of apply_path_share() leaves of the queue. *)
LEMMA Drained ==
  ASSUME TypeOK, DrainAndCommit
  PROVE  /\ queue' \in Seq(Op)
         /\ \A j \in DOMAIN queue' : \E k \in DOMAIN queue : queue'[j] = queue[k]
         /\ timeouts' = 0 => queue' = <<>>
         /\ timeouts' \in 0 .. MaxTimeouts
<1> USE ClassifyDispatchAssumption
<1>1. queue \in Seq(Op) /\ timeouts \in 0 .. MaxTimeouts
  BY DEF TypeOK, Op
<1>2. CASE queue' = <<>> /\ UNCHANGED timeouts
  BY <1>1, <1>2
<1>3. ASSUME timeouts < MaxTimeouts, timeouts' = timeouts + 1,
             NEW i \in DOMAIN queue, queue' = SubSeq(queue, i, Len(queue))
      PROVE  /\ queue' \in Seq(Op)
             /\ \A j \in DOMAIN queue' : \E k \in DOMAIN queue : queue'[j] = queue[k]
             /\ timeouts' = 0 => queue' = <<>>
             /\ timeouts' \in 0 .. MaxTimeouts
  <2>1. i \in 1 .. Len(queue) /\ Len(queue) \in Nat
    BY <1>1, <1>3
  <2>2. /\ queue' \in Seq(Op)
        /\ Len(queue') = Len(queue) - i + 1
        /\ \A j \in 1 .. Len(queue) - i + 1 : queue'[j] = queue[i + j - 1]
    BY <1>1, <1>3, <2>1, SubSeqProperties
  <2>3. DOMAIN queue' = 1 .. Len(queue) - i + 1
    BY <2>2
  <2>4. \A j \in DOMAIN queue' : i + j - 1 \in DOMAIN queue
    BY <1>1, <2>1, <2>3
  <2> QED
    BY <1>1, <1>3, <2>2, <2>3, <2>4
<1> QED
  BY <1>2, <1>3 DEF DrainAndCommit

-----------------------------------------------------------------------------
(* The types.                                                              *)

LEMMA Shares ==
  /\ HalfShare \in Share
  /\ \A x \in RequestedShare : x \in Share
  /\ \A x \in Share : Split(x) \in [Bucket -> Path]
  /\ \A x \in Share, b \in Bucket : WantedPath(b, x) \in Path /\ MayServe(b, WantedPath(b, x))
BY PathShareAssumption, ClassifyDispatchAssumption
   DEF HalfShare, Share, MaxBuckets, Split, WantedPath, Path, MayServe, Bucket

(* A CNP rule is only being installed while the table has room for it. *)
RoomForCnp == pc = "cnp" => cnpEntries < MaxCnpQps

LEMMA TypeInit == Init => TypeOK /\ RoomForCnp
BY Shares, ClassifyDispatchAssumption DEF Init, TypeOK, RoomForCnp

LEMMA RoomStep == TypeOK /\ RoomForCnp /\ [Next]_vars => RoomForCnp'
BY DEF RoomForCnp, Next, vars, steerVars, portVars, Apply, Cnp, Hardware, Demand, BeginApply,
       SubmitUpdate, UpdateRejected, UpdateProcessed, UpdateTimedOut, DrainAndCommit, SubmitCnp,
       CnpRejected, CnpProcessed, CnpTimedOut, HwExecute, HwFail

LEMMA TypeStep == TypeOK /\ RoomForCnp /\ [Next]_vars => TypeOK'
<1> SUFFICES ASSUME TypeOK, RoomForCnp, [Next]_vars PROVE TypeOK'
  OBVIOUS
<1> USE PathShareAssumption, ClassifyDispatchAssumption
<1>1. CASE UNCHANGED vars
  BY <1>1 DEF vars, steerVars, portVars, TypeOK
<1>2. ASSUME NEW s \in RequestedShare, Demand(s) PROVE TypeOK'
  BY <1>2, Shares DEF Demand, steerVars, portVars, TypeOK
<1>3. CASE BeginApply
  BY <1>3 DEF BeginApply, portVars, TypeOK
<1>4. CASE SubmitUpdate
  <2>1. PICK b \in Stale : Submit([kind |-> "bucket", bucket |-> b,
                                  path |-> WantedPath(b, target), status |-> "pending"])
    BY <1>4 DEF SubmitUpdate
  <2>2. [kind |-> "bucket", bucket |-> b, path |-> WantedPath(b, target),
         status |-> "pending"] \in Op
    BY <2>1, Shares DEF Op, BucketOp, OpStatus, Stale, TypeOK
  <2>3. queue' \in Seq(Op)
    BY <2>1, <2>2, Submitted
  <2> QED
    BY <1>4, <2>3 DEF SubmitUpdate, TypeOK, Op
<1>5. CASE UpdateRejected
  BY <1>5 DEF UpdateRejected, Rejected, portVars, TypeOK
<1>6. CASE UpdateProcessed
  <2>1. queue' \in Seq(Op)
    BY <1>6, Reaped DEF UpdateProcessed
  <2>2. bucketPath' \in [Bucket -> Path]
    BY <1>6, Shares DEF UpdateProcessed, Stale, TypeOK
  <2> QED
    BY <1>6, <2>1, <2>2 DEF UpdateProcessed, Reap, TypeOK, Op
<1>7. CASE UpdateTimedOut
  BY <1>7 DEF UpdateTimedOut, TimeOut, TypeOK
<1>8. CASE DrainAndCommit
  <2>1. queue' \in Seq(Op) /\ timeouts' \in 0 .. MaxTimeouts
    BY <1>8, Drained
  <2> QED
    BY <1>8, <2>1 DEF DrainAndCommit, TypeOK, Op
<1>9. CASE SubmitCnp
  <2>1. [kind |-> "cnp", status |-> "pending"] \in Op
    BY DEF Op, CnpOp, OpStatus
  <2>2. queue' \in Seq(Op)
    BY <1>9, <2>1, Submitted DEF SubmitCnp
  <2>3. pc' = "cnp" /\ UNCHANGED <<wanted, target, bucketPath, applied, cnpEntries, rule, faults, timeouts>>
    BY <1>9 DEF SubmitCnp
  <2> QED
    BY <2>2, <2>3 DEF TypeOK, Op
<1>10. CASE CnpRejected
  BY <1>10 DEF CnpRejected, Rejected, steerVars, portVars, TypeOK
<1>11. CASE CnpProcessed
  <2>1. queue' \in Seq(Op)
    BY <1>11, Reaped DEF CnpProcessed
  <2>2. cnpEntries' \in 0 .. MaxCnpQps
    BY <1>11 DEF CnpProcessed, TypeOK, RoomForCnp
  <2> QED
    BY <1>11, <2>1, <2>2 DEF CnpProcessed, Reap, TypeOK, Op
<1>12. CASE CnpTimedOut
  BY <1>12 DEF CnpTimedOut, TimeOut, TypeOK
<1>13. CASE HwExecute
  <2>1. PICK i \in DOMAIN queue :
          /\ queue' = [queue EXCEPT ![i] = [@ EXCEPT !.status = "ok"]]
          /\ rule' = IF queue[i].kind = "bucket"
                       THEN [rule EXCEPT ![queue[i].bucket] = queue[i].path] ELSE rule
    BY <1>13 DEF HwExecute
  <2>2. queue' \in Seq(Op)
    BY <2>1, Marked DEF OpStatus
  <2>3. rule' \in [Bucket -> Path]
    <3>1. queue[i] \in Op
      BY <2>1 DEF TypeOK, Op
    <3>2. queue[i].kind = "bucket" => queue[i].path \in Path
      BY <3>1 DEF Op, BucketOp, CnpOp
    <3> QED
      BY <2>1, <3>2 DEF TypeOK
  <2> QED
    BY <1>13, <2>2, <2>3 DEF HwExecute, steerVars, TypeOK, Op
<1>14. CASE HwFail
  <2>1. PICK i \in DOMAIN queue :
          queue' = [queue EXCEPT ![i] = [@ EXCEPT !.status = "failed"]]
    BY <1>14 DEF HwFail
  <2>2. queue' \in Seq(Op)
    BY <2>1, Marked DEF OpStatus
  <2>3. /\ faults < MaxFaults /\ faults' = faults + 1
        /\ UNCHANGED <<wanted, steerVars, rule, timeouts>>
    BY <1>14 DEF HwFail
  <2> QED
    BY <2>2, <2>3 DEF steerVars, TypeOK, Op
<1> QED
  BY <1>1, <1>2, <1>3, <1>4, <1>5, <1>6, <1>7, <1>8, <1>9, <1>10, <1>11, <1>12, <1>13, <1>14
     DEF Next, Apply, Cnp, Hardware

(* The types of the dispatch table hold throughout. *)
THEOREM TypeInvariant == Spec => [](TypeOK /\ RoomForCnp)
BY TypeInit, TypeStep, RoomStep, PTL DEF Spec

-----------------------------------------------------------------------------
(* No path is starved.  Rules are also changed by operations that were      *)
(* submitted long ago, so the invariant must speak of those as well.       *)

SafeOps == \A i \in DOMAIN queue :
             queue[i].kind = "bucket" => MayServe(queue[i].bucket, queue[i].path)

LEMMA StarveInit == Init => NoPathStarved /\ SafeOps
BY Shares DEF Init, NoPathStarved, SafeOps, Guaranteed, Split

LEMMA StarveStep == TypeOK /\ NoPathStarved /\ SafeOps /\ [Next]_vars => NoPathStarved' /\ SafeOps'
<1> SUFFICES ASSUME TypeOK, NoPathStarved, SafeOps, [Next]_vars
             PROVE  NoPathStarved' /\ SafeOps'
  OBVIOUS
<1> DEFINE Same == UNCHANGED <<rule, bucketPath, queue>>
<1>a. ASSUME Same PROVE NoPathStarved' /\ SafeOps'
  BY <1>a DEF NoPathStarved, SafeOps, Guaranteed
<1>b. ASSUME UNCHANGED <<rule, bucketPath>> PROVE NoPathStarved'
  BY <1>b DEF NoPathStarved, Guaranteed
<1>c. ASSUME \A j \in DOMAIN queue' : \E k \in DOMAIN queue : queue'[j] = queue[k]
      PROVE  SafeOps'
  BY <1>c DEF SafeOps
<1>1. CASE UNCHANGED vars
  BY <1>a, <1>1 DEF vars, steerVars, portVars
<1>2. ASSUME NEW s \in RequestedShare, Demand(s) PROVE NoPathStarved' /\ SafeOps'
  BY <1>a, <1>2 DEF Demand, steerVars, portVars
<1>3. CASE BeginApply
  BY <1>a, <1>3 DEF BeginApply, portVars
<1>4. CASE SubmitUpdate
  <2>1. PICK b \in Stale : Submit([kind |-> "bucket", bucket |-> b,
                                  path |-> WantedPath(b, target), status |-> "pending"])
    BY <1>4 DEF SubmitUpdate
  <2> DEFINE op == [kind |-> "bucket", bucket |-> b, path |-> WantedPath(b, target),
                    status |-> "pending"]
  <2>2. op \in Op /\ MayServe(op.bucket, op.path)
    BY <2>1, Shares DEF Op, BucketOp, OpStatus, Stale, TypeOK
  <2>3. \A j \in DOMAIN queue' : (j \in DOMAIN queue /\ queue'[j] = queue[j]) \/ queue'[j] = op
    <3> HIDE DEF op
    <3>1. Submit(op)
      BY <2>1 DEF op
    <3> QED
      BY <2>2, <3>1, Submitted
  <2>4. SafeOps'
    <3> HIDE DEF op
    <3> QED
      BY <2>2, <2>3 DEF SafeOps
  <2> QED
    BY <1>4, <1>b, <2>4 DEF SubmitUpdate
<1>5. CASE UpdateRejected
  BY <1>a, <1>5 DEF UpdateRejected, portVars
<1>6. CASE UpdateProcessed
  <2>1. SafeOps'
    BY <1>6, <1>c, Reaped DEF UpdateProcessed
  <2>2. Guaranteed(bucketPath)'
    BY <1>6, Shares DEF UpdateProcessed, NoPathStarved, Guaranteed, Stale, TypeOK
  <2> QED
    BY <1>6, <2>1, <2>2 DEF UpdateProcessed, NoPathStarved, Guaranteed
<1>7. CASE UpdateTimedOut
  BY <1>a, <1>7 DEF UpdateTimedOut, TimeOut
<1>8. CASE DrainAndCommit
  <2>1. SafeOps'
    BY <1>8, <1>c, Drained
  <2> QED
    BY <1>8, <1>b, <2>1 DEF DrainAndCommit
<1>9. CASE SubmitCnp
  <2> DEFINE op == [kind |-> "cnp", status |-> "pending"]
  <2>1. op \in Op /\ op.kind # "bucket"
    BY DEF Op, CnpOp, OpStatus
  <2>2. \A j \in DOMAIN queue' : (j \in DOMAIN queue /\ queue'[j] = queue[j]) \/ queue'[j] = op
    <3> HIDE DEF op
    <3>1. Submit(op)
      BY <1>9 DEF SubmitCnp, op
    <3> QED
      BY <2>1, <3>1, Submitted
  <2>3. SafeOps'
    <3> HIDE DEF op
    <3> QED
      BY <2>1, <2>2 DEF SafeOps
  <2> QED
    BY <1>9, <1>b, <2>3 DEF SubmitCnp
<1>10. CASE CnpRejected
  BY <1>a, <1>10 DEF CnpRejected, steerVars, portVars
<1>11. CASE CnpProcessed
  <2>1. SafeOps'
    BY <1>11, <1>c, Reaped DEF CnpProcessed
  <2> QED
    BY <1>11, <1>b, <2>1 DEF CnpProcessed
<1>12. CASE CnpTimedOut
  BY <1>a, <1>12 DEF CnpTimedOut, TimeOut
<1>13. CASE HwExecute
  <2>1. PICK i \in DOMAIN queue :
          /\ queue' = [queue EXCEPT ![i] = [@ EXCEPT !.status = "ok"]]
          /\ rule' = IF queue[i].kind = "bucket"
                       THEN [rule EXCEPT ![queue[i].bucket] = queue[i].path] ELSE rule
    BY <1>13 DEF HwExecute
  <2>2. SafeOps'
    BY <2>1, Marked DEF SafeOps, OpStatus
  <2>3. rule' = IF queue[i].kind = "bucket"
                  THEN [rule EXCEPT ![queue[i].bucket] = queue[i].path] ELSE rule
    BY <2>1
  <2>4. Guaranteed(rule)'
    BY <2>3 DEF NoPathStarved, SafeOps, Guaranteed, TypeOK
  <2>5. UNCHANGED bucketPath
    BY <1>13 DEF HwExecute, steerVars
  <2> QED
    BY <2>2, <2>4, <2>5 DEF NoPathStarved, Guaranteed
<1>14. CASE HwFail
  <2>1. PICK i \in DOMAIN queue : queue' = [queue EXCEPT ![i] = [@ EXCEPT !.status = "failed"]]
    BY <1>14 DEF HwFail
  <2>2. SafeOps'
    BY <2>1, Marked DEF SafeOps, OpStatus
  <2>3. UNCHANGED <<rule, bucketPath>>
    BY <1>14 DEF HwFail, steerVars
  <2> QED
    BY <1>b, <2>2, <2>3
<1> QED
  BY <1>1, <1>2, <1>3, <1>4, <1>5, <1>6, <1>7, <1>8, <1>9, <1>10, <1>11, <1>12, <1>13, <1>14
     DEF Next, Apply, Cnp, Hardware

(***************************************************************************)
(* The hardware forwards at least MinBuckets buckets to each path at every *)
(* moment, whatever fails, times out or completes late.                    *)
(***************************************************************************)
THEOREM NeverStarved == Spec => []NoPathStarved
<1>1. Spec => [](TypeOK /\ RoomForCnp /\ NoPathStarved /\ SafeOps)
  BY TypeInit, TypeStep, RoomStep, StarveInit, StarveStep, PTL DEF Spec
<1> QED
  BY <1>1, PTL

-----------------------------------------------------------------------------
(* Rules and software agree until a completion is given up on: each wait    *)
(* takes the completion of the one operation in the queue.                  *)

Waiting(b) ==
  /\ AtBucket(b)
  /\ Len(queue) = 1
  /\ queue[1].kind = "bucket" /\ queue[1].bucket = b /\ queue[1].path = WantedPath(b, target)
  /\ rule = IF queue[1].status = "ok" THEN [bucketPath EXCEPT ![b] = WantedPath(b, target)]
                                      ELSE bucketPath

Lockstep ==
  timeouts = 0 =>
    /\ pc \in {"idle", "update"} => rule = bucketPath /\ queue = <<>>
    /\ pc = "process" => \E b \in Bucket : Waiting(b)
    /\ pc = "cnp" => Len(queue) = 1 /\ queue[1].kind = "cnp" /\ rule = bucketPath

FailedIsFault == \A i \in DOMAIN queue : queue[i].status = "failed" => faults > 0

LockInv == Lockstep /\ FailedIsFault /\ ExitOnlyOnFault

LEMMA LockInit == Init => LockInv
BY DEF Init, LockInv, Lockstep, FailedIsFault, ExitOnlyOnFault

(* Actions that leave the queue alone. *)
LEMMA LockQuiet ==
  ASSUME TypeOK, LockInv, UNCHANGED <<queue, rule, bucketPath>>,
         faults' \in Nat, faults' >= faults,
         \/ timeouts' = timeouts /\ pc' \in {"idle", "update"} /\ pc \in {"idle", "update"}
         \/ timeouts' = timeouts /\ pc' = pc /\ target' = target
         \/ timeouts' > 0
  PROVE  LockInv'
<1>1. FailedIsFault' /\ ExitOnlyOnFault'
  BY DEF LockInv, FailedIsFault, ExitOnlyOnFault, TypeOK
<1>2. Lockstep'
  <2>1. CASE timeouts' = timeouts /\ pc' \in {"idle", "update"} /\ pc \in {"idle", "update"}
    BY <2>1 DEF LockInv, Lockstep
  <2>2. CASE timeouts' = timeouts /\ pc' = pc /\ target' = target
    BY <2>2 DEF LockInv, Lockstep, Waiting, AtBucket, Stale, WantedPath
  <2>3. CASE timeouts' > 0
    BY <2>3 DEF Lockstep
  <2> QED
    BY <2>1, <2>2, <2>3
<1> QED
  BY <1>1, <1>2 DEF LockInv

LEMMA LockStep == TypeOK /\ LockInv /\ [Next]_vars => LockInv'
<1> SUFFICES ASSUME TypeOK, LockInv, [Next]_vars PROVE LockInv'
  OBVIOUS
<1> USE ClassifyDispatchAssumption
<1>0. faults \in Nat /\ timeouts \in Nat
  BY DEF TypeOK
<1>1. CASE UNCHANGED vars
  BY <1>0, <1>1, LockQuiet DEF vars, steerVars, portVars
<1>2. ASSUME NEW s \in RequestedShare, Demand(s) PROVE LockInv'
  BY <1>0, <1>2, LockQuiet DEF Demand, steerVars, portVars
<1>3. CASE BeginApply
  BY <1>0, <1>3, LockQuiet DEF BeginApply, portVars
<1>4. CASE SubmitUpdate
  <2>1. PICK b \in Stale : /\ AtBucket(b)
                           /\ Submit([kind |-> "bucket", bucket |-> b,
                                      path |-> WantedPath(b, target), status |-> "pending"])
    BY <1>4 DEF SubmitUpdate
  <2> DEFINE op == [kind |-> "bucket", bucket |-> b, path |-> WantedPath(b, target),
                    status |-> "pending"]
  <2>2. op \in Op /\ op.kind = "bucket" /\ op.bucket = b /\ op.path = WantedPath(b, target)
        /\ op.status = "pending" /\ b \in Bucket
    BY <2>1, Shares DEF Op, BucketOp, OpStatus, Stale, TypeOK
  <2>3. /\ Len(queue') = Len(queue) + 1
        /\ \A j \in DOMAIN queue' : (j \in DOMAIN queue /\ queue'[j] = queue[j]) \/ queue'[j] = op
        /\ queue = <<>> => queue'[1] = op
    <3> HIDE DEF op
    <3>1. Submit(op)
      BY <2>1 DEF op
    <3> QED
      BY <2>2, <3>1, Submitted
  <2> HIDE DEF op
  <2>4. pc = "update" /\ pc' = "process"
        /\ UNCHANGED <<target, bucketPath, rule, faults, timeouts>>
    BY <1>4 DEF SubmitUpdate
  <2>5. FailedIsFault' /\ ExitOnlyOnFault'
    BY <2>2, <2>3, <2>4 DEF LockInv, FailedIsFault, ExitOnlyOnFault
  <2>6. ASSUME timeouts = 0 PROVE Waiting(b)'
    <3>1. rule = bucketPath /\ queue = <<>>
      BY <2>4, <2>6 DEF LockInv, Lockstep
    <3>2. Len(queue') = 1 /\ queue'[1] = op
      BY <2>3, <3>1
    <3>3. AtBucket(b)'
      BY <2>1, <2>4 DEF AtBucket, Stale, WantedPath
    <3> QED
      BY <2>2, <2>4, <3>1, <3>2, <3>3 DEF Waiting, WantedPath
  <2> QED
    BY <2>2, <2>4, <2>5, <2>6 DEF LockInv, Lockstep
<1>5. CASE UpdateRejected
  BY <1>0, <1>5, LockQuiet DEF UpdateRejected, Rejected, portVars
<1>6. CASE UpdateProcessed
  <2>1. pc = "process" /\ pc' \in {"idle", "update"}
        /\ UNCHANGED <<target, rule, faults, timeouts>>
    BY <1>6 DEF UpdateProcessed, Reap
  <2>2. /\ queue' \in Seq(Op) /\ Len(queue') = Len(queue) - 1
        /\ \A j \in DOMAIN queue' : j + 1 \in DOMAIN queue /\ queue'[j] = queue[j + 1]
        /\ Head(queue) = queue[1]
    BY <1>6, Reaped DEF UpdateProcessed
  <2>3. FailedIsFault' /\ ExitOnlyOnFault'
    BY <2>1, <2>2 DEF LockInv, FailedIsFault, ExitOnlyOnFault
  <2>4. ASSUME timeouts = 0 PROVE rule' = bucketPath' /\ queue' = <<>>
    <3>1. PICK b \in Bucket : Waiting(b)
      BY <2>1, <2>4 DEF LockInv, Lockstep
    <3>2. queue' = <<>>
      BY <2>2, <3>1, EmptySeq DEF Waiting
    <3>3. \A c \in Bucket : AtBucket(c) => c = b
      BY <3>1 DEF Waiting, AtBucket, Stale, Bucket
    <3>4. CASE queue[1].status = "ok"
      <4>1. \E c \in Stale : /\ AtBucket(c)
                             /\ bucketPath' = [bucketPath EXCEPT ![c] = WantedPath(c, target)]
        BY <1>6, <2>2, <3>4 DEF UpdateProcessed
      <4>2. bucketPath' = [bucketPath EXCEPT ![b] = WantedPath(b, target)]
        BY <3>3, <4>1 DEF Stale
      <4> QED
        BY <2>1, <3>1, <3>2, <3>4, <4>2 DEF Waiting
    <3>5. CASE queue[1].status # "ok"
      BY <1>6, <2>1, <2>2, <3>1, <3>2, <3>5 DEF UpdateProcessed, Waiting
    <3> QED
      BY <3>4, <3>5
  <2> QED
    BY <2>1, <2>3, <2>4 DEF LockInv, Lockstep
<1>7. CASE UpdateTimedOut
  BY <1>0, <1>7, LockQuiet DEF UpdateTimedOut, TimeOut
<1>8. CASE DrainAndCommit
  <2>1. pc = "update" /\ pc' = "idle" /\ UNCHANGED <<rule, bucketPath, faults>>
    BY <1>8 DEF DrainAndCommit
  <2>2. /\ \A j \in DOMAIN queue' : \E k \in DOMAIN queue : queue'[j] = queue[k]
        /\ timeouts' = 0 => queue' = <<>>
    BY <1>8, Drained
  <2>3. timeouts' = 0 => timeouts = 0
    BY <1>0, <1>8 DEF DrainAndCommit
  <2> QED
    BY <2>1, <2>2, <2>3 DEF LockInv, Lockstep, FailedIsFault, ExitOnlyOnFault
<1>9. CASE SubmitCnp
  <2> DEFINE op == [kind |-> "cnp", status |-> "pending"]
  <2>1. op \in Op /\ op.kind = "cnp" /\ op.status = "pending"
    BY DEF Op, CnpOp, OpStatus
  <2>2. /\ Len(queue') = Len(queue) + 1
        /\ \A j \in DOMAIN queue' : (j \in DOMAIN queue /\ queue'[j] = queue[j]) \/ queue'[j] = op
        /\ queue = <<>> => queue'[1] = op
    <3> HIDE DEF op
    <3>1. Submit(op)
      BY <1>9 DEF SubmitCnp, op
    <3> QED
      BY <2>1, <3>1, Submitted
  <2> HIDE DEF op
  <2>3. pc = "idle" /\ pc' = "cnp" /\ UNCHANGED <<bucketPath, rule, faults, timeouts>>
    BY <1>9 DEF SubmitCnp
  <2>4. FailedIsFault' /\ ExitOnlyOnFault'
    BY <2>1, <2>2, <2>3 DEF LockInv, FailedIsFault, ExitOnlyOnFault
  <2>5. ASSUME timeouts = 0 PROVE Len(queue') = 1 /\ queue'[1].kind = "cnp" /\ rule' = bucketPath'
    <3>1. rule = bucketPath /\ queue = <<>>
      BY <2>3, <2>5 DEF LockInv, Lockstep
    <3> QED
      BY <2>1, <2>2, <2>3, <3>1
  <2> QED
    BY <2>3, <2>4, <2>5 DEF LockInv, Lockstep
<1>10. CASE CnpRejected
  BY <1>0, <1>10, LockQuiet DEF CnpRejected, Rejected, steerVars, portVars
<1>11. CASE CnpProcessed
  <2>1. pc = "cnp" /\ UNCHANGED <<target, bucketPath, rule, faults, timeouts>>
    BY <1>11 DEF CnpProcessed, Reap
  <2>2. /\ queue' \in Seq(Op) /\ Len(queue') = Len(queue) - 1
        /\ \A j \in DOMAIN queue' : j + 1 \in DOMAIN queue /\ queue'[j] = queue[j + 1]
        /\ 1 \in DOMAIN queue /\ Head(queue) = queue[1]
        /\ Head(queue) \in Op /\ Head(queue).status # "pending"
    BY <1>11, Reaped DEF CnpProcessed
  <2>3. FailedIsFault'
    BY <2>1, <2>2 DEF LockInv, FailedIsFault
  <2>4. CASE Head(queue).kind = "cnp" /\ Head(queue).status = "ok"
    <3>1. pc' = "idle"
      BY <1>11, <2>4 DEF CnpProcessed
    <3>2. timeouts = 0 => queue' = <<>> /\ rule = bucketPath
      BY <2>1, <2>2, EmptySeq DEF LockInv, Lockstep
    <3> QED
      BY <2>1, <2>3, <3>1, <3>2 DEF LockInv, Lockstep, ExitOnlyOnFault
  <2>5. CASE ~(Head(queue).kind = "cnp" /\ Head(queue).status = "ok")
    <3>1. pc' = "exited"
      BY <1>11, <2>5 DEF CnpProcessed
    <3>2. Head(queue).status \in OpStatus
      BY <2>2 DEF Op, BucketOp, CnpOp
    <3>3. timeouts = 0 => faults > 0
      BY <2>1, <2>2, <2>5, <3>2 DEF LockInv, Lockstep, FailedIsFault, OpStatus
    <3> QED
      BY <1>0, <2>1, <2>3, <3>1, <3>3 DEF LockInv, Lockstep, ExitOnlyOnFault
  <2> QED
    BY <2>4, <2>5
<1>12. CASE CnpTimedOut
  BY <1>0, <1>12, LockQuiet DEF CnpTimedOut, TimeOut
<1>13. CASE HwExecute
  <2>1. PICK i \in DOMAIN queue :
          /\ queue[i].status = "pending"
          /\ queue' = [queue EXCEPT ![i] = [@ EXCEPT !.status = "ok"]]
          /\ rule' = IF queue[i].kind = "bucket"
                       THEN [rule EXCEPT ![queue[i].bucket] = queue[i].path] ELSE rule
    BY <1>13 DEF HwExecute, FirstPending
  <2>2. /\ Len(queue') = Len(queue) /\ queue' \in Seq(Op)
        /\ \A j \in DOMAIN queue' :
             /\ j \in DOMAIN queue
             /\ queue'[j].kind = queue[j].kind
             /\ queue[j].kind = "bucket" => /\ queue'[j].bucket = queue[j].bucket
                                            /\ queue'[j].path = queue[j].path
             /\ queue'[j].status = IF j = i THEN "ok" ELSE queue[j].status
    BY <2>1, Marked DEF OpStatus
  <2>3. queue[i].status = "pending"
        /\ rule' = IF queue[i].kind = "bucket"
                     THEN [rule EXCEPT ![queue[i].bucket] = queue[i].path] ELSE rule
    BY <2>1
  <2>4. UNCHANGED <<pc, target, bucketPath, faults, timeouts>>
    BY <1>13 DEF HwExecute, steerVars
  <2>5. FailedIsFault' /\ ExitOnlyOnFault'
    BY <2>2, <2>4 DEF LockInv, FailedIsFault, ExitOnlyOnFault
  <2>6. queue # <<>> /\ (Len(queue) = 1 => i = 1 /\ 1 \in DOMAIN queue')
    BY <2>1, <2>2 DEF TypeOK
  <2>7. CASE timeouts = 0 /\ pc = "process"
    <3>1. PICK b \in Bucket : Waiting(b)
      BY <2>7 DEF LockInv, Lockstep
    <3>2. Waiting(b)'
      <4>1. AtBucket(b)'
        BY <2>4, <3>1 DEF Waiting, AtBucket, Stale, WantedPath
      <4>2. /\ Len(queue') = 1 /\ queue'[1].kind = "bucket" /\ queue'[1].bucket = b
            /\ queue'[1].path = WantedPath(b, target) /\ queue'[1].status = "ok"
        BY <2>2, <2>6, <3>1 DEF Waiting
      <4>3. rule' = [bucketPath EXCEPT ![b] = WantedPath(b, target)]
        BY <2>3, <2>6, <3>1 DEF Waiting
      <4> QED
        BY <2>4, <4>1, <4>2, <4>3 DEF Waiting, WantedPath
    <3> QED
      BY <2>4, <2>5, <2>7, <3>2 DEF LockInv, Lockstep
  <2>8. CASE timeouts = 0 /\ pc = "cnp"
    BY <2>2, <2>3, <2>4, <2>5, <2>6, <2>8 DEF LockInv, Lockstep
  <2>9. CASE ~(timeouts = 0 /\ pc \in {"process", "cnp"})
    BY <2>4, <2>5, <2>6, <2>9 DEF LockInv, Lockstep
  <2> QED
    BY <2>7, <2>8, <2>9
<1>14. CASE HwFail
  <2>1. PICK i \in DOMAIN queue :
          /\ queue[i].status = "pending"
          /\ queue' = [queue EXCEPT ![i] = [@ EXCEPT !.status = "failed"]]
    BY <1>14 DEF HwFail, FirstPending
  <2>2. /\ Len(queue') = Len(queue) /\ queue' \in Seq(Op)
        /\ \A j \in DOMAIN queue' :
             /\ j \in DOMAIN queue
             /\ queue'[j].kind = queue[j].kind
             /\ queue[j].kind = "bucket" => /\ queue'[j].bucket = queue[j].bucket
                                            /\ queue'[j].path = queue[j].path
             /\ queue'[j].status = IF j = i THEN "failed" ELSE queue[j].status
    BY <2>1, Marked DEF OpStatus
  <2>3. queue[i].status = "pending" /\ faults' = faults + 1
        /\ UNCHANGED <<pc, target, bucketPath, rule, timeouts>>
    BY <1>14, <2>1 DEF HwFail, steerVars
  <2>4. FailedIsFault' /\ ExitOnlyOnFault'
    BY <1>0, <2>3 DEF FailedIsFault, ExitOnlyOnFault
  <2>5. queue # <<>> /\ (Len(queue) = 1 => i = 1 /\ 1 \in DOMAIN queue')
    BY <2>1, <2>2 DEF TypeOK
  <2>6. CASE timeouts = 0 /\ pc = "process"
    <3>1. PICK b \in Bucket : Waiting(b)
      BY <2>6 DEF LockInv, Lockstep
    <3>2. Waiting(b)'
      <4>1. AtBucket(b)'
        BY <2>3, <3>1 DEF Waiting, AtBucket, Stale, WantedPath
      <4>2. /\ Len(queue') = 1 /\ queue'[1].kind = "bucket" /\ queue'[1].bucket = b
            /\ queue'[1].path = WantedPath(b, target) /\ queue'[1].status = "failed"
        BY <2>2, <2>5, <3>1 DEF Waiting
      <4>3. rule' = bucketPath
        BY <2>3, <2>5, <3>1 DEF Waiting
      <4> QED
        BY <2>3, <4>1, <4>2, <4>3 DEF Waiting, WantedPath
    <3> QED
      BY <2>3, <2>4, <2>6, <3>2 DEF LockInv, Lockstep
  <2>7. CASE timeouts = 0 /\ pc = "cnp"
    BY <2>2, <2>3, <2>4, <2>5, <2>7 DEF LockInv, Lockstep
  <2>8. CASE ~(timeouts = 0 /\ pc \in {"process", "cnp"})
    BY <2>3, <2>4, <2>5, <2>8 DEF LockInv, Lockstep
  <2> QED
    BY <2>6, <2>7, <2>8
<1> QED
  BY <1>1, <1>2, <1>3, <1>4, <1>5, <1>6, <1>7, <1>8, <1>9, <1>10, <1>11, <1>12, <1>13, <1>14
     DEF Next, Apply, Cnp, Hardware

LEMMA LockAlways == Spec => []LockInv
<1>1. Spec => [](TypeOK /\ RoomForCnp /\ LockInv)
  BY TypeInit, TypeStep, RoomStep, LockInit, LockStep, PTL DEF Spec
<1> QED
  BY <1>1, PTL

(* Until a poll times out, the software table is what the hardware does     *)
(* between two rule operations, and no completion is left behind.          *)
THEOREM MirroredUntilTimeout == Spec => []RulesMirrored
<1>1. LockInv => RulesMirrored
  BY DEF LockInv, Lockstep, RulesMirrored
<1> QED
  BY <1>1, LockAlways, PTL

(* Without a fault or a timeout the process never exits. *)
THEOREM ExitsOnlyOnFault == Spec => []ExitOnlyOnFault
<1>1. LockInv => ExitOnlyOnFault
  BY DEF LockInv
<1> QED
  BY <1>1, LockAlways, PTL

-----------------------------------------------------------------------------
(* Refinement: every step moves no bucket, or one contested bucket to the   *)
(* other path, or announces the share the table is the split of.           *)

LEMMA SameOperators ==
  /\ Promise!HalfShare = HalfShare
  /\ Promise!Share = Share
  /\ Promise!Contested = MinBuckets .. MaxBuckets - 1
  /\ \A x : Promise!Split(x) = Split(x)
  /\ \A x : Promise!Other(x) = Other(x)
<1>1. Promise!HalfShare = HalfShare
  BY DEF Promise!HalfShare, HalfShare
<1>2. Promise!MaxBuckets = MaxBuckets
  BY DEF Promise!MaxBuckets, MaxBuckets
<1>3. Promise!Share = Share /\ Promise!Contested = MinBuckets .. MaxBuckets - 1
  BY <1>2 DEF Promise!Share, Share, Promise!Contested
<1>4. Promise!Bucket = Bucket
  BY DEF Promise!Bucket, Bucket
<1>5. \A b, x : Promise!WantedPath(b, x) = WantedPath(b, x)
  BY DEF Promise!WantedPath, WantedPath
<1>6. \A x : Promise!Split(x) = Split(x)
  BY <1>4, <1>5 DEF Promise!Split, Split
<1>7. \A x : Promise!Other(x) = Other(x)
  BY DEF Promise!Other, Other
<1> QED
  BY <1>1, <1>3, <1>6, <1>7

LEMMA TableStep ==
  TypeOK /\ NoPathStarved /\ [Next]_vars => [Promise!Next]_<<bucketPath, applied>>
<1> SUFFICES ASSUME TypeOK, NoPathStarved, [Next]_vars, ~(UNCHANGED <<bucketPath, applied>>)
             PROVE  Promise!Next
  OBVIOUS
<1>1. CASE UpdateProcessed
  <2>1. PICK b \in Stale : bucketPath' = [bucketPath EXCEPT ![b] = WantedPath(b, target)]
    BY <1>1 DEF UpdateProcessed
  <2>2. applied' = applied
    BY <1>1 DEF UpdateProcessed
  <2>3. b \in Bucket /\ bucketPath[b] \in Path /\ bucketPath[b] # WantedPath(b, target)
        /\ WantedPath(b, target) \in Path /\ MayServe(b, WantedPath(b, target))
        /\ MayServe(b, bucketPath[b])
    BY <2>1, Shares DEF Stale, TypeOK, NoPathStarved, Guaranteed
  <2>4. b \in Promise!Contested
    BY <2>3, SameOperators, PathShareAssumption DEF MayServe, Bucket, MaxBuckets, Path
  <2>5. WantedPath(b, target) = Other(bucketPath[b])
    BY <2>3 DEF Other, Path
  <2>6. Promise!Reassign(b)
    BY <2>1, <2>2, <2>5, SameOperators DEF Promise!Reassign
  <2> QED
    BY <2>4, <2>6 DEF Promise!Next
<1>2. CASE DrainAndCommit
  <2>1. Stale = {} /\ applied' = target /\ bucketPath' = bucketPath /\ target \in Share
    BY <1>2 DEF DrainAndCommit, TypeOK
  <2>2. bucketPath = Split(target)
    BY <2>1 DEF Stale, Split, TypeOK
  <2>3. Promise!Announce(target)
    BY <2>1, <2>2, SameOperators DEF Promise!Announce
  <2> QED
    BY <2>1, <2>3, SameOperators DEF Promise!Next
<1> QED
  BY <1>1, <1>2 DEF Next, vars, Apply, Cnp, Hardware, Demand, BeginApply, SubmitUpdate,
     UpdateRejected, UpdateTimedOut, SubmitCnp, CnpRejected, CnpProcessed, CnpTimedOut,
     HwExecute, HwFail, steerVars, portVars

(* The live dispatch table implements ShareTable.                          *)
THEOREM KeepsThePromise == Spec => PromiseKept
<1>1. Init => Promise!Init
  BY SameOperators DEF Init, Promise!Init
<1>2. Spec => [](TypeOK /\ NoPathStarved)
  BY TypeInvariant, NeverStarved, PTL
<1> QED
  BY <1>1, <1>2, TableStep, PTL DEF Spec, PromiseKept, Promise!Spec, Promise!tableVars

=============================================================================
