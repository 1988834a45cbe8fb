------------------------------ MODULE RttTemplate ------------------------------
(* The rate algorithm of the PCC programs (device/algo/rtt_template.c of       *)
(* pcc-path-steering and of doca-pcc-ecn): what each event does to the flow's  *)
(* context, and whether an RTT probe is asked for.  Rates are in fixed point;  *)
(* rtt, min_rtt and the was_ flags only feed the disabled algorithm_core().    *)
EXTENDS Integers

CONSTANTS NewFlowRate,  \* NEW_FLOW_RATE
          MinRate,      \* MIN_RATE
          RateMax,      \* RATE_MAX
          AiStep,       \* AI >> 2
          DecNum,       \* ECN_CNP_DEC_FACTOR,
          DecDen,       \*   as a fraction
          AbortTime,    \* ABORT_TIME
          TimeBits,     \* width of a timestamp, and of what is computed from it
          AbortBits     \* width of abort_cnt

ASSUME RateAssumption ==
  /\ {NewFlowRate, MinRate, RateMax, AiStep, DecNum, DecDen} \subseteq Nat
  /\ 0 < MinRate /\ MinRate <= NewFlowRate /\ NewFlowRate <= RateMax
  /\ 0 < DecDen /\ DecNum < DecDen

(* The last line is arithmetic; proofs need it said, as no prover knows the    *)
(* powers of a constant.                                                       *)
ASSUME TimeAssumption ==
  /\ AbortTime \in Nat /\ TimeBits \in Nat \ {0} /\ AbortBits \in Nat
  /\ 2 ^ TimeBits \in Nat \ {0} /\ 2 ^ AbortBits \in Nat \ {0}

(* cc_ctxt_rtt_template_t, zeroed; 0 is no rate yet and no QPN yet.            *)
NewContext == [cur_rate |-> 0, flow_qpn |-> 0, last_reported_rate |-> 0,
               rtt_meas_psn |-> 0, rtt_req_to_rtt_sent |-> 0, abort_cnt |-> 0]

(* An event: its type; RTT_REQ_SENT of a TX event; whether it is the one in a  *)
(* thousand that raises the rate, or the CNP in five hundred that is printed   *)
(* (all flows and threads count on one static, so it may be anyone's); and     *)
(* what the NACK handler leaves in rtt_req, which it does not write.           *)
Events == {e \in [type : {"tx", "rtt", "cnp", "nack", "other"}, sent : BOOLEAN, nth : BOOLEAN,
                  left : BOOLEAN] :
             /\ e.sent => e.type = "tx"
             /\ e.nth  => e.type \in {"tx", "cnp"}
             /\ e.left => e.type = "nack"}

Raised(rate) == IF rate + AiStep > RateMax THEN RateMax ELSE rate + AiStep

(* variant: the floor is forgotten *)
CutUnfloored(rate) == (rate * DecNum) \div DecDen

Cut(rate) == LET cut == (rate * DecNum) \div DecDen
             IN  IF cut < MinRate THEN MinRate ELSE cut

Result(ctx, asks) == [ctx |-> ctx, rtt_req |-> asks]

(* ---- pcc-path-steering: no probes --------------------------------------- *)

HandleRoceTx(ctx, ev) ==
  Result([ctx EXCEPT !.cur_rate = IF ev.nth THEN Raised(@) ELSE @], FALSE)

(* Is this the RTT event we are waiting for?                                   *)
Awaited(ctx) == ctx.rtt_meas_psn # 0 \/ ctx.rtt_req_to_rtt_sent # 0

HandleRoceRtt(ctx, asks) ==
  IF Awaited(ctx)
  THEN Result([ctx EXCEPT !.rtt_meas_psn = 0, !.abort_cnt = 0, !.rtt_req_to_rtt_sent = 1], asks)
  ELSE Result(ctx, FALSE)

HandleRoceCnp(ctx) == Result([ctx EXCEPT !.cur_rate = Cut(@)], FALSE)

HandleRoceNack(ctx, ev) == Result(ctx, ev.left)

HandleNewFlow(ctx, asks) ==
  Result([ctx EXCEPT !.cur_rate = NewFlowRate, !.rtt_meas_psn = 0, !.rtt_req_to_rtt_sent = 1,
                     !.abort_cnt = 0],
         asks)

(* rtt_template_algo() of pcc-path-steering.                                   *)
SteeringAlgo(ctx, ev) ==
  IF ctx.cur_rate = 0 THEN HandleNewFlow(ctx, FALSE)
  ELSE CASE ev.type = "tx"    -> HandleRoceTx(ctx, ev)
         [] ev.type = "rtt"   -> HandleRoceRtt(ctx, FALSE)
         [] ev.type = "cnp"   -> HandleRoceCnp(ctx)
         [] ev.type = "nack"  -> HandleRoceNack(ctx, ev)
         [] ev.type = "other" -> Result(ctx, FALSE)

(* ---- doca-pcc-ecn: RTT is probed all the time, if not used --------------- *)

(* ABORT_TIME << abort_cnt in 32 bits; the DPA's shift instruction uses the    *)
(* low bits of the count only.                                                 *)
AbortAfter(abort_cnt) == (AbortTime * 2 ^ (abort_cnt % TimeBits)) % 2 ^ TimeBits

(* variant: a request that is not answered is not repeated *)
ProbingTxNoAbort(ctx, ev, till) ==
  IF ev.sent /\ ctx.rtt_meas_psn = 0
  THEN Result([ctx EXCEPT !.rtt_meas_psn = 1, !.rtt_req_to_rtt_sent = 0], FALSE)
  ELSE LET sent == ctx.rtt_req_to_rtt_sent + 1 - ctx.rtt_meas_psn
       IN  Result([ctx EXCEPT !.rtt_req_to_rtt_sent = IF sent > 2 THEN 1 ELSE sent], sent > 2)

(* A TX event says that the probe has left, or finds it unanswered after `till' *)
(* (timed out, so that one more is asked for and the next time-out is longer),  *)
(* or is the second one without a sign that the probe has left at all.         *)
ProbingTx(ctx, ev, till) ==
  IF ev.sent /\ ctx.rtt_meas_psn = 0
  THEN Result([ctx EXCEPT !.rtt_meas_psn = 1, !.rtt_req_to_rtt_sent = 0], FALSE)
  ELSE LET timedOut == ctx.rtt_meas_psn # 0 /\ till > AbortAfter(ctx.abort_cnt)
           sent     == ctx.rtt_req_to_rtt_sent + 1 - ctx.rtt_meas_psn
           asks     == timedOut \/ sent > 2
       IN  Result([ctx EXCEPT !.rtt_req_to_rtt_sent = IF asks THEN 1 ELSE sent,
                              !.abort_cnt = IF timedOut THEN (@ + 1) % 2 ^ AbortBits ELSE @],
                  asks)

(* The rate of the finished controller follows; the exercise leaves it alone.  *)
EcnTx(ctx, ev, till) ==
  LET probed == ProbingTx(ctx, ev, till)
  IN  Result([probed.ctx EXCEPT !.cur_rate = IF ev.nth THEN Raised(@) ELSE @], probed.rtt_req)

ExerciseCnp(ctx) == Result(ctx, FALSE)

EcnAlgo(ctx, ev, till) ==
  IF ctx.cur_rate = 0 THEN HandleNewFlow(ctx, TRUE)
  ELSE CASE ev.type = "tx"    -> EcnTx(ctx, ev, till)
         [] ev.type = "rtt"   -> HandleRoceRtt(ctx, TRUE)
         [] ev.type = "cnp"   -> HandleRoceCnp(ctx)
         [] ev.type = "nack"  -> HandleRoceNack(ctx, ev)
         [] ev.type = "other" -> Result(ctx, FALSE)

ExerciseAlgo(ctx, ev, till) ==
  IF ctx.cur_rate = 0 THEN HandleNewFlow(ctx, TRUE)
  ELSE CASE ev.type = "tx"    -> ProbingTx(ctx, ev, till)
         [] ev.type = "rtt"   -> HandleRoceRtt(ctx, TRUE)
         [] ev.type = "cnp"   -> ExerciseCnp(ctx)
         [] ev.type = "nack"  -> HandleRoceNack(ctx, ev)
         [] ev.type = "other" -> Result(ctx, FALSE)
=============================================================================
