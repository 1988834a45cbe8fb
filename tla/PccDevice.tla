------------------------------ MODULE PccDevice -------------------------------
(* The DPA programs, event by event, and the way a flow's rate takes to the    *)
(* host.  One of four images runs.                                             *)
(*   steering3 (pcc-path-steering, DOCA 3): a rate that changed is traced into *)
(*     the worker's own buffer; a flush makes the buffer visible, and the host *)
(*     is called back for each report.                                         *)
(*   steering2 (the same with DOCA 2.9): each event stores its rate in a       *)
(*     mailbox, which workers share without a lock and the host polls.         *)
(*   ecn, exercise (doca-pcc-ecn): nothing is reported; RTT probes are asked   *)
(*     for all the time, on one flow here.                                     *)
(* The NIC's side - which events arrive when, what it does when a probe is     *)
(* asked for, contexts handed from a closed QP to a new one - is the           *)
(* environment.  The printed diagnostics are left out.                         *)
EXTENDS RttTemplate, Sequences, FiniteSets, SequencesExt

CONSTANTS Setups,      \* what runs: the image; the thread that handles the events of each
                       \*   context; the QP it has; QPNs not used yet; bound: changes of rate
          Contexts,    \* algorithm contexts, 1 .. n
          Workers,     \* DPA threads
          Qpn,         \* QP numbers
          MaxTracked,  \* MAX_TRACKED_FLOWS
          MaxFlows,    \* PCC_RATE_MAILBOX_MAX_FLOWS
          MaxReports,  \* bound: reports traced and not yet handled
          MaxProbes,   \* bound: RTT probes in the network
          MaxGap       \* bound: ticks of the clock between two TX events

(* A QP has one context, and a QPN is not used again.                          *)
ASSUME SetupAssumption ==
  /\ Qpn \subseteq Nat \ {0} /\ MaxFlows \in Nat \ {0}
  /\ MaxTracked \in Nat /\ MaxReports \in Nat /\ MaxProbes \in Nat /\ MaxGap \in Nat
  /\ \A s \in Setups :
       /\ s.image \in {"steering3", "steering2", "ecn", "exercise"}
       /\ s.rank \in [Contexts -> Workers] /\ s.qp \in [Contexts -> Qpn]
       /\ \A c, d \in Contexts : c # d => s.qp[c] # s.qp[d]
       /\ s.fresh \subseteq Qpn /\ \A c \in Contexts : s.qp[c] \notin s.fresh
       /\ s.changes \in Nat

VARIABLES image, rank, ctx, qp, fresh, changes,
          buf, due, channel,             \* steering3: trace buffers, reports on their way
          slot, store, dropped, poll,    \* steering2: the mailbox and its users
          table, heard,                  \* host: flow_rate_table, steer_update_pcc_rate()
          asked, flying, elapsed, gap    \* doca-pcc-ecn: the NIC's probes and the clock

flow     == <<ctx, qp, fresh, changes>>
trace    == <<buf, due, channel>>
mailbox  == <<slot, store, dropped, poll>>
host     == <<table, heard>>
probes   == <<asked, flying, elapsed, gap>>
vars     == <<image, rank, flow, trace, mailbox, host, probes>>

Rates    == {0} \cup (MinRate .. RateMax)
Slots    == 0 .. MaxFlows - 1
Idle     == [step |-> "idle", slot |-> 0, qpn |-> 0, rate |-> 0]
NotHeard == -1
Free     == [qpn |-> 0, value |-> 0]
NoPoll   == [step |-> "idle", at |-> 0, qpn |-> 0, response |-> <<>>]

(* doca_pcc_dev_user_init(): one algorithm, in slot 0 of every port.           *)
Init ==
  /\ \E s \in Setups : /\ image = s.image /\ rank = s.rank
                       /\ qp = s.qp /\ fresh = s.fresh /\ changes = s.changes
  /\ ctx = [c \in Contexts |-> NewContext]
  /\ buf = [w \in Workers |-> <<>>] /\ due = [w \in Workers |-> FALSE] /\ channel = <<>>
  /\ slot = [s \in Slots |-> Free] /\ store = [w \in Workers |-> Idle]
  /\ dropped = FALSE /\ poll = NoPoll
  /\ table = {} /\ heard = [q \in Qpn |-> NotHeard]
  /\ asked = FALSE /\ flying = 0 /\ elapsed = 0 /\ gap = 0

Steering == image \in {"steering2", "steering3"}

-------------------------------------------------------------------------------
(* pcc-path-steering: one event                                                *)

(* Only a TX event carries the QPN.                                            *)
LearnQpn(old, ev, qpn) == IF ev.type = "tx" THEN [old EXCEPT !.flow_qpn = qpn] ELSE old

QpnChanged(old, ev, qpn) == ev.type = "tx" /\ old.flow_qpn \notin {0, qpn}

FirstObservedFlow(old, ev, qpn) == ev.type = "tx" /\ old.flow_qpn # qpn

(* variant: only the rate tells a new flow *)
StartupReportByRate(old, ev, qpn) == old.cur_rate = 0

StartupReport(old, ev, qpn) == FirstObservedFlow(old, ev, qpn) \/ old.cur_rate = 0

(* The context after an event of QP q, and the reports it traces: one when the *)
(* flow is known and its rate is not the one reported last.                    *)
After(old, ev, q) == SteeringAlgo(LearnQpn(old, ev, q), ev).ctx

Reports(old, ev, q) ==
  LET new == After(old, ev, q)
  IN  IF new.flow_qpn # 0 /\ (QpnChanged(old, ev, q) \/ old.last_reported_rate # new.cur_rate)
      THEN << [qpn |-> new.flow_qpn, rate |-> new.cur_rate] >>
      ELSE << >>

Reported(old, ev, q) ==
  LET new == After(old, ev, q)
  IN  [new EXCEPT !.last_reported_rate = IF Reports(old, ev, q) = <<>> THEN @ ELSE new.cur_rate]

HandleEvent(c, ev) ==
  LET new     == Reported(ctx[c], ev, qp[c])
      changed == ctx[c].cur_rate \notin {0, new.cur_rate}
  IN  /\ changed => changes > 0
      /\ changes' = IF changed THEN changes - 1 ELSE changes
      /\ ctx' = [ctx EXCEPT ![c] = new]
      /\ UNCHANGED <<image, rank, qp, fresh>>

Outstanding == Len(channel) + MapThenSumSet(LAMBDA w : Len(buf[w]), Workers)

(* doca_pcc_dev_user_algo() with DOCA 3.  A changed QPN and a printed CNP flush *)
(* what was buffered before this event; a start-up report, and an event once   *)
(* the flush interval is over, also flush what it traced itself.               *)
UserAlgo(c, ev) ==
  LET w       == rank[c]
      report  == Reports(ctx[c], ev, qp[c])
      before  == \/ QpnChanged(ctx[c], ev, qp[c])
                 \/ ev.type = "cnp" /\ ev.nth /\ ctx[c].cur_rate # 0
      startup == report # <<>> /\ StartupReport(ctx[c], ev, qp[c])
      whole   == startup \/ due[w]
      kept    == IF before THEN <<>> ELSE buf[w]
  IN  /\ image = "steering3"
      /\ report # <<>> => Outstanding < MaxReports
      /\ HandleEvent(c, ev)
      /\ buf' = [buf EXCEPT ![w] = IF whole THEN <<>> ELSE kept \o report]
      /\ channel' = channel \o (IF before \/ whole THEN buf[w] ELSE <<>>)
                            \o (IF whole THEN report ELSE <<>>)
      /\ due' = [due EXCEPT ![w] = FALSE]
      /\ UNCHANGED <<mailbox, host, probes>>

(* More than PCC_TRACE_FLUSH_INTERVAL_US since the worker's last flush.        *)
Elapse(w) ==
  /\ image = "steering3" /\ ~due[w]
  /\ due' = [due EXCEPT ![w] = TRUE]
  /\ UNCHANGED <<image, rank, flow, buf, channel, mailbox, host, probes>>

(* The events of a steering image: no probe is asked for, so no TX event says  *)
(* that one was sent.                                                          *)
SteeringEvents == {e \in Events : ~e.sent /\ ~e.left}

(* The QP is closed and a new one gets its context, cleared or not.            *)
Recycle(c) ==
  /\ Steering /\ store[rank[c]] = Idle
  /\ \E q \in fresh : qp' = [qp EXCEPT ![c] = q] /\ fresh' = fresh \ {q}
  /\ \E kept \in {ctx[c], NewContext} : ctx' = [ctx EXCEPT ![c] = kept]
  /\ UNCHANGED <<image, rank, changes, trace, mailbox, host, probes>>

-------------------------------------------------------------------------------
(* The host: reports                                                           *)

FindOrCreateFlow(tracked, report) ==
  IF report.qpn \in tracked \/ Cardinality(tracked) < MaxTracked
  THEN tracked \cup {report.qpn} ELSE tracked

SteerUpdatePccRate(rates, report) == [rates EXCEPT ![report.qpn] = report.rate]

(* variant: a flow without an entry in the table is skipped *)
TakeTrackedReport(report) ==
  /\ table' = FindOrCreateFlow(table, report)
  /\ heard' = IF report.qpn \in table' THEN SteerUpdatePccRate(heard, report) ELSE heard

(* The averages of the table are only printed; a flow that does not fit in it  *)
(* is left out of them, and steered all the same.                              *)
TakeReport(report) ==
  /\ table' = FindOrCreateFlow(table, report)
  /\ heard' = SteerUpdatePccRate(heard, report)

(* rate_report_trace_handler() gets a batch; this is one turn of its loop.     *)
HandleTrace ==
  /\ channel # <<>>
  /\ TakeReport(Head(channel))
  /\ channel' = Tail(channel)
  /\ UNCHANGED <<image, rank, flow, buf, due, mailbox, probes>>

-------------------------------------------------------------------------------
(* DOCA 2.9: the mailbox                                                       *)

(* variant: any free slot, before the flow's own *)
ProbeFreeFirst(qpn) ==
  LET probed(p) == (qpn + p) % MaxFlows
      free  == {p \in Slots : slot[probed(p)].qpn = 0}
      found == IF free # {} THEN free ELSE {p \in Slots : slot[probed(p)].qpn = qpn}
  IN  {probed(p) : p \in {x \in found : \A y \in found : x <= y}}

(* The slot that rate_mailbox_store() settles on, if any: the first that is    *)
(* free or the flow's own, from the flow's own place on.                       *)
ProbeSlot(qpn) ==
  LET probed(p) == (qpn + p) % MaxFlows
      found == {p \in Slots : slot[probed(p)].qpn \in {0, qpn}}
  IN  {probed(p) : p \in {x \in found : \A y \in found : x <= y}}

(* doca_pcc_dev_user_algo() with DOCA 2.9, up to the stores of its mailbox     *)
(* slot, which other workers and the poll may come between.                    *)
UserAlgoMailbox(c, ev) ==
  LET w   == rank[c]
      new == Reported(ctx[c], ev, qp[c])
  IN  /\ image = "steering2" /\ store[w] = Idle
      /\ HandleEvent(c, ev)
      /\ IF new.flow_qpn = 0 THEN UNCHANGED <<store, dropped>>
         ELSE \/ \E s \in ProbeSlot(new.flow_qpn) :
                   /\ store' = [store EXCEPT ![w] = [step |-> "claim", slot |-> s,
                                                     qpn |-> new.flow_qpn, rate |-> new.cur_rate]]
                   /\ UNCHANGED dropped
              \/ /\ ProbeSlot(new.flow_qpn) = {}
                 /\ dropped' = TRUE
                 /\ UNCHANGED store
      /\ UNCHANGED <<trace, slot, poll, host, probes>>

ClaimSlot(w) ==
  /\ store[w].step = "claim"
  /\ slot' = [slot EXCEPT ![store[w].slot] = [@ EXCEPT !.qpn = store[w].qpn]]
  /\ store' = [store EXCEPT ![w] = [@ EXCEPT !.step = "fill"]]
  /\ UNCHANGED <<image, rank, flow, trace, dropped, poll, host, probes>>

FillSlot(w) ==
  /\ store[w].step = "fill"
  /\ slot' = [slot EXCEPT ![store[w].slot] = [@ EXCEPT !.value = store[w].rate]]
  /\ store' = [store EXCEPT ![w] = Idle]
  /\ UNCHANGED <<image, rank, flow, trace, dropped, poll, host, probes>>

(* doca_pcc_dev_user_mailbox_handle(), slot after slot: the number, then the   *)
(* rate of a slot that has one.                                                *)
PollQpn ==
  /\ image = "steering2" /\ poll.step = "idle" /\ poll.at < MaxFlows
  /\ LET qpn == slot[poll.at].qpn
     IN  poll' = IF qpn = 0 THEN [poll EXCEPT !.at = @ + 1]
                 ELSE [poll EXCEPT !.step = "value", !.qpn = qpn]
  /\ UNCHANGED <<image, rank, flow, trace, slot, store, dropped, host, probes>>

PollValue ==
  /\ poll.step = "value"
  /\ poll' = [poll EXCEPT !.step = "idle", !.at = @ + 1, !.qpn = 0,
                          !.response = Append(@, [qpn |-> poll.qpn, rate |-> slot[poll.at].value])]
  /\ UNCHANGED <<image, rank, flow, trace, slot, store, dropped, host, probes>>

(* pcc_poll_rate_reports() once the response is there, report by report; then  *)
(* the next poll.                                                              *)
HandleResponse ==
  /\ poll.at = MaxFlows
  /\ \/ /\ poll.response # <<>>
        /\ TakeReport(Head(poll.response))
        /\ poll' = [poll EXCEPT !.response = Tail(@)]
     \/ /\ poll.response = <<>>
        /\ poll' = NoPoll
        /\ UNCHANGED host
  /\ UNCHANGED <<image, rank, flow, trace, slot, store, dropped, probes>>

-------------------------------------------------------------------------------
(* doca-pcc-ecn: one flow and its probes                                       *)

Probed == CHOOSE c \in Contexts : TRUE

(* timestamp - start_delay, one less when the clock has wrapped in between.    *)
TillNow == IF elapsed = 0 THEN {0} ELSE {elapsed, elapsed - 1}

(* doca_pcc_dev_user_algo().  start_delay is kept as the time since.           *)
EcnUserAlgo(ev) ==
  \E till \in TillNow :
    LET old    == ctx[Probed]
        result == IF image = "ecn" THEN EcnAlgo(old, ev, till) ELSE ExerciseAlgo(old, ev, till)
    IN  /\ image \in {"ecn", "exercise"}
        /\ ctx' = [ctx EXCEPT ![Probed] = result.ctx]
        /\ asked' = (result.rtt_req \/ (asked /\ ~ev.sent))
        /\ elapsed' = IF old.rtt_meas_psn = 1 /\ result.ctx.rtt_meas_psn = 1 THEN elapsed ELSE 0
        /\ gap' = IF ev.type = "tx" THEN 0 ELSE gap
        /\ UNCHANGED <<image, rank, qp, fresh, changes, trace, mailbox, host>>

PlainTx == \E ev \in Events : /\ ev.type = "tx" /\ ~ev.sent
                              /\ EcnUserAlgo(ev) /\ UNCHANGED flying

(* The probe that was asked for leaves, and the TX event says so ...           *)
SendProbe == \E ev \in Events : /\ ev.sent /\ asked /\ flying < MaxProbes
                                /\ EcnUserAlgo(ev) /\ flying' = flying + 1

(* ... or is dropped.                                                          *)
SendUnseen ==
  /\ asked /\ flying < MaxProbes
  /\ flying' = flying + 1 /\ asked' = FALSE
  /\ UNCHANGED <<image, rank, flow, trace, mailbox, host, elapsed, gap>>

(* A probe comes back, or it, its answer or the event is lost.                 *)
Answer == \E ev \in Events : /\ ev.type = "rtt" /\ flying > 0
                             /\ EcnUserAlgo(ev) /\ flying' = flying - 1

Lose ==
  /\ flying > 0
  /\ flying' = flying - 1
  /\ UNCHANGED <<image, rank, flow, trace, mailbox, host, asked, elapsed, gap>>

OtherEvent == \E ev \in Events : /\ ev.type \in {"cnp", "nack", "other"}
                                 /\ EcnUserAlgo(ev) /\ UNCHANGED flying

Tick ==
  /\ image \in {"ecn", "exercise"} /\ gap < MaxGap
  /\ gap' = gap + 1
  /\ elapsed' = IF ctx[Probed].rtt_meas_psn = 1 THEN (elapsed + 1) % 2 ^ TimeBits ELSE 0
  /\ UNCHANGED <<image, rank, flow, trace, mailbox, host, asked, flying>>

-------------------------------------------------------------------------------
TxEvent(c) == \E ev \in SteeringEvents : /\ ev.type = "tx" /\ ~ev.nth
                                         /\ UserAlgo(c, ev) \/ UserAlgoMailbox(c, ev)

SteeringNext ==
  \/ \E c \in Contexts, ev \in SteeringEvents : UserAlgo(c, ev)
  \/ \E c \in Contexts, ev \in SteeringEvents : UserAlgoMailbox(c, ev)
  \/ \E c \in Contexts : Recycle(c)
  \/ \E w \in Workers : Elapse(w) \/ ClaimSlot(w) \/ FillSlot(w)
  \/ HandleTrace \/ PollQpn \/ PollValue \/ HandleResponse

EcnNext == PlainTx \/ SendProbe \/ SendUnseen \/ Answer \/ Lose \/ OtherEvent \/ Tick

Next == SteeringNext \/ EcnNext

(* Every QP keeps transmitting, so that TX events keep coming; the workers, the *)
(* callback and the poll go on; time passes; the NIC sends what is asked for.  *)
(* No probe need be answered, and no event but TX need ever occur.             *)
Fairness ==
  /\ \A c \in Contexts : WF_vars(TxEvent(c))
  /\ \A w \in Workers : WF_vars(Elapse(w)) /\ WF_vars(ClaimSlot(w)) /\ WF_vars(FillSlot(w))
  /\ WF_vars(HandleTrace) /\ WF_vars(PollQpn) /\ WF_vars(PollValue) /\ WF_vars(HandleResponse)
  /\ WF_vars(PlainTx) /\ WF_vars(SendProbe \/ SendUnseen) /\ WF_vars(Tick)

Spec == Init /\ [][Next]_vars /\ Fairness

-------------------------------------------------------------------------------
(* A flow's rate is 0 before its first event and within MIN_RATE .. RATE_MAX   *)
(* ever after, in the context, in what is reported and in the mailbox.         *)
TypeOK ==
  /\ \A c \in Contexts : /\ ctx[c].cur_rate \in Rates /\ ctx[c].last_reported_rate \in Rates
                         /\ ctx[c].flow_qpn \in {0} \cup Qpn
                         /\ ctx[c].rtt_meas_psn \in 0 .. 1 /\ ctx[c].rtt_req_to_rtt_sent \in 0 .. 2
                         /\ ctx[c].abort_cnt \in 0 .. 2 ^ AbortBits - 1
  /\ \A w \in Workers : \A i \in DOMAIN buf[w] : buf[w][i].rate \in Rates \ {0}
  /\ \A i \in DOMAIN channel : channel[i].rate \in Rates \ {0}
  /\ \A s \in Slots : slot[s].qpn \in {0} \cup Qpn /\ slot[s].value \in Rates
  /\ \A q \in Qpn : heard[q] \in {NotHeard} \cup Rates
  /\ table \subseteq Qpn /\ Cardinality(table) <= MaxTracked
  /\ flying \in 0 .. MaxProbes /\ elapsed \in 0 .. 2 ^ TimeBits - 1 /\ gap \in 0 .. MaxGap

(* "Flush the startup report immediately so each QP's initial rate reaches the *)
(* host even when its worker receives no later PCC event" (rp_main.c:350): as  *)
(* soon as a context knows its QP, the host has heard of this QP or will        *)
(* without another event, whatever came first and whoever had the context      *)
(* before.                                                                     *)
StartupReportHeard ==
  image = "steering3" =>
    \A c \in Contexts :
      LET q == ctx[c].flow_qpn
      IN  q # 0 => heard[q] # NotHeard \/ \E i \in DOMAIN channel : channel[i].qpn = q

(* Racing workers may take a slot from each other and the host may read one    *)
(* half-written, but a flow is never stored in two slots, of which the poll    *)
(* would deliver the older one last (rate_mailbox_store).                      *)
OneSlotPerQpn ==
  \A s, t \in Slots : slot[s].qpn # 0 /\ slot[s].qpn = slot[t].qpn => s = t

(* A worker takes a slot that another flow has come to own since it looked.     *)
SlotTaken == \E s \in Slots : slot[s].qpn # 0 /\ slot'[s].qpn # slot[s].qpn

(* Unless a flow's rate changes forever, or the mailbox is full, or two workers *)
(* take a slot from each other forever (which nothing in rate_mailbox_store()  *)
(* rules out), the controller ends up with the rate the device reported last:  *)
(* no report is left in a buffer, overtaken by an older one, lost to another    *)
(* flow's slot, or skipped because the table of averages is full               *)
(* (pcc_core.c:74, rp_main.c:372).                                             *)
HostHearsLastRate ==
  \A c \in Contexts :
    \/ []<><<ctx'[c].last_reported_rate # ctx[c].last_reported_rate>>_ctx
    \/ []<><<SlotTaken>>_slot
    \/ <>[](\/ dropped
            \/ ctx[c].flow_qpn = 0
            \/ heard[ctx[c].flow_qpn] = ctx[c].last_reported_rate)

(* However many events, probes and answers are dropped, and although the       *)
(* time-out doubles until it overflows, a probe is in the network again and     *)
(* again ("Abort RTT request flow - for cases event or packet was dropped",    *)
(* rtt_template.c:222).                                                        *)
ProbeGoesOn == [](image \in {"ecn", "exercise"}) => []<>(flying > 0)
=============================================================================
