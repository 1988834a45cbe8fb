---------------------------- MODULE PccDeviceProofs ----------------------------
(* For any number of contexts, workers, QPs and slots: the host hears of each  *)
(* flow at once (DOCA 3), the mailbox has one slot for each flow at most       *)
(* (DOCA 2.9), and in all four images the rates stay in their range and every  *)
(* message and counter in its type.                                            *)
EXTENDS PccDevice, FiniteSetTheorems, SequenceTheorems, TLAPS

MaybeQpn == {0} \cup Qpn
Context  == [cur_rate : Rates, flow_qpn : MaybeQpn, last_reported_rate : Rates,
             rtt_meas_psn : 0 .. 1, rtt_req_to_rtt_sent : 0 .. 2,
             abort_cnt : 0 .. 2 ^ AbortBits - 1]
Report   == [qpn : Qpn, rate : Rates \ {0}]

(* A context knows the QP it has, one it had before, or none; no two know the  *)
(* same one.  What has no QPN has reported nothing.                            *)
Flows ==
  /\ image \in {"steering3", "steering2", "ecn", "exercise"}
  /\ rank \in [Contexts -> Workers] /\ qp \in [Contexts -> Qpn] /\ fresh \subseteq Qpn
  /\ \A c \in Contexts : qp[c] \notin fresh
  /\ \A c, d \in Contexts : c # d => qp[c] # qp[d]

Known ==
  /\ ctx \in [Contexts -> Context]
  /\ \A c \in Contexts : /\ ctx[c].flow_qpn \notin fresh
                         /\ ctx[c].flow_qpn = 0 => ctx[c].last_reported_rate = 0
  /\ \A c, d \in Contexts :
       c # d => /\ ctx[c].flow_qpn # qp[d]
                /\ ctx[c].flow_qpn # 0 => ctx[c].flow_qpn # ctx[d].flow_qpn

(* What is buffered, on its way and heard.                                     *)
Traced ==
  /\ buf \in [Workers -> Seq(Report)] /\ channel \in Seq(Report)
  /\ heard \in [Qpn -> Int] /\ poll = NoPoll

(* The slot `at' is the p-th in the probe order of a QPN, and none before it   *)
(* is free.                                                                    *)
Place(qpn, p) == (qpn + p) % MaxFlows
Reached(at, qpn) ==
  \E p \in Slots : /\ Place(qpn, p) = at
                   /\ \A x \in Slots : x < p => slot[Place(qpn, x)].qpn # 0

(* A worker that stores is one that handles the flow it stores for.            *)
Stores ==
  /\ slot \in [Slots -> [qpn : MaybeQpn, value : Rates]]
  /\ store \in [Workers -> [step : {"idle", "claim", "fill"}, slot : Slots, qpn : MaybeQpn,
                            rate : Rates]]
  /\ \A w \in Workers :
       store[w].step # "idle" =>
         /\ store[w].qpn # 0
         /\ \E c \in Contexts : rank[c] = w /\ ctx[c].flow_qpn = store[w].qpn

(* A flow's slot is reached, the one a worker is about to claim for it too,    *)
(* and then the flow has no other.                                             *)
Probing ==
  /\ \A s \in Slots : slot[s].qpn # 0 => Reached(s, slot[s].qpn)
  /\ \A w \in Workers :
       store[w].step = "claim" =>
         /\ Reached(store[w].slot, store[w].qpn)
         /\ \A t \in Slots \ {store[w].slot} : slot[t].qpn # store[w].qpn

(* The other images have no mailbox.                                           *)
Unused == /\ \A s \in Slots : slot[s].qpn = 0
          /\ \A w \in Workers : store[w].step = "idle"

Inv ==
  /\ Flows
  /\ Steering => Known
  /\ image = "steering3" => Traced /\ StartupReportHeard
  /\ image = "steering2" => Stores /\ Probing /\ OneSlotPerQpn
  /\ image # "steering2" => Unused

LEMMA RatesAndCounts ==
  /\ 0 \in Rates /\ NewFlowRate \in Rates \ {0} /\ MinRate \in Rates \ {0}
  /\ \A r \in Rates : r \in Nat /\ r <= RateMax
  /\ 0 \in 0 .. 2 ^ AbortBits - 1
BY RateAssumption, TimeAssumption DEF Rates

(* What raises and cuts a rate leaves it within its bounds.                    *)
LEMMA RateSteps ==
  ASSUME NEW r \in Rates \ {0}
  PROVE  Raised(r) \in Rates \ {0} /\ Cut(r) \in Rates \ {0}
<1>1. /\ MinRate \in Nat \ {0} /\ RateMax \in Nat /\ MinRate <= RateMax /\ AiStep \in Nat
      /\ DecNum \in Nat /\ DecDen \in Nat \ {0} /\ DecNum < DecDen
  BY RateAssumption
<1>2. r \in Nat /\ MinRate <= r /\ r <= RateMax
  BY <1>1 DEF Rates
<1>3. Raised(r) \in Rates \ {0}
  BY <1>1, <1>2 DEF Raised, Rates
<1> DEFINE cut == (r * DecNum) \div DecDen
<1>4. cut \in Nat /\ cut <= r
  <2>1. r * DecNum \in Nat /\ r * DecNum <= r * DecDen /\ r * DecDen \in Nat
    BY <1>1, <1>2
  <2>2. \A x \in Nat : x \div DecDen \in Nat /\ (x \div DecDen) * DecDen <= x
    BY <1>1
  <2>3. cut \in Nat /\ cut * DecDen <= r * DecNum
    BY <2>1, <2>2
  <2> HIDE DEF cut
  <2>4. cut >= r + 1 => cut * DecDen >= (r + 1) * DecDen
    BY <1>1, <1>2, <2>3
  <2>5. (r + 1) * DecDen = r * DecDen + DecDen /\ cut * DecDen \in Nat
    BY <1>1, <1>2, <2>3
  <2>6. ~(cut >= r + 1)
    BY <1>1, <1>2, <2>1, <2>3, <2>4, <2>5
  <2> QED
    BY <1>2, <2>3, <2>6
<1> HIDE DEF cut
<1>5. Cut(r) = IF cut < MinRate THEN MinRate ELSE cut
  BY DEF Cut, cut
<1> QED
  BY <1>1, <1>2, <1>3, <1>4, <1>5 DEF Rates

(* One event: the context is a context again, it has a rate, a TX event        *)
(* teaches it the QPN, and what it traces is the rate it has now.              *)
LEMMA OneEvent ==
  ASSUME NEW old \in Context, NEW ev \in SteeringEvents, NEW q \in Qpn
  PROVE  LET new == Reported(old, ev, q)
             known == IF ev.type = "tx" THEN q ELSE old.flow_qpn
         IN  /\ new \in Context /\ new.cur_rate # 0 /\ new.flow_qpn = known
             /\ \/ /\ Reports(old, ev, q) = <<>>
                   /\ new.last_reported_rate = old.last_reported_rate
                   /\ known # 0 => /\ ~QpnChanged(old, ev, q)
                                   /\ old.last_reported_rate = new.cur_rate
                \/ /\ Reports(old, ev, q) = << [qpn |-> known, rate |-> new.cur_rate] >>
                   /\ known # 0
<1> DEFINE learnt == LearnQpn(old, ev, q)
           known  == IF ev.type = "tx" THEN q ELSE old.flow_qpn
           after  == SteeringAlgo(learnt, ev).ctx
<1>1. learnt \in Context /\ learnt.flow_qpn = known /\ known \in MaybeQpn
      /\ learnt.cur_rate = old.cur_rate /\ learnt.last_reported_rate = old.last_reported_rate
  BY SetupAssumption DEF LearnQpn, Context, MaybeQpn
<1>2. ev.type \in {"tx", "rtt", "cnp", "nack", "other"}
  BY DEF SteeringEvents, Events
<1>3. /\ after \in Context /\ after.cur_rate # 0 /\ after.flow_qpn = known
      /\ after.last_reported_rate = old.last_reported_rate
  <2> HIDE DEF learnt, known
  <2>1. NewFlowRate \in Rates \ {0}
    BY RatesAndCounts
  <2>2. CASE learnt.cur_rate = 0
    <3> DEFINE c1 == [learnt EXCEPT !.cur_rate = NewFlowRate]
               c2 == [c1 EXCEPT !.rtt_meas_psn = 0]
               c3 == [c2 EXCEPT !.rtt_req_to_rtt_sent = 1]
               c4 == [c3 EXCEPT !.abort_cnt = 0]
               Begun(c) == /\ c \in Context /\ c.cur_rate = NewFlowRate /\ c.flow_qpn = known
                           /\ c.last_reported_rate = old.last_reported_rate
    <3>1. Begun(c1)
      BY <1>1, <2>1, RatesAndCounts DEF Context
    <3> HIDE DEF c1
    <3>2. Begun(c2)
      BY <3>1 DEF Context
    <3> HIDE DEF c2
    <3>3. Begun(c3)
      BY <3>2 DEF Context
    <3> HIDE DEF c3
    <3>4. Begun(c4)
      BY <3>3, RatesAndCounts DEF Context
    <3>5. after = c4
      BY <2>2 DEF after, SteeringAlgo, HandleNewFlow, Result, c1, c2, c3
    <3> HIDE DEF c4
    <3> QED
      BY <2>1, <3>4, <3>5
  <2>3. CASE learnt.cur_rate # 0 /\ ev.type = "tx"
    <3>1. learnt.cur_rate \in Rates \ {0} /\ Raised(learnt.cur_rate) \in Rates \ {0}
      BY <1>1, <2>3, RateSteps DEF Context
    <3>2. after = IF ev.nth THEN [learnt EXCEPT !.cur_rate = Raised(learnt.cur_rate)] ELSE learnt
      BY <1>1, <2>3 DEF after, SteeringAlgo, HandleRoceTx, Result, Context
    <3> QED
      BY <1>1, <2>3, <3>1, <3>2 DEF Context
  <2>4. CASE learnt.cur_rate # 0 /\ ev.type = "cnp"
    <3>1. Cut(learnt.cur_rate) \in Rates \ {0}
      BY <1>1, <2>4, RateSteps DEF Context
    <3>2. after = [learnt EXCEPT !.cur_rate = Cut(learnt.cur_rate)]
      BY <1>1, <2>4 DEF after, SteeringAlgo, HandleRoceCnp, Result, Context
    <3> QED
      BY <1>1, <2>4, <3>1, <3>2 DEF Context
  <2>5. CASE learnt.cur_rate # 0 /\ ev.type = "rtt"
    <3> DEFINE c1 == [learnt EXCEPT !.rtt_meas_psn = 0]
               c2 == [c1 EXCEPT !.abort_cnt = 0]
               c3 == [c2 EXCEPT !.rtt_req_to_rtt_sent = 1]
               Kept(c) == /\ c \in Context /\ c.cur_rate # 0 /\ c.flow_qpn = known
                          /\ c.last_reported_rate = old.last_reported_rate
    <3>1. Kept(learnt) /\ Kept(c1)
      BY <1>1, <2>5 DEF Context
    <3> HIDE DEF c1
    <3>2. Kept(c2)
      BY <3>1, RatesAndCounts DEF Context
    <3> HIDE DEF c2
    <3>3. Kept(c3)
      BY <3>2 DEF Context
    <3>4. after = learnt \/ after = c3
      <4>1. after = HandleRoceRtt(learnt, FALSE).ctx
        BY <2>5 DEF after, SteeringAlgo
      <4> QED
        BY <4>1 DEF HandleRoceRtt, Result, c1, c2
    <3> HIDE DEF c3
    <3> QED
      BY <3>1, <3>3, <3>4
  <2>6. CASE learnt.cur_rate # 0 /\ ev.type \in {"nack", "other"}
    BY <1>1, <2>6 DEF after, SteeringAlgo, HandleRoceNack, Result, Context
  <2> QED
    BY <1>2, <2>2, <2>3, <2>4, <2>5, <2>6
<1>4. After(old, ev, q) = after
  BY DEF After
<1> HIDE DEF learnt, after, known
<1>5. CASE known # 0 /\ (QpnChanged(old, ev, q) \/ old.last_reported_rate # after.cur_rate)
  <2>1. Reports(old, ev, q) = << [qpn |-> known, rate |-> after.cur_rate] >>
    BY <1>3, <1>4, <1>5 DEF Reports
  <2>2. << [qpn |-> known, rate |-> after.cur_rate] >> # <<>>
    OBVIOUS
  <2>3. Reported(old, ev, q) = [after EXCEPT !.last_reported_rate = after.cur_rate]
    BY <1>4, <2>1, <2>2 DEF Reported
  <2> QED
    BY <1>3, <1>5, <2>1, <2>3 DEF Context, known
<1>6. CASE ~(known # 0 /\ (QpnChanged(old, ev, q) \/ old.last_reported_rate # after.cur_rate))
  <2>1. Reports(old, ev, q) = <<>>
    BY <1>3, <1>4, <1>6 DEF Reports
  <2>2. Reported(old, ev, q) = [after EXCEPT !.last_reported_rate = after.last_reported_rate]
    BY <1>4, <2>1 DEF Reported
  <2>3. Reported(old, ev, q) = after
    BY <1>3, <2>2 DEF Context
  <2> QED
    BY <1>3, <1>6, <2>1, <2>3 DEF known
<1> QED
  BY <1>5, <1>6

(* The probes' side of the NIC leaves the steering images alone.               *)
LEMMA EcnAside ==
  ASSUME EcnNext
  PROVE  /\ UNCHANGED <<image, rank, qp, fresh, trace, mailbox, host>>
         /\ Steering => UNCHANGED ctx
<1>1. ASSUME NEW ev \in Events, EcnUserAlgo(ev)
      PROVE  /\ UNCHANGED <<image, rank, qp, fresh, trace, mailbox, host>>
             /\ ~Steering
  BY <1>1 DEF EcnUserAlgo, Steering
<1>2. CASE SendUnseen \/ Lose \/ Tick
  BY <1>2 DEF SendUnseen, Lose, Tick, flow
<1>3. CASE PlainTx \/ SendProbe \/ Answer \/ OtherEvent
  BY <1>1, <1>3 DEF PlainTx, SendProbe, Answer, OtherEvent
<1> QED
  BY <1>2, <1>3 DEF EcnNext

(* The steps of the steering images.                                           *)
LEMMA StepsOfNext ==
  ASSUME [Next]_vars
  PROVE  \/ \E c \in Contexts, ev \in SteeringEvents : UserAlgo(c, ev) \/ UserAlgoMailbox(c, ev)
         \/ \E c \in Contexts : Recycle(c)
         \/ \E w \in Workers : Elapse(w) \/ ClaimSlot(w) \/ FillSlot(w)
         \/ HandleTrace \/ PollQpn \/ PollValue \/ HandleResponse
         \/ /\ UNCHANGED <<image, rank, qp, fresh, trace, mailbox, host>>
            /\ Steering => UNCHANGED ctx
<1>1. CASE UNCHANGED vars
  BY <1>1 DEF vars, flow
<1>2. CASE SteeringNext
  BY <1>2 DEF SteeringNext
<1>3. CASE EcnNext
  BY <1>3, EcnAside
<1> QED
  BY <1>1, <1>2, <1>3 DEF Next

(* The image stays.                                                            *)
LEMMA ImageStays == ASSUME [Next]_vars PROVE image' = image
<1>1. CASE \E c \in Contexts, ev \in SteeringEvents : UserAlgo(c, ev) \/ UserAlgoMailbox(c, ev)
  BY <1>1 DEF UserAlgo, UserAlgoMailbox, HandleEvent
<1>2. CASE \E c \in Contexts : Recycle(c)
  BY <1>2 DEF Recycle
<1>3. CASE \E w \in Workers : Elapse(w) \/ ClaimSlot(w) \/ FillSlot(w)
  BY <1>3 DEF Elapse, ClaimSlot, FillSlot
<1>4. CASE HandleTrace \/ PollQpn \/ PollValue \/ HandleResponse
  BY <1>4 DEF HandleTrace, PollQpn, PollValue, HandleResponse
<1> QED
  BY <1>1, <1>2, <1>3, <1>4, StepsOfNext

(* A new QP comes from those that were not used.                               *)
LEMMA FlowsStep == Inv /\ [Next]_vars => Flows'
<1> SUFFICES ASSUME Flows, [Next]_vars PROVE Flows'
  BY DEF Inv
<1> USE DEF Flows
<1>1. CASE \E c \in Contexts : Recycle(c)
  <2>1. PICK c \in Contexts, q \in fresh :
           qp' = [qp EXCEPT ![c] = q] /\ fresh' = fresh \ {q} /\ UNCHANGED <<image, rank>>
    BY <1>1 DEF Recycle
  <2> QED
    BY <2>1
<1>2. CASE UNCHANGED <<image, rank, qp, fresh>>
  BY <1>2
<1>3. ASSUME NEW c \in Contexts, NEW ev \in SteeringEvents,
             UserAlgo(c, ev) \/ UserAlgoMailbox(c, ev)
      PROVE  UNCHANGED <<image, rank, qp, fresh>>
  BY <1>3 DEF UserAlgo, UserAlgoMailbox, HandleEvent
<1>4. ASSUME NEW w \in Workers, Elapse(w) \/ ClaimSlot(w) \/ FillSlot(w)
      PROVE  UNCHANGED <<image, rank, qp, fresh>>
  BY <1>4 DEF Elapse, ClaimSlot, FillSlot, flow
<1>5. CASE HandleTrace \/ PollQpn \/ PollValue \/ HandleResponse
  BY <1>2, <1>5 DEF HandleTrace, PollQpn, PollValue, HandleResponse, flow
<1> QED
  BY <1>1, <1>2, <1>3, <1>4, <1>5, StepsOfNext

(* An event teaches a context the QPN of the QP it has, which no other context *)
(* has or knows; a recycled context may keep the one it knew.                  *)
LEMMA KnownStep == Inv /\ [Next]_vars => (Steering => Known)'
<1> SUFFICES ASSUME Flows, Known, Steering, [Next]_vars PROVE Known'
  BY ImageStays DEF Inv, Steering
<1>1. ASSUME NEW c \in Contexts, NEW ev \in SteeringEvents, HandleEvent(c, ev) PROVE Known'
  <2> DEFINE new == Reported(ctx[c], ev, qp[c])
  <2>1. /\ new \in Context /\ new.flow_qpn \in {qp[c], ctx[c].flow_qpn}
        /\ new.flow_qpn = 0 => /\ ctx[c].flow_qpn = 0
                               /\ new.last_reported_rate = ctx[c].last_reported_rate
    <3>1. ctx[c] \in Context /\ qp[c] \in Qpn /\ qp[c] # 0
      BY SetupAssumption DEF Known, Flows
    <3> QED
      BY <3>1, OneEvent
  <2>2. ctx' = [ctx EXCEPT ![c] = new] /\ UNCHANGED <<qp, fresh>>
    BY <1>1 DEF HandleEvent
  <2> HIDE DEF new
  <2> QED
    BY <2>1, <2>2 DEF Known, Flows
<1>2. ASSUME NEW c \in Contexts, Recycle(c) PROVE Known'
  <2>1. PICK q \in fresh, kept \in {ctx[c], NewContext} :
           qp' = [qp EXCEPT ![c] = q] /\ fresh' = fresh \ {q} /\ ctx' = [ctx EXCEPT ![c] = kept]
    BY <1>2 DEF Recycle
  <2>2. /\ kept \in Context /\ kept.flow_qpn \in {0, ctx[c].flow_qpn}
        /\ kept.flow_qpn = 0 => kept.last_reported_rate = 0
    BY RatesAndCounts DEF NewContext, Context, MaybeQpn, Known
  <2>3. 0 \notin Qpn
    BY SetupAssumption
  <2> QED
    BY <2>1, <2>2, <2>3 DEF Known, Flows
<1>3. CASE UNCHANGED <<ctx, qp, fresh>>
  BY <1>3 DEF Known
<1>4. ASSUME NEW w \in Workers, Elapse(w) \/ ClaimSlot(w) \/ FillSlot(w)
      PROVE  UNCHANGED <<ctx, qp, fresh>>
  BY <1>4 DEF Elapse, ClaimSlot, FillSlot, flow
<1>5. CASE HandleTrace \/ PollQpn \/ PollValue \/ HandleResponse
  BY <1>3, <1>5 DEF HandleTrace, PollQpn, PollValue, HandleResponse, flow
<1> QED
  BY <1>1, <1>2, <1>3, <1>4, <1>5, StepsOfNext DEF UserAlgo, UserAlgoMailbox

(* What a flush adds to the channel follows what is there.                     *)
LEMMA Flushed ==
  ASSUME NEW s \in Seq(Report), NEW t \in Seq(Report)
  PROVE  /\ s \o t \in Seq(Report)
         /\ \A i \in DOMAIN s : i \in DOMAIN (s \o t) /\ (s \o t)[i] = s[i]
         /\ \A j \in DOMAIN t : \E i \in DOMAIN (s \o t) : (s \o t)[i] = t[j]
<1>1. s \o t \in Seq(Report) /\ Len(s \o t) = Len(s) + Len(t)
  OBVIOUS
<1>2. ASSUME NEW i \in DOMAIN s PROVE i \in DOMAIN (s \o t) /\ (s \o t)[i] = s[i]
  OBVIOUS
<1>3. ASSUME NEW j \in DOMAIN t PROVE \E i \in DOMAIN (s \o t) : (s \o t)[i] = t[j]
  <2>1. Len(s) + j \in DOMAIN (s \o t) /\ (s \o t)[Len(s) + j] = t[j]
    OBVIOUS
  <2> QED
    BY <2>1
<1> QED
  BY <1>1, <1>2, <1>3

Announced(q) == heard[q] # NotHeard \/ \E i \in DOMAIN channel : channel[i].qpn = q
AnnouncedNext(q) == heard'[q] # NotHeard \/ \E i \in DOMAIN channel' : channel'[i].qpn = q

(* An event only adds to the channel, and the start-up report is in it.        *)
LEMMA EventTraced ==
  ASSUME Inv, NEW c \in Contexts, NEW ev \in SteeringEvents, UserAlgo(c, ev)
  PROVE  Traced' /\ StartupReportHeard'
<1> DEFINE w      == rank[c]
           old    == ctx[c]
           new    == Reported(old, ev, qp[c])
           report == Reports(old, ev, qp[c])
           known  == IF ev.type = "tx" THEN qp[c] ELSE old.flow_qpn
<1>1. /\ image = "steering3" /\ Steering /\ image' = image /\ UNCHANGED <<heard, poll>>
      /\ ctx' = [ctx EXCEPT ![c] = new]
  BY DEF UserAlgo, HandleEvent, Steering, host, mailbox
<1>2. Flows /\ Known /\ Traced /\ StartupReportHeard
  BY <1>1 DEF Inv
<1>3. /\ old \in Context /\ qp[c] \in Qpn /\ qp[c] # 0 /\ w \in Workers
      /\ old.flow_qpn = 0 => old.last_reported_rate = 0
  BY <1>2, SetupAssumption DEF Known, Flows
<1>4. /\ new \in Context /\ new.cur_rate # 0 /\ new.flow_qpn = known
      /\ \/ /\ report = <<>>
            /\ known # 0 => /\ ~QpnChanged(old, ev, qp[c])
                            /\ old.last_reported_rate = new.cur_rate
         \/ report = << [qpn |-> known, rate |-> new.cur_rate] >> /\ known # 0
  BY <1>3, OneEvent
<1>5. report \in Seq(Report)
  <2>1. known \in MaybeQpn /\ new.cur_rate \in Rates \ {0}
    BY <1>3, <1>4 DEF Context, MaybeQpn
  <2>2. known # 0 => << [qpn |-> known, rate |-> new.cur_rate] >> \in Seq(Report)
    BY <2>1 DEF Report, MaybeQpn
  <2>3. <<>> \in Seq(Report)
    OBVIOUS
  <2> HIDE DEF report, new, known
  <2> QED
    BY <1>4, <2>2, <2>3
<1>6. buf[w] \in Seq(Report)
  BY <1>2, <1>3 DEF Traced
<1>7. PICK first \in {<<>>, buf[w]}, last \in {<<>>, report},
           left \in {<<>>, report, buf[w] \o report} :
        /\ channel' = channel \o first \o last
        /\ buf' = [buf EXCEPT ![w] = left]
        /\ report # <<>> /\ StartupReport(old, ev, qp[c]) => last = report
  <2> DEFINE before == \/ QpnChanged(old, ev, qp[c])
                       \/ ev.type = "cnp" /\ ev.nth /\ old.cur_rate # 0
             whole  == (report # <<>> /\ StartupReport(old, ev, qp[c])) \/ due[w]
             kept   == IF before THEN <<>> ELSE buf[w]
  <2>1. /\ channel' = channel \o (IF before \/ whole THEN buf[w] ELSE <<>>)
                              \o (IF whole THEN report ELSE <<>>)
        /\ buf' = [buf EXCEPT ![w] = IF whole THEN <<>> ELSE kept \o report]
    BY DEF UserAlgo
  <2>2. <<>> \o report = report
    BY <1>5
  <2> HIDE DEF report, before
  <2>3. (IF whole THEN <<>> ELSE kept \o report) \in {<<>>, report, buf[w] \o report}
    BY <2>2
  <2> QED
    BY <2>1, <2>3
<1> HIDE DEF new, report, known, w, old
<1>8. first \in Seq(Report) /\ last \in Seq(Report) /\ left \in Seq(Report)
  <2>1. <<>> \in Seq(Report) /\ buf[w] \o report \in Seq(Report)
    BY <1>5, <1>6, Flushed
  <2> QED
    BY <1>5, <1>6, <1>7, <2>1
<1>9. channel \o first \in Seq(Report)
  BY <1>2, <1>8, Flushed DEF Traced
<1>10. Traced'
  <2>1. channel' \in Seq(Report)
    BY <1>7, <1>8, <1>9, Flushed
  <2> QED
    BY <1>1, <1>2, <1>3, <1>7, <1>8, <2>1 DEF Traced
<1>11. \A q : Announced(q) => AnnouncedNext(q)
  <2> SUFFICES ASSUME NEW q, Announced(q) PROVE AnnouncedNext(q)
    OBVIOUS
  <2>1. CASE heard[q] # NotHeard
    BY <1>1, <2>1 DEF AnnouncedNext
  <2>2. ASSUME NEW i \in DOMAIN channel, channel[i].qpn = q PROVE AnnouncedNext(q)
    <3>1. i \in DOMAIN (channel \o first) /\ (channel \o first)[i] = channel[i]
      BY <1>2, <1>8, Flushed DEF Traced
    <3>2. i \in DOMAIN channel' /\ channel'[i] = channel[i]
      BY <1>7, <1>8, <1>9, <3>1, Flushed
    <3> QED
      BY <2>2, <3>2 DEF AnnouncedNext
  <2> QED
    BY <2>1, <2>2 DEF Announced
<1>12. ASSUME known # 0 PROVE AnnouncedNext(known)
  <2>1. CASE known = old.flow_qpn
    <3>1. Announced(known)
      BY <1>1, <1>2, <1>12, <2>1 DEF StartupReportHeard, Announced, old
    <3> QED
      BY <1>11, <3>1
  <2>2. CASE known # old.flow_qpn
    <3>1. ev.type = "tx" /\ known = qp[c]
      BY <2>2 DEF known
    <3>2. report = << [qpn |-> known, rate |-> new.cur_rate] >>
      <4>1. CASE report = <<>>
        <5>1. old.flow_qpn = 0
          BY <1>4, <1>12, <2>2, <3>1, <4>1 DEF QpnChanged
        <5> QED
          BY <1>3, <1>4, <1>12, <4>1, <5>1
      <4> QED
        BY <1>4, <4>1
    <3>3. StartupReport(old, ev, qp[c])
      BY <2>2, <3>1 DEF StartupReport, FirstObservedFlow
    <3>4. last = << [qpn |-> known, rate |-> new.cur_rate] >>
      BY <1>7, <3>2, <3>3
    <3>5. 1 \in DOMAIN last /\ last[1].qpn = known
      BY <3>4
    <3>6. \A j \in DOMAIN last : \E i \in DOMAIN ((channel \o first) \o last) :
            ((channel \o first) \o last)[i] = last[j]
      BY <1>8, <1>9, Flushed
    <3>7. channel' = (channel \o first) \o last
      BY <1>7
    <3>8. PICK i \in DOMAIN channel' : channel'[i] = last[1]
      BY <3>5, <3>6, <3>7
    <3> QED
      BY <3>5, <3>8 DEF AnnouncedNext
  <2> QED
    BY <2>1, <2>2
<1>13. ASSUME NEW d \in Contexts, ctx'[d].flow_qpn # 0 PROVE AnnouncedNext(ctx'[d].flow_qpn)
  <2>1. CASE d = c
    <3>1. ctx'[d] = new
      BY <1>1, <1>2, <2>1 DEF Known
    <3> QED
      BY <1>4, <1>12, <1>13, <3>1
  <2>2. CASE d # c
    <3>1. ctx'[d] = ctx[d]
      BY <1>1, <1>2, <2>2 DEF Known
    <3>2. Announced(ctx[d].flow_qpn)
      BY <1>1, <1>2, <1>13, <3>1 DEF StartupReportHeard, Announced
    <3> QED
      BY <1>11, <3>1, <3>2
  <2> QED
    BY <2>1, <2>2
<1> QED
  BY <1>10, <1>13 DEF StartupReportHeard, AnnouncedNext

(* A report is heard as it leaves the channel.                                 *)
LEMMA ReportTaken ==
  ASSUME Traced, StartupReportHeard, image = "steering3", HandleTrace
  PROVE  Traced' /\ StartupReportHeard'
<1> DEFINE r == Head(channel)
<1>1. /\ channel # <<>> /\ channel' = Tail(channel) /\ heard' = [heard EXCEPT ![r.qpn] = r.rate]
      /\ UNCHANGED <<buf, ctx, image, poll>>
  BY DEF HandleTrace, TakeReport, SteerUpdatePccRate, flow, mailbox
<1>2. r \in Report /\ r = channel[1] /\ Tail(channel) \in Seq(Report)
  BY <1>1 DEF Traced
<1>3. r.qpn \in Qpn /\ r.rate \in Nat /\ r.rate # NotHeard
  BY <1>2, RatesAndCounts DEF Report, NotHeard
<1>4. Traced'
  BY <1>1, <1>2, <1>3 DEF Traced
<1>5. \A q : Announced(q) => AnnouncedNext(q)
  <2> SUFFICES ASSUME NEW q, Announced(q) PROVE AnnouncedNext(q)
    OBVIOUS
  <2>1. CASE q = r.qpn
    <3>1. heard'[q] = r.rate
      BY <1>1, <1>3, <2>1 DEF Traced
    <3> QED
      BY <1>3, <3>1 DEF AnnouncedNext
  <2>2. CASE q # r.qpn /\ heard[q] # NotHeard
    <3>1. heard'[q] = heard[q]
      BY <1>1, <2>2 DEF Traced
    <3> QED
      BY <2>2, <3>1 DEF AnnouncedNext
  <2>3. ASSUME NEW i \in DOMAIN channel, channel[i].qpn = q, q # r.qpn PROVE AnnouncedNext(q)
    <3>1. i # 1 /\ i \in Nat /\ i <= Len(channel)
      BY <1>2, <2>3 DEF Traced
    <3>2. i - 1 \in DOMAIN Tail(channel) /\ Tail(channel)[i - 1] = channel[i]
      BY <1>1, <2>3, <3>1 DEF Traced
    <3> QED
      BY <1>1, <2>3, <3>2 DEF AnnouncedNext
  <2> QED
    BY <2>1, <2>2, <2>3 DEF Announced
<1> QED
  BY <1>1, <1>4, <1>5 DEF StartupReportHeard, Announced, AnnouncedNext

(* Every step of the DOCA 3 image keeps what is heard and on its way.          *)
LEMMA TracedStep == Inv /\ [Next]_vars => (image = "steering3" => Traced /\ StartupReportHeard)'
<1> SUFFICES ASSUME Inv, image = "steering3", [Next]_vars PROVE Traced' /\ StartupReportHeard'
  BY ImageStays
<1>1. Flows /\ Known /\ Traced /\ StartupReportHeard
  BY DEF Inv, Steering
<1>2. CASE UNCHANGED <<image, ctx, buf, channel, heard, poll>>
  BY <1>1, <1>2 DEF Traced, StartupReportHeard
<1>3. ASSUME NEW c \in Contexts, NEW ev \in SteeringEvents,
             UserAlgo(c, ev) \/ UserAlgoMailbox(c, ev)
      PROVE  Traced' /\ StartupReportHeard'
  BY <1>3, EventTraced DEF UserAlgoMailbox
<1>4. ASSUME NEW c \in Contexts, Recycle(c) PROVE Traced' /\ StartupReportHeard'
  <2>1. /\ \E kept \in {ctx[c], NewContext} : ctx' = [ctx EXCEPT ![c] = kept]
        /\ UNCHANGED <<image, buf, channel, heard, poll>>
    BY <1>4 DEF Recycle, trace, host, mailbox
  <2>2. \A d \in Contexts : ctx'[d].flow_qpn \in {0, ctx[d].flow_qpn}
    BY <1>1, <2>1 DEF Known, NewContext
  <2> QED
    BY <1>1, <2>1, <2>2 DEF Traced, StartupReportHeard
<1>5. ASSUME NEW w \in Workers, Elapse(w) \/ ClaimSlot(w) \/ FillSlot(w)
      PROVE  UNCHANGED <<image, ctx, buf, channel, heard, poll>>
  BY <1>5 DEF Elapse, ClaimSlot, FillSlot, flow, trace, host, mailbox
<1>6. CASE HandleTrace
  BY <1>1, <1>6, ReportTaken
<1>7. ~(PollQpn \/ PollValue \/ HandleResponse)
  BY <1>1, SetupAssumption DEF PollQpn, PollValue, HandleResponse, Traced, NoPoll
<1> QED
  BY <1>2, <1>3, <1>4, <1>5, <1>6, <1>7, StepsOfNext DEF Steering, trace, host, mailbox

Mailbox == Stores /\ Probing /\ OneSlotPerQpn

ReachedNext(at, qpn) ==
  \E p \in Slots : /\ Place(qpn, p) = at
                   /\ \A x \in Slots : x < p => slot'[Place(qpn, x)].qpn # 0

LEMMA PlaceIsSlot == ASSUME NEW q \in Qpn, NEW p \in Slots PROVE Place(q, p) \in Slots
<1>1. q + p \in Nat /\ MaxFlows \in Nat \ {0}
  BY SetupAssumption DEF Slots
<1> QED
  BY <1>1 DEF Place, Slots

(* The search stops at a slot that is reached, and at the flow's own if there  *)
(* is one: a slot that is free before it would have been free when it was      *)
(* taken, and a slot is never given back.                                      *)
LEMMA ProbeFindsOwn ==
  ASSUME Mailbox, NEW q \in Qpn, NEW s \in ProbeSlot(q)
  PROVE  /\ s \in Slots /\ Reached(s, q)
         /\ \A t \in Slots \ {s} : slot[t].qpn # q
<1>1. PICK p \in Slots :
        /\ s = Place(q, p) /\ slot[s].qpn \in {0, q}
        /\ \A y \in Slots : slot[Place(q, y)].qpn \in {0, q} => p <= y
  BY DEF ProbeSlot, Place
<1>2. s \in Slots /\ q # 0 /\ p \in Int
  BY <1>1, PlaceIsSlot, SetupAssumption DEF Slots
<1>3. Reached(s, q)
  <2>1. ASSUME NEW x \in Slots, x < p PROVE slot[Place(q, x)].qpn # 0
    BY <1>1, <2>1 DEF Slots
  <2> QED
    BY <1>1, <2>1 DEF Reached
<1>4. ASSUME NEW t \in Slots \ {s}, slot[t].qpn = q PROVE FALSE
  <2>1. PICK y \in Slots : /\ Place(q, y) = t
                           /\ \A x \in Slots : x < y => slot[Place(q, x)].qpn # 0
    BY <1>2, <1>4 DEF Mailbox, Probing, Reached
  <2>2. p <= y /\ p # y
    BY <1>1, <1>4, <2>1
  <2>3. p < y
    BY <2>2 DEF Slots
  <2>4. slot[s].qpn = q
    BY <1>1, <2>1, <2>3
  <2> QED
    BY <1>2, <1>4, <2>4 DEF Mailbox, OneSlotPerQpn
<1> QED
  BY <1>2, <1>3, <1>4

(* What is reached stays so as long as no slot is given back.                  *)
LEMMA StillReached ==
  ASSUME \A t \in Slots : slot[t].qpn # 0 => slot'[t].qpn # 0
  PROVE  \A q \in Qpn : \A at : Reached(at, q) => ReachedNext(at, q)
<1> SUFFICES ASSUME NEW q \in Qpn, NEW at, Reached(at, q) PROVE ReachedNext(at, q)
  OBVIOUS
<1>1. PICK p \in Slots : /\ Place(q, p) = at
                         /\ \A x \in Slots : x < p => slot[Place(q, x)].qpn # 0
  BY DEF Reached
<1>2. \A x \in Slots : x < p => slot'[Place(q, x)].qpn # 0
  BY <1>1, PlaceIsSlot
<1> QED
  BY <1>1, <1>2 DEF ReachedNext

(* Two workers that store do it for different flows.                           *)
LEMMA StoresApart ==
  ASSUME Flows, Known, Stores, NEW v \in Workers, NEW w \in Workers, v # w,
         store[v].step # "idle", store[w].step # "idle"
  PROVE  store[v].qpn # store[w].qpn
<1>1. PICK c \in Contexts : rank[c] = v /\ ctx[c].flow_qpn = store[v].qpn
  BY DEF Stores
<1>2. PICK d \in Contexts : rank[d] = w /\ ctx[d].flow_qpn = store[w].qpn
  BY DEF Stores
<1>3. c # d /\ store[v].qpn # 0
  BY <1>1, <1>2 DEF Stores
<1> QED
  BY <1>1, <1>2, <1>3 DEF Known

(* An event of a flow whose worker is at leisure.                              *)
LEMMA EventStored ==
  ASSUME Flows, Known, Mailbox, NEW c \in Contexts, NEW ev \in SteeringEvents,
         UserAlgoMailbox(c, ev)
  PROVE  Mailbox'
<1> DEFINE w   == rank[c]
           new == Reported(ctx[c], ev, qp[c])
<1>1. ctx[c] \in Context /\ qp[c] \in Qpn /\ w \in Workers /\ 0 \notin Qpn
  BY SetupAssumption DEF Known, Flows
<1>2. new \in Context
  BY <1>1, OneEvent
<1>3. ctx' = [ctx EXCEPT ![c] = new] /\ UNCHANGED <<rank, slot>> /\ store[w].step = "idle"
  BY DEF UserAlgoMailbox, HandleEvent, Idle
<1>4. \/ UNCHANGED store
      \/ /\ new.flow_qpn # 0
         /\ \E s \in ProbeSlot(new.flow_qpn) :
              store' = [store EXCEPT ![w] = [step |-> "claim", slot |-> s,
                                             qpn |-> new.flow_qpn, rate |-> new.cur_rate]]
  BY DEF UserAlgoMailbox
<1> HIDE DEF new, w
<1>5. ctx'[c] = new /\ \A d \in Contexts \ {c} : ctx'[d] = ctx[d]
  BY <1>3 DEF Known
<1>6. ASSUME NEW v \in Workers, v # w, store[v].step # "idle"
      PROVE  \E d \in Contexts : rank'[d] = v /\ ctx'[d].flow_qpn = store[v].qpn
  <2>1. PICK d \in Contexts : rank[d] = v /\ ctx[d].flow_qpn = store[v].qpn
    BY <1>6 DEF Mailbox, Stores
  <2> QED
    BY <1>3, <1>5, <1>6, <2>1 DEF w
<1>7. CASE UNCHANGED store
  BY <1>3, <1>6, <1>7 DEF Mailbox, Stores, Probing, Reached, OneSlotPerQpn
<1>8. ASSUME new.flow_qpn # 0, NEW s \in ProbeSlot(new.flow_qpn),
             store' = [store EXCEPT ![w] = [step |-> "claim", slot |-> s,
                                            qpn |-> new.flow_qpn, rate |-> new.cur_rate]]
      PROVE  Mailbox'
  <2>1. new.flow_qpn \in Qpn /\ new.cur_rate \in Rates
    BY <1>2, <1>8 DEF Context, MaybeQpn
  <2>2. /\ s \in Slots /\ Reached(s, new.flow_qpn)
        /\ \A t \in Slots \ {s} : slot[t].qpn # new.flow_qpn
    BY <1>8, <2>1, ProbeFindsOwn
  <2>3. /\ store'[w] = [step |-> "claim", slot |-> s, qpn |-> new.flow_qpn, rate |-> new.cur_rate]
        /\ \A v \in Workers \ {w} : store'[v] = store[v]
    BY <1>1, <1>8 DEF Mailbox, Stores
  <2>4. Stores'
    <3>1. store' \in [Workers -> [step : {"idle", "claim", "fill"}, slot : Slots, qpn : MaybeQpn,
                                  rate : Rates]]
      BY <1>1, <1>8, <2>1, <2>2 DEF Mailbox, Stores, MaybeQpn
    <3>2. \E d \in Contexts : rank'[d] = w /\ ctx'[d].flow_qpn = store'[w].qpn
      BY <1>3, <1>5, <2>3 DEF w
    <3>3. ASSUME NEW v \in Workers, store'[v].step # "idle"
          PROVE  /\ store'[v].qpn # 0
                 /\ \E d \in Contexts : rank'[d] = v /\ ctx'[d].flow_qpn = store'[v].qpn
      <4>1. CASE v = w
        BY <1>8, <2>3, <3>2, <4>1
      <4>2. CASE v # w
        BY <1>6, <2>3, <3>3, <4>2 DEF Mailbox, Stores
      <4> QED
        BY <4>1, <4>2
    <3> QED
      BY <1>3, <3>1, <3>3 DEF Mailbox, Stores
  <2>5. Probing' /\ OneSlotPerQpn'
    <3>1. OneSlotPerQpn' /\ \A t \in Slots : slot'[t].qpn # 0 => ReachedNext(t, slot'[t].qpn)
      BY <1>3 DEF Mailbox, OneSlotPerQpn, Probing, Reached, ReachedNext
    <3>2. ASSUME NEW v \in Workers, store'[v].step = "claim"
          PROVE  /\ ReachedNext(store'[v].slot, store'[v].qpn)
                 /\ \A t \in Slots \ {store'[v].slot} : slot'[t].qpn # store'[v].qpn
      <4>1. CASE v = w
        BY <1>3, <2>2, <2>3, <4>1 DEF Reached, ReachedNext
      <4>2. CASE v # w
        BY <1>3, <2>3, <3>2, <4>2 DEF Mailbox, Probing, Reached, ReachedNext
      <4> QED
        BY <4>1, <4>2
    <3> QED
      BY <3>1, <3>2 DEF Probing, ReachedNext, Reached
  <2> QED
    BY <2>4, <2>5 DEF Mailbox
<1> QED
  BY <1>4, <1>7, <1>8

(* The slot that is claimed is reached, and the flow has no other.             *)
LEMMA SlotClaimed ==
  ASSUME Flows, Known, Mailbox, NEW w \in Workers, ClaimSlot(w)
  PROVE  Mailbox'
<1> DEFINE s == store[w].slot
           q == store[w].qpn
<1>1. /\ store[w].step = "claim" /\ UNCHANGED <<ctx, rank>>
      /\ slot' = [slot EXCEPT ![s] = [slot[s] EXCEPT !.qpn = q]]
      /\ store' = [store EXCEPT ![w] = [store[w] EXCEPT !.step = "fill"]]
  BY DEF ClaimSlot, flow
<1>2. s \in Slots /\ q \in Qpn /\ q # 0
  BY <1>1 DEF Mailbox, Stores, MaybeQpn
<1>3. /\ Reached(s, q) /\ \A t \in Slots \ {s} : slot[t].qpn # q
  BY <1>1 DEF Mailbox, Probing
<1>4. /\ slot'[s].qpn = q /\ \A t \in Slots \ {s} : slot'[t] = slot[t]
      /\ slot' \in [Slots -> [qpn : MaybeQpn, value : Rates]]
  BY <1>1, <1>2 DEF Mailbox, Stores, MaybeQpn
<1>5. /\ store'[w].step = "fill" /\ store'[w].qpn = q
      /\ \A v \in Workers \ {w} : store'[v] = store[v]
      /\ store' \in [Workers -> [step : {"idle", "claim", "fill"}, slot : Slots, qpn : MaybeQpn,
                                 rate : Rates]]
  BY <1>1 DEF Mailbox, Stores
<1> HIDE DEF s, q
<1>6. \A r \in Qpn : \A at : Reached(at, r) => ReachedNext(at, r)
  <2>1. \A t \in Slots : slot[t].qpn # 0 => slot'[t].qpn # 0
    BY <1>2, <1>4
  <2> QED
    BY <2>1, StillReached
<1>7. Stores'
  <2>1. ASSUME NEW v \in Workers, store'[v].step # "idle"
        PROVE  /\ store'[v].qpn # 0
               /\ \E c \in Contexts : rank'[c] = v /\ ctx'[c].flow_qpn = store'[v].qpn
    <3>1. store[v].step # "idle" /\ store'[v].qpn = store[v].qpn
      BY <1>1, <1>5, <2>1 DEF q
    <3> QED
      BY <1>1, <3>1 DEF Mailbox, Stores
  <2> QED
    BY <1>4, <1>5, <2>1 DEF Stores
<1>8. Probing'
  <2>1. ASSUME NEW t \in Slots, slot'[t].qpn # 0 PROVE ReachedNext(t, slot'[t].qpn)
    <3>1. CASE t = s
      BY <1>2, <1>3, <1>4, <1>6, <3>1
    <3>2. CASE t # s
      <4>1. slot'[t] = slot[t] /\ slot[t].qpn \in Qpn
        BY <1>4, <2>1, <3>2 DEF Mailbox, Stores, MaybeQpn
      <4> QED
        BY <1>6, <2>1, <4>1 DEF Mailbox, Probing
    <3> QED
      BY <3>1, <3>2
  <2>2. ASSUME NEW v \in Workers, store'[v].step = "claim"
        PROVE  /\ ReachedNext(store'[v].slot, store'[v].qpn)
               /\ \A t \in Slots \ {store'[v].slot} : slot'[t].qpn # store'[v].qpn
    <3>1. v # w /\ store'[v] = store[v] /\ store[v].step = "claim"
      BY <1>5, <2>2
    <3>2. store[v].qpn # q /\ store[v].qpn \in Qpn
      BY <1>1, <3>1, StoresApart DEF Mailbox, Stores, MaybeQpn, q
    <3>3. ReachedNext(store[v].slot, store[v].qpn)
      BY <1>6, <3>1, <3>2 DEF Mailbox, Probing
    <3>4. ASSUME NEW t \in Slots \ {store[v].slot} PROVE slot'[t].qpn # store[v].qpn
      BY <1>4, <3>1, <3>2 DEF Mailbox, Probing
    <3> QED
      BY <3>1, <3>3, <3>4
  <2> QED
    BY <2>1, <2>2 DEF Probing, Reached, ReachedNext
<1>9. OneSlotPerQpn'
  BY <1>3, <1>4 DEF Mailbox, OneSlotPerQpn
<1> QED
  BY <1>7, <1>8, <1>9 DEF Mailbox

(* The rate goes into the slot, whoever has it by now.                         *)
LEMMA SlotFilled ==
  ASSUME Flows, Known, Mailbox, NEW w \in Workers, FillSlot(w)
  PROVE  Mailbox'
<1> DEFINE s == store[w].slot
<1>1. /\ store[w].step = "fill" /\ UNCHANGED <<ctx, rank>>
      /\ slot' = [slot EXCEPT ![s] = [slot[s] EXCEPT !.value = store[w].rate]]
      /\ store' = [store EXCEPT ![w] = Idle]
  BY DEF FillSlot, flow
<1>2. s \in Slots /\ store[w].rate \in Rates
  BY DEF Mailbox, Stores
<1>3. /\ \A t \in Slots : slot'[t].qpn = slot[t].qpn
      /\ slot' \in [Slots -> [qpn : MaybeQpn, value : Rates]]
  BY <1>1, <1>2 DEF Mailbox, Stores
<1>4. Idle \in [step : {"idle", "claim", "fill"}, slot : Slots, qpn : MaybeQpn, rate : Rates]
  BY SetupAssumption, RatesAndCounts DEF Idle, Slots, MaybeQpn
<1>5. /\ store'[w].step = "idle"
      /\ \A v \in Workers \ {w} : store'[v] = store[v]
      /\ store' \in [Workers -> [step : {"idle", "claim", "fill"}, slot : Slots, qpn : MaybeQpn,
                                 rate : Rates]]
  BY <1>1, <1>4 DEF Mailbox, Stores, Idle
<1> HIDE DEF s
<1>6. Stores'
  BY <1>1, <1>3, <1>5 DEF Mailbox, Stores
<1>7. \A r \in Qpn : \A at : Reached(at, r) => ReachedNext(at, r)
  BY <1>3, StillReached
<1>8. Probing'
  <2>1. ASSUME NEW t \in Slots, slot'[t].qpn # 0 PROVE ReachedNext(t, slot'[t].qpn)
    <3>1. slot[t].qpn \in Qpn
      BY <1>3, <2>1 DEF Mailbox, Stores, MaybeQpn
    <3> QED
      BY <1>3, <1>7, <2>1, <3>1 DEF Mailbox, Probing
  <2>2. ASSUME NEW v \in Workers, store'[v].step = "claim"
        PROVE  /\ ReachedNext(store'[v].slot, store'[v].qpn)
               /\ \A t \in Slots \ {store'[v].slot} : slot'[t].qpn # store'[v].qpn
    <3>1. store'[v] = store[v] /\ store[v].step = "claim" /\ store[v].qpn \in Qpn
      BY <1>5, <2>2 DEF Mailbox, Stores, MaybeQpn
    <3> QED
      BY <1>3, <1>7, <3>1 DEF Mailbox, Probing
  <2> QED
    BY <2>1, <2>2 DEF Probing, Reached, ReachedNext
<1>9. OneSlotPerQpn'
  BY <1>3 DEF Mailbox, OneSlotPerQpn
<1> QED
  BY <1>6, <1>8, <1>9 DEF Mailbox

(* Every step of the DOCA 2.9 image keeps the mailbox.                         *)
LEMMA MailboxStep == Inv /\ [Next]_vars => (image = "steering2" => Mailbox)'
<1> SUFFICES ASSUME Inv, image = "steering2", [Next]_vars PROVE Mailbox'
  BY ImageStays
<1>1. Flows /\ Known /\ Mailbox /\ Steering
  BY DEF Inv, Steering, Mailbox
<1>2. CASE UNCHANGED <<ctx, rank, slot, store>>
  BY <1>1, <1>2 DEF Mailbox, Stores, Probing, Reached, OneSlotPerQpn
<1>3. ASSUME NEW c \in Contexts, NEW ev \in SteeringEvents,
             UserAlgo(c, ev) \/ UserAlgoMailbox(c, ev)
      PROVE  Mailbox'
  BY <1>1, <1>3, EventStored DEF UserAlgo
<1>4. ASSUME NEW c \in Contexts, Recycle(c) PROVE Mailbox'
  <2>1. /\ store[rank[c]].step = "idle" /\ UNCHANGED <<rank, slot, store>>
        /\ \A d \in Contexts \ {c} : ctx'[d] = ctx[d]
    BY <1>1, <1>4 DEF Recycle, Idle, mailbox, Known
  <2>2. Stores'
    <3>1. ASSUME NEW v \in Workers, store[v].step # "idle"
          PROVE  \E d \in Contexts : rank'[d] = v /\ ctx'[d].flow_qpn = store[v].qpn
      <4>1. PICK d \in Contexts : rank[d] = v /\ ctx[d].flow_qpn = store[v].qpn
        BY <1>1, <3>1 DEF Mailbox, Stores
      <4> QED
        BY <2>1, <3>1, <4>1
    <3> QED
      BY <1>1, <2>1, <3>1 DEF Mailbox, Stores
  <2> QED
    BY <1>1, <2>1, <2>2 DEF Mailbox, Probing, Reached, OneSlotPerQpn
<1>5. ASSUME NEW w \in Workers, Elapse(w) \/ ClaimSlot(w) \/ FillSlot(w) PROVE Mailbox'
  <2>1. CASE Elapse(w)
    BY <1>2, <2>1 DEF Elapse, flow, mailbox
  <2> QED
    BY <1>1, <1>5, <2>1, SlotClaimed, SlotFilled
<1>6. CASE HandleTrace \/ PollQpn \/ PollValue \/ HandleResponse
  BY <1>2, <1>6 DEF HandleTrace, PollQpn, PollValue, HandleResponse, flow, mailbox
<1> QED
  BY <1>1, <1>2, <1>3, <1>4, <1>5, <1>6, StepsOfNext DEF mailbox

(* Only the DOCA 2.9 image has events that are stored.                         *)
LEMMA UnusedStep == Inv /\ [Next]_vars => (image # "steering2" => Unused)'
<1> SUFFICES ASSUME Unused, image # "steering2", [Next]_vars PROVE Unused'
  BY ImageStays DEF Inv
<1>1. CASE UNCHANGED <<slot, store>>
  BY <1>1 DEF Unused
<1>2. ASSUME NEW c \in Contexts, NEW ev \in SteeringEvents,
             UserAlgo(c, ev) \/ UserAlgoMailbox(c, ev)
      PROVE  UNCHANGED <<slot, store>>
  BY <1>2 DEF UserAlgo, UserAlgoMailbox, mailbox
<1>3. ASSUME NEW c \in Contexts, Recycle(c) PROVE UNCHANGED <<slot, store>>
  BY <1>3 DEF Recycle, mailbox
<1>4. ASSUME NEW w \in Workers, Elapse(w) \/ ClaimSlot(w) \/ FillSlot(w)
      PROVE  UNCHANGED <<slot, store>>
  BY <1>4 DEF Elapse, ClaimSlot, FillSlot, Unused, mailbox
<1>5. CASE HandleTrace \/ PollQpn \/ PollValue \/ HandleResponse
  BY <1>1, <1>5 DEF HandleTrace, PollQpn, PollValue, HandleResponse, mailbox
<1> QED
  BY <1>1, <1>2, <1>3, <1>4, <1>5, StepsOfNext DEF mailbox

(* Nothing is known, reported or stored yet.                                   *)
LEMMA InvInit == Init => Inv
<1> SUFFICES ASSUME Init PROVE Inv
  OBVIOUS
<1>1. PICK s \in Setups : /\ image = s.image /\ rank = s.rank /\ qp = s.qp /\ fresh = s.fresh
  BY DEF Init
<1>2. Flows
  BY <1>1, SetupAssumption DEF Flows
<1>3. 0 \notin Qpn /\ MaxFlows \in Nat \ {0}
  BY SetupAssumption
<1>4. \A c \in Contexts : ctx[c] = NewContext
  BY DEF Init
<1>5. Known
  <2>1. NewContext \in Context
    BY RatesAndCounts DEF NewContext, Context, MaybeQpn
  <2>2. ctx \in [Contexts -> Context]
    BY <2>1 DEF Init
  <2>3. NewContext.flow_qpn = 0 /\ NewContext.last_reported_rate = 0
    BY DEF NewContext
  <2> QED
    BY <1>2, <1>3, <1>4, <2>2, <2>3 DEF Known, Flows
<1>6. Traced
  BY DEF Init, Traced, NotHeard
<1>7. StartupReportHeard
  BY <1>4 DEF StartupReportHeard, NewContext
<1>8. Stores /\ Probing /\ OneSlotPerQpn
  <2>1. Free \in [qpn : MaybeQpn, value : Rates] /\ Free.qpn = 0
    BY RatesAndCounts DEF Free, MaybeQpn
  <2>2. /\ Idle \in [step : {"idle", "claim", "fill"}, slot : Slots, qpn : MaybeQpn, rate : Rates]
        /\ Idle.step = "idle"
    BY <1>3, RatesAndCounts DEF Idle, MaybeQpn, Slots
  <2>3. slot = [i \in Slots |-> Free] /\ store = [w \in Workers |-> Idle]
    BY DEF Init
  <2> QED
    BY <2>1, <2>2, <2>3 DEF Stores, Probing, OneSlotPerQpn
<1>9. Unused
  BY DEF Init, Unused, Free, Idle
<1> QED
  BY <1>2, <1>5, <1>6, <1>7, <1>8, <1>9 DEF Inv

(* Every step preserves the conjunction.                                       *)
LEMMA Invariant == Spec => []Inv
<1>1. Inv /\ [Next]_vars => Inv'
  BY FlowsStep, KnownStep, TracedStep, MailboxStep, UnusedStep DEF Inv, Mailbox
<1> QED
  BY InvInit, <1>1, PTL DEF Spec

(* StartupReportHeard, for any number of contexts, workers and reports under   *)
(* way, and contexts that are recycled with what they knew: a flow's first     *)
(* report does not wait for a later event (rp_main.c 350-361).                 *)
THEOREM StartupAlwaysHeard == Spec => []StartupReportHeard
<1>1. Inv => StartupReportHeard
  BY DEF Inv, StartupReportHeard
<1> QED
  BY Invariant, <1>1, PTL

(* OneSlotPerQpn, for any number of workers that store at the same time, and   *)
(* mailboxes of any size (rate_mailbox_store(), rp_main.c 73-88).              *)
THEOREM MailboxOneSlot == Spec => []OneSlotPerQpn
<1>1. Inv => OneSlotPerQpn
  BY DEF Inv, Unused, OneSlotPerQpn
<1> QED
  BY Invariant, <1>1, PTL

-------------------------------------------------------------------------------
(* The types, of all four images.                                              *)

Heard == [qpn : Qpn, rate : Rates]

Typed ==
  /\ ctx \in [Contexts -> Context]
  /\ buf \in [Workers -> Seq(Report)] /\ channel \in Seq(Report)
  /\ slot \in [Slots -> [qpn : MaybeQpn, value : Rates]]
  /\ store \in [Workers -> [step : {"idle", "claim", "fill"}, slot : Slots, qpn : MaybeQpn,
                            rate : Rates]]
  /\ poll \in [step : {"idle", "value"}, at : 0 .. MaxFlows, qpn : MaybeQpn,
               response : Seq(Heard)]
  /\ poll.step = "value" => poll.at \in Slots /\ poll.qpn \in Qpn
  /\ heard \in [Qpn -> {NotHeard} \cup Rates]
  /\ table \subseteq Qpn /\ IsFiniteSet(table) /\ Cardinality(table) <= MaxTracked
  /\ flying \in 0 .. MaxProbes /\ elapsed \in 0 .. 2 ^ TimeBits - 1 /\ gap \in 0 .. MaxGap

(* A TX event of doca-pcc-ecn counts what was sent and what timed out within   *)
(* the widths of the context's fields.                                         *)
LEMMA ProbingType ==
  ASSUME NEW old \in Context, NEW ev \in Events, NEW till \in Nat
  PROVE  /\ ProbingTx(old, ev, till).ctx \in Context
         /\ ProbingTx(old, ev, till).ctx.cur_rate = old.cur_rate
<1>1. /\ old.rtt_meas_psn \in 0 .. 1 /\ old.rtt_req_to_rtt_sent \in 0 .. 2
      /\ old.abort_cnt \in 0 .. 2 ^ AbortBits - 1
  BY DEF Context
<1>2. CASE ev.sent /\ old.rtt_meas_psn = 0
  <2> DEFINE c1 == [old EXCEPT !.rtt_meas_psn = 1]
             c2 == [c1 EXCEPT !.rtt_req_to_rtt_sent = 0]
  <2>1. c1 \in Context /\ c1.cur_rate = old.cur_rate
    BY DEF Context
  <2> HIDE DEF c1
  <2>2. c2 \in Context /\ c2.cur_rate = old.cur_rate
    BY <2>1 DEF Context
  <2>3. ProbingTx(old, ev, till).ctx = c2
    BY <1>2 DEF ProbingTx, Result, c1
  <2> HIDE DEF c2
  <2> QED
    BY <2>2, <2>3
<1>3. CASE ~(ev.sent /\ old.rtt_meas_psn = 0)
  <2> DEFINE timedOut == old.rtt_meas_psn # 0 /\ till > AbortAfter(old.abort_cnt)
             sent     == old.rtt_req_to_rtt_sent + 1 - old.rtt_meas_psn
             asks     == timedOut \/ sent > 2
             m        == IF asks THEN 1 ELSE sent
             a        == IF timedOut THEN (old.abort_cnt + 1) % 2 ^ AbortBits ELSE old.abort_cnt
             c1       == [old EXCEPT !.rtt_req_to_rtt_sent = m]
             c2       == [c1 EXCEPT !.abort_cnt = a]
  <2>1. ProbingTx(old, ev, till).ctx = c2
    BY <1>3 DEF ProbingTx, Result
  <2> HIDE DEF timedOut
  <2>2. m \in 0 .. 2
    BY <1>1
  <2>3. a \in 0 .. 2 ^ AbortBits - 1
    <3>1. 2 ^ AbortBits \in Nat \ {0} /\ old.abort_cnt + 1 \in Nat
      BY <1>1, TimeAssumption
    <3>2. \A x \in Nat, n \in Nat \ {0} : x % n \in 0 .. n - 1
      OBVIOUS
    <3>3. (old.abort_cnt + 1) % 2 ^ AbortBits \in 0 .. 2 ^ AbortBits - 1
      BY <3>1, <3>2
    <3> QED
      BY <1>1, <3>3
  <2> HIDE DEF m, a
  <2>4. c1 \in Context /\ c1.cur_rate = old.cur_rate
    BY <2>2 DEF Context
  <2> HIDE DEF c1
  <2>5. c2 \in Context /\ c2.cur_rate = old.cur_rate
    BY <2>3, <2>4 DEF Context
  <2> HIDE DEF c2
  <2> QED
    BY <2>1, <2>5
<1> QED
  BY <1>2, <1>3

(* What the handlers that both probing images share do to a context.           *)
LEMMA SharedHandlers ==
  ASSUME NEW old \in Context, NEW asks, NEW ev
  PROVE  /\ HandleNewFlow(old, asks).ctx \in Context
         /\ HandleRoceRtt(old, asks).ctx \in Context
         /\ HandleRoceNack(old, ev).ctx \in Context
         /\ ExerciseCnp(old).ctx \in Context
         /\ old.cur_rate # 0 => HandleRoceCnp(old).ctx \in Context
         /\ Result(old, asks).ctx \in Context
<1> DEFINE r1 == [old EXCEPT !.rtt_meas_psn = 0]
           r2 == [r1 EXCEPT !.abort_cnt = 0]
           r3 == [r2 EXCEPT !.rtt_req_to_rtt_sent = 1]
           n1 == [old EXCEPT !.cur_rate = NewFlowRate]
           n2 == [n1 EXCEPT !.rtt_meas_psn = 0]
           n3 == [n2 EXCEPT !.rtt_req_to_rtt_sent = 1]
           n4 == [n3 EXCEPT !.abort_cnt = 0]
<1>1. HandleRoceRtt(old, asks).ctx \in {old, r3}
  BY DEF HandleRoceRtt, Result
<1>2. HandleNewFlow(old, asks).ctx = n4
  BY DEF HandleNewFlow, Result
<1>3. r1 \in Context /\ n1 \in Context
  BY RatesAndCounts DEF Context
<1> HIDE DEF r1, n1
<1>4. r2 \in Context /\ n2 \in Context
  BY <1>3, RatesAndCounts DEF Context
<1> HIDE DEF r2, n2
<1>5. r3 \in Context /\ n3 \in Context
  BY <1>4 DEF Context
<1> HIDE DEF r3, n3
<1>6. n4 \in Context
  BY <1>5, RatesAndCounts DEF Context
<1> HIDE DEF n4
<1>7. old.cur_rate # 0 => HandleRoceCnp(old).ctx \in Context
  <2>1. old.cur_rate # 0 => Cut(old.cur_rate) \in Rates
    BY RateSteps DEF Context
  <2>2. HandleRoceCnp(old).ctx = [old EXCEPT !.cur_rate = Cut(old.cur_rate)]
    BY DEF HandleRoceCnp, Result
  <2> QED
    BY <2>1, <2>2 DEF Context
<1> QED
  BY <1>1, <1>2, <1>5, <1>6, <1>7 DEF HandleRoceNack, ExerciseCnp, Result

LEMMA EcnContext ==
  ASSUME NEW old \in Context, NEW ev \in Events, NEW till \in Nat
  PROVE  EcnAlgo(old, ev, till).ctx \in Context /\ ExerciseAlgo(old, ev, till).ctx \in Context
<1>1. ev.type \in {"tx", "rtt", "cnp", "nack", "other"}
  BY DEF Events
<1>2. CASE old.cur_rate = 0
  BY <1>2, SharedHandlers DEF EcnAlgo, ExerciseAlgo
<1>3. CASE old.cur_rate # 0 /\ ev.type = "tx"
  <2> DEFINE probed == ProbingTx(old, ev, till).ctx
             r      == IF ev.nth THEN Raised(probed.cur_rate) ELSE probed.cur_rate
             c      == [probed EXCEPT !.cur_rate = r]
  <2>1. ExerciseAlgo(old, ev, till).ctx = probed
    BY <1>3 DEF ExerciseAlgo
  <2>2. EcnAlgo(old, ev, till).ctx = c
    BY <1>3 DEF EcnAlgo, EcnTx, Result
  <2>3. probed \in Context /\ probed.cur_rate \in Rates \ {0}
    BY <1>3, ProbingType DEF Context
  <2> HIDE DEF probed
  <2>4. r \in Rates
    BY <2>3, RateSteps
  <2> HIDE DEF r
  <2>5. c \in Context
    BY <2>3, <2>4 DEF Context
  <2> QED
    BY <2>1, <2>2, <2>3, <2>5
<1>4. CASE old.cur_rate # 0 /\ ev.type = "rtt"
  BY <1>4, SharedHandlers DEF EcnAlgo, ExerciseAlgo
<1>5. CASE old.cur_rate # 0 /\ ev.type = "cnp"
  BY <1>5, SharedHandlers DEF EcnAlgo, ExerciseAlgo
<1>6. CASE old.cur_rate # 0 /\ ev.type = "nack"
  BY <1>6, SharedHandlers DEF EcnAlgo, ExerciseAlgo
<1>7. CASE old.cur_rate # 0 /\ ev.type = "other"
  BY <1>7, SharedHandlers DEF EcnAlgo, ExerciseAlgo
<1> QED
  BY <1>1, <1>2, <1>3, <1>4, <1>5, <1>6, <1>7

(* One event of a probing image.                                               *)
LEMMA EcnTyped ==
  ASSUME Typed, NEW ev \in Events, EcnUserAlgo(ev), flying' \in 0 .. MaxProbes
  PROVE  Typed'
<1>1. 2 ^ TimeBits \in Nat \ {0} /\ MaxGap \in Nat
  BY TimeAssumption, SetupAssumption
<1>2. PICK till \in TillNow :
        LET old    == ctx[Probed]
            result == IF image = "ecn" THEN EcnAlgo(old, ev, till) ELSE ExerciseAlgo(old, ev, till)
        IN  /\ ctx' = [ctx EXCEPT ![Probed] = result.ctx]
            /\ elapsed' \in {elapsed, 0}
            /\ gap' \in {0, gap}
            /\ UNCHANGED <<trace, mailbox, host>>
  BY DEF EcnUserAlgo
<1>3. till \in Nat
  BY <1>1 DEF TillNow, Typed
<1>4. ctx' \in [Contexts -> Context]
  <2>1. CASE Probed \in Contexts
    <3>1. ctx[Probed] \in Context
      BY <2>1 DEF Typed
    <3>2. PICK new \in Context : ctx' = [ctx EXCEPT ![Probed] = new]
      BY <1>2, <1>3, <3>1, EcnContext
    <3> QED
      BY <3>2 DEF Typed
  <2>2. CASE Probed \notin Contexts
    <3>1. PICK new : ctx' = [ctx EXCEPT ![Probed] = new]
      BY <1>2
    <3> QED
      BY <2>2, <3>1 DEF Typed
  <2> QED
    BY <2>1, <2>2
<1>5. elapsed' \in 0 .. 2 ^ TimeBits - 1 /\ gap' \in 0 .. MaxGap
  BY <1>1, <1>2 DEF Typed
<1>6. UNCHANGED <<buf, channel, slot, store, poll, heard, table>>
  BY <1>2 DEF trace, mailbox, host
<1> QED
  BY <1>4, <1>5, <1>6 DEF Typed

LEMMA EcnNextTyped == Typed /\ EcnNext => Typed'
<1> SUFFICES ASSUME Typed, EcnNext PROVE Typed'
  OBVIOUS
<1>1. /\ MaxProbes \in Nat /\ flying \in 0 .. MaxProbes
      /\ 2 ^ TimeBits \in Nat \ {0} /\ MaxGap \in Nat
  BY TimeAssumption, SetupAssumption DEF Typed
<1>2. CASE PlainTx
  BY <1>1, <1>2, EcnTyped DEF PlainTx
<1>3. CASE SendProbe
  BY <1>1, <1>3, EcnTyped DEF SendProbe
<1>4. CASE SendUnseen
  BY <1>1, <1>4 DEF SendUnseen, Typed, flow, trace, mailbox, host
<1>5. CASE Answer
  BY <1>1, <1>5, EcnTyped DEF Answer
<1>6. CASE Lose
  BY <1>1, <1>6 DEF Lose, Typed, flow, trace, mailbox, host
<1>7. CASE OtherEvent
  BY <1>1, <1>7, EcnTyped DEF OtherEvent
<1>8. CASE Tick
  <2>1. elapsed' \in 0 .. 2 ^ TimeBits - 1
    <3>1. \A x \in Nat, n \in Nat \ {0} : x % n \in 0 .. n - 1
      OBVIOUS
    <3>2. elapsed + 1 \in Nat
      BY <1>1 DEF Typed
    <3>3. (elapsed + 1) % 2 ^ TimeBits \in 0 .. 2 ^ TimeBits - 1
      BY <1>1, <3>1, <3>2
    <3>4. 0 \in 0 .. 2 ^ TimeBits - 1
      BY <1>1
    <3>5. elapsed' \in {(elapsed + 1) % 2 ^ TimeBits, 0}
      BY <1>8 DEF Tick
    <3> QED
      BY <3>3, <3>4, <3>5
  <2>2. gap' \in 0 .. MaxGap
    BY <1>1, <1>8 DEF Tick, Typed
  <2> QED
    BY <1>8, <2>1, <2>2 DEF Tick, Typed, flow, trace, mailbox, host
<1> QED
  BY <1>2, <1>3, <1>4, <1>5, <1>6, <1>7, <1>8 DEF EcnNext


(* A report that is taken is one of a QP, and the table grows while there is   *)
(* room.                                                                       *)
LEMMA TakeTyped ==
  ASSUME Typed, NEW r \in Heard, TakeReport(r)
  PROVE  /\ heard' \in [Qpn -> {NotHeard} \cup Rates]
         /\ table' \subseteq Qpn /\ IsFiniteSet(table') /\ Cardinality(table') <= MaxTracked
<1>1. r.qpn \in Qpn /\ r.rate \in Rates
  BY DEF Heard
<1>2. heard' = [heard EXCEPT ![r.qpn] = r.rate]
  BY DEF TakeReport, SteerUpdatePccRate
<1>3. /\ table \subseteq Qpn /\ IsFiniteSet(table) /\ Cardinality(table) <= MaxTracked
      /\ MaxTracked \in Nat
  BY SetupAssumption DEF Typed
<1>4. \/ table' = table
      \/ r.qpn \notin table /\ Cardinality(table) < MaxTracked /\ table' = table \cup {r.qpn}
  BY DEF TakeReport, FindOrCreateFlow
<1>5. CASE r.qpn \notin table /\ Cardinality(table) < MaxTracked /\ table' = table \cup {r.qpn}
  <2>1. IsFiniteSet(table \cup {r.qpn}) /\ Cardinality(table \cup {r.qpn}) = Cardinality(table) + 1
    BY <1>3, <1>5, FS_AddElement
  <2>2. Cardinality(table) \in Nat
    BY <1>3, FS_CardinalityType
  <2> QED
    BY <1>1, <1>2, <1>3, <1>5, <2>1, <2>2 DEF Typed
<1> QED
  BY <1>1, <1>2, <1>3, <1>4, <1>5 DEF Typed

(* An event of a steering image.                                               *)
LEMMA SteeringEventTyped ==
  ASSUME Flows, Typed, NEW c \in Contexts, NEW ev \in SteeringEvents,
         UserAlgo(c, ev) \/ UserAlgoMailbox(c, ev)
  PROVE  Typed'
<1> DEFINE w      == rank[c]
           new    == Reported(ctx[c], ev, qp[c])
           report == Reports(ctx[c], ev, qp[c])
<1>1. ctx[c] \in Context /\ qp[c] \in Qpn /\ qp[c] # 0 /\ w \in Workers
  BY SetupAssumption DEF Typed, Flows
<1>2. /\ new \in Context /\ new.cur_rate # 0
      /\ \/ report = <<>>
         \/ report = << [qpn |-> new.flow_qpn, rate |-> new.cur_rate] >> /\ new.flow_qpn # 0
  BY <1>1, OneEvent
<1>3. ctx' \in [Contexts -> Context]
  <2>1. ctx' = [ctx EXCEPT ![c] = new]
    BY DEF UserAlgo, UserAlgoMailbox, HandleEvent
  <2> HIDE DEF new
  <2> QED
    BY <1>2, <2>1 DEF Typed
<1>4. new.cur_rate \in Rates \ {0} /\ new.flow_qpn \in MaybeQpn
  BY <1>2 DEF Context
<1>5. CASE UserAlgo(c, ev)
  <2>1. report \in Seq(Report)
    <3>1. new.flow_qpn # 0 => << [qpn |-> new.flow_qpn, rate |-> new.cur_rate] >> \in Seq(Report)
      BY <1>4 DEF Report, MaybeQpn
    <3>2. <<>> \in Seq(Report)
      OBVIOUS
    <3> HIDE DEF report, new
    <3> QED
      BY <1>2, <3>1, <3>2
  <2>2. PICK first \in {<<>>, buf[w]}, last \in {<<>>, report},
             left \in {<<>>, report, buf[w] \o report} :
          channel' = channel \o first \o last /\ buf' = [buf EXCEPT ![w] = left]
    <3> DEFINE before == \/ QpnChanged(ctx[c], ev, qp[c])
                         \/ ev.type = "cnp" /\ ev.nth /\ ctx[c].cur_rate # 0
               whole  == (report # <<>> /\ StartupReport(ctx[c], ev, qp[c])) \/ due[w]
               kept   == IF before THEN <<>> ELSE buf[w]
    <3>1. /\ channel' = channel \o (IF before \/ whole THEN buf[w] ELSE <<>>)
                                \o (IF whole THEN report ELSE <<>>)
          /\ buf' = [buf EXCEPT ![w] = IF whole THEN <<>> ELSE kept \o report]
      BY <1>5 DEF UserAlgo
    <3> HIDE DEF report, before, whole
    <3>2. <<>> \o report = report
      BY <2>1
    <3>3. kept \o report \in {report, buf[w] \o report}
      BY <3>2
    <3> HIDE DEF kept
    <3> QED
      BY <3>1, <3>3
  <2> HIDE DEF report, new, w
  <2>4. buf[w] \in Seq(Report) /\ channel \in Seq(Report) /\ <<>> \in Seq(Report)
    BY <1>1 DEF Typed
  <2>5. first \in Seq(Report) /\ last \in Seq(Report)
    BY <2>1, <2>2, <2>4
  <2>6. channel \o first \in Seq(Report) /\ buf[w] \o report \in Seq(Report)
    BY <2>1, <2>4, <2>5, Flushed
  <2>7. channel' \in Seq(Report) /\ left \in Seq(Report)
    BY <2>1, <2>2, <2>4, <2>5, <2>6, Flushed
  <2>8. buf' \in [Workers -> Seq(Report)]
    BY <2>2, <2>7 DEF Typed
  <2>9. UNCHANGED <<slot, store, poll, heard, table, flying, elapsed, gap>>
    BY <1>5 DEF UserAlgo, mailbox, host, probes
  <2> QED
    BY <1>3, <2>7, <2>8, <2>9 DEF Typed
<1>6. CASE UserAlgoMailbox(c, ev)
  <2>1. \/ UNCHANGED store
        \/ /\ new.flow_qpn # 0
           /\ \E s \in ProbeSlot(new.flow_qpn) :
                store' = [store EXCEPT ![w] = [step |-> "claim", slot |-> s,
                                               qpn |-> new.flow_qpn, rate |-> new.cur_rate]]
    BY <1>6 DEF UserAlgoMailbox
  <2> HIDE DEF new, w
  <2>2. ASSUME new.flow_qpn # 0, NEW s \in ProbeSlot(new.flow_qpn)
        PROVE  s \in Slots
    <3>1. new.flow_qpn \in Qpn
      BY <1>4, <2>2 DEF MaybeQpn
    <3>2. PICK p \in Slots : s = (new.flow_qpn + p) % MaxFlows
      BY <2>2 DEF ProbeSlot
    <3> QED
      BY <3>1, <3>2, PlaceIsSlot DEF Place
  <2>3. store' \in [Workers -> [step : {"idle", "claim", "fill"}, slot : Slots, qpn : MaybeQpn,
                                rate : Rates]]
    <3>1. ASSUME new.flow_qpn # 0, NEW s \in ProbeSlot(new.flow_qpn)
          PROVE  [step |-> "claim", slot |-> s, qpn |-> new.flow_qpn, rate |-> new.cur_rate]
                   \in [step : {"idle", "claim", "fill"}, slot : Slots, qpn : MaybeQpn, rate : Rates]
      <4>1. s \in Slots
        BY <2>2, <3>1
      <4> QED
        BY <1>4, <4>1
    <3>2. store \in [Workers -> [step : {"idle", "claim", "fill"}, slot : Slots, qpn : MaybeQpn,
                                 rate : Rates]]
      BY DEF Typed
    <3> QED
      BY <2>1, <3>1, <3>2
  <2>4. UNCHANGED <<buf, channel, slot, poll, heard, table, flying, elapsed, gap>>
    BY <1>6 DEF UserAlgoMailbox, trace, host, probes
  <2> QED
    BY <1>3, <2>3, <2>4 DEF Typed
<1> QED
  BY <1>5, <1>6

(* The poll takes the number of a slot, then the rate.                         *)
LEMMA PollTyped == Typed /\ (PollQpn \/ PollValue) => Typed'
<1> SUFFICES ASSUME Typed, PollQpn \/ PollValue PROVE Typed'
  OBVIOUS
<1>1. UNCHANGED <<ctx, buf, channel, slot, store, heard, table, flying, elapsed, gap>>
  BY DEF PollQpn, PollValue, flow, trace, host, probes
<1>2. /\ poll \in [step : {"idle", "value"}, at : 0 .. MaxFlows, qpn : MaybeQpn,
                   response : Seq(Heard)]
      /\ MaxFlows \in Nat \ {0} /\ Slots = 0 .. MaxFlows - 1
      /\ slot \in [Slots -> [qpn : MaybeQpn, value : Rates]]
      /\ 0 \in MaybeQpn
  BY SetupAssumption DEF Typed, Slots, MaybeQpn
<1>3. CASE PollQpn
  <2>1. poll.at \in Slots /\ slot[poll.at].qpn \in MaybeQpn
    BY <1>2, <1>3 DEF PollQpn
  <2>2. CASE slot[poll.at].qpn = 0
    <3>1. poll' = [poll EXCEPT !.at = poll.at + 1] /\ poll.step = "idle" /\ poll.at + 1 \in 0 .. MaxFlows
      BY <1>2, <1>3, <2>1, <2>2 DEF PollQpn
    <3> QED
      BY <1>1, <1>2, <3>1 DEF Typed
  <2>3. CASE slot[poll.at].qpn # 0
    <3> DEFINE q  == slot[poll.at].qpn
               p1 == [poll EXCEPT !.step = "value"]
               p2 == [p1 EXCEPT !.qpn = q]
    <3>1. poll' = p2 /\ q \in Qpn /\ q \in MaybeQpn
      BY <1>3, <2>1, <2>3 DEF PollQpn, MaybeQpn
    <3> HIDE DEF q
    <3>2. /\ p1 \in [step : {"idle", "value"}, at : 0 .. MaxFlows, qpn : MaybeQpn,
                     response : Seq(Heard)]
          /\ p1.at = poll.at
      BY <1>2
    <3> HIDE DEF p1
    <3>3. /\ p2 \in [step : {"idle", "value"}, at : 0 .. MaxFlows, qpn : MaybeQpn,
                     response : Seq(Heard)]
          /\ p2.at \in Slots /\ p2.qpn \in Qpn
      BY <2>1, <3>1, <3>2
    <3> HIDE DEF p2
    <3> QED
      BY <1>1, <3>1, <3>3 DEF Typed, Slots
  <2> QED
    BY <2>2, <2>3
<1>4. CASE PollValue
  <2>1. poll.step = "value" /\ poll.at \in Slots /\ poll.qpn \in Qpn
    BY <1>4 DEF PollValue, Typed
  <2>2. slot[poll.at].value \in Rates
    BY <1>2, <2>1
  <2> DEFINE r  == [qpn |-> poll.qpn, rate |-> slot[poll.at].value]
             p1 == [poll EXCEPT !.step = "idle"]
             p2 == [p1 EXCEPT !.at = poll.at + 1]
             p3 == [p2 EXCEPT !.qpn = 0]
             p4 == [p3 EXCEPT !.response = Append(poll.response, r)]
             Poll(p) == p \in [step : {"idle", "value"}, at : 0 .. MaxFlows, qpn : MaybeQpn,
                               response : Seq(Heard)]
  <2>3. poll' = p4
    BY <1>2, <1>4 DEF PollValue
  <2>4. r \in Heard
    BY <2>1, <2>2 DEF Heard
  <2> HIDE DEF r
  <2>5. Append(poll.response, r) \in Seq(Heard) /\ poll.at + 1 \in 0 .. MaxFlows
    BY <1>2, <2>1, <2>4, AppendProperties
  <2>6. Poll(p1) /\ p1.step = "idle"
    BY <1>2
  <2> HIDE DEF p1
  <2>7. Poll(p2) /\ p2.step = "idle"
    BY <2>5, <2>6
  <2> HIDE DEF p2
  <2>8. Poll(p3) /\ p3.step = "idle"
    BY <1>2, <2>7
  <2> HIDE DEF p3
  <2>9. Poll(p4) /\ p4.step = "idle"
    BY <2>5, <2>8
  <2> HIDE DEF p4
  <2> QED
    BY <1>1, <2>3, <2>9 DEF Typed
<1> QED
  BY <1>3, <1>4

LEMMA ResponseTyped == Typed /\ HandleResponse => Typed'
<1> SUFFICES ASSUME Typed, HandleResponse PROVE Typed'
  OBVIOUS
<1> DEFINE Poll(p) == p \in [step : {"idle", "value"}, at : 0 .. MaxFlows, qpn : MaybeQpn,
                             response : Seq(Heard)]
<1>1. UNCHANGED <<ctx, buf, channel, slot, store, flying, elapsed, gap>> /\ poll.at = MaxFlows
  BY DEF HandleResponse, flow, trace, probes
<1>2. Poll(poll) /\ poll.step = "idle"
  <2>1. MaxFlows \notin Slots
    BY SetupAssumption DEF Slots
  <2> QED
    BY <1>1, <2>1 DEF Typed
<1>3. CASE poll.response # <<>> /\ TakeReport(Head(poll.response))
           /\ poll' = [poll EXCEPT !.response = Tail(poll.response)]
  <2>1. poll.response \in Seq(Heard)
    BY <1>2
  <2>2. Head(poll.response) \in Heard /\ Tail(poll.response) \in Seq(Heard)
    BY <1>3, <2>1, HeadTailProperties
  <2>3. Poll(poll') /\ poll'.step = "idle"
    BY <1>2, <1>3, <2>2
  <2>4. /\ heard' \in [Qpn -> {NotHeard} \cup Rates]
        /\ table' \subseteq Qpn /\ IsFiniteSet(table') /\ Cardinality(table') <= MaxTracked
    BY <1>3, <2>2, TakeTyped
  <2> QED
    BY <1>1, <2>3, <2>4 DEF Typed
<1>4. CASE poll' = NoPoll /\ UNCHANGED host
  <2>1. Poll(NoPoll) /\ NoPoll.step = "idle"
    <3>1. MaxFlows \in Nat /\ <<>> \in Seq(Heard)
      BY SetupAssumption
    <3> QED
      BY <3>1 DEF NoPoll, MaybeQpn
  <2> QED
    BY <1>1, <1>4, <2>1 DEF Typed, host
<1> QED
  BY <1>3, <1>4 DEF HandleResponse

LEMMA TypedStep == Inv /\ Typed /\ [Next]_vars => Typed'
<1> SUFFICES ASSUME Flows, Typed, [Next]_vars PROVE Typed'
  BY DEF Inv
<1>1. CASE UNCHANGED vars
  BY <1>1 DEF vars, flow, trace, mailbox, host, probes, Typed
<1>2. CASE EcnNext
  BY <1>2, EcnNextTyped
<1>3. ASSUME NEW c \in Contexts, NEW ev \in SteeringEvents,
             UserAlgo(c, ev) \/ UserAlgoMailbox(c, ev)
      PROVE  Typed'
  BY <1>3, SteeringEventTyped
<1>4. ASSUME NEW c \in Contexts, Recycle(c) PROVE Typed'
  <2>1. NewContext \in Context
    BY RatesAndCounts DEF NewContext, Context, MaybeQpn
  <2>2. PICK kept \in {ctx[c], NewContext} : ctx' = [ctx EXCEPT ![c] = kept]
    BY <1>4 DEF Recycle
  <2>3. ctx' \in [Contexts -> Context]
    BY <2>1, <2>2 DEF Typed
  <2> QED
    BY <1>4, <2>3 DEF Recycle, Typed, trace, mailbox, host, probes
<1>5. ASSUME NEW w \in Workers, Elapse(w) PROVE Typed'
  BY <1>5 DEF Elapse, Typed, flow, mailbox, host, probes
<1>6. ASSUME NEW w \in Workers, ClaimSlot(w) PROVE Typed'
  <2>1. /\ slot' = [slot EXCEPT ![store[w].slot] = [slot[store[w].slot] EXCEPT !.qpn = store[w].qpn]]
        /\ store' = [store EXCEPT ![w] = [store[w] EXCEPT !.step = "fill"]]
        /\ UNCHANGED <<ctx, buf, channel, poll, heard, table, flying, elapsed, gap>>
    BY <1>6 DEF ClaimSlot, flow, trace, host, probes
  <2>2. store[w].slot \in Slots /\ store[w].qpn \in MaybeQpn
    BY DEF Typed
  <2>3. slot' \in [Slots -> [qpn : MaybeQpn, value : Rates]]
    BY <2>1, <2>2 DEF Typed
  <2>4. store' \in [Workers -> [step : {"idle", "claim", "fill"}, slot : Slots, qpn : MaybeQpn,
                                rate : Rates]]
    BY <2>1 DEF Typed
  <2> QED
    BY <2>1, <2>3, <2>4 DEF Typed
<1>7. ASSUME NEW w \in Workers, FillSlot(w) PROVE Typed'
  <2>1. /\ slot' = [slot EXCEPT ![store[w].slot] = [slot[store[w].slot] EXCEPT !.value = store[w].rate]]
        /\ store' = [store EXCEPT ![w] = Idle]
        /\ UNCHANGED <<ctx, buf, channel, poll, heard, table, flying, elapsed, gap>>
    BY <1>7 DEF FillSlot, flow, trace, host, probes
  <2>2. store[w].slot \in Slots /\ store[w].rate \in Rates
    BY DEF Typed
  <2>3. slot' \in [Slots -> [qpn : MaybeQpn, value : Rates]]
    BY <2>1, <2>2 DEF Typed
  <2>4. Idle \in [step : {"idle", "claim", "fill"}, slot : Slots, qpn : MaybeQpn, rate : Rates]
    BY SetupAssumption, RatesAndCounts DEF Idle, Slots, MaybeQpn
  <2>5. store' \in [Workers -> [step : {"idle", "claim", "fill"}, slot : Slots, qpn : MaybeQpn,
                                rate : Rates]]
    BY <2>1, <2>4 DEF Typed
  <2> QED
    BY <2>1, <2>3, <2>5 DEF Typed
<1>8. CASE HandleTrace
  <2>1. /\ channel # <<>> /\ TakeReport(Head(channel)) /\ channel' = Tail(channel)
        /\ UNCHANGED <<ctx, buf, slot, store, poll, flying, elapsed, gap>>
    BY <1>8 DEF HandleTrace, flow, mailbox, probes
  <2>2. channel \in Seq(Report)
    BY DEF Typed
  <2>3. Head(channel) \in Report /\ Tail(channel) \in Seq(Report)
    BY <2>1, <2>2, HeadTailProperties
  <2>4. Head(channel) \in Heard
    BY <2>3 DEF Report, Heard
  <2> QED
    BY <2>1, <2>3, <2>4, TakeTyped DEF Typed
<1>9. CASE PollQpn \/ PollValue
  BY <1>9, PollTyped
<1>10. CASE HandleResponse
  BY <1>10, ResponseTyped
<1> QED
  BY <1>1, <1>2, <1>3, <1>4, <1>5, <1>6, <1>7, <1>8, <1>9, <1>10 DEF Next, SteeringNext

LEMMA TypedInit == Init => Typed
<1> SUFFICES ASSUME Init PROVE Typed
  OBVIOUS
<1>1. /\ MaxFlows \in Nat \ {0} /\ MaxTracked \in Nat /\ MaxProbes \in Nat /\ MaxGap \in Nat
      /\ 2 ^ TimeBits \in Nat \ {0}
  BY SetupAssumption, TimeAssumption
<1>2. NewContext \in Context
  BY RatesAndCounts DEF NewContext, Context, MaybeQpn
<1>3. Free \in [qpn : MaybeQpn, value : Rates]
  BY RatesAndCounts DEF Free, MaybeQpn
<1>4. Idle \in [step : {"idle", "claim", "fill"}, slot : Slots, qpn : MaybeQpn, rate : Rates]
  BY <1>1, RatesAndCounts DEF Idle, Slots, MaybeQpn
<1>5. /\ NoPoll \in [step : {"idle", "value"}, at : 0 .. MaxFlows, qpn : MaybeQpn,
                     response : Seq(Heard)]
      /\ NoPoll.step = "idle"
  <2>1. <<>> \in Seq(Heard)
    OBVIOUS
  <2> QED
    BY <1>1, <2>1 DEF NoPoll, MaybeQpn
<1>6. table = {} /\ IsFiniteSet({}) /\ Cardinality({}) = 0
  BY FS_EmptySet DEF Init
<1>7. <<>> \in Seq(Report)
  OBVIOUS
<1>8. /\ ctx = [c \in Contexts |-> NewContext] /\ buf = [w \in Workers |-> <<>>]
      /\ channel = <<>> /\ slot = [i \in Slots |-> Free] /\ store = [w \in Workers |-> Idle]
      /\ poll = NoPoll /\ heard = [q \in Qpn |-> NotHeard]
      /\ flying = 0 /\ elapsed = 0 /\ gap = 0
  BY DEF Init
<1> QED
  BY <1>1, <1>2, <1>3, <1>4, <1>5, <1>6, <1>7, <1>8 DEF Typed

(* TypeOK, for any rates, widths, numbers of flows and sizes of the tables: a  *)
(* flow runs at 0 before its first event and within MIN_RATE .. RATE_MAX ever  *)
(* after, whatever the order of increases and cuts, and so does what is        *)
(* reported, stored in a slot that two workers write, and heard.               *)
THEOREM RatesStayInRange == Spec => []TypeOK
<1>1. Spec => []Typed
  BY Invariant, TypedInit, TypedStep, PTL DEF Spec
<1>2. Typed => TypeOK
  <2> SUFFICES ASSUME Typed PROVE TypeOK
    OBVIOUS
  <2>1. ASSUME NEW c \in Contexts
        PROVE  /\ ctx[c].cur_rate \in Rates /\ ctx[c].last_reported_rate \in Rates
               /\ ctx[c].flow_qpn \in {0} \cup Qpn
               /\ ctx[c].rtt_meas_psn \in 0 .. 1 /\ ctx[c].rtt_req_to_rtt_sent \in 0 .. 2
               /\ ctx[c].abort_cnt \in 0 .. 2 ^ AbortBits - 1
    <3>1. ctx[c] \in Context
      BY DEF Typed
    <3> QED
      BY <3>1 DEF Context, MaybeQpn
  <2>2. ASSUME NEW w \in Workers, NEW i \in DOMAIN buf[w] PROVE buf[w][i].rate \in Rates \ {0}
    <3>1. buf[w] \in Seq(Report)
      BY DEF Typed
    <3>2. buf[w][i] \in Report
      BY <3>1, LenProperties
    <3> QED
      BY <3>2 DEF Report
  <2>3. ASSUME NEW i \in DOMAIN channel PROVE channel[i].rate \in Rates \ {0}
    <3>1. channel \in Seq(Report)
      BY DEF Typed
    <3>2. channel[i] \in Report
      BY <3>1, LenProperties
    <3> QED
      BY <3>2 DEF Report
  <2>4. ASSUME NEW s \in Slots PROVE slot[s].qpn \in {0} \cup Qpn /\ slot[s].value \in Rates
    BY DEF Typed, MaybeQpn
  <2> QED
    BY <2>1, <2>2, <2>3, <2>4 DEF Typed, TypeOK
<1> QED
  BY <1>1, <1>2, PTL
================================================================================
