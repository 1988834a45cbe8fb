# Verification of the BlueField tutorial programs

TLA+ models, model-checking runs and machine-checked proofs about the programs of
this repository.  The largest, `pcc-path-steering`, has a control loop: congestion
seen by the NIC's congestion-control processor (DPA) becomes a rate per queue pair,
the rates become a split of the traffic over two virtual paths, and the split
becomes rules of a hardware packet pipeline that are rewritten under traffic.  The
two exercises that lead up to it, `doca-flow` (mark a share of the packets and
capture them) and `doca-pcc-ecn` (a rate controller), are modelled as well.

`src/doca-3` is written for DOCA 3.x and `src/doca-2` for DOCA 2.9; the steering
sources are the same in both, with conditional parts.  The device, the host
programs and the Flow exercises are modelled in both generations, the steering
pipeline and the learning of QPNs in that of DOCA 3.x.

## 1. Inventory

| Component | Where | State | Operations |
|---|---|---|---|
| Control law | `steer.c`, `steer_poll` 2637-2714 | the tally of one walk: flows, full-rate flows, reduced flows and reduced sum per path | interval mean, EWMA, tally, share of path 0 |
| Dispatch table | `steer.c`, `apply_path_share` 1926 | `classify_bucket_path[64]`, `applied_path0_share`, the rules of `EGRESS_BUCKET_DISPATCH`, queue 0 of the port | rewrite the buckets a new share moves, drain |
| Rate table and CM grouping | `steer.c` 2189-2439 | `rate_flow[256]`, `cm_request[256]`, `qpn_pair[256]`, `cnp_entry[64]`, `rate_lock` | report, REQ, REP, CNP rule, walk |
| Packet pipeline | `steer.c` 560-1797, assembled by `steer_start` | rules and counters of about twenty pipes | per packet: match, rewrite, clone, deliver |
| Counters | `steer.c` 2716-2792 | previous values | query, subtract, log |
| Host program | `host/pcc.c`, `host/pcc_core.c` | `host_stop`, what has been started, `flow_rate_table[256]` | start, poll loop, stop, trace handler |
| Device program | `device/rp_main.c`, `device/algo/rtt_template.c` | per-QP context (`cur_rate`, `flow_qpn`, `last_reported_rate`), flush times per worker | TX, CNP, RTT, NACK events |
| Rate mailbox | `device/rp_main.c` 69-114 (DOCA 2.9) | three parallel arrays | store, read all |
| Standalone program | `steering/doca_flow_steer.c` | `g_running` | parse arguments, loop |
| PCC ECN exercise | `doca-pcc-ecn` | per-QP context with its RTT probe; the host's `stop_requested` | events, probes and their time-out; start, wait, stop |
| Flow exercises | `doca-flow` | pipes and counters; capture file, sample counter, toggle flags, terminal mode | build, capture, toggle, report, shut down |
| Scripts, guides | `src/admin`, `src/guides` | - | - |

How they interact.  On the sender, the DPA calls the device program for every
congestion event; it computes a rate per QPN and writes a trace report whenever
the rate changes.  The host's PCC library calls `rate_report_trace_handler` on a
thread of its own, which calls `steer_update_pcc_rate`.  The main thread loops:
`steer_poll` once a second, `steer_poll_rx` every 10 ms in between.  RDMA-CM
packets (to QP1) are cloned by the pipeline into the main thread's RX queue,
and tell it which receiver, and so which path, a QPN belongs to.  `steer_poll`
walks the flows under `rate_lock`, which the trace thread also takes, computes
the share of path 0, and calls `apply_path_share`, which submits rule updates
to the hardware one at a time and polls for their completion.  CNP counter rules
use the same hardware queue.  On the receiver the same library, in the ingress
role, CE-marks packets by path; the marks come back as CNPs.  The Flow exercises
stand alone: a pipeline that is built once and a loop that reports its counters and
writes copies of the packets to a file.  The PCC exercise is the device program
without reports, with the host only starting, waiting and stopping.

What is hard.  Two threads share the tables.  Rule updates are asynchronous,
may fail and may complete after the caller has given up.  CM packets and reports
arrive in any order, are lost and are repeated; QPNs and comm_ids are used
again; nothing is ever evicted.  The law is integer arithmetic with rounding.
The pipeline is assembled by rewriting two variables in a particular order, in
three roles.  Device workers share a mailbox without a lock, contexts pass from one
queue pair to the next, and probes and their answers are lost.  The host programs
own two dozen things that rest on each other, any call may fail, and signals come
at any moment.  `PROJECT.json` lists each hazard at its line with the properties
that would catch it.

What makes each component correct:

- control law: the documented share, in range, indifferent to the names of the
  paths, monotone in demand;
- dispatch table: no path starved at any instant; a share announced only when
  it is in force; the wanted share eventually in force; no exit without a fault;
- grouping: independent of arrival order; the path of the connection's receiver;
  one entry per QPN and comm_id; the tally is that of one moment;
- pipeline: the path bit stays private to the wire; marks only on the packet's
  own path; the rest of the ToS byte preserved on ingress; each packet out
  exactly once; the two ends' counters agree;
- host programs: an interrupt stops them; nothing is released before what rests on
  it, and nothing used after it is stopped;
- device program: the controller ends up with the last rate of each flow, under the
  right QPN; probing never dies;
- Flow exercises: a packet is marked, copied, counted and delivered as promised, in
  the share asked for; every copy is accounted for and the sample does not shift; the
  terminal's settings are put back.

## 2. Modules

```
PathShare ----------+--> PathTally          (control law alone)
  (pure operators)  +--> ShareTable         (abstract promise of the table)
                    |        ^ refines
                    +--> ClassifyDispatch --+
                    +--> RateGrouping ------+--> SteerLoop
SteerDatapath                                (packet pipeline, two hosts)
RttTemplate ---------> PccDevice             (device programs, way of a report)
HostProgram                                  (the three PCC host programs)
FlowPipes -> FlowPrograms -> FlowRun         (the DOCA Flow exercises)
XProofs: theorems about X
MCX: constants for TLC
```

**PathShare** holds the arithmetic as operators over constants
(`FullRate`, `Buckets`, `MinBuckets`, the EWMA weight).  `PathShareAssumption`
is what the `#define`s and the `#if` of `steer.c` guarantee.  `Clamp` is applied
to the proportional share only, as in the code.

**PathTally** lets flows be counted one at a time at any of a set of smoothed
rates; its reachable states are the tallies a walk can produce.

**ClassifyDispatch** has the polling thread's program counter (`idle`, `update`,
`process`, `cnp`, `exited`), the software table (`bucketPath`, `applied`), and
the external port: `rule`, what the hardware does, and `queue`, operations
submitted and not yet polled, each `pending`, `ok` or `failed`.  Operations take
effect in the order submitted.  `SubmitUpdate`/`UpdateProcessed` are one
iteration of the loop; a rejected submission, a failed or missing completion
leaves the function as `return` does.  `DrainAndCommit` is the final
`doca_flow_entries_process` and the commit, which its error does not prevent.
`SubmitCnp`/`CnpProcessed` are `install_sender_cnp_entry` with `process_entries`,
which exits the process unless it gets the completion of its own rule.
`g_classify_batch` is not a variable: it is cleared before each submission, and
after it the code tests exactly whether the one completion taken was a success.
A late completion of an earlier bucket update has the same context pointer and
so passes for the current one: that is why `UpdateProcessed` looks at the status
of the head of the queue and not at its bucket.

**ShareTable** is the promise: guaranteed buckets never move, and a share is
announced only if the table is its split.

**RateGrouping** has one step per critical section of the trace thread and the
CM code, and one step per flow for the walk, with `lock` held between.  `Open`
is the environment: hosts open connections, possibly with QPNs and comm_ids of
closed ones; CM clones come only from open connections, any number of times and
in any order.

**SteerLoop** instantiates the two, with `wanted` shared, and runs them in the
order of the main thread: receive clones, walk, apply.  Reports arrive whenever
the lock is free, including during a rewrite; the hardware runs by itself.

**SteerDatapath** has one action per pipe and follows one packet from the SF
that sends it to every port it comes out of.  The targets (`WireTarget`,
`SfTarget`, `RoceWireTarget`, ...) are the assembly of `steer_start` for the
role, in its order: delivery, ingress half, egress half, QP1 clones, ARP.  The
ToS byte is kept as path bit, ECN field and "some other DSCP bit"; hardware
randomness is a choice.  Percentages are integers, with the constant `Whole` for
100%; it is a multiple of 2^16 (2^18 in the run), so that every rate the sampler
supports is exact.

**RttTemplate** has the handlers of `rtt_template.c` as operators from a context and
an event to the new context and whether a probe is asked for: the version of
`pcc-path-steering`, that of `doca-pcc-ecn` and the exercise.  Rates are fixed-point
integers with the floor, ceiling and cut of the code; an event carries whether it is
the thousandth (the gate is a static all flows share, so it may be any).  A time-out
is `ABORT_TIME << abort_cnt` in `TimeBits` bits, with the shift count taken modulo
the width.

**PccDevice** runs one of four images.  With DOCA 3 a changed rate is traced into the
worker's buffer (`buf`), a flush moves it into `channel`, and `HandleTrace` is the
callback.  With DOCA 2.9 each event stores its rate in the mailbox: `ProbeSlot` is the
search, `ClaimSlot` and `FillSlot` the two stores, `PollQpn` and `PollValue` the two
reads of `doca_pcc_dev_user_mailbox_handle`, `HandleResponse` the host's half.
`Recycle` gives the context of a closed QP to a new one, cleared or not.  The ECN
images have no reports but probes: `asked` (requested and not yet sent), `flying`
(in the network), and the clock.  The NIC decides what arrives when.

**HostProgram** is `main()` of `doca_pcc`, `doca_flow_steer` and `doca_pcc_ecn_rp`,
each built with DOCA 2 or 3.  `pc` is what `main()` is about to do, named after the
call; `held` is what has been acquired and `failed` what refused to be released.
`Try` is a call that may fail; `Legal...` say which command lines the argument
callbacks accept; `CleanUp` is the order behind the `goto` labels.  `report` is the
trace thread past the test of `grouping_enabled` in `steer_update_pcc_rate`.

**FlowPipes** is the eSwitch as the exercises use it: pipes of entries, each with a
match, what it sets and counts, and where it forwards.  `Journey` says how often a
packet is seen at each port and counter, with which ECN field: `Visit` is one pipe's
part, and since a pipe forwards only to pipes created before it, the whole is a
recursive function over the pipes in that order.  **FlowPrograms** has each
`create_*_pipe` of the six sources and each `build_pipeline` (`Pipeline`).
**FlowRun** is their `main()`: pipes are created one by one with
their entries, packets flow as soon as the root has its own, copies wait in a ring of
`RxRing`, the loop takes bursts of `RxBurst`, polls the toggles and reports.  `sink` keeps
which of the copies received are written, by their number.  `--percent` may be `NaN`, which
`percent_cb` lets pass, and `SampleN` is the cast of `--sample` to `Uint32Range` values.
`terminal` has the two settings `enable_key_toggle` makes, of which `restore_key_toggle` puts
back one.  `Signal` is a signal some program catches, `UncaughtSignal` one that none does, and
`DivideByZero` the remainder by a sample of zero; both end in `died`.

A definition whose name another one extends (`Report` / `ReportUnlocked`) and
whose comment begins with "variant" is a plausible wrong version of it.  No
specification uses the variants: each property is shown to fail when one of
them replaces the definition (`PROJECT.json`, "mutants").

## 3. Runs

| Run | Module, cfg | What it shows |
|---|---|---|
| `path_tally` | MCPathTally | the share is the documented one, in range, symmetric, monotone |
| `dispatch` | MCClassifyDispatch | the live rewrite under faults, timeouts and changing demand |
| `grouping` | MCRateGrouping | tables under the lock, any order of CM packets and reports |
| `steer_loop` | MCSteerLoop | the closed loop refines the table's specification and settles |
| `datapath` | MCSteerDatapath | packets through two hosts in five configurations |
| `pcc_device` | MCPccDevice | every way of a rate to the host, and RTT probing |
| `host_program` | MCHostProgram | start, failure, signals and clean-up of the host programs |
| `flow_run` | MCFlowRun | the Flow exercises, packets and process |
| `abandoned_update` | AbandonedUpdate.cfg | violated: see Findings 1 |
| `fallback_drops` | FallbackDrops.cfg | violated: Findings 2 |
| `stale_cnp_path` | StaleCnpPath.cfg | violated: Findings 3 |
| `both_roles_marker` | BothRolesMarker.cfg | violated: Findings 4 |

Bounds, and why they are enough.

- `path_tally` uses the real constants.  Six flows are two more than it takes to
  have full and reduced flows on both paths and a tie; four rates include the
  floor, the value just above which the EWMA rests, and full rate.  The proofs
  cover any number.
- `dispatch`: six buckets with one guaranteed per path leave four contested
  ones; the requested shares are the even split and both extremes, so a rewrite
  has two to four steps in either direction.  One failing operation and one
  timeout may come together and at any point, which is what it takes for a
  completion to be credited to a later operation.
- `grouping`: three usable QPNs, a reserved one, and three connections (one to
  an unknown receiver) against tables of two; one report per flow and interval.
  Rates are `{1, 4}` with `FullRate = 4` and weight 1/4: enough for the smoothed
  rate to move down, stick below full, and stay full.
- `steer_loop`: two flows on different paths, four reports in all, one fault,
  one timeout.
- `datapath`: two packets are enough for the counters to differ and for a CNP
  rule to be installed between them; packets do not interact otherwise.
- `pcc_device`: two contexts, on one worker and on two, and a third QP that gets a
  used context; a mailbox of two slots, with two QPs that collide and with three that
  do not fit; two changes of rate (each flow may change after the other's report);
  three reports under way, two probes, a clock of five bits so that the time-out
  overflows after three aborts.  `MaxGap` says that a flow transmits at least once in
  three ticks.  A mailbox with collisions *and* recycling was left out for size.
- `host_program`: 72 command lines (each program on each DOCA, one that works and one
  for every reason to be refused); two signals, which is what it takes for the second
  SIGINT of `doca_pcc_ecn_rp` and for SIGUSR1 twice.
- `flow_run`: random stamps of two bits (the code has 15 or 16), percentages at 0, at
  100, below the finest sample, at a power of two, between two, illegal and NaN; samples of
  one in one, in two, and one that the cast makes zero (`Uint32Range = 4`); a ring of two
  and three packets, so that it overflows; one key, one toggle signal and any other signal
  at any moment.

`CHECK_DEADLOCK FALSE` where the system really stops: an exited process
(`dispatch`, `abandoned_update`), a loop without further reports
(`steer_loop`), packets all sent (`datapath`, `both_roles_marker`), a program that
has ended (`host_program`, `flow_run`, `fallback_drops`).  `grouping` and `pcc_device` check it.

Fairness.  `ClassifyDispatch!FairSpec` and `SteerLoop!Spec` assume that the main
thread keeps polling (it does so once per second while the process runs) and
that the hardware executes what it was given.  Reports, connections, CM clones
and CNP rules need never come, and failing is never required.
`SteerDatapath!Spec` assumes only that the pipeline does not stall.
`MaxTotalReports` is what "when the device has nothing more to report" means in
`LoopSettles`.  `PccDevice!Fairness`: every queue pair keeps transmitting (TX events,
the ones that carry the QPN), workers, callback and poll run, time passes, and the NIC
sends a probe it was asked for; no answer need ever arrive and no CNP occur.
`HostProgram!Spec` and `FlowRun!Spec` assume that `main()` is scheduled and that its
calls return, except `doca_pcc_wait`, which returns only when PCC leaves its state,
the time is up, or with an error; and that a rate report under way finishes.
Signals, keys and packets need never come.

`HostHearsLastRate` excepts three cases, all of them in the code: a flow whose rate
changes forever, a full mailbox (which the device counts as dropped), and two workers
that take the same slot from each other forever.  The last was found by TLC: both see
the slot free (or their own), both claim it, and each later event finds it the other's.

## 4. Proofs

All theorems hold for every value of the constants that satisfies the named
assumptions; TLC evaluates those assumptions on the runs.

- **PathTallyProofs**: `TallyConsistent`, `ShareInRange`, `ShareIsReference`,
  `ShareIsSymmetric`, `ShareMonotone`.  The tally invariant is inductive as it is.  The
  rest is integer arithmetic about a rounded quotient: `Rounding` characterises
  `(a + d \div 2) \div d` by inequalities, after which each branch of `Path0Share` is a
  case.  For monotonicity `RoundedMonotone` compares two quotients whose numerators and
  denominators both differ: the quotient is at most n, so that c more in
  the denominator cost no more than n * c more in the numerator gain.
- **ClassifyDispatchProofs**: `TypeOK` needs that the thread in `cnp` has room
  for one more entry (`RoomForCnp`).  `NoPathStarved` needs that every operation
  still queued also respects the guaranteed buckets (`SafeOps`), because a timed
  out update takes effect later.  `RulesMirrored` and `ExitOnlyOnFault` follow
  from `LockInv`: until a timeout, the queue holds at most the one operation the
  thread is waiting for, and the hardware differs from the software table at
  most in that bucket.  `PromiseKept` is the refinement of `ShareTable` under
  `table <- bucketPath, announced <- applied`: only `UpdateProcessed` and
  `DrainAndCommit` are not stutters.
- **RateGroupingProofs**: `TypeOK` (with `tally \in Tally`), where the
  interesting parts are that the interval sum never exceeds the number of
  reports times `FullRate`, so that the mean and the EWMA are rates again
  (`IntervalRateIsRate`, `SmoothRange`), and that the tables
  stay within their capacities.  `ReducedForGood` under `HistoryOutweighs`
  (`2 * EwmaNum < EwmaDen`): the integer EWMA of a rate below `FullRate` stays
  below it.  Without that assumption it is false.  `TallyIsOfTheTable` says
  something at the end of the walk only; `TallySoFar` is its form half way, about the
  flows already passed, and the lock is what makes it stay.  `OneEntryEach` is inductive
  once it is known that a search that finds nothing means that there is nothing
  (`NoRequestBy`, from well-foundedness).  `GroupedByReceiver` and `PendingHasNoMapping`
  are proved under `NoReuse`: no two connections share a QPN or a comm_id (with reuse
  they are false, see Findings).  `Learned` ties every entry of every table to an open
  connection; `Pending` says that classifying and learning go together.
- **SteerLoopProofs**: the closed loop implements both its parts: every step is one of
  `RateGrouping` (`LoopRefinesGrouping`) and one of `ClassifyDispatch`
  (`LoopRefinesDispatch`), or leaves that part alone.  The second needs an invariant of
  the first: that the share a walk ends with is one the table can take.  So what is
  proved of the parts holds of the running process, without a second proof: their proof
  modules are instantiated, their assumptions shown to follow from the loop's, and
  `LoopKeepsTheTable` and `LoopKeepsTheTally` are the results.  `AppliesTheLastShare`
  is about the order of the main thread and of neither part: rules are never rewritten
  with `rate_lock` held, and always for the share of the last walk (`InOrder`).
- **SteerDatapathProofs**: all the safety properties of the run, for any packets,
  addresses and configurations.  Except for `SampleRoundsDown`, none is
  inductive: they speak of copies already delivered, and what makes them true
  happens pipes earlier.  The invariant `Parts` says what holds of the packet
  in each stretch of the pipeline: it is on the right host in a pipe of that
  host's role (`RightPipe`); what cannot have changed yet has not (`Kept`); its
  bit is the path chosen (`PathInBit`); a packet at the sampler may be marked
  and one behind the ingress half has been cleared (`MarkedAndCleared`); it has
  been cloned once per host crossed (`ClonedOncePerHost`); the counters differ
  by exactly the packet under way (`Counting`).  Each part has a lemma with one
  case per pipe.  `WhatComesOut` then lists what a step can deliver, and each
  theorem is a case analysis on it.  `SampleRoundsDown` is arithmetic: each further bit
  halves the rate exactly (`RatesHalve`), and the loop stops at the fewest bits whose
  rate is not above the one asked for (`RandomBitsLeast`), so with one bit less it
  would be.  The provers know nothing of `2 ^ i` but that it is a number;
  `PowersOfTwo` says that each is twice the one before.
- **PccDeviceProofs**: `TypeOK` of all four images, `StartupReportHeard` and
  `OneSlotPerQpn`, for any number of contexts, workers and mailbox slots and with
  recycled contexts.  Types are where the arithmetic is: the cut and the increase of a
  rate stay between `MinRate` and `RateMax` (`RateSteps`), and the shifted time-out stays
  in its width (`TimeAssumption` says that 2 to the width is a positive number).
  `StartupReportHeard` needs that no two contexts know the same QP and none knows the QP of another or a QP to come
  (`Flows`, `Known`): otherwise one flow's event could undo what another's has announced.
  `Traced` gives the reports under way their types.  For `OneSlotPerQpn`, `Probing` says that
  the slots before a flow's own in its probe order are never free again: a search can
  only end at that slot, whichever worker makes it and whatever others claim meanwhile.
  `Unused`: the other images leave the mailbox empty.
- **HostProgramProofs**: `TypeOK` and `ReleasedInOrder`, for any command lines and any number of
  signals.  The invariant says for each stretch of `main()` what is surely held
  (`Sure`) and what is surely gone (`Gone`), that nothing has failed to be released
  before the way down, and that what is held rests on what is held (`Founded`); each
  call of `main()` is a case.
- **FlowRunProofs**: `TypeOK`, `DependenciesHeld`, `TerminalRestored`,
  `ForwardsAsPromised` and `CopiesAccountedFor`, whatever fails and whenever packets, keys
  and signals come, for any width of the random field and any percentages.  Two of them
  speak of `Journey`, which is recursive.  The proof unfolds it once and for all:
  what is seen from each pipe on exists for any number of pipes (`VisitsExist`, by a
  least counterexample, which well-foundedness of `Nat` gives without an induction
  theorem that takes an operator), so `Journey` may be computed pipe by pipe
  (`JourneyVisits`).  From there each program's pipeline is followed from the port up to
  the root: chains of any base with their forwarders (`ChainJourney`, `ChainForwards`),
  the two ways of copying (`FloodChain`, `MirrorChain`), the templates.
  `PlanKeepsPromise` compares the outcome with what the program promises.  The state
  part is `Laying` (the pipes created are the first of the plan, in its order, of which only the
  last may still be without its entries) and `Counting` (the copies in the
  ring, in the file's count and lost are those of the packets counted).  `Guarded` says when the
  terminal can be raw: behind `log_startup`, with both handlers installed.  That the share
  marked is the one asked for (`LiveShare`) is again about powers of two: the mask the
  loop of `get_random_mask` finds divides the range of the random field (`MaskShare`),
  so as many values hit it as there are multiples in the range (`Multiples`); it
  rests on `PowersOfTwo`.  That the sample does not shift follows from the counter being the
  number of copies received, written or not (`Sampled`, `TakenOfBurst`).

Every safety property, action property and refinement of the passing runs is
proved.  Only model-checked is liveness: `WantedIsApplied`, `LoopSettles`,
`EveryPacketComesOut`, `HostHearsLastRate`, `ProbeGoesOn`, `StopsWhenAsked` and
`InterruptStops`, since the prover has no rules for ENABLED and so none for fairness.
The assumptions about powers of two state arithmetic and nothing about the programs; TLC
evaluates them on each run.  `HistoryOutweighs` holds for the weight the code
defaults to; `NoReuse` is a fact of the network, not of the code, and only the two
theorems named above depend on it.

## 5. Findings

1. `steer.c:1952` logs "will retry", but `apply_path_share` compares the share
   wanted with the one last completed (1931).  If the rates return to that one
   after an update was abandoned half way, nothing is retried and the table
   remains a mixture of both splits.
2. `doca_flow_ecn_pcap.c:643` says that what the forwarding pipes do not match "still reaches
   the receiver rather than being dropped", and `doca_flow_ecn_pcap.README.md:41` that
   packets that are not IPv4 miss to `PASSTHROUGH`.  They do, but `PASSTHROUGH` matches IPv4
   itself (658; DOCA 2: 634) and has no miss target: ARP, for one, is dropped.
3. `steering/README.md:85` says CNP counters use the learned association.  A
   QPN used again for the other path keeps its old `cnp_path` (2270).
4. `steer.c:5` says all branches clear the path bit.  With `STEER_ROLE_BOTH`, a
   CNP that hits `EGRESS_CNP_COUNT` goes straight to `DELIVER_SF0` (2135).

Observed while modelling, without a run:

- `steering/README.md:80` gives an entirely full-rate path group 61 buckets.
  "Full rate" is decided on the smoothed rate (2668), and the integer EWMA rests
  three units below 2^20 for the default weight: a path whose flows have all
  recovered stays "reduced", and the proportional rule applies to it.  That no
  reduced flow comes back is `ReducedForGood`, checked and proved.
- `pcc-path-steering/README.md:183` calls the egress rewrite a masked modify;
  `create_path_rewrite_pipe` (899-902) writes the whole ToS byte.
- `steer.c:653`: rates are "rounded down"; below 2^-15 the 15 usable bits round
  up to 2^-15.
- `KnownPaths` prefers an old QPN pair to a newer request, and a request for a
  known comm_id is overwritten without classifying the flow: with reuse,
  `PendingHasNoMapping` and `GroupedByReceiver` hold only again after the REP.
- An egress-only instance has no ARP pipes: ARP relies on what the eSwitch does
  with packets that miss every pipe.

In the host programs:

- `threads_list_callback` (`pcc_core.c:695`) tests every word over the length of the
  first, because `strtok` has cut the string there: `10 9` is refused, and junk at the
  end of a longer word accepted.  The number of words is not bounded by the array.
- `doca_pcc` brings EAL up early only if an argument is exactly `-r` or `--steer-rep`;
  the joined form skips it, and start-up then ends in `exit()` when the device is
  probed.  `-a` alone enables steering, which then fails after PCC was started.
- A SIGINT during start-up of `doca_pcc` is lost (`host_stop = false`, `pcc.c:251`), and
  one during `doca_pcc_wait` without limit is seen only when PCC leaves its state.
- `grouping_enabled` is set before the last pipes exist; EAL and the DPDK port are
  never released; `doca_pcc_ecn_rp` reports success whatever ends its loop.
- `doca_flow_steer` on DOCA 3 compares only the second representor's PF with the
  first's, so the other order on the command line is not checked.

In the device programs:

- The mailbox race described under the runs; a poll may also read a slot between the
  two stores, and deliver a new flow with the old one's rate, or 0, until the next.
- An answer to an aborted probe is accepted for the probe under way.

In the Flow exercises:

- `restore_key_toggle` does not undo `O_NONBLOCK`, and SIGHUP and SIGQUIT, caught by
  nothing, leave the terminal raw.  Nothing promises more, and `TerminalRestored` says no more.
- Two SIGUSR1 between two polls count as one.
- `--sample 4294967296` is cast to 0, which `sample_cb` has let pass, and the first copy
  divides by it; `--sample 4294967297` takes every copy.
- The help (`doca_flow_ecn_pcap.c:485`) has percentages "rounded down"; below the finest
  sample they are rounded up to it.  `ShareAsAsked` begins at the finest sample.
- `--percent nan` passes `percent_cb`.  All comparisons with it are false: `build_pipeline` makes a
  sampler at the finest sample but no `MARK` pipe behind it, and what it picks has nowhere to go.
- `nop` of DOCA 3 drops what is not IPv4, and says so ("forwarding all IPv4").

## 6. Not modelled

DOCA itself (the ports, the eSwitch, PCC's library and the DPA runtime are external,
modelled by how the code uses them); parsing of packets byte by byte; text, log levels
and formats; the DOCA 2.9 substitutes in the steering pipeline (mirror pipes, the
learning of QPNs from feedback, the retirement of mirror entries); the counters of the
second half of `steer_poll`, which are only logged, and the averages of
`flow_rate_table`, which are only printed; `algorithm_core()` of `doca-pcc-ecn`, which
nothing calls; in the host programs, signals other than SIGINT, SIGTERM and SIGUSR1.
Two facts about DOCA are assumed:
when `doca_pcc_stop` succeeds no callback of it runs any more, and what was opened
while parsing arguments lives until `doca_argp_destroy`.  The administration scripts
and guides are input, output and text.

## 7. Plan

Done: the control loop, its pipeline, the device and the way of its reports, the host
programs and the Flow exercises, with their runs and proofs.

1. The counters of `steer_poll`: differences of sums with a query that failed
   (`steer.c:2739`, `2773`).
2. The DOCA 2.9 form of steering: `learn_ingress_feedback_qpn`, the mirror pipes and
   their retirement (`steer.c:2679`).
3. Composition of `PccDevice` with `SteerLoop`: reports that come before the pipeline
   does (`pcc.c:234`).
4. Proofs: the safety half of what is only model-checked, so that only fairness is left
   to TLC: a poll and a completion always bring the table nearer to the share wanted
   (`WantedIsApplied`), and an asked-for stop is never forgotten (`StopsWhenAsked`).
