-------------------------------- MODULE FlowRun --------------------------------
(* main() of the DOCA Flow exercise programs: bring-up, construction of the   *)
(* pipeline, the report and capture loop, interrupts and key presses at any   *)
(* moment, and the way down.                                                  *)
EXTENDS FlowPrograms, FiniteSets

CONSTANTS Percents,      \* values of --percent, illegal ones and NaN included
          Samples,       \* values of --sample, illegal ones included
          Uint32Range,   \* 2^32, the number of values of a uint32_t
          RxRing,        \* RX_RING_SIZE: copies the CPU queue holds
          RxBurst,       \* RX_BURST: copies taken at a time
          MaxPackets,    \* bound: packets counted
          MaxKeys        \* bound: key presses, and toggle signals

ASSUME FlowRunAssumption ==
  /\ Percents \subseteq Int \cup {NaN} /\ Samples \subseteq Int
  /\ Uint32Range \in Nat \ {0}
  /\ {RxRing, RxBurst, MaxPackets, MaxKeys} \subseteq Nat

Programs ==
  LET Args == [percent : Percents, capture : BOOLEAN, sample_n : Samples, tty : BOOLEAN]
      Of(file, args) == {[file |-> file, doca |-> d, percent |-> a.percent,
                          capture |-> a.capture, sample_n |-> a.sample_n, tty |-> a.tty] :
                         d \in {2, 3}, a \in args}
      Plain(a) == ~a.capture /\ a.sample_n = 1 /\ ~a.tty
  IN  Of("ecn_pcap", {a \in Args : a.capture \/ Plain(a)})
        \cup Of("solution", {a \in Args : Plain(a)})
        \cup Of("template", {a \in Args : Plain(a) /\ a.percent = Whole})
        \cup Of("nop", {a \in Args : Plain(a) /\ a.percent = Whole})

VARIABLES
  prog,               \* which program runs, with its command line
  pc,                 \* the function main() is in
  held,               \* what has been opened, started and installed so far
  pipes,              \* the pipes created so far
  g_running,
  terminal,           \* what enable_key_toggle() has changed of the terminal
  keys,               \* SPACE presses and
  signals,            \*   toggle signals so far, for the bound
  typed,              \* keys waiting to be read
  g_toggle_pending,
  g_capture_writing,
  sink,               \* copies received, the sample counter, and which are written
  ring,               \* copies waiting in CPU queue 0
  lost,               \* copies that found the ring full
  count               \* the hardware counters of the entries

bringUp == <<prog, pc, held, pipes>>
toggles == <<terminal, keys, signals, typed, g_toggle_pending, g_capture_writing>>
capture == <<sink, ring, lost, count>>
vars == <<prog, pc, held, pipes, g_running, terminal, keys, signals, typed,
          g_toggle_pending, g_capture_writing, sink, ring, lost, count>>

(* It has returned, called exit(), been ended by a signal it would have caught *)
(* later on, or died of one that no program catches.                          *)
Over == pc \in {"done", "exit", "killed", "died"}

Init ==
  /\ prog \in Programs /\ pc = "setup_logging" /\ held = {} /\ pipes = <<>>
  /\ g_running = TRUE /\ terminal = {} /\ keys = 0 /\ signals = 0 /\ typed = 0
  /\ g_toggle_pending = FALSE /\ g_capture_writing = FALSE
  /\ sink = [mirrored |-> 0, sample_ctr |-> 0, written |-> {}]
  /\ ring = 0 /\ lost = 0 /\ count = [c \in Counters |-> 0]

(* ------------------------------ bring-up --------------------------------- *)

(* A start-up function acquires what it is for, or one of its calls fails and *)
(* doca_check() ends the program there and then.                              *)
Start(at, then, what) ==
  /\ pc = at
  /\ \/ pc' = then /\ held' = held \cup what
     \/ pc' = "exit" /\ UNCHANGED held
  /\ UNCHANGED <<prog, pipes, g_running, toggles, capture>>

SetupLogging == Start("setup_logging", "parse_args", {})

(* percent_cb() refuses what is below 0 or above 100, and a NaN is neither;   *)
(* sample_cb() tests the number as given,                                     *)
LegalArgs == /\ prog.percent = NaN \/ prog.percent \in 0 .. Whole
             /\ prog.sample_n >= 1

(* and keeps it as a uint32_t.                                                *)
SampleN == prog.sample_n % Uint32Range

(* EAL is brought up by doca_argp_start(), through initialize_dpdk().         *)
ParseArgs ==
  /\ LegalArgs
  /\ Start("parse_args",
           IF prog.file = "ecn_pcap" THEN "open_capture_pcap" ELSE "open_and_probe_dev",
           {"argp", "eal"})

RefuseArgs ==
  /\ pc = "parse_args" /\ ~LegalArgs
  /\ pc' = "exit"
  /\ UNCHANGED <<prog, held, pipes, g_running, toggles, capture>>

OpenCapturePcap ==
  Start("open_capture_pcap", "open_and_probe_dev", IF prog.capture THEN {"pcap"} ELSE {})

OpenAndProbeDev == Start("open_and_probe_dev", "configure_and_start_dpdk_port", {"dev"})

ConfigureAndStartDpdkPort ==
  Start("configure_and_start_dpdk_port", "initialize_doca_flow", {"ethdev"})

InitializeDocaFlow == Start("initialize_doca_flow", "port_start", {"flow"})

(* The PF, which find_pf_port_id() finds by not being a representor.          *)
PortStart ==
  Start("port_start", IF prog.doca = 3 THEN "open_sf_representor" ELSE "rep_port_start",
        {"pf_port"})

OpenSfRepresentor == Start("open_sf_representor", "rep_port_start", {"rep_dev"})

RepPortStart == Start("rep_port_start", "build_pipeline", {"rep_port"})

(* build_pipeline() creates each pipe, and then adds its entries.             *)
Plan == Pipeline(prog)

CreatePipe ==
  /\ pc = "build_pipeline"
  /\ Len(pipes) < Len(Plan)
  /\ \/ /\ pipes' = Append(pipes, [Plan[Len(pipes) + 1] EXCEPT !.entries = <<>>])
        /\ pc' = "add_entries"
     \/ pc' = "exit" /\ UNCHANGED pipes
  /\ UNCHANGED <<prog, held, g_running, toggles, capture>>

(* The entries are queued, and doca_flow_entries_process() drives them in; the *)
(* status entry_process_cb() left behind says whether the hardware took them.  *)
AddEntries ==
  /\ pc = "add_entries"
  /\ \/ /\ pipes' = [pipes EXCEPT ![Len(pipes)] = Plan[Len(pipes)]]
        /\ pc' = IF Len(pipes) = Len(Plan) THEN "install_signal_handlers" ELSE "build_pipeline"
     \/ pc' = "exit" /\ UNCHANGED pipes
  /\ UNCHANGED <<prog, held, g_running, toggles, capture>>

(* variant: SIGUSR1 is left to its default *)
InstallSignalHandlersIntOnly ==
  /\ pc = "install_signal_handlers"
  /\ held' = held \cup {"sigint"}
  /\ pc' = "log_startup"
  /\ UNCHANGED <<prog, pipes, g_running, toggles, capture>>

(* SIGUSR1 is caught by a capture only.                                       *)
InstallSignalHandlers ==
  /\ pc = "install_signal_handlers"
  /\ held' = held \cup {"sigint"} \cup (IF prog.capture THEN {"sigusr1"} ELSE {})
  /\ pc' = "log_startup"
  /\ UNCHANGED <<prog, pipes, g_running, toggles, capture>>

(* log_startup() makes the terminal raw and its reads non-blocking, if there is *)
(* one and a capture: termios and file status flags, two settings.            *)
LogStartup ==
  /\ pc = "log_startup"
  /\ terminal' = IF prog.capture /\ prog.tty THEN {"raw", "nonblock"} ELSE {}
  /\ pc' = "loop"
  /\ UNCHANGED <<prog, held, pipes, g_running, keys, signals, typed, g_toggle_pending,
                 g_capture_writing, capture>>

(* ------------------------------ the loop --------------------------------- *)

(* Which of the next k copies the sample takes, numbered in order of arrival. *)
(* Where dividing by zero is not an end, it leaves the counter: none is taken. *)
Taken(k) ==
  {sink.mirrored + i : i \in {i \in 1 .. k : SampleN # 0 /\ (sink.sample_ctr + i) % SampleN = 0}}

(* variant: the sample counter stands still while the capture is paused *)
CaptureBurstWhileWriting ==
  \E k \in 0 .. RxBurst :
    /\ pc = "loop" /\ g_running /\ prog.file = "ecn_pcap"
    /\ IF prog.capture THEN k <= ring ELSE k = 0
    /\ sink' = [mirrored   |-> sink.mirrored + k,
                sample_ctr |-> IF g_capture_writing THEN sink.sample_ctr + k ELSE sink.sample_ctr,
                written    |-> IF g_capture_writing THEN sink.written \cup Taken(k)
                                                    ELSE sink.written]
    /\ ring' = ring - k
    /\ pc' = "poll_capture_toggle"
    /\ UNCHANGED <<prog, held, pipes, g_running, toggles, lost, count>>

(* variant: the loop runs to RX_BURST instead of the number received *)
CaptureBurstFull ==
  \E k \in {RxBurst} :
    /\ pc = "loop" /\ g_running /\ prog.file = "ecn_pcap"
    /\ sink' = [mirrored   |-> sink.mirrored + k,
                sample_ctr |-> sink.sample_ctr + k,
                written    |-> IF g_capture_writing THEN sink.written \cup Taken(k)
                                                    ELSE sink.written]
    /\ ring' = ring - k
    /\ pc' = "poll_capture_toggle"
    /\ UNCHANGED <<prog, held, pipes, g_running, toggles, lost, count>>

(* One burst: each copy counts towards the sample whether or not it is written. *)
CaptureBurst ==
  \E k \in 0 .. RxBurst :
    /\ pc = "loop" /\ g_running /\ prog.file = "ecn_pcap"
    /\ IF prog.capture THEN k <= ring ELSE k = 0
    /\ sink' = [mirrored   |-> sink.mirrored + k,
                sample_ctr |-> sink.sample_ctr + k,
                written    |-> IF g_capture_writing THEN sink.written \cup Taken(k)
                                                    ELSE sink.written]
    /\ ring' = ring - k
    /\ pc' = "poll_capture_toggle"
    /\ UNCHANGED <<prog, held, pipes, g_running, toggles, lost, count>>

(* The remainder by a sample_n of zero, which the cast can leave: undefined,  *)
(* and on some processors a signal that nothing catches.                      *)
DivideByZero ==
  /\ pc = "loop" /\ g_running /\ prog.capture /\ ring > 0 /\ SampleN = 0
  /\ pc' = "died"
  /\ UNCHANGED <<prog, held, pipes, g_running, toggles, capture>>

Odd(n) == n % 2 = 1

(* variant: the flag is not cleared *)
PollCaptureToggleKeepsFlag ==
  /\ pc = "poll_capture_toggle"
  /\ g_capture_writing' = (g_capture_writing # Odd((IF g_toggle_pending THEN 1 ELSE 0)
                                                     + (IF "raw" \in terminal THEN typed ELSE 0)))
  /\ typed' = IF "raw" \in terminal THEN 0 ELSE typed
  /\ pc' = "report"
  /\ UNCHANGED <<prog, held, pipes, g_running, terminal, keys, signals, g_toggle_pending, capture>>

(* One flip for any number of signals since the last pass, one for each key.  *)
PollCaptureToggle ==
  /\ pc = "poll_capture_toggle"
  /\ g_toggle_pending' = FALSE
  /\ g_capture_writing' = (g_capture_writing # Odd((IF g_toggle_pending THEN 1 ELSE 0)
                                                     + (IF "raw" \in terminal THEN typed ELSE 0)))
  /\ typed' = IF "raw" \in terminal THEN 0 ELSE typed
  /\ pc' = "report"
  /\ UNCHANGED <<prog, held, pipes, g_running, terminal, keys, signals, capture>>

(* The report once a second reads the counters; query_pkts() makes a failed   *)
(* query a zero.                                                              *)
Report ==
  /\ \/ pc = "report"
     \/ pc = "loop" /\ g_running /\ prog.file \in {"solution", "template"}
  /\ pc' = "loop"
  /\ UNCHANGED <<prog, held, pipes, g_running, toggles, capture>>

(* nop sleeps, and then its print_stats() does not forgive a failed query.     *)
PrintStats ==
  /\ \/ pc = "loop" /\ g_running /\ prog.file = "nop" /\ pc' = "print_stats"
     \/ pc = "print_stats" /\ pc' \in {"loop", "exit"}
  /\ UNCHANGED <<prog, held, pipes, g_running, toggles, capture>>

(* ---------------------------- the way down ------------------------------- *)

LeaveLoop ==
  /\ pc = "loop" /\ ~g_running
  /\ pc' = IF prog.file = "ecn_pcap" THEN "restore_key_toggle" ELSE "stop_sf_rep"
  /\ UNCHANGED <<prog, held, pipes, g_running, toggles, capture>>

(* The termios settings; the file status flags stay.                          *)
RestoreKeyToggle ==
  /\ pc = "restore_key_toggle"
  /\ terminal' = terminal \ {"raw"}
  /\ pc' = "close_capture_pcap"
  /\ UNCHANGED <<prog, held, pipes, g_running, keys, signals, typed, g_toggle_pending,
                 g_capture_writing, capture>>

(* A shutdown function releases what it is for; its result is ignored.        *)
Stop(at, then, what) ==
  /\ pc = at /\ pc' = then /\ held' = held \ what
  /\ UNCHANGED <<prog, pipes, g_running, toggles, capture>>

CloseCapturePcap == Stop("close_capture_pcap", "stop_sf_rep", {"pcap"})

(* variant: in the order they were started *)
StopPortsPfFirst == \/ Stop("stop_sf_rep", "stop_port", {"pf_port"})
                    \/ Stop("stop_port", "destroy", {"rep_port"})

StopPorts == \/ Stop("stop_sf_rep", "stop_port", {"rep_port"})
             \/ Stop("stop_port", "destroy", {"pf_port"})

Destroy == Stop("destroy", "done", {"flow", "argp"})

(* ----------------------- signals, keys and packets ----------------------- *)

(* A signal without its handler ends the program; the handlers set flags only. *)
Signal(name) ==
  /\ ~Over
  /\ IF name \notin held
       THEN pc' = "killed" /\ UNCHANGED <<g_running, g_toggle_pending>>
       ELSE /\ g_running' = (g_running /\ name # "sigint")
            /\ g_toggle_pending' = (g_toggle_pending \/ name = "sigusr1")
            /\ UNCHANGED pc
  /\ signals' = signals + 1
  /\ UNCHANGED <<prog, held, pipes, terminal, keys, typed, g_capture_writing, capture>>

Interrupt == g_running /\ signals <= MaxKeys /\ Signal("sigint")

ToggleSignal == signals < MaxKeys /\ Signal("sigusr1")

(* SIGQUIT (enable_key_toggle() leaves ISIG on), SIGHUP and others: no program *)
(* here ever catches them.                                                    *)
UncaughtSignal ==
  /\ ~Over
  /\ pc' = "died"
  /\ UNCHANGED <<prog, held, pipes, g_running, toggles, capture>>

PressSpace ==
  /\ ~Over /\ prog.tty /\ keys < MaxKeys
  /\ keys' = keys + 1 /\ typed' = typed + 1
  /\ UNCHANGED <<bringUp, g_running, terminal, signals, g_toggle_pending, g_capture_writing, capture>>

(* The root has its entries, and both ports are started.                      *)
RootLive == /\ pipes # <<>> /\ pipes[Len(pipes)].name = "ROOT"
            /\ pipes[Len(pipes)].entries # <<>>
            /\ {"pf_port", "rep_port"} \subseteq held

Counted == count["ce_entry"] + count["pass_entry"] + count["fwd_entry"]
             + count["to_sf"] + count["to_wire"]

(* A packet crosses the eSwitch: it is counted, and its copy joins the queue  *)
(* (whether it came with CE decides neither).                                 *)
Packet ==
  /\ ~Over /\ RootLive
  /\ Counted < MaxPackets
  /\ \E seen \in {Journey(pipes, pkt) : pkt \in {p \in Packets : p.ecn = "other"}} :
       LET copies == Times(seen, "CPU")
       IN  /\ \E c \in Counters : Times(seen, c) > 0
           /\ count' = [c \in Counters |-> count[c] + Times(seen, c)]
           /\ ring' = IF ring + copies <= RxRing THEN ring + copies ELSE RxRing
           /\ lost' = lost + (ring + copies - ring')
  /\ UNCHANGED <<bringUp, g_running, toggles, sink>>

BringUp == \/ SetupLogging \/ ParseArgs \/ RefuseArgs \/ OpenCapturePcap \/ OpenAndProbeDev
           \/ ConfigureAndStartDpdkPort \/ InitializeDocaFlow \/ PortStart
           \/ OpenSfRepresentor \/ RepPortStart \/ CreatePipe \/ AddEntries
           \/ InstallSignalHandlers \/ LogStartup
Loop     == CaptureBurst \/ DivideByZero \/ PollCaptureToggle \/ Report \/ PrintStats \/ LeaveLoop
WayDown  == RestoreKeyToggle \/ CloseCapturePcap \/ StopPorts \/ Destroy
Main     == BringUp \/ Loop \/ WayDown

Environment == Interrupt \/ ToggleSignal \/ UncaughtSignal \/ PressSpace \/ Packet

Next == Main \/ Environment

(* The process is scheduled and the calls of main() return; nothing is assumed *)
(* of signals, keys and packets.                                              *)
Spec == Init /\ [][Next]_vars /\ WF_vars(Main)
-----------------------------------------------------------------------------
TypeOK ==
  /\ prog \in Programs
  /\ held \subseteq {"argp", "eal", "pcap", "dev", "ethdev", "flow", "pf_port", "rep_dev",
                     "rep_port", "sigint", "sigusr1"}
  /\ Len(pipes) <= Len(Plan)
  /\ terminal \subseteq {"raw", "nonblock"}
  /\ {g_running, g_toggle_pending, g_capture_writing} \subseteq BOOLEAN
  /\ typed \in 0 .. keys /\ keys \in 0 .. MaxKeys /\ signals \in Nat
  /\ sink \in [mirrored : Nat, sample_ctr : Nat, written : SUBSET Nat]
  /\ ring \in 0 .. RxRing /\ lost \in Nat /\ count \in [Counters -> Nat]

(* What each thing needs to be there while it is: DPDK's ports the device, the *)
(* representor's port the PF's (the proxy port is the first to start and the  *)
(* last to stop), DOCA Flow's ports the library, and so on.                   *)
Needs == [argp |-> {}, eal |-> {}, pcap |-> {}, dev |-> {"eal"}, ethdev |-> {"dev"},
          flow |-> {"ethdev"}, pf_port |-> {"flow", "dev"}, rep_dev |-> {"dev"},
          rep_port |-> {"pf_port"}, sigint |-> {}, sigusr1 |-> {"sigint"}]

(* Nothing outlives what it stands on, in bring-up, failure and shutdown of    *)
(* every program; and once all is built there is nothing that is missing.     *)
DependenciesHeld ==
  /\ \A r \in held : Needs[r] \subseteq held
  /\ pc \in {"build_pipeline", "loop"} => {"pf_port", "rep_port"} \subseteq held

Marks   == prog.file \in {"solution", "ecn_pcap"}
OnlyIp4 == prog.file = "ecn_pcap" \/ (prog.file = "nop" /\ prog.doca = 3)

(* What an exercise promises of a packet: from the SF back to the wire as it   *)
(* was; from the wire to the SF once, marked if and only if it is counted as  *)
(* marked, and copied as it is delivered.  Where PASSTHROUGH or nop's one pipe *)
(* match IPv4 only, nothing is said here of whether other packets arrive (but *)
(* see OthersReachReceiver): no more than that they do not arrive twice.      *)
Promised(pkt, seen) ==
  LET all(at, ecn, n) == Times(seen, at) = n /\ seen[at][ecn] = n
      result == IF Times(seen, "ce_entry") = 1 THEN "ce" ELSE pkt.ecn
  IN  IF pkt.from = "sf"
      THEN all("WIRE", pkt.ecn, 1) /\ Times(seen, "SF") = 0 /\ Times(seen, "CPU") = 0
      ELSE /\ Times(seen, "WIRE") = 0
           /\ pkt.ip4 \/ ~OnlyIp4 => all("SF", result, 1)
           /\ Times(seen, "SF") <= 1
           /\ all("CPU", result, IF prog.capture /\ pkt.ip4 THEN 1 ELSE 0)
           /\ Times(seen, "ce_entry") + Times(seen, "pass_entry")
                = IF Marks /\ pkt.ip4 THEN 1 ELSE 0

(* How many of the random values get an IPv4 packet marked.                   *)
MarkedValues ==
  Cardinality({r \in RandomValues :
    Times(Journey(pipes, [from |-> "wire", ip4 |-> TRUE, ecn |-> "other", random |-> r]),
          "ce_entry") = 1})

(* All, none, or the largest power of two that is not above the percentage.   *)
(* Below the finest sample that would be none, which no mask stands for.      *)
ShareAsAsked ==
  LET n == MarkedValues
  IN  /\ prog.percent = 0     => n = 0
      /\ prog.percent = Whole => n = 2 ^ RandomWidth
      /\ prog.percent \in 2 .. Whole - 1 => 2 * n <= prog.percent /\ prog.percent < 4 * n

(* Once its root is live a pipeline does with each packet what it promises: no *)
(* pipe forwards to one that is missing or still empty, and the share that is *)
(* marked is the one that was asked for (build_pipeline(), get_random_mask(); *)
(* a NaN asks for no share).                                                  *)
ForwardsAsPromised ==
  RootLive /\ pc = "install_signal_handlers" /\ prog.percent # NaN =>
    /\ \A pkt \in Packets : Promised(pkt, Journey(pipes, pkt))
    /\ Marks => ShareAsAsked

(* create_passthrough_pipe() of doca_flow_ecn_pcap.c: "whatever they do not   *)
(* match still reaches the receiver rather than being dropped".               *)
OthersReachReceiver ==
  RootLive /\ pc = "install_signal_handlers" /\ prog.file = "ecn_pcap" =>
    \A pkt \in Packets :
      pkt.from = "wire" /\ ~pkt.ip4 => Times(Journey(pipes, pkt), "SF") = 1

(* Every packet a capturing pipeline counted has its copy in the file's count, *)
(* in the queue or among the overflow.  What is written are copies received,  *)
(* each the next sample_n-th of all that were received: however often the     *)
(* capture is paused and resumed, the sample does not shift (as long as       *)
(* sample_n survives the cast to uint32_t).                                   *)
CopiesAccountedFor ==
  prog.capture =>
    /\ count["ce_entry"] + count["pass_entry"] = sink.mirrored + ring + lost
    /\ sink.written \subseteq 1 .. sink.mirrored
    /\ prog.sample_n < Uint32Range => \A i \in sink.written : i % prog.sample_n = 0

(* When the program returns, exits on a failed call or is ended by a signal   *)
(* that came before its handler, restore_key_toggle() has put back what       *)
(* enable_key_toggle() has set in termios.  Signals that no program catches   *)
(* leave it raw, and O_NONBLOCK is put back by nothing.                       *)
TerminalRestored == pc \in {"done", "exit", "killed"} => "raw" \notin terminal

(* An interrupt that is caught ends the program, through its shutdown unless  *)
(* the report fails first or a signal kills it, and a toggle signal is served *)
(* while it runs.                                                             *)
InterruptStops ==
  /\ ~g_running ~> \/ pc = "done" /\ held \cap {"rep_port", "pf_port", "pcap"} = {}
                   \/ pc \in {"exit", "killed", "died"}
  /\ g_toggle_pending ~> ~g_toggle_pending \/ Over
=============================================================================
