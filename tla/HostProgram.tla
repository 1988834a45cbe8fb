------------------------------ MODULE HostProgram ------------------------------
(* The host programs of the PCC exercises from main() to the end: doca_pcc    *)
(* with its embedded egress steering, the standalone doca_flow_steer, and     *)
(* doca_pcc_ecn_rp.  Any call may fail, signals arrive at any moment, the PCC *)
(* process may end by itself, and on DOCA 3 its trace thread delivers rate    *)
(* reports while the main thread starts, runs and tears down.                 *)
EXTENDS Sequences, Integers

CONSTANTS Commands,      \* the command lines
          MaxSignals     \* bound: signals sent

Tokens == [digits : Nat, len : Nat]       \* a word: its leading digits, its length

ASSUME HostProgramAssumption ==
  /\ MaxSignals \in Nat
  /\ \A c \in Commands :
       /\ c.file \in {"pcc", "doca_flow_steer", "pcc_ecn_rp"} /\ c.doca \in {2, 3}
       /\ c.device \in {"none", "unknown", "known"}
       /\ c.rep \in {"none", "malformed", "joined", "apart"}  \* -r: one word or two
       /\ c.rep1 \in {"none", "same_pf", "other_pf", "other_pf_first"}  \* -R, after -r or before
       /\ c.pf \in BOOLEAN             \* -a was given
       /\ c.ips \in 0 .. 2             \* how many --path*-ip
       /\ c.threads \in Seq(Tokens) /\ c.threads_given \in BOOLEAN
       /\ c.dpa \in {"none", "missing", "file"} /\ c.key \in BOOLEAN
       /\ c.wait_time \in Int /\ c.force_path \in -1 .. 2
       /\ c.role \in {"egress", "ingress", "both", "other"}
       /\ c.percent \in -1 .. 101

VARIABLES
  argv,             \* the command line
  pc,               \* what main() is about to do
  held,             \* what has been opened, created and started so far
  failed,           \* what refused to be released
  handled,          \* signals with a handler
  stop,             \* host_stop, stop_requested, or the negation of g_running
  got_debug_sig, enable_debug,
  g_steer,          \* started and grouping_enabled
  proc,             \* state of the PCC process
  report,           \* the trace thread is past the test of grouping_enabled
  exit_status,
  signals           \* signals so far, for the bound

vars == <<argv, pc, held, failed, handled, stop, got_debug_sig, enable_debug, g_steer, proc,
          report, exit_status, signals>>
flags == <<handled, stop, got_debug_sig, enable_debug, signals>>
world == <<proc, report>>

Over == pc \in {"done", "exit", "killed"}
Pcc == argv.file = "pcc"
Standalone == argv.file = "doca_flow_steer"
EcnRp == argv.file = "pcc_ecn_rp"
Ingress == Standalone /\ argv.role # "egress"
Egress == Pcc \/ argv.role # "ingress"

Init ==
  /\ argv \in Commands
  /\ pc = IF argv.file = "doca_flow_steer" THEN "logging" ELSE "signals"
  /\ held = {} /\ failed = {} /\ handled = {} /\ stop = FALSE
  /\ got_debug_sig = FALSE /\ enable_debug = FALSE
  /\ g_steer = [started |-> FALSE, grouping_enabled |-> FALSE]
  /\ proc = "off" /\ report = FALSE /\ exit_status = "failure" /\ signals = 0

(* A call succeeds with what it acquires, or fails and control goes elsewhere. *)
Try(at, then, what, otherwise) ==
  /\ pc = at
  /\ \/ pc' = then /\ held' = held \cup what
     \/ pc' = otherwise /\ UNCHANGED held
  /\ UNCHANGED <<argv, failed, flags, g_steer, world, exit_status>>

Goto(at, then) ==
  /\ pc = at /\ pc' = then
  /\ UNCHANGED <<argv, held, failed, flags, g_steer, world, exit_status>>

(* --------------------------- the command line ---------------------------- *)

(* Every word is tested over the length of the first: strtok() has cut the    *)
(* string there.  A shorter word fails at its end.                            *)
LegalThreads(words) ==
  /\ words # <<>>
  /\ \A i \in 1 .. Len(words) : words[i].digits >= words[1].len

NamesSteerDevice == argv.rep # "none" \/ argv.pf
SteerEnable == Pcc /\ NamesSteerDevice

(* pci/<BDF>,pf<N>sf<N>                                                       *)
LegalRepSpec == argv.rep # "malformed"

DeviceExists == argv.device = "known"

DpaFileOpens == argv.dpa # "missing"

LegalPccArgs ==
  /\ DeviceExists
  /\ argv.threads_given => LegalThreads(argv.threads)
  /\ argv.wait_time # 0
  /\ LegalRepSpec
  /\ argv.force_path \in -1 .. 1
  /\ DpaFileOpens

(* On DOCA 3 only the second representor is compared with the first.          *)
LegalSteerArgs ==
  /\ argv.percent \in 0 .. 100
  /\ argv.role # "other"
  /\ LegalRepSpec
  /\ argv.rep1 = "other_pf" => ~NamesSteerDevice
  /\ argv.rep1 = "other_pf_first" /\ argv.rep # "none" => argv.doca = 3

(* doca_pcc_ecn_rp looks its device up only when it opens it.                 *)
LegalEcnArgs == argv.device # "none"

LegalArgs ==
  /\ argv.pf => argv.doca = 3 /\ ~EcnRp
  /\ CASE Pcc -> LegalPccArgs
       [] Standalone -> LegalSteerArgs
       [] EcnRp -> LegalEcnArgs

(* ------------------------------- start-up -------------------------------- *)

InstallHandlers ==
  /\ pc = "signals"
  /\ \/ /\ pc' = IF Pcc THEN "logging" ELSE "argp_init"
        /\ handled' = IF Pcc THEN {"SIGINT", "SIGUSR1"} ELSE {"SIGINT"}
     \/ pc' = "exit" /\ UNCHANGED handled
  /\ UNCHANGED <<argv, held, failed, stop, got_debug_sig, enable_debug, signals, g_steer,
                 world, exit_status>>

SetUpLogging == Try("logging", "eal", {}, "exit")

(* doca_pcc looks for an argument that is exactly -r or --steer-rep, on DOCA 3 *)
(* only; doca_flow_steer brings EAL up in any case.                            *)
EarlyEal == Standalone \/ (argv.doca = 3 /\ argv.rep \in {"apart", "malformed"})

InitEal ==
  IF EarlyEal THEN Try("eal", "argp_init", {"eal"}, "exit") ELSE Goto("eal", "argp_init")

ArgpInit == Try("argp_init", "register", {"argp"}, "exit")

ArgpFails == IF Standalone THEN "exit" ELSE "doca_argp_destroy"

RegisterParams == Try("register", "argp_start", {}, ArgpFails)

(* The arguments are parsed.  DOCA 3 opens the PF and its representors here.  *)
ArgpStart ==
  LET opened == IF argv.doca = 3 /\ (NamesSteerDevice \/ argv.rep1 # "none") THEN {"steer_dev"} ELSE {}
      next == CASE Pcc -> "pcc_init"
                [] Standalone -> "check_opts"
                [] EcnRp -> "open_ecn_device"
  IN  IF LegalArgs THEN Try("argp_start", next, opened, ArgpFails)
      ELSE Goto("argp_start", ArgpFails)

(* pcc_init(): a list of threads or a DPA resources file with its key.        *)
PccInit ==
  LET dpa == argv.dpa = "file"
  IN  Goto("pcc_init", CASE dpa /\ (argv.threads_given \/ ~argv.key) -> "doca_argp_destroy"
                         [] dpa -> "create_dpa_resources"
                         [] OTHER -> "open_pcc_device")

(* The file, its buffer and the resources object are released on every path;  *)
(* SDKs before DOCA 3.4 do not support it.                                    *)
CreateDpaResources ==
  IF argv.doca = 2 THEN Goto("create_dpa_resources", "doca_argp_destroy")
  ELSE Try("create_dpa_resources", "open_pcc_device", {}, "doca_argp_destroy")

OpenPccDevice == Try("open_pcc_device", "doca_pcc_create", {"dev"}, "doca_argp_destroy")

OpenEcnDevice ==
  IF ~DeviceExists THEN Goto("open_ecn_device", "doca_argp_destroy")
  ELSE Try("open_ecn_device", "doca_pcc_create", {"dev"}, "doca_argp_destroy")

CreatePcc ==
  Try("doca_pcc_create", IF Pcc THEN "configure" ELSE "configure_ecn", {"pcc"}, "doca_dev_close")

(* Thread numbers and affinity, application, probe format, trace, mailbox.    *)
ConfigurePcc == Try("configure", "doca_pcc_start", {}, "doca_pcc_destroy")

ConfigureEcn == Try("configure_ecn", "doca_pcc_start", {}, "doca_pcc_destroy")

StartPcc ==
  /\ pc = "doca_pcc_start"
  /\ \/ /\ pc' = IF SteerEnable THEN "embed" ELSE IF Pcc THEN "enter" ELSE "loop"
        /\ held' = held \cup {"running"}
        /\ proc' = "active"
     \/ pc' = "doca_pcc_destroy" /\ UNCHANGED <<held, proc>>
  /\ UNCHANGED <<argv, failed, flags, g_steer, report, exit_status>>

(* The order in which main() releases what it holds.                          *)
(* variant: the pipeline is torn down while PCC still runs *)
PccCleanUpSteeringFirst ==
  <<"steer_stop", "doca_pcc_stop", "doca_pcc_destroy", "doca_dev_close", "doca_argp_destroy",
    "done">>

PccCleanUp ==
  <<"doca_pcc_stop", "steer_stop", "doca_pcc_destroy", "doca_dev_close", "doca_argp_destroy",
    "done">>

EcnCleanUp ==
  <<"doca_pcc_stop", "doca_pcc_destroy", "doca_dev_close", "doca_argp_destroy", "done">>

SteerCleanUp == <<"steer_stop", "doca_argp_destroy", "done">>

CleanUp == CASE Pcc -> PccCleanUp [] EcnRp -> EcnCleanUp [] Standalone -> SteerCleanUp

After(step) == LET i == CHOOSE i \in 1 .. Len(CleanUp) - 1 : CleanUp[i] = step
               IN  CleanUp[i + 1]

(* start_embedded_steering(): DOCA 3 needs a representor, which -a does not   *)
(* give; DOCA 2 brings EAL up now.                                            *)
EmbedSteering ==
  CASE argv.doca = 2 -> Try("embed", "steer_start", {"eal"}, CleanUp[1])
    [] argv.rep = "none" -> Goto("embed", CleanUp[1])
    [] OTHER -> Goto("embed", "steer_start")

(* On DOCA 2 the second representor alone names the device too (and the first *)
(* SF is then number 0).                                                      *)
CheckOpts ==
  LET enough == /\ argv.rep # "none" \/ (argv.doca = 2 /\ argv.rep1 # "none")
                /\ Ingress => argv.rep1 # "none" /\ (argv.doca = 3 => argv.ips = 2)
  IN  Goto("check_opts", IF enough THEN "steer_start" ELSE "exit")

(* ------------------------------ the pipeline ----------------------------- *)

SteerStart ==
  LET legal == argv.ips = 2 /\ (Ingress => argv.rep1 # "none")
  IN  Goto("steer_start", CASE legal -> "probe"
                            [] Pcc -> CleanUp[1]
                            [] Standalone -> "exit")

(* A representor opened before EAL was up cannot be probed.                   *)
Probe ==
  IF "eal" \in held THEN Try("probe", "configure_dpdk", {"probed"}, "exit")
  ELSE Goto("probe", "exit")

ConfigureAndStartDpdkPort == Try("configure_dpdk", "init_flow", {"ethdev"}, "exit")

InitializeDocaFlow == Try("init_flow", "port_start", {"flow"}, "exit")

PortStart == Try("port_start", "rep_port_start", {"port"}, "exit")

RepPortStart ==
  Try("rep_port_start", IF Ingress THEN "rep1_port_start" ELSE "pipes", {"rep0"}, "exit")

Rep1PortStart == Try("rep1_port_start", "pipes", {"rep1"}, "exit")

(* Rate reports are taken from here on: grouping_enabled is set before the    *)
(* last pipes exist.                                                          *)
CreatePipes ==
  /\ pc = "pipes"
  /\ \/ /\ pc' = "rest_of_pipes" /\ held' = held \cup {"pipes"}
        /\ g_steer' = [g_steer EXCEPT !.grouping_enabled = Egress]
     \/ pc' = "exit" /\ UNCHANGED <<held, g_steer>>
  /\ UNCHANGED <<argv, failed, flags, world, exit_status>>

CreateRestOfPipes ==
  /\ pc = "rest_of_pipes"
  /\ \/ pc' = "enter" /\ g_steer' = [g_steer EXCEPT !.started = TRUE]
     \/ pc' = "exit" /\ UNCHANGED g_steer
  /\ UNCHANGED <<argv, held, failed, flags, world, exit_status>>

(* -------------------------------- running -------------------------------- *)

(* doca_pcc forgets an interrupt that came during start-up; doca_flow_steer   *)
(* catches signals only now.                                                  *)
EnterLoop ==
  /\ pc = "enter" /\ pc' = "loop"
  /\ IF Pcc THEN stop' = FALSE /\ UNCHANGED handled
            ELSE handled' = {"SIGINT", "SIGTERM"} /\ UNCHANGED stop
  /\ UNCHANGED <<argv, held, failed, got_debug_sig, enable_debug, signals, g_steer, world,
                 exit_status>>

LeaveLoop ==
  /\ pc = "loop" /\ stop
  /\ pc' = CleanUp[1] /\ exit_status' = "success"
  /\ UNCHANGED <<argv, held, failed, flags, g_steer, world>>

(* The first SIGUSR1 enables debugging, a later one dumps; then the state of  *)
(* PCC is queried.                                                            *)
QueryPcc ==
  /\ pc = "loop" /\ Pcc /\ ~stop
  /\ got_debug_sig' = FALSE
  /\ enable_debug' = (enable_debug \/ (got_debug_sig /\ argv.doca = 3))
  /\ \/ pc' = CleanUp[1] /\ exit_status' = "failure"
     \/ proc # "active" /\ pc' = CleanUp[1] /\ exit_status' = "success"
     \/ /\ proc = "active" /\ pc' = IF SteerEnable THEN "poll" ELSE "wait"
        /\ UNCHANGED exit_status
  /\ UNCHANGED <<argv, held, failed, handled, stop, signals, g_steer, world>>

(* doca_pcc_ecn_rp reports success however its loop ends.                     *)
RunEcn ==
  /\ pc = "loop" /\ EcnRp /\ ~stop
  /\ \/ pc' = CleanUp[1] /\ exit_status' = "success"
     \/ proc = "active" /\ pc' = "wait" /\ UNCHANGED exit_status
  /\ UNCHANGED <<argv, held, failed, flags, g_steer, world>>

RunStandalone == Standalone /\ ~stop /\ Goto("loop", "sleep")

(* pcc_poll_rate_reports() and steer_poll(), which have modules of their own. *)
Poll == Goto("poll", IF Pcc THEN "sleep" ELSE "loop")

(* One hundred naps of 10 ms, or fewer once asked to stop.                    *)
(* variant: host_stop = false stands inside the loop *)
SleepThenReset == Goto("sleep", IF Standalone /\ ~stop THEN "poll" ELSE "enter")

Sleep == Goto("sleep", IF Standalone /\ ~stop THEN "poll" ELSE "loop")

(* doca_pcc_wait() returns when PCC leaves its state, when the time is up, or *)
(* with an error.                                                             *)
WaitPcc ==
  /\ pc = "wait"
  /\ \/ /\ proc # "active" \/ (Pcc /\ argv.wait_time > 0)
        /\ pc' = "loop" /\ UNCHANGED exit_status
     \/ pc' = CleanUp[1] /\ exit_status' = IF Pcc THEN "failure" ELSE "success"
  /\ UNCHANGED <<argv, held, failed, flags, g_steer, world>>

(* ------------------------------- clean-up -------------------------------- *)

(* A release that fails is reported: doca_pcc returns failure then.           *)
Release(step, what) ==
  /\ pc = step /\ pc' = After(step)
  /\ \/ held' = held \ what /\ UNCHANGED <<failed, exit_status>>
     \/ /\ failed' = failed \cup (held \cap what) /\ UNCHANGED held
        /\ exit_status' = IF Pcc THEN "failure" ELSE exit_status
  /\ UNCHANGED <<argv, flags, g_steer>>

(* doca_pcc_stop() returns success once no callback runs any more.            *)
StopPcc ==
  IF "running" \notin held THEN Goto("doca_pcc_stop", After("doca_pcc_stop"))
  ELSE /\ Release("doca_pcc_stop", {"running"})
       /\ "running" \in held' \/ ~report
       /\ proc' = IF "running" \in held' THEN proc ELSE "off"
       /\ UNCHANGED report

SteerStop ==
  IF ~g_steer.started THEN Goto("steer_stop", After("steer_stop"))
  ELSE /\ pc = "steer_stop" /\ pc' = "steer_down"
       /\ g_steer' = [started |-> FALSE, grouping_enabled |-> FALSE]
       /\ UNCHANGED <<argv, held, failed, flags, world, exit_status>>

(* The pipes are flushed, the representors' ports stopped before the port of  *)
(* the PF, and DOCA Flow closed; failures are only warned about.              *)
SteerDown == <<"pipes", "rep1", "rep0", "port", "flow">>

StopSteering ==
  /\ pc = "steer_down"
  /\ \/ \E i \in 1 .. Len(SteerDown) :
          /\ SteerDown[i] \in held /\ \A j \in 1 .. i - 1 : SteerDown[j] \notin held
          /\ held' = held \ {SteerDown[i]} /\ UNCHANGED pc
     \/ /\ \A i \in 1 .. Len(SteerDown) : SteerDown[i] \notin held
        /\ pc' = After("steer_stop") /\ UNCHANGED held
  /\ UNCHANGED <<argv, failed, flags, g_steer, world, exit_status>>

DestroyPcc == Release("doca_pcc_destroy", {"pcc"}) /\ UNCHANGED world

CloseDevice == Release("doca_dev_close", {"dev"}) /\ UNCHANGED world

(* Nothing opened from the command line outlives argp.                        *)
DestroyArgp == Release("doca_argp_destroy", {"argp", "steer_dev"}) /\ UNCHANGED world

(* ------------------------------ environment ------------------------------ *)

(* A signal without a handler ends the process; doca_pcc_ecn_rp restores the  *)
(* default for the second SIGINT.                                             *)
Signal(s) ==
  /\ ~Over /\ signals < MaxSignals /\ signals' = signals + 1
  /\ IF s \notin handled
     THEN pc' = "killed" /\ UNCHANGED <<handled, stop, got_debug_sig>>
     ELSE /\ stop' = (stop \/ s # "SIGUSR1")
          /\ got_debug_sig' = (got_debug_sig \/ s = "SIGUSR1")
          /\ handled' = IF EcnRp THEN handled \ {s} ELSE handled
          /\ UNCHANGED pc
  /\ UNCHANGED <<argv, held, failed, enable_debug, g_steer, world, exit_status>>

PccLeaves ==
  /\ ~Over /\ proc = "active" /\ proc' \in {"deactivated", "error"}
  /\ UNCHANGED <<argv, pc, held, failed, flags, g_steer, report, exit_status>>

(* A rate report finds grouping_enabled set; later it has updated g_steer.    *)
ReportBegins ==
  /\ ~Over /\ Pcc /\ argv.doca = 3 /\ proc = "active"
  /\ ~report /\ report' = g_steer.grouping_enabled /\ report'
  /\ UNCHANGED <<argv, pc, held, failed, flags, g_steer, proc, exit_status>>

ReportEnds ==
  /\ ~Over /\ report /\ report' = FALSE
  /\ UNCHANGED <<argv, pc, held, failed, flags, g_steer, proc, exit_status>>

BringUp == \/ InstallHandlers \/ SetUpLogging \/ InitEal \/ ArgpInit \/ RegisterParams
           \/ ArgpStart \/ PccInit \/ CreateDpaResources \/ OpenPccDevice \/ OpenEcnDevice
           \/ CreatePcc \/ ConfigurePcc \/ ConfigureEcn \/ StartPcc \/ EmbedSteering \/ CheckOpts
Pipeline == \/ SteerStart \/ Probe \/ ConfigureAndStartDpdkPort \/ InitializeDocaFlow
            \/ PortStart \/ RepPortStart \/ Rep1PortStart \/ CreatePipes \/ CreateRestOfPipes
Loop == EnterLoop \/ LeaveLoop \/ QueryPcc \/ RunEcn \/ RunStandalone \/ Poll \/ Sleep \/ WaitPcc
WayDown == StopPcc \/ SteerStop \/ StopSteering \/ DestroyPcc \/ CloseDevice \/ DestroyArgp

Main == BringUp \/ Pipeline \/ Loop \/ WayDown
Environment == PccLeaves \/ ReportBegins \/ (\E s \in {"SIGINT", "SIGTERM", "SIGUSR1"} : Signal(s))
Next == Main \/ ReportEnds \/ Environment

(* The main thread and a report under way get on.                             *)
Spec == Init /\ [][Next]_vars /\ WF_vars(Main) /\ WF_vars(ReportEnds)

(* ------------------------------- properties ------------------------------ *)

Resources == {"eal", "argp", "steer_dev", "dev", "pcc", "running", "probed", "ethdev", "flow",
              "port", "rep0", "rep1", "pipes"}

TypeOK ==
  /\ argv \in Commands /\ held \subseteq Resources /\ failed \subseteq held
  /\ handled \subseteq {"SIGINT", "SIGTERM", "SIGUSR1"}
  /\ {stop, got_debug_sig, enable_debug, report} \subseteq BOOLEAN
  /\ g_steer \in [started : BOOLEAN, grouping_enabled : BOOLEAN]
  /\ proc \in {"off", "active", "deactivated", "error"}
  /\ exit_status \in {"success", "failure"} /\ signals \in 0 .. MaxSignals

(* What each resource rests on.  The pipeline runs on the device that argp    *)
(* has opened on DOCA 3, and on the one PCC has opened on DOCA 2.             *)
RestsOn(r) ==
  CASE r = "running" -> {"pcc"} [] r = "pcc" -> {"dev"} [] r = "steer_dev" -> {"argp"}
    [] r = "probed" -> {"eal"} [] r = "ethdev" -> {"probed"}
    [] r = "flow" -> {"ethdev"} \cup (IF argv.doca = 3 THEN {"steer_dev"}
                                         ELSE IF Pcc THEN {"dev"} ELSE {})
    [] r = "port" -> {"flow"} [] r \in {"rep0", "rep1", "pipes"} -> {"port"}
    [] OTHER -> {}

(* Whatever fails, and whenever a signal comes: nothing is released before    *)
(* what rests on it; the trace thread is never inside steer_update_pcc_rate() *)
(* with the pipeline being torn down, unless doca_pcc_stop() refused; and a   *)
(* program that gets to its end has let go of all it could, the ports of      *)
(* DPDK excepted, and doca_pcc says success only if nothing refused (pcc.c    *)
(* 309-340, steer_stop()).                                                    *)
ReleasedInOrder ==
  /\ \A r \in held \ failed : RestsOn(r) \subseteq held
  /\ report => g_steer.grouping_enabled \/ "running" \in failed
  /\ pc = "done" => /\ held \subseteq failed \cup {"eal", "probed", "ethdev"}
                    /\ Pcc /\ exit_status = "success" => failed = {}

(* An interrupt that finds the program in its loop ends it, in the programs   *)
(* that do not wait in doca_pcc_wait() without limit (pcc.c 253, 290, 296,    *)
(* doca_flow_steer.c 308-315).                                                *)
StopsWhenAsked ==
  (/\ stop /\ pc \in {"loop", "poll", "sleep", "wait"}
   /\ Standalone \/ (Pcc /\ (SteerEnable \/ argv.wait_time > 0))) ~> Over
=============================================================================
