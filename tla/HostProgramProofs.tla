--------------------------- MODULE HostProgramProofs ---------------------------
(* The host programs release what they hold in order, for any command lines    *)
(* and any number of signals.                                                  *)
EXTENDS HostProgram, TLAPS

(* The stretches of main().                                                    *)
Opening   == {"pcc_init", "create_dpa_resources", "open_pcc_device", "open_ecn_device"}
Setting   == {"configure", "configure_ecn", "doca_pcc_start"}
Plumbing  == {"steer_start", "probe", "configure_dpdk", "init_flow", "port_start",
              "rep_port_start", "rep1_port_start", "pipes", "rest_of_pipes"}
Turning   == {"enter", "loop", "poll", "sleep", "wait"}
Ended     == {"done", "exit", "killed"}
FlowParts == {"flow", "port", "rep0", "rep1", "pipes"}

(* While PCC runs, exists, has a device; while there may be ports.             *)
PccRuns   == {"embed", "doca_pcc_stop"} \cup Plumbing \cup Turning
PccExists == PccRuns \cup Setting \cup {"steer_stop", "steer_down", "doca_pcc_destroy"}
DevOpen   == PccExists \cup {"doca_pcc_create", "doca_dev_close"}
Piped     == {"port_start", "rep_port_start", "rep1_port_start", "pipes", "rest_of_pipes",
              "doca_pcc_stop", "steer_stop", "steer_down"} \cup Turning

Owned ==
  /\ argv \in Commands
  /\ held \subseteq Resources
  /\ failed \subseteq held \cap {"running", "pcc", "dev", "argp", "steer_dev"}
  /\ g_steer \in [started : BOOLEAN, grouping_enabled : BOOLEAN]

Plain ==
  /\ handled \subseteq {"SIGINT", "SIGTERM", "SIGUSR1"}
  /\ stop \in BOOLEAN /\ got_debug_sig \in BOOLEAN /\ enable_debug \in BOOLEAN
  /\ report \in BOOLEAN
  /\ proc \in {"off", "active", "deactivated", "error"}
  /\ exit_status \in {"success", "failure"} /\ signals \in 0 .. MaxSignals

(* Each program has its own steps.                                             *)
OwnSteps ==
  /\ Standalone => /\ pc \notin Opening \cup Setting \cup
                       {"doca_pcc_create", "embed", "wait", "doca_pcc_stop", "doca_pcc_destroy",
                        "doca_dev_close"}
                   /\ held \cap {"dev", "pcc", "running"} = {}
                   /\ proc = "off"
  /\ EcnRp => /\ pc \notin Plumbing \cup
                          {"check_opts", "embed", "enter", "poll", "sleep", "steer_stop", "steer_down"}
             /\ held \cap FlowParts = {}
  /\ Pcc => pc # "check_opts"

(* What is held for sure.                                                      *)
Sure ==
  /\ pc \in {"embed"} \cup Plumbing => NamesSteerDevice \/ argv.doca = 2
  /\ pc \in Opening \cup Setting \cup {"check_opts", "doca_pcc_create", "embed"} \cup Plumbing =>
       /\ "argp" \in held
       /\ argv.doca = 3 /\ NamesSteerDevice => "steer_dev" \in held
  /\ pc \in {"register", "argp_start"} => "argp" \in held
  /\ ~Standalone => /\ pc \in PccRuns => {"dev", "pcc", "running"} \subseteq held
                    /\ pc \in Setting => {"dev", "pcc"} \subseteq held
                    /\ pc = "doca_pcc_create" => "dev" \in held
  /\ pc = "configure_dpdk" => "probed" \in held
  /\ pc = "init_flow" => "ethdev" \in held
  /\ pc = "port_start" => "flow" \in held
  /\ pc \in {"rep_port_start", "rep1_port_start", "pipes"} => "port" \in held

(* What is not held any more, or not yet, unless it refused to be released.    *)
Gone ==
  /\ pc \notin PccRuns \cup Ended => "running" \notin held \ failed
  /\ pc \notin PccExists \cup Ended => "pcc" \notin held \ failed
  /\ pc \notin DevOpen \cup Ended => "dev" \notin held \ failed
  /\ pc \notin Piped \cup Ended => held \cap FlowParts = {}
  /\ pc \in {"doca_pcc_stop", "steer_stop"} \cup Turning =>
       (held \cap FlowParts # {} => g_steer.started)
  /\ pc = "done" => /\ held \cap FlowParts = {}
                    /\ held \ failed \subseteq {"eal", "probed", "ethdev"}

(* Nothing has failed before the way down; doca_pcc tells of a failure.        *)
Failures ==
  /\ failed # {} => pc \in {"steer_stop", "steer_down", "doca_pcc_destroy", "doca_dev_close",
                            "doca_argp_destroy"} \cup Ended
  /\ Pcc /\ failed # {} => exit_status = "failure"

(* The trace thread.                                                           *)
Reporting ==
  /\ report => Pcc /\ (g_steer.grouping_enabled \/ "running" \in failed)
  /\ pc = "steer_stop" => "running" \in failed \/ (~report /\ proc # "active")

(* RestsOn(), thing by thing.                                                  *)
Founded ==
  LET firm == held \ failed
  IN  /\ "running" \in firm => "pcc" \in held
      /\ "pcc" \in firm => "dev" \in held
      /\ "steer_dev" \in firm => "argp" \in held
      /\ "probed" \in firm => "eal" \in held
      /\ "ethdev" \in firm => "probed" \in held
      /\ "flow" \in firm => /\ "ethdev" \in held
                            /\ argv.doca = 3 => "steer_dev" \in held
                            /\ argv.doca = 2 /\ Pcc => "dev" \in held
      /\ "port" \in firm => "flow" \in held
      /\ firm \cap {"rep0", "rep1", "pipes"} # {} => "port" \in held

Inv == Owned /\ Plain /\ OwnSteps /\ Sure /\ Gone /\ Failures /\ Reporting /\ Founded

(* One of three programs, on one of two DOCAs.                                 *)
LEMMA Kinds ==
  ASSUME Owned
  PROVE  /\ argv.doca \in {2, 3}
         /\ argv.file \in {"pcc", "doca_flow_steer", "pcc_ecn_rp"}
BY HostProgramAssumption DEF Owned

(* The ways down: the order in which each program releases what it holds.      *)
LEMMA CleanUpOrder ==
  ASSUME Owned
  PROVE  /\ Pcc => /\ CleanUp[1] = "doca_pcc_stop"
                   /\ After("doca_pcc_stop") = "steer_stop"
                   /\ After("steer_stop") = "doca_pcc_destroy"
                   /\ After("doca_pcc_destroy") = "doca_dev_close"
                   /\ After("doca_dev_close") = "doca_argp_destroy"
                   /\ After("doca_argp_destroy") = "done"
         /\ EcnRp => /\ CleanUp[1] = "doca_pcc_stop"
                     /\ After("doca_pcc_stop") = "doca_pcc_destroy"
                     /\ After("doca_pcc_destroy") = "doca_dev_close"
                     /\ After("doca_dev_close") = "doca_argp_destroy"
                     /\ After("doca_argp_destroy") = "done"
         /\ Standalone => /\ CleanUp[1] = "steer_stop"
                          /\ After("steer_stop") = "doca_argp_destroy"
                          /\ After("doca_argp_destroy") = "done"
<1>1. CASE Pcc
  <2>1. CleanUp = <<"doca_pcc_stop", "steer_stop", "doca_pcc_destroy", "doca_dev_close",
                    "doca_argp_destroy", "done">>
    BY <1>1 DEF CleanUp, PccCleanUp, Pcc, EcnRp, Standalone
  <2> QED
    BY <1>1, <2>1 DEF After, Pcc, EcnRp, Standalone
<1>2. CASE EcnRp
  <2>1. CleanUp = <<"doca_pcc_stop", "doca_pcc_destroy", "doca_dev_close",
                    "doca_argp_destroy", "done">>
    BY <1>2 DEF CleanUp, EcnCleanUp, Pcc, EcnRp, Standalone
  <2> QED
    BY <1>2, <2>1 DEF After, Pcc, EcnRp, Standalone
<1>3. CASE Standalone
  <2>1. CleanUp = <<"steer_stop", "doca_argp_destroy", "done">>
    BY <1>3 DEF CleanUp, SteerCleanUp, Pcc, EcnRp, Standalone
  <2> QED
    BY <1>3, <2>1 DEF After, Pcc, EcnRp, Standalone
<1> QED
  BY <1>1, <1>2, <1>3, Kinds DEF Pcc, EcnRp, Standalone

(* The command line stays, what is held is named, only some of it can refuse.  *)
(* Every action keeps Owned.                                                   *)
LEMMA OwnedStep == Inv /\ [Next]_vars => Owned'
<1> SUFFICES ASSUME Owned, [Next]_vars PROVE Owned'
  BY DEF Inv
<1> USE Kinds, CleanUpOrder DEF Owned, Resources
<1>1. CASE UNCHANGED vars
  BY <1>1 DEF vars, flags, world
<1>2. CASE InstallHandlers
  BY <1>2 DEF InstallHandlers, flags, world
<1>3. CASE SetUpLogging
  BY <1>3 DEF SetUpLogging, Try, flags, world
<1>4. CASE InitEal
  BY <1>4 DEF InitEal, EarlyEal, Try, Goto, flags, world
<1>5. CASE ArgpInit
  BY <1>5 DEF ArgpInit, Try, flags, world
<1>6. CASE RegisterParams
  BY <1>6 DEF RegisterParams, ArgpFails, Try, flags, world
<1>7. CASE ArgpStart
  BY <1>7 DEF ArgpStart, ArgpFails, Try, Goto, flags, world
<1>8. CASE PccInit
  BY <1>8 DEF PccInit, Goto, flags, world
<1>9. CASE CreateDpaResources
  BY <1>9 DEF CreateDpaResources, Try, Goto, flags, world
<1>10. CASE OpenPccDevice
  BY <1>10 DEF OpenPccDevice, Try, flags, world
<1>11. CASE OpenEcnDevice
  BY <1>11 DEF OpenEcnDevice, Try, Goto, flags, world
<1>12. CASE CreatePcc
  BY <1>12 DEF CreatePcc, Try, flags, world
<1>13. CASE ConfigurePcc
  BY <1>13 DEF ConfigurePcc, Try, flags, world
<1>14. CASE ConfigureEcn
  BY <1>14 DEF ConfigureEcn, Try, flags, world
<1>15. CASE StartPcc
  BY <1>15 DEF StartPcc, SteerEnable, flags, world
<1>16. CASE EmbedSteering
  BY <1>16 DEF EmbedSteering, Try, Goto, flags, world
<1>17. CASE CheckOpts
  BY <1>17 DEF CheckOpts, Goto, flags, world
<1>18. CASE SteerStart
  BY <1>18 DEF SteerStart, Goto, Ingress, flags, world
<1>19. CASE Probe
  BY <1>19 DEF Probe, Try, Goto, flags, world
<1>20. CASE ConfigureAndStartDpdkPort
  BY <1>20 DEF ConfigureAndStartDpdkPort, Try, flags, world
<1>21. CASE InitializeDocaFlow
  BY <1>21 DEF InitializeDocaFlow, Try, flags, world
<1>22. CASE PortStart
  BY <1>22 DEF PortStart, Try, flags, world
<1>23. CASE RepPortStart
  BY <1>23 DEF RepPortStart, Try, flags, world
<1>24. CASE Rep1PortStart
  BY <1>24 DEF Rep1PortStart, Try, flags, world
<1>25. CASE CreatePipes
  BY <1>25 DEF CreatePipes, Egress, flags, world
<1>26. CASE CreateRestOfPipes
  BY <1>26 DEF CreateRestOfPipes, flags, world
<1>27. CASE EnterLoop
  BY <1>27 DEF EnterLoop, flags, world
<1>28. CASE LeaveLoop
  BY <1>28 DEF LeaveLoop, flags, world
<1>29. CASE QueryPcc
  BY <1>29 DEF QueryPcc, SteerEnable, flags, world
<1>30. CASE RunEcn
  BY <1>30 DEF RunEcn, flags, world
<1>31. CASE RunStandalone
  BY <1>31 DEF RunStandalone, Goto, flags, world
<1>32. CASE Poll
  BY <1>32 DEF Poll, Goto, flags, world
<1>33. CASE Sleep
  BY <1>33 DEF Sleep, Goto, flags, world
<1>34. CASE WaitPcc
  BY <1>34 DEF WaitPcc, flags, world
<1>35. CASE StopPcc
  BY <1>35 DEF StopPcc, Release, Goto, flags, world
<1>36. CASE SteerStop
  <2>1. UNCHANGED <<argv, held, failed>>
    BY <1>36 DEF SteerStop, Goto
  <2>2. CASE UNCHANGED g_steer
    BY <2>1, <2>2
  <2>3. CASE g_steer' = [started |-> FALSE, grouping_enabled |-> FALSE]
    <3>1. g_steer' \in [started : BOOLEAN, grouping_enabled : BOOLEAN]
      BY <2>3, Zenon
    <3> QED
      BY <2>1, <3>1
  <2> QED
    BY <1>36, <2>2, <2>3 DEF SteerStop, Goto
<1>37. CASE StopSteering
  BY <1>37 DEF StopSteering, SteerDown, flags, world
<1>38. CASE DestroyPcc
  BY <1>38 DEF DestroyPcc, Release, flags, world
<1>39. CASE CloseDevice
  BY <1>39 DEF CloseDevice, Release, flags, world
<1>40. CASE DestroyArgp
  BY <1>40 DEF DestroyArgp, Release, flags, world
<1>41. CASE PccLeaves
  BY <1>41 DEF PccLeaves, flags, world
<1>42. CASE ReportBegins
  BY <1>42 DEF ReportBegins, flags, world
<1>43. CASE ReportEnds
  BY <1>43 DEF ReportEnds, flags, world
<1>44. ASSUME NEW s \in {"SIGINT", "SIGTERM", "SIGUSR1"}, Signal(s) PROVE Owned'
  BY <1>44 DEF Signal, Over, flags, world
<1> QED
  BY <1>1, <1>2, <1>3, <1>4, <1>5, <1>6, <1>7, <1>8, <1>9, <1>10, <1>11,
     <1>12, <1>13, <1>14, <1>15, <1>16, <1>17, <1>18, <1>19, <1>20, <1>21,
     <1>22, <1>23, <1>24, <1>25, <1>26, <1>27, <1>28, <1>29, <1>30, <1>31,
     <1>32, <1>33, <1>34, <1>35, <1>36, <1>37, <1>38, <1>39, <1>40, <1>41,
     <1>42, <1>43, <1>44
  DEF Next, Main, BringUp, Pipeline, Loop, WayDown, Environment

(* The flags and the states of the PCC process.  Every action keeps Plain.     *)
LEMMA PlainStep == Inv /\ [Next]_vars => Plain'
<1> SUFFICES ASSUME Owned, Plain, [Next]_vars PROVE Plain'
  BY DEF Inv
<1> USE Kinds, CleanUpOrder DEF Plain
<1>1. CASE UNCHANGED vars
  BY <1>1 DEF vars, flags, world
<1>2. CASE InstallHandlers
  BY <1>2 DEF InstallHandlers, flags, world
<1>3. CASE SetUpLogging
  BY <1>3 DEF SetUpLogging, Try, flags, world
<1>4. CASE InitEal
  BY <1>4 DEF InitEal, EarlyEal, Try, Goto, flags, world
<1>5. CASE ArgpInit
  BY <1>5 DEF ArgpInit, Try, flags, world
<1>6. CASE RegisterParams
  BY <1>6 DEF RegisterParams, ArgpFails, Try, flags, world
<1>7. CASE ArgpStart
  BY <1>7 DEF ArgpStart, ArgpFails, Try, Goto, flags, world
<1>8. CASE PccInit
  BY <1>8 DEF PccInit, Goto, flags, world
<1>9. CASE CreateDpaResources
  BY <1>9 DEF CreateDpaResources, Try, Goto, flags, world
<1>10. CASE OpenPccDevice
  BY <1>10 DEF OpenPccDevice, Try, flags, world
<1>11. CASE OpenEcnDevice
  BY <1>11 DEF OpenEcnDevice, Try, Goto, flags, world
<1>12. CASE CreatePcc
  BY <1>12 DEF CreatePcc, Try, flags, world
<1>13. CASE ConfigurePcc
  BY <1>13 DEF ConfigurePcc, Try, flags, world
<1>14. CASE ConfigureEcn
  BY <1>14 DEF ConfigureEcn, Try, flags, world
<1>15. CASE StartPcc
  BY <1>15 DEF StartPcc, SteerEnable, flags, world
<1>16. CASE EmbedSteering
  BY <1>16 DEF EmbedSteering, Try, Goto, flags, world
<1>17. CASE CheckOpts
  BY <1>17 DEF CheckOpts, Goto, flags, world
<1>18. CASE SteerStart
  BY <1>18 DEF SteerStart, Goto, Ingress, flags, world
<1>19. CASE Probe
  BY <1>19 DEF Probe, Try, Goto, flags, world
<1>20. CASE ConfigureAndStartDpdkPort
  BY <1>20 DEF ConfigureAndStartDpdkPort, Try, flags, world
<1>21. CASE InitializeDocaFlow
  BY <1>21 DEF InitializeDocaFlow, Try, flags, world
<1>22. CASE PortStart
  BY <1>22 DEF PortStart, Try, flags, world
<1>23. CASE RepPortStart
  BY <1>23 DEF RepPortStart, Try, flags, world
<1>24. CASE Rep1PortStart
  BY <1>24 DEF Rep1PortStart, Try, flags, world
<1>25. CASE CreatePipes
  BY <1>25 DEF CreatePipes, Egress, flags, world
<1>26. CASE CreateRestOfPipes
  BY <1>26 DEF CreateRestOfPipes, flags, world
<1>27. CASE EnterLoop
  BY <1>27 DEF EnterLoop, flags, world
<1>28. CASE LeaveLoop
  BY <1>28 DEF LeaveLoop, flags, world
<1>29. CASE QueryPcc
  BY <1>29 DEF QueryPcc, SteerEnable, flags, world
<1>30. CASE RunEcn
  BY <1>30 DEF RunEcn, flags, world
<1>31. CASE RunStandalone
  BY <1>31 DEF RunStandalone, Goto, flags, world
<1>32. CASE Poll
  BY <1>32 DEF Poll, Goto, flags, world
<1>33. CASE Sleep
  BY <1>33 DEF Sleep, Goto, flags, world
<1>34. CASE WaitPcc
  BY <1>34 DEF WaitPcc, flags, world
<1>35. CASE StopPcc
  BY <1>35 DEF StopPcc, Release, Goto, flags, world
<1>36. CASE SteerStop
  BY <1>36 DEF SteerStop, Goto, flags, world
<1>37. CASE StopSteering
  BY <1>37 DEF StopSteering, SteerDown, flags, world
<1>38. CASE DestroyPcc
  BY <1>38 DEF DestroyPcc, Release, flags, world
<1>39. CASE CloseDevice
  BY <1>39 DEF CloseDevice, Release, flags, world
<1>40. CASE DestroyArgp
  BY <1>40 DEF DestroyArgp, Release, flags, world
<1>41. CASE PccLeaves
  BY <1>41 DEF PccLeaves, flags, world
<1>42. CASE ReportBegins
  BY <1>42 DEF ReportBegins, flags, world
<1>43. CASE ReportEnds
  BY <1>43 DEF ReportEnds, flags, world
<1>44. ASSUME NEW s \in {"SIGINT", "SIGTERM", "SIGUSR1"}, Signal(s) PROVE Plain'
  <2>1. signals' \in 0 .. MaxSignals
    BY <1>44, HostProgramAssumption DEF Signal
  <2>2. handled' \subseteq {"SIGINT", "SIGTERM", "SIGUSR1"}
    BY <1>44 DEF Signal
  <2>3. stop' \in BOOLEAN /\ got_debug_sig' \in BOOLEAN
    BY <1>44 DEF Signal
  <2> QED
    BY <1>44, <2>1, <2>2, <2>3 DEF Signal, flags, world
<1> QED
  BY <1>1, <1>2, <1>3, <1>4, <1>5, <1>6, <1>7, <1>8, <1>9, <1>10, <1>11,
     <1>12, <1>13, <1>14, <1>15, <1>16, <1>17, <1>18, <1>19, <1>20, <1>21,
     <1>22, <1>23, <1>24, <1>25, <1>26, <1>27, <1>28, <1>29, <1>30, <1>31,
     <1>32, <1>33, <1>34, <1>35, <1>36, <1>37, <1>38, <1>39, <1>40, <1>41,
     <1>42, <1>43, <1>44
  DEF Next, Main, BringUp, Pipeline, Loop, WayDown, Environment

(* No program is at a step of another one.  Every action keeps OwnSteps.       *)
LEMMA OwnStepsStep == Inv /\ [Next]_vars => OwnSteps'
<1> SUFFICES ASSUME Owned, OwnSteps, [Next]_vars PROVE OwnSteps'
  BY DEF Inv
<1> USE Kinds, CleanUpOrder DEF OwnSteps, FlowParts, Pcc, Standalone, EcnRp, Opening,
     Setting, Plumbing, Turning, Ended
<1>1. CASE UNCHANGED vars
  BY <1>1 DEF vars, flags, world
<1>2. CASE InstallHandlers
  BY <1>2 DEF InstallHandlers, flags, world
<1>3. CASE SetUpLogging
  BY <1>3 DEF SetUpLogging, Try, flags, world
<1>4. CASE InitEal
  BY <1>4 DEF InitEal, EarlyEal, Try, Goto, flags, world
<1>5. CASE ArgpInit
  BY <1>5 DEF ArgpInit, Try, flags, world
<1>6. CASE RegisterParams
  BY <1>6 DEF RegisterParams, ArgpFails, Try, flags, world
<1>7. CASE ArgpStart
  BY <1>7 DEF ArgpStart, ArgpFails, Try, Goto, flags, world
<1>8. CASE PccInit
  BY <1>8 DEF PccInit, Goto, flags, world
<1>9. CASE CreateDpaResources
  BY <1>9 DEF CreateDpaResources, Try, Goto, flags, world
<1>10. CASE OpenPccDevice
  BY <1>10 DEF OpenPccDevice, Try, flags, world
<1>11. CASE OpenEcnDevice
  BY <1>11 DEF OpenEcnDevice, Try, Goto, flags, world
<1>12. CASE CreatePcc
  BY <1>12 DEF CreatePcc, Try, flags, world
<1>13. CASE ConfigurePcc
  BY <1>13 DEF ConfigurePcc, Try, flags, world
<1>14. CASE ConfigureEcn
  BY <1>14 DEF ConfigureEcn, Try, flags, world
<1>15. CASE StartPcc
  BY <1>15 DEF StartPcc, SteerEnable, flags, world
<1>16. CASE EmbedSteering
  BY <1>16 DEF EmbedSteering, Try, Goto, flags, world
<1>17. CASE CheckOpts
  BY <1>17 DEF CheckOpts, Goto, flags, world
<1>18. CASE SteerStart
  BY <1>18 DEF SteerStart, Goto, Ingress, flags, world
<1>19. CASE Probe
  BY <1>19 DEF Probe, Try, Goto, flags, world
<1>20. CASE ConfigureAndStartDpdkPort
  BY <1>20 DEF ConfigureAndStartDpdkPort, Try, flags, world
<1>21. CASE InitializeDocaFlow
  BY <1>21 DEF InitializeDocaFlow, Try, flags, world
<1>22. CASE PortStart
  BY <1>22 DEF PortStart, Try, flags, world
<1>23. CASE RepPortStart
  BY <1>23 DEF RepPortStart, Try, flags, world
<1>24. CASE Rep1PortStart
  BY <1>24 DEF Rep1PortStart, Try, flags, world
<1>25. CASE CreatePipes
  BY <1>25 DEF CreatePipes, Egress, flags, world
<1>26. CASE CreateRestOfPipes
  BY <1>26 DEF CreateRestOfPipes, flags, world
<1>27. CASE EnterLoop
  BY <1>27 DEF EnterLoop, flags, world
<1>28. CASE LeaveLoop
  BY <1>28 DEF LeaveLoop, flags, world
<1>29. CASE QueryPcc
  BY <1>29 DEF QueryPcc, SteerEnable, flags, world
<1>30. CASE RunEcn
  BY <1>30 DEF RunEcn, flags, world
<1>31. CASE RunStandalone
  BY <1>31 DEF RunStandalone, Goto, flags, world
<1>32. CASE Poll
  BY <1>32 DEF Poll, Goto, flags, world
<1>33. CASE Sleep
  BY <1>33 DEF Sleep, Goto, flags, world
<1>34. CASE WaitPcc
  BY <1>34 DEF WaitPcc, flags, world
<1>35. CASE StopPcc
  BY <1>35 DEF StopPcc, Release, Goto, flags, world
<1>36. CASE SteerStop
  BY <1>36 DEF SteerStop, Goto, flags, world
<1>37. CASE StopSteering
  BY <1>37 DEF StopSteering, SteerDown, flags, world
<1>38. CASE DestroyPcc
  BY <1>38 DEF DestroyPcc, Release, flags, world
<1>39. CASE CloseDevice
  BY <1>39 DEF CloseDevice, Release, flags, world
<1>40. CASE DestroyArgp
  BY <1>40 DEF DestroyArgp, Release, flags, world
<1>41. CASE PccLeaves
  BY <1>41 DEF PccLeaves, flags, world
<1>42. CASE ReportBegins
  BY <1>42 DEF ReportBegins, flags, world
<1>43. CASE ReportEnds
  BY <1>43 DEF ReportEnds, flags, world
<1>44. ASSUME NEW s \in {"SIGINT", "SIGTERM", "SIGUSR1"}, Signal(s) PROVE OwnSteps'
  BY <1>44 DEF Signal, Over, flags, world
<1> QED
  BY <1>1, <1>2, <1>3, <1>4, <1>5, <1>6, <1>7, <1>8, <1>9, <1>10, <1>11,
     <1>12, <1>13, <1>14, <1>15, <1>16, <1>17, <1>18, <1>19, <1>20, <1>21,
     <1>22, <1>23, <1>24, <1>25, <1>26, <1>27, <1>28, <1>29, <1>30, <1>31,
     <1>32, <1>33, <1>34, <1>35, <1>36, <1>37, <1>38, <1>39, <1>40, <1>41,
     <1>42, <1>43, <1>44
  DEF Next, Main, BringUp, Pipeline, Loop, WayDown, Environment

(* What the steps taken so far have surely acquired.  Every action keeps Sure. *)
LEMMA SureStep == Inv /\ [Next]_vars => Sure'
<1> SUFFICES ASSUME Owned, OwnSteps, Sure, [Next]_vars PROVE Sure'
  BY DEF Inv
<1> USE Kinds, CleanUpOrder DEF Sure, NamesSteerDevice, PccRuns, Pcc, Standalone, EcnRp,
     Opening, Setting, Plumbing, Turning, Ended
<1>1. CASE UNCHANGED vars
  BY <1>1 DEF vars, flags, world
<1>2. CASE InstallHandlers
  BY <1>2 DEF InstallHandlers, flags, world
<1>3. CASE SetUpLogging
  BY <1>3 DEF SetUpLogging, Try, flags, world
<1>4. CASE InitEal
  BY <1>4 DEF InitEal, EarlyEal, Try, Goto, flags, world
<1>5. CASE ArgpInit
  BY <1>5 DEF ArgpInit, Try, flags, world
<1>6. CASE RegisterParams
  BY <1>6 DEF RegisterParams, ArgpFails, Try, flags, world
<1>7. CASE ArgpStart
  BY <1>7 DEF ArgpStart, ArgpFails, Try, Goto, flags, world
<1>8. CASE PccInit
  BY <1>8 DEF PccInit, Goto, flags, world
<1>9. CASE CreateDpaResources
  BY <1>9 DEF CreateDpaResources, Try, Goto, flags, world
<1>10. CASE OpenPccDevice
  BY <1>10 DEF OpenPccDevice, Try, flags, world
<1>11. CASE OpenEcnDevice
  BY <1>11 DEF OpenEcnDevice, Try, Goto, flags, world
<1>12. CASE CreatePcc
  BY <1>12 DEF CreatePcc, Try, flags, world
<1>13. CASE ConfigurePcc
  BY <1>13 DEF ConfigurePcc, Try, flags, world
<1>14. CASE ConfigureEcn
  BY <1>14 DEF ConfigureEcn, Try, flags, world
<1>15. CASE StartPcc
  BY <1>15 DEF StartPcc, SteerEnable, flags, world
<1>16. CASE EmbedSteering
  BY <1>16 DEF EmbedSteering, Try, Goto, OwnSteps, flags, world
<1>17. CASE CheckOpts
  BY <1>17 DEF CheckOpts, Goto, OwnSteps, flags, world
<1>18. CASE SteerStart
  BY <1>18 DEF SteerStart, Goto, Ingress, OwnSteps, flags, world
<1>19. CASE Probe
  BY <1>19 DEF Probe, Try, Goto, flags, world
<1>20. CASE ConfigureAndStartDpdkPort
  BY <1>20 DEF ConfigureAndStartDpdkPort, Try, flags, world
<1>21. CASE InitializeDocaFlow
  BY <1>21 DEF InitializeDocaFlow, Try, flags, world
<1>22. CASE PortStart
  BY <1>22 DEF PortStart, Try, flags, world
<1>23. CASE RepPortStart
  BY <1>23 DEF RepPortStart, Try, flags, world
<1>24. CASE Rep1PortStart
  BY <1>24 DEF Rep1PortStart, Try, flags, world
<1>25. CASE CreatePipes
  BY <1>25 DEF CreatePipes, Egress, flags, world
<1>26. CASE CreateRestOfPipes
  BY <1>26 DEF CreateRestOfPipes, flags, world
<1>27. CASE EnterLoop
  BY <1>27 DEF EnterLoop, flags, world
<1>28. CASE LeaveLoop
  BY <1>28 DEF LeaveLoop, OwnSteps, flags, world
<1>29. CASE QueryPcc
  BY <1>29 DEF QueryPcc, SteerEnable, OwnSteps, flags, world
<1>30. CASE RunEcn
  BY <1>30 DEF RunEcn, flags, world
<1>31. CASE RunStandalone
  BY <1>31 DEF RunStandalone, Goto, flags, world
<1>32. CASE Poll
  BY <1>32 DEF Poll, Goto, flags, world
<1>33. CASE Sleep
  BY <1>33 DEF Sleep, Goto, flags, world
<1>34. CASE WaitPcc
  BY <1>34 DEF WaitPcc, OwnSteps, flags, world
<1>35. CASE StopPcc
  BY <1>35 DEF StopPcc, Release, Goto, OwnSteps, flags, world
<1>36. CASE SteerStop
  BY <1>36 DEF SteerStop, Goto, OwnSteps, flags, world
<1>37. CASE StopSteering
  BY <1>37 DEF StopSteering, SteerDown, OwnSteps, flags, world
<1>38. CASE DestroyPcc
  BY <1>38 DEF DestroyPcc, Release, OwnSteps, flags, world
<1>39. CASE CloseDevice
  BY <1>39 DEF CloseDevice, Release, OwnSteps, flags, world
<1>40. CASE DestroyArgp
  BY <1>40 DEF DestroyArgp, Release, OwnSteps, flags, world
<1>41. CASE PccLeaves
  BY <1>41 DEF PccLeaves, flags, world
<1>42. CASE ReportBegins
  BY <1>42 DEF ReportBegins, flags, world
<1>43. CASE ReportEnds
  BY <1>43 DEF ReportEnds, flags, world
<1>44. ASSUME NEW s \in {"SIGINT", "SIGTERM", "SIGUSR1"}, Signal(s) PROVE Sure'
  BY <1>44 DEF Signal, Over, flags, world
<1> QED
  BY <1>1, <1>2, <1>3, <1>4, <1>5, <1>6, <1>7, <1>8, <1>9, <1>10, <1>11,
     <1>12, <1>13, <1>14, <1>15, <1>16, <1>17, <1>18, <1>19, <1>20, <1>21,
     <1>22, <1>23, <1>24, <1>25, <1>26, <1>27, <1>28, <1>29, <1>30, <1>31,
     <1>32, <1>33, <1>34, <1>35, <1>36, <1>37, <1>38, <1>39, <1>40, <1>41,
     <1>42, <1>43, <1>44
  DEF Next, Main, BringUp, Pipeline, Loop, WayDown, Environment

(* What has surely been released, or was never acquired.  Every action keeps   *)
(* Gone.                                                                       *)
LEMMA GoneStep == Inv /\ [Next]_vars => Gone'
<1> SUFFICES ASSUME Owned, OwnSteps, Sure, Gone, Failures, [Next]_vars PROVE Gone'
  BY DEF Inv
<1> USE Kinds, CleanUpOrder DEF Gone, FlowParts, PccRuns, PccExists, DevOpen, Piped, Pcc,
     Standalone, EcnRp, Opening, Setting, Plumbing, Turning, Ended
<1>1. CASE UNCHANGED vars
  BY <1>1 DEF vars, flags, world
<1>2. CASE InstallHandlers
  BY <1>2 DEF InstallHandlers, flags, world
<1>3. CASE SetUpLogging
  BY <1>3 DEF SetUpLogging, Try, flags, world
<1>4. CASE InitEal
  BY <1>4 DEF InitEal, EarlyEal, Try, Goto, flags, world
<1>5. CASE ArgpInit
  BY <1>5 DEF ArgpInit, Try, flags, world
<1>6. CASE RegisterParams
  BY <1>6 DEF RegisterParams, ArgpFails, Try, flags, world
<1>7. CASE ArgpStart
  BY <1>7 DEF ArgpStart, ArgpFails, Try, Goto, flags, world
<1>8. CASE PccInit
  BY <1>8 DEF PccInit, Goto, flags, world
<1>9. CASE CreateDpaResources
  BY <1>9 DEF CreateDpaResources, Try, Goto, flags, world
<1>10. CASE OpenPccDevice
  BY <1>10 DEF OpenPccDevice, Try, flags, world
<1>11. CASE OpenEcnDevice
  BY <1>11 DEF OpenEcnDevice, Try, Goto, flags, world
<1>12. CASE CreatePcc
  BY <1>12 DEF CreatePcc, Try, flags, world
<1>13. CASE ConfigurePcc
  BY <1>13 DEF ConfigurePcc, Try, flags, world
<1>14. CASE ConfigureEcn
  BY <1>14 DEF ConfigureEcn, Try, flags, world
<1>15. CASE StartPcc
  BY <1>15 DEF StartPcc, SteerEnable, flags, world
<1>16. CASE EmbedSteering
  BY <1>16 DEF EmbedSteering, Try, Goto, OwnSteps, flags, world
<1>17. CASE CheckOpts
  BY <1>17 DEF CheckOpts, Goto, OwnSteps, flags, world
<1>18. CASE SteerStart
  BY <1>18 DEF SteerStart, Goto, Ingress, OwnSteps, flags, world
<1>19. CASE Probe
  BY <1>19 DEF Probe, Try, Goto, flags, world
<1>20. CASE ConfigureAndStartDpdkPort
  BY <1>20 DEF ConfigureAndStartDpdkPort, Try, flags, world
<1>21. CASE InitializeDocaFlow
  BY <1>21 DEF InitializeDocaFlow, Try, flags, world
<1>22. CASE PortStart
  BY <1>22 DEF PortStart, Try, flags, world
<1>23. CASE RepPortStart
  BY <1>23 DEF RepPortStart, Try, flags, world
<1>24. CASE Rep1PortStart
  BY <1>24 DEF Rep1PortStart, Try, flags, world
<1>25. CASE CreatePipes
  BY <1>25 DEF CreatePipes, Egress, flags, world
<1>26. CASE CreateRestOfPipes
  BY <1>26 DEF CreateRestOfPipes, Owned, flags, world
<1>27. CASE EnterLoop
  BY <1>27 DEF EnterLoop, flags, world
<1>28. CASE LeaveLoop
  BY <1>28 DEF LeaveLoop, OwnSteps, flags, world
<1>29. CASE QueryPcc
  BY <1>29 DEF QueryPcc, SteerEnable, OwnSteps, flags, world
<1>30. CASE RunEcn
  BY <1>30 DEF RunEcn, flags, world
<1>31. CASE RunStandalone
  BY <1>31 DEF RunStandalone, Goto, flags, world
<1>32. CASE Poll
  BY <1>32 DEF Poll, Goto, flags, world
<1>33. CASE Sleep
  BY <1>33 DEF Sleep, Goto, flags, world
<1>34. CASE WaitPcc
  BY <1>34 DEF WaitPcc, OwnSteps, flags, world
<1>35. CASE StopPcc
  BY <1>35 DEF StopPcc, Release, Goto, OwnSteps, flags, world
<1>36. CASE SteerStop
  BY <1>36 DEF SteerStop, Goto, OwnSteps, flags, world
<1>37. CASE StopSteering
  BY <1>37 DEF StopSteering, SteerDown, OwnSteps, flags, world
<1>38. CASE DestroyPcc
  BY <1>38 DEF DestroyPcc, Release, OwnSteps, flags, world
<1>39. CASE CloseDevice
  BY <1>39 DEF CloseDevice, Release, OwnSteps, flags, world
<1>40. CASE DestroyArgp
  BY <1>40 DEF DestroyArgp, Release, OwnSteps, Owned, Resources, flags, world
<1>41. CASE PccLeaves
  BY <1>41 DEF PccLeaves, flags, world
<1>42. CASE ReportBegins
  BY <1>42 DEF ReportBegins, flags, world
<1>43. CASE ReportEnds
  BY <1>43 DEF ReportEnds, flags, world
<1>44. ASSUME NEW s \in {"SIGINT", "SIGTERM", "SIGUSR1"}, Signal(s) PROVE Gone'
  BY <1>44 DEF Signal, Over, flags, world
<1> QED
  BY <1>1, <1>2, <1>3, <1>4, <1>5, <1>6, <1>7, <1>8, <1>9, <1>10, <1>11,
     <1>12, <1>13, <1>14, <1>15, <1>16, <1>17, <1>18, <1>19, <1>20, <1>21,
     <1>22, <1>23, <1>24, <1>25, <1>26, <1>27, <1>28, <1>29, <1>30, <1>31,
     <1>32, <1>33, <1>34, <1>35, <1>36, <1>37, <1>38, <1>39, <1>40, <1>41,
     <1>42, <1>43, <1>44
  DEF Next, Main, BringUp, Pipeline, Loop, WayDown, Environment

(* Nothing refuses to be released before the way down.  Every action keeps     *)
(* Failures.                                                                   *)
LEMMA FailuresStep == Inv /\ [Next]_vars => Failures'
<1> SUFFICES ASSUME Owned, OwnSteps, Failures, [Next]_vars PROVE Failures'
  BY DEF Inv
<1> USE Kinds, CleanUpOrder DEF Failures, Pcc, Standalone, EcnRp, Opening, Setting,
     Plumbing, Turning, Ended
<1>1. CASE UNCHANGED vars
  BY <1>1 DEF vars, flags, world
<1>2. CASE InstallHandlers
  BY <1>2 DEF InstallHandlers, flags, world
<1>3. CASE SetUpLogging
  BY <1>3 DEF SetUpLogging, Try, flags, world
<1>4. CASE InitEal
  BY <1>4 DEF InitEal, EarlyEal, Try, Goto, flags, world
<1>5. CASE ArgpInit
  BY <1>5 DEF ArgpInit, Try, flags, world
<1>6. CASE RegisterParams
  BY <1>6 DEF RegisterParams, ArgpFails, Try, flags, world
<1>7. CASE ArgpStart
  BY <1>7 DEF ArgpStart, ArgpFails, Try, Goto, flags, world
<1>8. CASE PccInit
  BY <1>8 DEF PccInit, Goto, flags, world
<1>9. CASE CreateDpaResources
  BY <1>9 DEF CreateDpaResources, Try, Goto, flags, world
<1>10. CASE OpenPccDevice
  BY <1>10 DEF OpenPccDevice, Try, flags, world
<1>11. CASE OpenEcnDevice
  BY <1>11 DEF OpenEcnDevice, Try, Goto, flags, world
<1>12. CASE CreatePcc
  BY <1>12 DEF CreatePcc, Try, flags, world
<1>13. CASE ConfigurePcc
  BY <1>13 DEF ConfigurePcc, Try, flags, world
<1>14. CASE ConfigureEcn
  BY <1>14 DEF ConfigureEcn, Try, flags, world
<1>15. CASE StartPcc
  BY <1>15 DEF StartPcc, SteerEnable, flags, world
<1>16. CASE EmbedSteering
  BY <1>16 DEF EmbedSteering, Try, Goto, OwnSteps, Opening, Setting, Plumbing, Turning,
       Ended, flags, world
<1>17. CASE CheckOpts
  BY <1>17 DEF CheckOpts, Goto, OwnSteps, Opening, Setting, Plumbing, Turning, Ended, flags,
       world
<1>18. CASE SteerStart
  BY <1>18 DEF SteerStart, Goto, Ingress, OwnSteps, Opening, Setting, Plumbing, Turning,
       Ended, flags, world
<1>19. CASE Probe
  BY <1>19 DEF Probe, Try, Goto, flags, world
<1>20. CASE ConfigureAndStartDpdkPort
  BY <1>20 DEF ConfigureAndStartDpdkPort, Try, flags, world
<1>21. CASE InitializeDocaFlow
  BY <1>21 DEF InitializeDocaFlow, Try, flags, world
<1>22. CASE PortStart
  BY <1>22 DEF PortStart, Try, flags, world
<1>23. CASE RepPortStart
  BY <1>23 DEF RepPortStart, Try, flags, world
<1>24. CASE Rep1PortStart
  BY <1>24 DEF Rep1PortStart, Try, flags, world
<1>25. CASE CreatePipes
  BY <1>25 DEF CreatePipes, Egress, flags, world
<1>26. CASE CreateRestOfPipes
  BY <1>26 DEF CreateRestOfPipes, flags, world
<1>27. CASE EnterLoop
  BY <1>27 DEF EnterLoop, flags, world
<1>28. CASE LeaveLoop
  BY <1>28 DEF LeaveLoop, OwnSteps, Opening, Setting, Plumbing, Turning, Ended, flags, world
<1>29. CASE QueryPcc
  BY <1>29 DEF QueryPcc, SteerEnable, OwnSteps, Opening, Setting, Plumbing, Turning, Ended,
       flags, world
<1>30. CASE RunEcn
  BY <1>30 DEF RunEcn, flags, world
<1>31. CASE RunStandalone
  BY <1>31 DEF RunStandalone, Goto, flags, world
<1>32. CASE Poll
  BY <1>32 DEF Poll, Goto, flags, world
<1>33. CASE Sleep
  BY <1>33 DEF Sleep, Goto, flags, world
<1>34. CASE WaitPcc
  BY <1>34 DEF WaitPcc, OwnSteps, Opening, Setting, Plumbing, Turning, Ended, flags, world
<1>35. CASE StopPcc
  BY <1>35 DEF StopPcc, Release, Goto, OwnSteps, Opening, Setting, Plumbing, Turning, Ended,
       flags, world
<1>36. CASE SteerStop
  BY <1>36 DEF SteerStop, Goto, OwnSteps, Opening, Setting, Plumbing, Turning, Ended, flags,
       world
<1>37. CASE StopSteering
  BY <1>37 DEF StopSteering, SteerDown, OwnSteps, Opening, Setting, Plumbing, Turning,
       Ended, flags, world
<1>38. CASE DestroyPcc
  BY <1>38 DEF DestroyPcc, Release, OwnSteps, Opening, Setting, Plumbing, Turning, Ended,
       flags, world
<1>39. CASE CloseDevice
  BY <1>39 DEF CloseDevice, Release, OwnSteps, Opening, Setting, Plumbing, Turning, Ended,
       flags, world
<1>40. CASE DestroyArgp
  BY <1>40 DEF DestroyArgp, Release, OwnSteps, Opening, Setting, Plumbing, Turning, Ended,
       flags, world
<1>41. CASE PccLeaves
  BY <1>41 DEF PccLeaves, flags, world
<1>42. CASE ReportBegins
  BY <1>42 DEF ReportBegins, flags, world
<1>43. CASE ReportEnds
  BY <1>43 DEF ReportEnds, flags, world
<1>44. ASSUME NEW s \in {"SIGINT", "SIGTERM", "SIGUSR1"}, Signal(s) PROVE Failures'
  BY <1>44 DEF Signal, Over, flags, world
<1> QED
  BY <1>1, <1>2, <1>3, <1>4, <1>5, <1>6, <1>7, <1>8, <1>9, <1>10, <1>11,
     <1>12, <1>13, <1>14, <1>15, <1>16, <1>17, <1>18, <1>19, <1>20, <1>21,
     <1>22, <1>23, <1>24, <1>25, <1>26, <1>27, <1>28, <1>29, <1>30, <1>31,
     <1>32, <1>33, <1>34, <1>35, <1>36, <1>37, <1>38, <1>39, <1>40, <1>41,
     <1>42, <1>43, <1>44
  DEF Next, Main, BringUp, Pipeline, Loop, WayDown, Environment

(* The trace thread and the embedded steering.  Every action keeps Reporting.  *)
LEMMA ReportingStep == Inv /\ [Next]_vars => Reporting'
<1> SUFFICES ASSUME Owned, OwnSteps, Sure, Failures, Reporting, [Next]_vars PROVE Reporting'
  BY DEF Inv
<1> USE Kinds, CleanUpOrder DEF Reporting, Pcc, Standalone, EcnRp
<1>1. CASE UNCHANGED vars
  BY <1>1 DEF vars, flags, world
<1>2. CASE InstallHandlers
  BY <1>2 DEF InstallHandlers, flags, world
<1>3. CASE SetUpLogging
  BY <1>3 DEF SetUpLogging, Try, flags, world
<1>4. CASE InitEal
  BY <1>4 DEF InitEal, EarlyEal, Try, Goto, flags, world
<1>5. CASE ArgpInit
  BY <1>5 DEF ArgpInit, Try, flags, world
<1>6. CASE RegisterParams
  BY <1>6 DEF RegisterParams, ArgpFails, Try, flags, world
<1>7. CASE ArgpStart
  BY <1>7 DEF ArgpStart, ArgpFails, Try, Goto, flags, world
<1>8. CASE PccInit
  BY <1>8 DEF PccInit, Goto, flags, world
<1>9. CASE CreateDpaResources
  BY <1>9 DEF CreateDpaResources, Try, Goto, flags, world
<1>10. CASE OpenPccDevice
  BY <1>10 DEF OpenPccDevice, Try, flags, world
<1>11. CASE OpenEcnDevice
  BY <1>11 DEF OpenEcnDevice, Try, Goto, flags, world
<1>12. CASE CreatePcc
  BY <1>12 DEF CreatePcc, Try, flags, world
<1>13. CASE ConfigurePcc
  BY <1>13 DEF ConfigurePcc, Try, flags, world
<1>14. CASE ConfigureEcn
  BY <1>14 DEF ConfigureEcn, Try, flags, world
<1>15. CASE StartPcc
  BY <1>15 DEF StartPcc, SteerEnable, flags, world
<1>16. CASE EmbedSteering
  BY <1>16 DEF EmbedSteering, Try, Goto, OwnSteps, Opening, Setting, Plumbing, Turning,
       Ended, flags, world
<1>17. CASE CheckOpts
  BY <1>17 DEF CheckOpts, Goto, OwnSteps, Opening, Setting, Plumbing, Turning, Ended, flags,
       world
<1>18. CASE SteerStart
  BY <1>18 DEF SteerStart, Goto, Ingress, OwnSteps, Opening, Setting, Plumbing, Turning,
       Ended, flags, world
<1>19. CASE Probe
  BY <1>19 DEF Probe, Try, Goto, flags, world
<1>20. CASE ConfigureAndStartDpdkPort
  BY <1>20 DEF ConfigureAndStartDpdkPort, Try, flags, world
<1>21. CASE InitializeDocaFlow
  BY <1>21 DEF InitializeDocaFlow, Try, flags, world
<1>22. CASE PortStart
  BY <1>22 DEF PortStart, Try, flags, world
<1>23. CASE RepPortStart
  BY <1>23 DEF RepPortStart, Try, flags, world
<1>24. CASE Rep1PortStart
  BY <1>24 DEF Rep1PortStart, Try, flags, world
<1>25. CASE CreatePipes
  BY <1>25 DEF CreatePipes, Egress, Owned, flags, world
<1>26. CASE CreateRestOfPipes
  BY <1>26 DEF CreateRestOfPipes, Owned, flags, world
<1>27. CASE EnterLoop
  BY <1>27 DEF EnterLoop, flags, world
<1>28. CASE LeaveLoop
  BY <1>28 DEF LeaveLoop, OwnSteps, Opening, Setting, Plumbing, Turning, Ended, flags, world
<1>29. CASE QueryPcc
  BY <1>29 DEF QueryPcc, SteerEnable, OwnSteps, Opening, Setting, Plumbing, Turning, Ended,
       flags, world
<1>30. CASE RunEcn
  BY <1>30 DEF RunEcn, flags, world
<1>31. CASE RunStandalone
  BY <1>31 DEF RunStandalone, Goto, flags, world
<1>32. CASE Poll
  BY <1>32 DEF Poll, Goto, flags, world
<1>33. CASE Sleep
  BY <1>33 DEF Sleep, Goto, flags, world
<1>34. CASE WaitPcc
  BY <1>34 DEF WaitPcc, OwnSteps, Opening, Setting, Plumbing, Turning, Ended, flags, world
<1>35. CASE StopPcc
  BY <1>35 DEF StopPcc, Release, Goto, OwnSteps, Opening, Setting, Plumbing, Turning, Ended,
       Sure, PccRuns, flags, world
<1>36. CASE SteerStop
  BY <1>36 DEF SteerStop, Goto, OwnSteps, Opening, Setting, Plumbing, Turning, Ended, flags,
       world
<1>37. CASE StopSteering
  BY <1>37 DEF StopSteering, SteerDown, OwnSteps, Opening, Setting, Plumbing, Turning,
       Ended, flags, world
<1>38. CASE DestroyPcc
  BY <1>38 DEF DestroyPcc, Release, OwnSteps, Opening, Setting, Plumbing, Turning, Ended,
       flags, world
<1>39. CASE CloseDevice
  BY <1>39 DEF CloseDevice, Release, OwnSteps, Opening, Setting, Plumbing, Turning, Ended,
       flags, world
<1>40. CASE DestroyArgp
  BY <1>40 DEF DestroyArgp, Release, OwnSteps, Opening, Setting, Plumbing, Turning, Ended,
       flags, world
<1>41. CASE PccLeaves
  BY <1>41 DEF PccLeaves, flags, world
<1>42. CASE ReportBegins
  BY <1>42 DEF ReportBegins, flags, world
<1>43. CASE ReportEnds
  BY <1>43 DEF ReportEnds, flags, world
<1>44. ASSUME NEW s \in {"SIGINT", "SIGTERM", "SIGUSR1"}, Signal(s) PROVE Reporting'
  BY <1>44 DEF Signal, Over, flags, world
<1> QED
  BY <1>1, <1>2, <1>3, <1>4, <1>5, <1>6, <1>7, <1>8, <1>9, <1>10, <1>11,
     <1>12, <1>13, <1>14, <1>15, <1>16, <1>17, <1>18, <1>19, <1>20, <1>21,
     <1>22, <1>23, <1>24, <1>25, <1>26, <1>27, <1>28, <1>29, <1>30, <1>31,
     <1>32, <1>33, <1>34, <1>35, <1>36, <1>37, <1>38, <1>39, <1>40, <1>41,
     <1>42, <1>43, <1>44
  DEF Next, Main, BringUp, Pipeline, Loop, WayDown, Environment

(* What is held keeps what it rests on.  Every action keeps Founded.           *)
LEMMA FoundedStep == Inv /\ [Next]_vars => Founded'
<1> SUFFICES ASSUME Owned, OwnSteps, Sure, Gone, Failures, Founded, [Next]_vars PROVE Founded'
  BY DEF Inv
<1> USE Kinds, CleanUpOrder DEF Founded, Sure, NamesSteerDevice, PccRuns, Pcc, Standalone,
     EcnRp, Opening, Setting, Plumbing, Turning, Ended
<1>1. CASE UNCHANGED vars
  BY <1>1 DEF vars, flags, world
<1>2. CASE InstallHandlers
  BY <1>2 DEF InstallHandlers, flags, world
<1>3. CASE SetUpLogging
  BY <1>3 DEF SetUpLogging, Try, flags, world
<1>4. CASE InitEal
  BY <1>4 DEF InitEal, EarlyEal, Try, Goto, flags, world
<1>5. CASE ArgpInit
  BY <1>5 DEF ArgpInit, Try, flags, world
<1>6. CASE RegisterParams
  BY <1>6 DEF RegisterParams, ArgpFails, Try, flags, world
<1>7. CASE ArgpStart
  BY <1>7 DEF ArgpStart, ArgpFails, Try, Goto, Gone, PccExists, DevOpen, PccRuns, flags,
       world
<1>8. CASE PccInit
  BY <1>8 DEF PccInit, Goto, flags, world
<1>9. CASE CreateDpaResources
  BY <1>9 DEF CreateDpaResources, Try, Goto, flags, world
<1>10. CASE OpenPccDevice
  BY <1>10 DEF OpenPccDevice, Try, flags, world
<1>11. CASE OpenEcnDevice
  BY <1>11 DEF OpenEcnDevice, Try, Goto, flags, world
<1>12. CASE CreatePcc
  BY <1>12 DEF CreatePcc, Try, OwnSteps, flags, world
<1>13. CASE ConfigurePcc
  BY <1>13 DEF ConfigurePcc, Try, flags, world
<1>14. CASE ConfigureEcn
  BY <1>14 DEF ConfigureEcn, Try, flags, world
<1>15. CASE StartPcc
  BY <1>15 DEF StartPcc, SteerEnable, OwnSteps, flags, world
<1>16. CASE EmbedSteering
  BY <1>16 DEF EmbedSteering, Try, Goto, OwnSteps, Gone, FlowParts, Owned, PccRuns,
       PccExists, DevOpen, Piped, flags, world
<1>17. CASE CheckOpts
  BY <1>17 DEF CheckOpts, Goto, OwnSteps, Gone, FlowParts, Owned, PccRuns, PccExists,
       DevOpen, Piped, flags, world
<1>18. CASE SteerStart
  BY <1>18 DEF SteerStart, Goto, Ingress, OwnSteps, Gone, FlowParts, Owned, PccRuns,
       PccExists, DevOpen, Piped, flags, world
<1>19. CASE Probe
  BY <1>19 DEF Probe, Try, Goto, flags, world
<1>20. CASE ConfigureAndStartDpdkPort
  BY <1>20 DEF ConfigureAndStartDpdkPort, Try, flags, world
<1>21. CASE InitializeDocaFlow
  BY <1>21 DEF InitializeDocaFlow, Try, OwnSteps, Owned, flags, world
<1>22. CASE PortStart
  BY <1>22 DEF PortStart, Try, flags, world
<1>23. CASE RepPortStart
  BY <1>23 DEF RepPortStart, Try, flags, world
<1>24. CASE Rep1PortStart
  BY <1>24 DEF Rep1PortStart, Try, flags, world
<1>25. CASE CreatePipes
  BY <1>25 DEF CreatePipes, Egress, flags, world
<1>26. CASE CreateRestOfPipes
  BY <1>26 DEF CreateRestOfPipes, flags, world
<1>27. CASE EnterLoop
  BY <1>27 DEF EnterLoop, flags, world
<1>28. CASE LeaveLoop
  BY <1>28 DEF LeaveLoop, OwnSteps, Gone, FlowParts, Owned, PccRuns, PccExists, DevOpen,
       Piped, flags, world
<1>29. CASE QueryPcc
  BY <1>29 DEF QueryPcc, SteerEnable, OwnSteps, Gone, FlowParts, Owned, PccRuns, PccExists,
       DevOpen, Piped, flags, world
<1>30. CASE RunEcn
  BY <1>30 DEF RunEcn, flags, world
<1>31. CASE RunStandalone
  BY <1>31 DEF RunStandalone, Goto, flags, world
<1>32. CASE Poll
  BY <1>32 DEF Poll, Goto, flags, world
<1>33. CASE Sleep
  BY <1>33 DEF Sleep, Goto, flags, world
<1>34. CASE WaitPcc
  BY <1>34 DEF WaitPcc, OwnSteps, Gone, FlowParts, Owned, PccRuns, PccExists, DevOpen,
       Piped, flags, world
<1>35. CASE StopPcc
  BY <1>35 DEF StopPcc, Release, Goto, OwnSteps, Gone, FlowParts, Owned, PccRuns, PccExists,
       DevOpen, Piped, flags, world
<1>36. CASE SteerStop
  BY <1>36 DEF SteerStop, Goto, OwnSteps, Gone, FlowParts, Owned, PccRuns, PccExists,
       DevOpen, Piped, flags, world
<1>37. CASE StopSteering
  BY <1>37 DEF StopSteering, SteerDown, OwnSteps, Gone, FlowParts, Owned, PccRuns,
       PccExists, DevOpen, Piped, flags, world
<1>38. CASE DestroyPcc
  BY <1>38 DEF DestroyPcc, Release, OwnSteps, Gone, FlowParts, Owned, PccRuns, PccExists,
       DevOpen, Piped, flags, world
<1>39. CASE CloseDevice
  BY <1>39 DEF CloseDevice, Release, OwnSteps, Gone, FlowParts, Owned, PccRuns, PccExists,
       DevOpen, Piped, flags, world
<1>40. CASE DestroyArgp
  BY <1>40 DEF DestroyArgp, Release, OwnSteps, Gone, FlowParts, Owned, PccRuns, PccExists,
       DevOpen, Piped, flags, world
<1>41. CASE PccLeaves
  BY <1>41 DEF PccLeaves, flags, world
<1>42. CASE ReportBegins
  BY <1>42 DEF ReportBegins, flags, world
<1>43. CASE ReportEnds
  BY <1>43 DEF ReportEnds, flags, world
<1>44. ASSUME NEW s \in {"SIGINT", "SIGTERM", "SIGUSR1"}, Signal(s) PROVE Founded'
  BY <1>44 DEF Signal, Over, flags, world
<1> QED
  BY <1>1, <1>2, <1>3, <1>4, <1>5, <1>6, <1>7, <1>8, <1>9, <1>10, <1>11,
     <1>12, <1>13, <1>14, <1>15, <1>16, <1>17, <1>18, <1>19, <1>20, <1>21,
     <1>22, <1>23, <1>24, <1>25, <1>26, <1>27, <1>28, <1>29, <1>30, <1>31,
     <1>32, <1>33, <1>34, <1>35, <1>36, <1>37, <1>38, <1>39, <1>40, <1>41,
     <1>42, <1>43, <1>44
  DEF Next, Main, BringUp, Pipeline, Loop, WayDown, Environment

(* main() has acquired nothing yet.                                            *)
LEMMA InvInit == Init => Inv
<1> SUFFICES ASSUME Init PROVE Inv
  OBVIOUS
<1>1. Owned
  BY DEF Init, Owned
<1>2. signals \in 0 .. MaxSignals
  BY HostProgramAssumption DEF Init
<1>3. Plain
  BY <1>2 DEF Init, Plain
<1>4. OwnSteps /\ Founded /\ Failures /\ Reporting
  BY DEF Init, OwnSteps, Founded, Failures, Reporting, FlowParts, Opening,
     Setting, Plumbing, Turning, Ended, Pcc, EcnRp, Standalone
<1>5. Sure /\ Gone
  BY DEF Init, Sure, Gone, FlowParts, PccRuns, PccExists, DevOpen, Piped,
     Opening, Setting, Plumbing, Turning, Ended
<1> QED
  BY <1>1, <1>3, <1>4, <1>5 DEF Inv

(* The parts keep one another: every step preserves their conjunction.         *)
LEMMA Invariant == Spec => []Inv
<1>1. Inv /\ [Next]_vars => Inv'
  BY OwnedStep, PlainStep, OwnStepsStep, SureStep, GoneStep, FailuresStep, ReportingStep,
     FoundedStep DEF Inv
<1> QED
  BY InvInit, <1>1, PTL DEF Spec

(* Type correctness (pcc.c, doca_flow_steer.c and pcc_ecn_rp.c): in particular *)
(* only what is held can have refused to be released.                          *)
THEOREM TypeInvariant == Spec => []TypeOK
<1>1. Inv => TypeOK
  BY DEF Inv, Owned, Plain, TypeOK
<1> QED
  BY Invariant, <1>1, PTL

(* ReleasedInOrder, whatever the command lines and however many signals: no    *)
(* call that fails, and no signal, makes a program release something others    *)
(* rest on, or tear the pipeline down under the trace thread (pcc.c 305-341).  *)
THEOREM AlwaysReleasedInOrder == Spec => []ReleasedInOrder
<1>1. ASSUME Inv PROVE ReleasedInOrder
  <2>1. ASSUME NEW r \in held \ failed PROVE RestsOn(r) \subseteq held
    <3>1. r \in Resources /\ Founded /\ argv.doca \in {2, 3}
      BY <1>1, <2>1, HostProgramAssumption DEF Inv, Owned
    <3> QED
      BY <2>1, <3>1 DEF Founded, RestsOn, Resources
  <2>2. report => g_steer.grouping_enabled \/ "running" \in failed
    BY <1>1 DEF Inv, Reporting
  <2>3. ASSUME pc = "done"
        PROVE  /\ held \subseteq failed \cup {"eal", "probed", "ethdev"}
               /\ Pcc /\ exit_status = "success" => failed = {}
    BY <1>1, <2>3 DEF Inv, Gone, Failures
  <2> QED
    BY <2>1, <2>2, <2>3 DEF ReleasedInOrder
<1> QED
  BY Invariant, <1>1, PTL
================================================================================
