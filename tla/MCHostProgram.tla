---------------------------- MODULE MCHostProgram ----------------------------
(* Command lines that work, and each of them with one thing wrong.            *)
EXTENDS HostProgram

Line(file, doca) ==
  [file |-> file, doca |-> doca, device |-> "known", rep |-> "none", rep1 |-> "none",
   pf |-> FALSE, ips |-> 0, threads |-> <<>>, threads_given |-> FALSE, dpa |-> "none",
   key |-> FALSE, wait_time |-> -1, force_path |-> -1, role |-> "egress", percent |-> 100]

Word(len) == [digits |-> len, len |-> len]

PlainPcc(d) == Line("pcc", d)
SteeringPcc(d) == [PlainPcc(d) EXCEPT !.rep = "apart", !.ips = 2, !.force_path = 0]
PccLines(d) ==
  {PlainPcc(d), [PlainPcc(d) EXCEPT !.wait_time = 1], [PlainPcc(d) EXCEPT !.wait_time = 0],
   [PlainPcc(d) EXCEPT !.device = "none"], [PlainPcc(d) EXCEPT !.device = "unknown"],
   [PlainPcc(d) EXCEPT !.threads_given = TRUE],
   [PlainPcc(d) EXCEPT !.threads_given = TRUE, !.threads = <<Word(1), Word(2)>>],
   [PlainPcc(d) EXCEPT !.threads_given = TRUE, !.threads = <<Word(2), Word(1)>>],
   [PlainPcc(d) EXCEPT !.dpa = "missing"], [PlainPcc(d) EXCEPT !.dpa = "file"],
   [PlainPcc(d) EXCEPT !.dpa = "file", !.key = TRUE],
   [PlainPcc(d) EXCEPT !.dpa = "file", !.key = TRUE, !.threads_given = TRUE,
                       !.threads = <<Word(1)>>],
   [PlainPcc(d) EXCEPT !.pf = TRUE, !.ips = 2],
   SteeringPcc(d), [SteeringPcc(d) EXCEPT !.ips = 1], [SteeringPcc(d) EXCEPT !.rep = "joined"],
   [SteeringPcc(d) EXCEPT !.rep = "malformed"], [SteeringPcc(d) EXCEPT !.force_path = 2]}

PlainSteer(d) == [Line("doca_flow_steer", d) EXCEPT !.rep = "apart", !.ips = 2]
Receiver(d) == [PlainSteer(d) EXCEPT !.role = "both", !.rep1 = "same_pf"]
SteerLines(d) ==
  {PlainSteer(d), [PlainSteer(d) EXCEPT !.ips = 0], [PlainSteer(d) EXCEPT !.rep = "none"],
   [PlainSteer(d) EXCEPT !.rep = "none", !.rep1 = "same_pf"],
   [PlainSteer(d) EXCEPT !.rep = "none", !.pf = TRUE], [PlainSteer(d) EXCEPT !.role = "other"],
   [PlainSteer(d) EXCEPT !.rep = "malformed"], [PlainSteer(d) EXCEPT !.percent = 101],
   Receiver(d), [Receiver(d) EXCEPT !.role = "ingress"], [Receiver(d) EXCEPT !.rep1 = "none"],
   [Receiver(d) EXCEPT !.rep1 = "other_pf"], [Receiver(d) EXCEPT !.rep1 = "other_pf_first"],
   [Receiver(d) EXCEPT !.rep = "none"], [Receiver(d) EXCEPT !.ips = 1]}

EcnLines(d) == {Line("pcc_ecn_rp", d), [Line("pcc_ecn_rp", d) EXCEPT !.device = "none"],
                [Line("pcc_ecn_rp", d) EXCEPT !.device = "unknown"]}

MCCommands == UNION {PccLines(d) \cup SteerLines(d) \cup EcnLines(d) : d \in {2, 3}}
=============================================================================
