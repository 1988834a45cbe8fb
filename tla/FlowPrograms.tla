----------------------------- MODULE FlowPrograms -----------------------------
(* The pipelines of the DOCA Flow exercise, each a sequence of pipes in the   *)
(* order build_pipeline() creates them: the last one is the root.  A miss     *)
(* target of "DROP" stands for DOCA_FLOW_FWD_DROP and for no miss forward.    *)
EXTENDS FlowPipes

(* ---- doca-3, doca_flow_solution.c (doca-2's is the same) ----------------- *)

(* It matches everything, and so can carry what the other pipes miss.         *)
PassthroughAny == Pipe("PASSTHROUGH", <<Entry("any", "SF")>>, "DROP")

(* MARK and PASS: count IPv4, MARK sets CE; what misses goes to PASSTHROUGH.  *)
ForwardPipe(mark, copy, to) ==
  Pipe(IF mark THEN "MARK" ELSE "PASS",
       <<[on |-> "ip4", mask |-> 0, setCe |-> mark,
          counter |-> IF mark THEN "ce_entry" ELSE "pass_entry", copy |-> copy, to |-> to]>>,
       "PASSTHROUGH")

ForwardToSf(mark) == ForwardPipe(mark, "none", "SF")

(* RANDOM_SAMPLE: one packet in mask + 1 to MARK, the others to PASS.         *)
Sampling(percent) ==
  Pipe("SAMPLE", <<[Entry("random", "MARK") EXCEPT !.mask = GetRandomMask(percent)]>>, "PASS")

(* PORT_DEMUX: from the wire into the chain, from the SF back to the wire.    *)
Root(target) == Pipe("ROOT", <<Entry("wire", target), Entry("sf", "WIRE")>>, "DROP")

(* PORT_DEMUX_NOP: the same without a chain.                                  *)
RootNop == Pipe("ROOT", <<Entry("wire", "SF"), Entry("sf", "WIRE")>>, "DROP")

(* Which forwarding pipes and which entry point a percentage asks for.  All   *)
(* comparisons with a NaN are false: there is a sampler then, but no MARK.    *)
MarkIf(percent, pipe) == IF percent # NaN /\ percent > 0 THEN <<pipe>> ELSE <<>>
HeadOfChain(percent) ==
  IF percent # NaN /\ percent >= Whole THEN <<Root("MARK")>>
  ELSE IF percent # NaN /\ percent <= 0 THEN <<Root("PASS")>>
  ELSE <<Sampling(percent), Root("SAMPLE")>>

(* From the end of the chain to its entry point.                              *)
Chain(last, mark, percent) == last \o MarkIf(percent, mark) \o HeadOfChain(percent)

SolutionPipeline(percent) ==
  Chain(<<PassthroughAny, ForwardToSf(FALSE)>>, ForwardToSf(TRUE), percent)

(* The template as it is handed out.                                          *)
TemplatePipeline == <<RootNop>>

(* ---- doca-3, doca_flow_ecn_pcap.c: the copy is made by a flooding pipe --- *)

(* Matches IPv4 only, although MARK and PASS send it what is not IPv4.        *)
PassthroughIp4 == Pipe("PASSTHROUGH", <<Entry("ip4", "SF")>>, "DROP")

ToCpu == Pipe("TO_CPU", <<Entry("ip4", "CPU")>>, "DROP")

(* Every packet to both entries: on to the SF, and a copy to the CPU.         *)
Flood == [name |-> "FLOOD", flood |-> TRUE, miss |-> "DROP",
          entries |-> <<Entry("any", "PASSTHROUGH"), Entry("any", "TO_CPU")>>]

(* variant: MARK keeps its direct forward when capturing *)
CaptureForwardDirect(mark, capture) ==
  ForwardPipe(mark, "none", IF capture /\ ~mark THEN "FLOOD" ELSE "SF")

CaptureForward(mark, capture) == ForwardPipe(mark, "none", IF capture THEN "FLOOD" ELSE "SF")

FloodPipeline(percent, capture) ==
  LET pass == CaptureForward(FALSE, capture)
  IN  Chain(IF capture THEN <<PassthroughIp4, ToCpu, Flood, pass>> ELSE <<PassthroughIp4, pass>>,
            CaptureForward(TRUE, capture), percent)

(* ---- doca-2, doca_flow_ecn_pcap.c: the copy is made by a shared mirror --- *)

(* A resource of the port and not a pipe: its target is where the copy goes.  *)
CaptureMirror == Pipe("MIRROR", <<Entry("any", "TO_CPU")>>, "DROP")

(* The copy is taken after the entry's action; the original carries on.       *)
MirrorForward(mark, capture) == ForwardPipe(mark, IF capture THEN "MIRROR" ELSE "none", "SF")

MirrorPipeline(percent, capture) ==
  LET pass == MirrorForward(FALSE, capture)
  IN  Chain(IF capture THEN <<ToCpu, CaptureMirror, PassthroughIp4, pass>>
            ELSE <<PassthroughIp4, pass>>,
            MirrorForward(TRUE, capture), percent)

(* ---- doca_flow_nop.c: doca-3 forwards IPv4, doca-2 everything ------------ *)

NopForward == Pipe("FORWARD", <<[Entry("ip4", "SF") EXCEPT !.counter = "fwd_entry"]>>, "DROP")

NopPipeline == <<NopForward, Root("FORWARD")>>

Nop27Root ==
  Pipe("ROOT", <<[Entry("wire", "SF") EXCEPT !.counter = "to_sf"],
                 [Entry("sf", "WIRE") EXCEPT !.counter = "to_wire"]>>, "DROP")

(* A program and its command line; sample_n and tty matter to captures only.  *)
Pipeline(prog) ==
  CASE prog.file = "solution"                   -> SolutionPipeline(prog.percent)
    [] prog.file = "template"                   -> TemplatePipeline
    [] prog.file = "ecn_pcap" /\ prog.doca = 3  -> FloodPipeline(prog.percent, prog.capture)
    [] prog.file = "ecn_pcap" /\ prog.doca = 2  -> MirrorPipeline(prog.percent, prog.capture)
    [] prog.file = "nop" /\ prog.doca = 3       -> NopPipeline
    [] prog.file = "nop" /\ prog.doca = 2       -> <<Nop27Root>>
=============================================================================
