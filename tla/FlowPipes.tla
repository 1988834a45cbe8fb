------------------------------ MODULE FlowPipes ------------------------------
(* The eSwitch as the programs of src/doca-{2,3}/doca-flow use it: pipes of   *)
(* entries, and what becomes of a packet that enters the last pipe built.     *)
EXTENDS Integers, Sequences

CONSTANTS RandomWidth,   \* RANDOM_FIELD_WIDTH, the bits of parser_meta.random
          NaN            \* the percentage atof() makes of "nan"

ASSUME RandomWidthAssumption == RandomWidth \in Nat \ {0}

ASSUME NaNAssumption == NaN \notin Int

(* What a power of two is; the provers know 2 ^ i as a number only.           *)
ASSUME PowersOfTwo == 2 ^ 0 = 1 /\ \A i \in 0 .. RandomWidth : 2 ^ (i + 1) = 2 * 2 ^ i

(* 100%: percentages are in half steps of the finest sample, 2^-RandomWidth.  *)
Whole == 2 ^ (RandomWidth + 1)

RandomValues == 0 .. 2 ^ RandomWidth - 1

Ecn == {"ce", "other"}

(* A packet as the parser sees it: the port it came in on, whether it is IPv4,*)
(* its ECN field, and its random stamp.                                       *)
Packets == {p \in [from : {"wire", "sf"}, ip4 : BOOLEAN, ecn : Ecn, random : RandomValues] :
              p.ip4 \/ p.ecn = "other"}

(* An entry matches on one field; a hit may set CE, count, copy, and forward. *)
Entry(on, to) == [on |-> on, mask |-> 0, setCe |-> FALSE, counter |-> "none",
                  copy |-> "none", to |-> to]
Pipe(name, entries, miss) == [name |-> name, flood |-> FALSE, entries |-> entries, miss |-> miss]

Ports    == {"SF", "WIRE", "CPU"}
Counters == {"ce_entry", "pass_entry", "fwd_entry", "to_sf", "to_wire"}

Hits(e, pkt) == \/ e.on = "any"
                \/ e.on = "ip4" /\ pkt.ip4
                \/ e.on = "random" /\ pkt.random % (e.mask + 1) = 0
                \/ e.on = pkt.from

(* How often a packet is seen at each port and counter, with each ECN field.  *)
Places     == Ports \cup Counters
Nothing    == [at \in Places |-> [ecn \in Ecn |-> 0]]
Once(p, e) == [at \in Places |-> [ecn \in Ecn |-> IF at = p /\ ecn = e THEN 1 ELSE 0]]
Both(a, b) == [at \in Places |-> [ecn \in Ecn |-> a[at][ecn] + b[at][ecn]]]

Times(seen, at) == seen[at]["ce"] + seen[at]["other"]

(* A pipe forwards to pipes built before it; "seen" says what is seen of the  *)
(* packet from each of them on.  A packet sent to a pipe that is not there is *)
(* dropped.                                                                   *)
Arrive(pipes, seen, i, to, ecn) ==
  LET named == {j \in 1 .. i - 1 : pipes[j].name = to}
  IN  IF to \in Ports THEN Once(to, ecn)
      ELSE IF named = {} THEN Nothing
      ELSE seen[CHOOSE j \in named : TRUE][ecn]

Leave(pipes, seen, i, e, ecn) ==
  LET set == IF e.setCe THEN "ce" ELSE ecn
  IN  Both(Once(e.counter, set),
           Both(Arrive(pipes, seen, i, e.copy, set), Arrive(pipes, seen, i, e.to, set)))

(* From pipe i on: by the first entry that matches, by both of a flooding pipe, *)
(* or to the miss pipe.                                                        *)
Visit(pipes, seen, i, pkt, ecn) ==
  LET entries == pipes[i].entries
      hits    == {k \in DOMAIN entries : Hits(entries[k], pkt)}
  IN  IF hits = {} THEN Arrive(pipes, seen, i, pipes[i].miss, ecn)
      ELSE IF pipes[i].flood
      THEN Both(Leave(pipes, seen, i, entries[1], ecn), Leave(pipes, seen, i, entries[2], ecn))
      ELSE Leave(pipes, seen, i, entries[CHOOSE k \in hits : \A l \in hits : k <= l], ecn)

(* What is seen of pkt from the root on, which is the last pipe.               *)
Journey(pipes, pkt) ==
  LET seen[i \in DOMAIN pipes] == [ecn \in Ecn |-> Visit(pipes, seen, i, pkt, ecn)]
  IN  seen[Len(pipes)][pkt.ecn]

(* The fraction 1/2^i is not above the percentage; a NaN compares with nothing. *)
Fits(percent, i) == percent # NaN /\ percent * 2 ^ i >= Whole

(* The mask of the largest fraction 1/2^i that is not above the percentage;   *)
(* the cast to uint16_t cuts the mask of the last round to the field's width. *)
GetRandomMask(percent) ==
  LET i == CHOOSE i \in 1 .. RandomWidth + 1 :
             /\ i = RandomWidth + 1 \/ Fits(percent, i)
             /\ \A j \in 1 .. i - 1 : ~Fits(percent, j)
  IN  (2 ^ i - 1) % 2 ^ RandomWidth
=============================================================================
