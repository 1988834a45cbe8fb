----------------------------- MODULE FlowRunProofs -----------------------------
(* The Flow exercises, for any width of the random field, any percentages and  *)
(* samples, any queue and any number of packets, keys and signals: nothing     *)
(* outlives what it stands on, the terminal is restored unless a signal that   *)
(* nothing catches ends the program, pausing a capture does not shift its      *)
(* sample, every packet's journey is the one its program promises, and every   *)
(* copy is accounted for.                                                      *)
EXTENDS FlowRun, SequenceTheorems, FiniteSetTheorems, WellFoundedInduction, TLAPS

(* --------------------- what a pipe does with a packet --------------------- *)

(* s is what is seen from each of the pipes up to the n-th.                    *)
Visits(pipeline, pkt, s, n) ==
  s = [i \in 1 .. n |-> [ecn \in Ecn |-> Visit(pipeline, s, i, pkt, ecn)]]

(* What is seen from a pipe on depends on the pipes before it only.            *)
LEMMA VisitLocal ==
  ASSUME NEW pipeline, NEW pkt, NEW i \in Nat, NEW s, NEW t, NEW ecn,
         \A j \in 1 .. i - 1 : s[j] = t[j]
  PROVE  Visit(pipeline, s, i, pkt, ecn) = Visit(pipeline, t, i, pkt, ecn)
<1>1. ASSUME NEW to, NEW mark
      PROVE  Arrive(pipeline, s, i, to, mark) = Arrive(pipeline, t, i, to, mark)
  <2> DEFINE named == {j \in 1 .. i - 1 : pipeline[j].name = to}
  <2>1. CASE to \notin Ports /\ named # {}
    <3>1. (CHOOSE j \in named : TRUE) \in 1 .. i - 1
      BY <2>1
    <3> QED
      BY <2>1, <3>1 DEF Arrive
  <2> QED
    BY <2>1 DEF Arrive
<1>2. ASSUME NEW e
      PROVE  Leave(pipeline, s, i, e, ecn) = Leave(pipeline, t, i, e, ecn)
  BY <1>1 DEF Leave
<1> QED
  BY <1>1, <1>2 DEF Visit

(* Such an s exists: each pipe is defined from the pipes before it.            *)
LEMMA VisitsExist ==
  ASSUME NEW pipeline, NEW pkt
  PROVE  \A n \in Nat : \E s : Visits(pipeline, pkt, s, n)
<1> DEFINE Bad == {n \in Nat : ~ \E s : Visits(pipeline, pkt, s, n)}
<1>1. SUFFICES ASSUME Bad # {} PROVE FALSE
  OBVIOUS
<1>2. PICK n \in Bad : \A m \in Bad : ~(m < n)
  <2>1. Bad \subseteq Nat
    OBVIOUS
  <2> HIDE DEF Bad
  <2>2. PICK n \in Bad : \A m \in Bad : <<m, n>> \notin OpToRel(<, Nat)
    BY <1>1, <2>1, NatLessThanWellFounded, WFMin
  <2>3. \A m \in Bad : m < n => <<m, n>> \in OpToRel(<, Nat)
    BY <2>1, <2>2 DEF OpToRel
  <2> QED
    BY <2>2, <2>3
<1>3. n \in Nat /\ \A m \in Nat : m < n => \E s : Visits(pipeline, pkt, s, m)
  BY <1>2
<1>4. n # 0
  <2>1. Visits(pipeline, pkt, <<>>, 0)
    BY DEF Visits
  <2> QED
    BY <1>2, <2>1
<1>5. PICK s : Visits(pipeline, pkt, s, n - 1)
  BY <1>3, <1>4
<1> DEFINE last == [ecn \in Ecn |-> Visit(pipeline, s, n, pkt, ecn)]
           t    == [i \in 1 .. n |-> IF i = n THEN last ELSE s[i]]
<1>6. Visits(pipeline, pkt, t, n)
  <2>1. ASSUME NEW i \in 1 .. n
        PROVE  t[i] = [ecn \in Ecn |-> Visit(pipeline, t, i, pkt, ecn)]
    <3>1. \A j \in 1 .. i - 1 : s[j] = t[j]
      BY <1>3
    <3>2. i \in Nat
      BY <1>3
    <3> HIDE DEF t
    <3>3. [ecn \in Ecn |-> Visit(pipeline, t, i, pkt, ecn)]
            = [ecn \in Ecn |-> Visit(pipeline, s, i, pkt, ecn)]
      BY <3>1, <3>2, VisitLocal
    <3>4. CASE i = n
      BY <3>3, <3>4 DEF t
    <3>5. CASE i # n
      <4>1. i \in 1 .. n - 1
        BY <1>3, <3>5
      <4>2. s[i] = [ecn \in Ecn |-> Visit(pipeline, s, i, pkt, ecn)]
        BY <1>5, <4>1 DEF Visits
      <4> QED
        BY <3>3, <3>5, <4>2 DEF t
    <3> QED
      BY <3>4, <3>5
  <2> HIDE DEF last
  <2>2. t = [i \in 1 .. n |-> t[i]]
    OBVIOUS
  <2> HIDE DEF t
  <2> QED
    BY <2>1, <2>2 DEF Visits
<1> QED
  BY <1>2, <1>6

(* A journey is that of the last pipe.                                         *)
LEMMA JourneyVisits ==
  ASSUME NEW pipeline, NEW n \in Nat, DOMAIN pipeline = 1 .. n, Len(pipeline) = n, NEW pkt
  PROVE  \E s : /\ Visits(pipeline, pkt, s, n)
                /\ Journey(pipeline, pkt) = s[n][pkt.ecn]
<1> DEFINE s == CHOOSE s : s = [i \in DOMAIN pipeline |->
                                  [ecn \in Ecn |-> Visit(pipeline, s, i, pkt, ecn)]]
<1>1. Journey(pipeline, pkt) = s[Len(pipeline)][pkt.ecn]
  BY DEF Journey
<1>2. \E x : x = [i \in DOMAIN pipeline |-> [ecn \in Ecn |-> Visit(pipeline, x, i, pkt, ecn)]]
  <2>1. PICK x : Visits(pipeline, pkt, x, n)
    BY VisitsExist
  <2> QED
    BY <2>1 DEF Visits
<1>3. s = [i \in DOMAIN pipeline |-> [ecn \in Ecn |-> Visit(pipeline, s, i, pkt, ecn)]]
  BY <1>2
<1>4. Visits(pipeline, pkt, s, n)
  BY <1>3 DEF Visits
<1> QED
  BY <1>1, <1>4

(* What can be seen of a packet: a number for each place and ECN field.        *)
Sightings == [Places -> [Ecn -> Nat]]

(* Sightings can be added, nothing being the zero.                             *)
LEMMA SightingsAdd ==
  /\ Nothing \in Sightings
  /\ \A p, e : Once(p, e) \in Sightings
  /\ \A a, b \in Sightings : Both(a, b) \in Sightings
  /\ \A a \in Sightings : Both(Nothing, a) = a /\ Both(a, Nothing) = a
  /\ \A e : Once("none", e) = Nothing
<1>1. Nothing \in Sightings
  BY DEF Nothing, Sightings
<1>2. \A p, e : Once(p, e) \in Sightings
  BY DEF Once, Sightings
<1>3. ASSUME NEW a \in Sightings, NEW b \in Sightings PROVE Both(a, b) \in Sightings
  <2>1. \A at \in Places, ecn \in Ecn : a[at][ecn] + b[at][ecn] \in Nat
    BY DEF Sightings
  <2> QED
    BY <2>1 DEF Both, Sightings
<1>4. ASSUME NEW a \in Sightings PROVE Both(Nothing, a) = a /\ Both(a, Nothing) = a
  <2>1. \A at \in Places, ecn \in Ecn : a[at][ecn] + 0 = a[at][ecn] /\ 0 + a[at][ecn] = a[at][ecn]
    BY DEF Sightings
  <2>2. a = [at \in Places |-> [ecn \in Ecn |-> a[at][ecn]]]
    BY DEF Sightings
  <2>3. /\ Both(Nothing, a) = [at \in Places |-> [ecn \in Ecn |-> 0 + a[at][ecn]]]
        /\ Both(a, Nothing) = [at \in Places |-> [ecn \in Ecn |-> a[at][ecn] + 0]]
    BY DEF Both, Nothing
  <2> QED
    BY <2>1, <2>2, <2>3
<1>5. ASSUME NEW e PROVE Once("none", e) = Nothing
  BY DEF Once, Nothing, Places, Ports, Counters
<1> QED
  BY <1>1, <1>2, <1>3, <1>4, <1>5

(* What a pipe yields is a sighting if what is before it does.                 *)
LEMMA VisitType ==
  ASSUME NEW pipeline, NEW pkt, NEW i \in Nat, NEW s, NEW ecn \in Ecn,
         \A j \in 1 .. i - 1 : s[j] \in [Ecn -> Sightings]
  PROVE  /\ \A to : Arrive(pipeline, s, i, to, ecn) \in Sightings
         /\ Visit(pipeline, s, i, pkt, ecn) \in Sightings
<1>1. ASSUME NEW to, NEW mark \in Ecn
      PROVE  Arrive(pipeline, s, i, to, mark) \in Sightings
  <2> DEFINE named == {j \in 1 .. i - 1 : pipeline[j].name = to}
  <2>1. CASE to \notin Ports /\ named # {}
    <3>1. (CHOOSE j \in named : TRUE) \in 1 .. i - 1
      BY <2>1
    <3> QED
      BY <2>1, <3>1 DEF Arrive
  <2> QED
    BY <2>1, SightingsAdd DEF Arrive
<1>2. ASSUME NEW e
      PROVE  Leave(pipeline, s, i, e, ecn) \in Sightings
  <2> DEFINE set == IF e.setCe THEN "ce" ELSE ecn
  <2>1. set \in Ecn
    BY DEF Ecn
  <2> HIDE DEF set
  <2>2. Both(Arrive(pipeline, s, i, e.copy, set), Arrive(pipeline, s, i, e.to, set)) \in Sightings
    BY <1>1, <2>1, SightingsAdd
  <2>3. Leave(pipeline, s, i, e, ecn)
          = Both(Once(e.counter, set),
                 Both(Arrive(pipeline, s, i, e.copy, set), Arrive(pipeline, s, i, e.to, set)))
    BY DEF Leave, set
  <2> QED
    BY <2>2, <2>3, SightingsAdd
<1> QED
  BY <1>1, <1>2, SightingsAdd DEF Visit

(* So all that is seen from any pipe on is a sighting.                         *)
LEMMA VisitsType ==
  ASSUME NEW pipeline, NEW pkt, NEW n \in Nat, NEW s, Visits(pipeline, pkt, s, n)
  PROVE  \A i \in 1 .. n : s[i] \in [Ecn -> Sightings]
<1> DEFINE Bad == {i \in 1 .. n : s[i] \notin [Ecn -> Sightings]}
<1>1. SUFFICES ASSUME Bad # {} PROVE FALSE
  OBVIOUS
<1>2. PICK i \in Bad : \A m \in Bad : ~(m < i)
  <2>1. Bad \subseteq Nat
    OBVIOUS
  <2> HIDE DEF Bad
  <2>2. PICK i \in Bad : \A m \in Bad : <<m, i>> \notin OpToRel(<, Nat)
    BY <1>1, <2>1, NatLessThanWellFounded, WFMin
  <2>3. \A m \in Bad : m < i => <<m, i>> \in OpToRel(<, Nat)
    BY <2>1, <2>2 DEF OpToRel
  <2> QED
    BY <2>2, <2>3
<1>3. i \in Nat /\ \A j \in 1 .. i - 1 : s[j] \in [Ecn -> Sightings]
  BY <1>2
<1>4. \A ecn \in Ecn : Visit(pipeline, s, i, pkt, ecn) \in Sightings
  BY <1>3, VisitType
<1>5. s[i] = [ecn \in Ecn |-> Visit(pipeline, s, i, pkt, ecn)]
  BY <1>2 DEF Visits
<1> QED
  BY <1>2, <1>4, <1>5

(* Among the pipes before i, k and no other has the name.                      *)
Leads(pipeline, i, to, k) ==
  /\ to \notin Ports /\ k \in 1 .. i - 1
  /\ \A j \in 1 .. i - 1 : pipeline[j].name = to <=> j = k

(* Neither a port nor the name of a pipe before i.                             *)
Nowhere(pipeline, i, to) == to \notin Ports /\ \A j \in 1 .. i - 1 : pipeline[j].name # to

(* The three ways to arrive: at a port, at a pipe that is there, or nowhere.   *)
LEMMA Arrives ==
  ASSUME NEW pipeline, NEW i \in Nat, NEW s, NEW to, NEW ecn
  PROVE  /\ to \in Ports => Arrive(pipeline, s, i, to, ecn) = Once(to, ecn)
         /\ \A k : Leads(pipeline, i, to, k) => Arrive(pipeline, s, i, to, ecn) = s[k][ecn]
         /\ Nowhere(pipeline, i, to) => Arrive(pipeline, s, i, to, ecn) = Nothing
<1> DEFINE named == {j \in 1 .. i - 1 : pipeline[j].name = to}
<1>1. ASSUME NEW k, Leads(pipeline, i, to, k)
      PROVE  Arrive(pipeline, s, i, to, ecn) = s[k][ecn]
  <2>1. named = {k}
    BY <1>1 DEF Leads
  <2>2. (CHOOSE j \in named : TRUE) = k
    BY <2>1
  <2> QED
    BY <1>1, <2>1, <2>2 DEF Arrive, Leads
<1>2. ASSUME Nowhere(pipeline, i, to) PROVE Arrive(pipeline, s, i, to, ecn) = Nothing
  BY <1>2 DEF Arrive, Nowhere
<1> QED
  BY <1>1, <1>2 DEF Arrive

(* What pipe i can rely on: the pipes before it have been visited, and none of *)
(* them has the name of a drop.                                                *)
Placed(pipeline, s, i) ==
  /\ i \in Nat
  /\ \A j \in 1 .. i - 1 : /\ s[j] \in [Ecn -> Sightings]
                           /\ pipeline[j].name \notin {"none", "DROP"}

(* An entry that neither counts nor copies nor marks.                          *)
LEMMA PlainEntry ==
  ASSUME NEW pipeline, NEW i, NEW s, NEW e, NEW ecn \in Ecn,
         ~e.setCe, e.counter = "none", e.copy = "none", Placed(pipeline, s, i)
  PROVE  Leave(pipeline, s, i, e, ecn) = Arrive(pipeline, s, i, e.to, ecn)
<1>1. Arrive(pipeline, s, i, "none", ecn) = Nothing
  <2>1. Nowhere(pipeline, i, "none")
    BY DEF Nowhere, Placed, Ports
  <2> QED
    BY <2>1, Arrives DEF Placed
<1>2. Arrive(pipeline, s, i, e.to, ecn) \in Sightings
  BY VisitType DEF Placed
<1>3. Leave(pipeline, s, i, e, ecn)
        = Both(Once("none", ecn), Both(Nothing, Arrive(pipeline, s, i, e.to, ecn)))
  BY <1>1 DEF Leave
<1> QED
  BY <1>2, <1>3, SightingsAdd

(* An entry by default.                                                        *)
LEMMA EntryFields ==
  ASSUME NEW on, NEW to
  PROVE  LET e == Entry(on, to)
         IN  e.on = on /\ ~e.setCe /\ e.counter = "none" /\ e.copy = "none" /\ e.to = to
BY DEF Entry

(* A pipe with one entry, and the root, which has two.                         *)
LEMMA OneEntry ==
  ASSUME NEW pipeline, NEW i, NEW s, NEW pkt, NEW name, NEW e, NEW miss, NEW ecn,
         pipeline[i] = Pipe(name, <<e>>, miss)
  PROVE  Visit(pipeline, s, i, pkt, ecn)
           = IF Hits(e, pkt) THEN Leave(pipeline, s, i, e, ecn)
                             ELSE Arrive(pipeline, s, i, miss, ecn)
<1> DEFINE hits == {k \in DOMAIN <<e>> : Hits(<<e>>[k], pkt)}
<1>1. pipeline[i].entries = <<e>> /\ pipeline[i].miss = miss /\ pipeline[i].flood = FALSE
  BY DEF Pipe
<1>2. CASE Hits(e, pkt)
  <2>1. hits = {1}
    BY <1>2
  <2>2. (CHOOSE k \in hits : \A l \in hits : k <= l) = 1
    BY <2>1
  <2> QED
    BY <1>1, <1>2, <2>1, <2>2 DEF Visit
<1>3. CASE ~Hits(e, pkt)
  <2>1. hits = {}
    BY <1>3
  <2> QED
    BY <1>1, <1>3, <2>1 DEF Visit
<1> QED
  BY <1>2, <1>3

(* The first entry of a root takes the wire, the second the SF.                *)
LEMMA RootEntries ==
  ASSUME NEW pipeline, NEW i, NEW s, NEW pkt \in Packets, NEW e1, NEW e2, NEW ecn,
         e1.on = "wire", e2.on = "sf",
         pipeline[i] = Pipe("ROOT", <<e1, e2>>, "DROP")
  PROVE  Visit(pipeline, s, i, pkt, ecn)
           = IF pkt.from = "wire" THEN Leave(pipeline, s, i, e1, ecn)
                                  ELSE Leave(pipeline, s, i, e2, ecn)
<1> DEFINE hits == {k \in DOMAIN <<e1, e2>> : Hits(<<e1, e2>>[k], pkt)}
<1>1. pipeline[i].entries = <<e1, e2>> /\ pipeline[i].miss = "DROP" /\ pipeline[i].flood = FALSE
  BY DEF Pipe
<1>2. pkt.from \in {"wire", "sf"}
  BY DEF Packets
<1>3. CASE pkt.from = "wire"
  <2>1. Hits(e1, pkt) /\ ~Hits(e2, pkt)
    BY <1>3 DEF Hits
  <2>2. hits = {1}
    BY <2>1
  <2>3. (CHOOSE k \in hits : \A l \in hits : k <= l) = 1
    BY <2>2
  <2> QED
    BY <1>1, <1>3, <2>2, <2>3 DEF Visit
<1>4. CASE pkt.from = "sf"
  <2>1. Hits(e2, pkt) /\ ~Hits(e1, pkt)
    BY <1>4 DEF Hits
  <2>2. hits = {2}
    BY <2>1
  <2>3. (CHOOSE k \in hits : \A l \in hits : k <= l) = 2
    BY <2>2
  <2> QED
    BY <1>1, <1>4, <2>2, <2>3 DEF Visit
<1> QED
  BY <1>2, <1>3, <1>4

(* PORT_DEMUX: the wire to the chain, the SF to the wire.                      *)
LEMMA RootVisit ==
  ASSUME NEW pipeline, NEW i, NEW s, NEW pkt \in Packets, NEW target, NEW ecn \in Ecn,
         Placed(pipeline, s, i), pipeline[i] = Root(target)
  PROVE  Visit(pipeline, s, i, pkt, ecn)
           = IF pkt.from = "wire" THEN Arrive(pipeline, s, i, target, ecn) ELSE Once("WIRE", ecn)
<1>1. Visit(pipeline, s, i, pkt, ecn)
        = IF pkt.from = "wire" THEN Leave(pipeline, s, i, Entry("wire", target), ecn)
                               ELSE Leave(pipeline, s, i, Entry("sf", "WIRE"), ecn)
  <2> DEFINE e1 == Entry("wire", target)
             e2 == Entry("sf", "WIRE")
  <2>1. e1.on = "wire" /\ e2.on = "sf" /\ pipeline[i] = Pipe("ROOT", <<e1, e2>>, "DROP")
    BY DEF Root, Entry
  <2> HIDE DEF e1, e2
  <2>2. Visit(pipeline, s, i, pkt, ecn)
          = IF pkt.from = "wire" THEN Leave(pipeline, s, i, e1, ecn)
                                 ELSE Leave(pipeline, s, i, e2, ecn)
    BY <2>1, RootEntries
  <2> QED
    BY <2>2 DEF e1, e2
<1>2. /\ Leave(pipeline, s, i, Entry("wire", target), ecn) = Arrive(pipeline, s, i, target, ecn)
      /\ Leave(pipeline, s, i, Entry("sf", "WIRE"), ecn) = Arrive(pipeline, s, i, "WIRE", ecn)
  BY PlainEntry, EntryFields
<1>3. Arrive(pipeline, s, i, "WIRE", ecn) = Once("WIRE", ecn)
  BY DEF Arrive, Ports
<1> QED
  BY <1>1, <1>2, <1>3

(* A pipe with one plain entry that drops what misses.                         *)
LEMMA PlainVisit ==
  ASSUME NEW pipeline, NEW i, NEW s, NEW pkt, NEW name, NEW on, NEW to, NEW ecn \in Ecn,
         Placed(pipeline, s, i), pipeline[i] = Pipe(name, <<Entry(on, to)>>, "DROP")
  PROVE  Visit(pipeline, s, i, pkt, ecn)
           = IF Hits(Entry(on, to), pkt) THEN Arrive(pipeline, s, i, to, ecn) ELSE Nothing
<1>1. Arrive(pipeline, s, i, "DROP", ecn) = Nothing
  <2>1. Nowhere(pipeline, i, "DROP")
    BY DEF Nowhere, Placed, Ports
  <2> QED
    BY <2>1, Arrives DEF Placed
<1>2. Leave(pipeline, s, i, Entry(on, to), ecn) = Arrive(pipeline, s, i, to, ecn)
  BY PlainEntry, EntryFields
<1>3. Visit(pipeline, s, i, pkt, ecn)
        = IF Hits(Entry(on, to), pkt) THEN Leave(pipeline, s, i, Entry(on, to), ecn)
                                      ELSE Arrive(pipeline, s, i, "DROP", ecn)
  BY OneEntry
<1> QED
  BY <1>1, <1>2, <1>3

(* RANDOM_SAMPLE: to MARK what the mask picks, the rest to PASS.               *)
LEMMA SamplingVisit ==
  ASSUME NEW pipeline, NEW i, NEW s, NEW pkt \in Packets, NEW percent, NEW ecn \in Ecn,
         Placed(pipeline, s, i), pipeline[i] = Sampling(percent)
  PROVE  Visit(pipeline, s, i, pkt, ecn)
           = Arrive(pipeline, s, i,
                    IF pkt.random % (GetRandomMask(percent) + 1) = 0 THEN "MARK" ELSE "PASS", ecn)
<1> DEFINE m == GetRandomMask(percent)
           e == [Entry("random", "MARK") EXCEPT !.mask = m]
<1>1. pipeline[i] = Pipe("SAMPLE", <<e>>, "PASS")
  BY DEF Sampling
<1>2. /\ e.on = "random" /\ e.mask = m /\ ~e.setCe /\ e.counter = "none" /\ e.copy = "none"
      /\ e.to = "MARK"
  BY DEF Entry
<1> HIDE DEF e
<1>3. Hits(e, pkt) <=> pkt.random % (m + 1) = 0
  BY <1>2 DEF Hits, Packets
<1>4. Leave(pipeline, s, i, e, ecn) = Arrive(pipeline, s, i, "MARK", ecn)
  BY <1>2, PlainEntry
<1>5. Visit(pipeline, s, i, pkt, ecn)
        = IF Hits(e, pkt) THEN Leave(pipeline, s, i, e, ecn)
                          ELSE Arrive(pipeline, s, i, "PASS", ecn)
  BY <1>1, OneEntry
<1> QED
  BY <1>3, <1>4, <1>5

(* MARK and PASS: IPv4 by the entry, the rest to PASSTHROUGH.                  *)
LEMMA ForwardVisit ==
  ASSUME NEW pipeline, NEW i, NEW s, NEW pkt \in Packets, NEW name, NEW e, NEW ecn \in Ecn,
         pipeline[i] = Pipe(name, <<e>>, "PASSTHROUGH"), e.on = "ip4"
  PROVE  Visit(pipeline, s, i, pkt, ecn)
           = IF pkt.ip4 THEN Leave(pipeline, s, i, e, ecn)
                        ELSE Arrive(pipeline, s, i, "PASSTHROUGH", ecn)
<1>1. Hits(e, pkt) <=> pkt.ip4
  BY DEF Hits, Packets
<1> QED
  BY <1>1, OneEntry

(* FLOOD: both entries.                                                        *)
LEMMA FloodVisit ==
  ASSUME NEW pipeline, NEW i, NEW s, NEW pkt, NEW ecn \in Ecn,
         Placed(pipeline, s, i), pipeline[i] = Flood
  PROVE  Visit(pipeline, s, i, pkt, ecn)
           = Both(Arrive(pipeline, s, i, "PASSTHROUGH", ecn), Arrive(pipeline, s, i, "TO_CPU", ecn))
<1> DEFINE e1   == Entry("any", "PASSTHROUGH")
           e2   == Entry("any", "TO_CPU")
           hits == {k \in DOMAIN <<e1, e2>> : Hits(<<e1, e2>>[k], pkt)}
<1>1. pipeline[i].entries = <<e1, e2>> /\ pipeline[i].flood = TRUE
  BY DEF Flood
<1>2. 1 \in hits
  <2>1. Hits(e1, pkt)
    BY DEF Hits, Entry
  <2> QED
    BY <2>1
<1>3. /\ Leave(pipeline, s, i, e1, ecn) = Arrive(pipeline, s, i, "PASSTHROUGH", ecn)
      /\ Leave(pipeline, s, i, e2, ecn) = Arrive(pipeline, s, i, "TO_CPU", ecn)
  BY PlainEntry, EntryFields
<1> HIDE DEF e1, e2
<1>4. Visit(pipeline, s, i, pkt, ecn)
        = Both(Leave(pipeline, s, i, e1, ecn), Leave(pipeline, s, i, e2, ecn))
  BY <1>1, <1>2 DEF Visit
<1> QED
  BY <1>3, <1>4

(* A program's pipes are a sequence that ends with the one root.               *)
LEMMA SequenceOfTwo ==
  ASSUME NEW a, NEW b, NEW S, a \in S, b \in S
  PROVE  <<a, b>> \in Seq(S) /\ Len(<<a, b>>) = 2
OBVIOUS

(* A percentage has a MARK pipe, and a RANDOM_SAMPLE pipe (a NaN has only that). *)
Marking(percent) == percent # NaN /\ percent > 0
Picking(percent) == percent = NaN \/ (percent > 0 /\ percent < Whole)

(* What the sampler picks, by the random stamp; with a MARK pipe to go to, and *)
(* without.                                                                    *)
Drawn(percent, pkt)   == pkt.random % (GetRandomMask(percent) + 1) = 0
Marked(percent, pkt)  == Marking(percent) /\ (Picking(percent) => Drawn(percent, pkt))
Strayed(percent, pkt) == ~Marking(percent) /\ Picking(percent) /\ Drawn(percent, pkt)

(* The powers of two a mask is made of are positive.                           *)
LEMMA TwoTo ==
  \A i \in 0 .. RandomWidth + 1 : 2 ^ i \in Nat \ {0}
<1> DEFINE Bad == {i \in 0 .. RandomWidth + 1 : 2 ^ i \notin Nat \ {0}}
<1>1. SUFFICES ASSUME Bad # {} PROVE FALSE
  OBVIOUS
<1>2. PICK i \in Bad : \A m \in Bad : ~(m < i)
  <2>1. Bad \subseteq Nat
    BY RandomWidthAssumption
  <2> HIDE DEF Bad
  <2>2. PICK i \in Bad : \A m \in Bad : <<m, i>> \notin OpToRel(<, Nat)
    BY <1>1, <2>1, NatLessThanWellFounded, WFMin
  <2>3. \A m \in Bad : m < i => <<m, i>> \in OpToRel(<, Nat)
    BY <2>1, <2>2 DEF OpToRel
  <2> QED
    BY <2>2, <2>3
<1>3. i # 0
  <2>1. 2 ^ 0 \in Nat \ {0}
    BY PowersOfTwo
  <2>2. 2 ^ i \notin Nat \ {0}
    BY <1>2
  <2> QED
    BY <2>1, <2>2
<1>4. i - 1 \in 0 .. RandomWidth /\ i - 1 \notin Bad
  BY <1>2, <1>3, RandomWidthAssumption
<1>5. 2 ^ (i - 1) \in Nat \ {0}
  BY <1>4, RandomWidthAssumption
<1>6. 2 ^ ((i - 1) + 1) = 2 * 2 ^ (i - 1)
  BY <1>4, PowersOfTwo
<1>7. (i - 1) + 1 = i
  BY <1>4
<1>8. 2 ^ i = 2 * 2 ^ (i - 1)
  BY <1>6, <1>7
<1>9. \A x \in Nat \ {0} : 2 * x \in Nat \ {0}
  OBVIOUS
<1> QED
  BY <1>2, <1>5, <1>8, <1>9

(* The pipes of a chain, by what a percentage asks for.                        *)
LEMMA ChainShape ==
  ASSUME NEW S, NEW base \in Seq(S), NEW mark, NEW percent \in Int \cup {NaN}
  PROVE  LET n == Len(base)
             x == Chain(base, mark, percent)
         IN  /\ n \in Nat /\ Len(x) \in Nat /\ DOMAIN x = 1 .. Len(x)
             /\ \A i \in 1 .. n : x[i] = base[i]
             /\ \/ /\ ~Marking(percent) /\ ~Picking(percent) /\ Len(x) = n + 1
                   /\ x[n + 1] = Root("PASS")
                \/ /\ Marking(percent) /\ ~Picking(percent) /\ Len(x) = n + 2
                   /\ x[n + 1] = mark /\ x[n + 2] = Root("MARK")
                \/ /\ Marking(percent) /\ Picking(percent) /\ Len(x) = n + 3
                   /\ x[n + 1] = mark /\ x[n + 2] = Sampling(percent) /\ x[n + 3] = Root("SAMPLE")
                \/ /\ ~Marking(percent) /\ Picking(percent) /\ Len(x) = n + 2
                   /\ x[n + 1] = Sampling(percent) /\ x[n + 2] = Root("SAMPLE")
<1> DEFINE n == Len(base)
           x == Chain(base, mark, percent)
           P == Root("PASS")
           M == Root("MARK")
           R == Root("SAMPLE")
           A == Sampling(percent)
           T == S \cup {mark, P, M, R, A}
<1>1. base \in Seq(T) /\ n \in Nat
  BY SeqMonotonic, LenProperties
<1>2. Whole \in Int /\ Whole > 0 /\ NaN \notin Int
  BY TwoTo, RandomWidthAssumption, NaNAssumption DEF Whole
<1>3. mark \in T /\ P \in T /\ M \in T /\ R \in T /\ A \in T
  OBVIOUS
<1> HIDE DEF P, M, R, A, T
<1>4. CASE percent \in Int /\ percent <= 0
  <2>1. x = base \o <<>> \o <<P>>
    <3>1. percent # NaN /\ ~(percent > 0) /\ ~(percent >= Whole)
      BY <1>2, <1>4
    <3>2. MarkIf(percent, mark) = <<>> /\ HeadOfChain(percent) = <<P>>
      BY <1>4, <3>1 DEF MarkIf, HeadOfChain, P
    <3> QED
      BY <3>2 DEF Chain
  <2>2. base \o <<>> = base
    BY <1>1, ConcatEmptySeq
  <2>3. <<P>> \in Seq(T) /\ Len(<<P>>) = 1 /\ <<P>>[1] = P
    BY <1>3
  <2>4. x = base \o <<P>>
    BY <2>1, <2>2
  <2> HIDE DEF x
  <2>5. x \in Seq(T) /\ Len(x) = n + 1 /\ DOMAIN x = 1 .. Len(x)
    BY <1>1, <2>3, <2>4, ConcatProperties, LenProperties
  <2>6. \A i \in 1 .. n + 1 : x[i] = IF i <= n THEN base[i] ELSE <<P>>[i - n]
    BY <1>1, <2>3, <2>4, ConcatProperties
  <2>7. x[n + 1] = P /\ \A i \in 1 .. n : x[i] = base[i]
    BY <1>1, <2>3, <2>6
  <2>8. ~Marking(percent) /\ ~Picking(percent)
    BY <1>2, <1>4 DEF Marking, Picking
  <2> QED
    BY <1>1, <2>5, <2>7, <2>8 DEF x, P
<1>5. CASE percent \in Int /\ percent > 0 /\ percent >= Whole
  <2>0. percent # NaN
    BY <1>2, <1>5
  <2>1. x = base \o <<mark>> \o <<M>>
    BY <1>5, <2>0 DEF Chain, MarkIf, HeadOfChain, M
  <2> DEFINE y == base \o <<mark>>
  <2>2. y \in Seq(T) /\ Len(y) = n + 1
    BY <1>1, <1>3
  <2>3. \A i \in 1 .. n + 1 : y[i] = IF i <= n THEN base[i] ELSE mark
    BY <1>1, <1>3
  <2>4. x = y \o <<M>>
    BY <2>1
  <2> HIDE DEF x, y
  <2>5. x \in Seq(T) /\ Len(x) = n + 2 /\ DOMAIN x = 1 .. Len(x)
    BY <1>1, <1>3, <2>2, <2>4
  <2>6. \A i \in 1 .. n + 2 : x[i] = IF i <= n + 1 THEN y[i] ELSE M
    BY <1>1, <1>3, <2>2, <2>4
  <2>7. x[n + 2] = M /\ x[n + 1] = mark /\ \A i \in 1 .. n : x[i] = base[i]
    BY <1>1, <2>3, <2>6
  <2>8. Marking(percent) /\ ~Picking(percent)
    BY <1>2, <1>5, <2>0 DEF Marking, Picking
  <2> QED
    BY <1>1, <2>5, <2>7, <2>8 DEF x, M
<1>6. CASE percent \in Int /\ percent > 0 /\ percent < Whole
  <2>0. percent # NaN
    BY <1>2, <1>6
  <2>1. x = base \o <<mark>> \o <<A, R>>
    BY <1>2, <1>6, <2>0 DEF Chain, MarkIf, HeadOfChain, A, R
  <2> DEFINE y == base \o <<mark>>
  <2>2. y \in Seq(T) /\ Len(y) = n + 1
    BY <1>1, <1>3
  <2>3. \A i \in 1 .. n + 1 : y[i] = IF i <= n THEN base[i] ELSE mark
    BY <1>1, <1>3
  <2>4. x = y \o <<A, R>>
    BY <2>1
  <2>5. <<A, R>> \in Seq(T) /\ Len(<<A, R>>) = 2 /\ <<A, R>>[1] = A /\ <<A, R>>[2] = R
    BY <1>3, SequenceOfTwo
  <2> HIDE DEF x, y
  <2>6. x \in Seq(T) /\ Len(x) = n + 3 /\ DOMAIN x = 1 .. Len(x)
    BY <1>1, <2>2, <2>4, <2>5, ConcatProperties, LenProperties
  <2>7. \A i \in 1 .. n + 3 : x[i] = IF i <= n + 1 THEN y[i] ELSE <<A, R>>[i - (n + 1)]
    BY <1>1, <2>2, <2>4, <2>5, ConcatProperties
  <2>8. x[n + 3] = R /\ x[n + 2] = A /\ x[n + 1] = mark /\ \A i \in 1 .. n : x[i] = base[i]
    BY <1>1, <2>3, <2>5, <2>7
  <2>9. Marking(percent) /\ Picking(percent)
    BY <1>6, <2>0 DEF Marking, Picking
  <2> QED
    BY <1>1, <2>6, <2>8, <2>9 DEF x, A, R
<1>7. CASE percent = NaN
  <2>1. x = base \o <<>> \o <<A, R>>
    BY <1>7 DEF Chain, MarkIf, HeadOfChain, A, R
  <2>2. base \o <<>> = base
    BY <1>1, ConcatEmptySeq
  <2>3. <<A, R>> \in Seq(T) /\ Len(<<A, R>>) = 2 /\ <<A, R>>[1] = A /\ <<A, R>>[2] = R
    BY <1>3, SequenceOfTwo
  <2>4. x = base \o <<A, R>>
    BY <2>1, <2>2
  <2> HIDE DEF x
  <2>5. x \in Seq(T) /\ Len(x) = n + 2 /\ DOMAIN x = 1 .. Len(x)
    BY <1>1, <2>3, <2>4, ConcatProperties, LenProperties
  <2>6. \A i \in 1 .. n + 2 : x[i] = IF i <= n THEN base[i] ELSE <<A, R>>[i - n]
    BY <1>1, <2>3, <2>4, ConcatProperties
  <2>7. x[n + 2] = R /\ x[n + 1] = A /\ \A i \in 1 .. n : x[i] = base[i]
    BY <1>1, <2>3, <2>6
  <2>8. ~Marking(percent) /\ Picking(percent)
    BY <1>7 DEF Marking, Picking
  <2> QED
    BY <1>1, <2>5, <2>7, <2>8 DEF x, A, R
<1> QED
  BY <1>2, <1>4, <1>5, <1>6, <1>7

(* The end of a chain: PASS after what it forwards to.                         *)
Ending(base, mark) ==
  /\ Len(base) \in Nat \ {0} /\ base[Len(base)].name = "PASS" /\ mark.name = "MARK"
  /\ \A i \in 1 .. Len(base) - 1 :
       base[i].name \notin {"PASS", "MARK", "SAMPLE", "ROOT", "none", "DROP"}

(* Where the sampler stands: behind MARK, if there is one.                     *)
SamplerAt(n, percent) == IF Marking(percent) THEN n + 2 ELSE n + 1

(* Each name is taken once, and none is the name of a drop.                    *)
LEMMA ChainNames ==
  ASSUME NEW S, NEW base \in Seq(S), NEW mark, NEW percent \in Int \cup {NaN}, Ending(base, mark)
  PROVE  LET n == Len(base)
             x == Chain(base, mark, percent)
         IN  /\ \A i \in 1 .. n - 1 : x[i].name \notin {"PASS", "MARK", "SAMPLE", "ROOT", "none", "DROP"}
             /\ x[n].name = "PASS"
             /\ Marking(percent) => x[n + 1].name = "MARK" /\ n + 1 < Len(x)
             /\ Picking(percent) => /\ x[SamplerAt(n, percent)].name = "SAMPLE"
                                    /\ Len(x) = SamplerAt(n, percent) + 1
             /\ x[Len(x)].name = "ROOT"
             /\ \A i \in 1 .. Len(x) : \/ i < n \/ i = n \/ i = Len(x)
                                       \/ Marking(percent) /\ i = n + 1
                                       \/ Picking(percent) /\ i = SamplerAt(n, percent)
<1> DEFINE n == Len(base)
           x == Chain(base, mark, percent)
<1>1. Ending(base, mark) /\ n \in Nat \ {0}
  BY DEF Ending
<1>2. /\ Len(x) \in Nat /\ DOMAIN x = 1 .. Len(x)
      /\ \A i \in 1 .. n : x[i] = base[i]
      /\ \/ /\ ~Marking(percent) /\ ~Picking(percent) /\ Len(x) = n + 1
            /\ x[n + 1] = Root("PASS")
         \/ /\ Marking(percent) /\ ~Picking(percent) /\ Len(x) = n + 2
            /\ x[n + 1] = mark /\ x[n + 2] = Root("MARK")
         \/ /\ Marking(percent) /\ Picking(percent) /\ Len(x) = n + 3
            /\ x[n + 1] = mark /\ x[n + 2] = Sampling(percent) /\ x[n + 3] = Root("SAMPLE")
         \/ /\ ~Marking(percent) /\ Picking(percent) /\ Len(x) = n + 2
            /\ x[n + 1] = Sampling(percent) /\ x[n + 2] = Root("SAMPLE")
  BY ChainShape
<1>3. (\A t : Root(t).name = "ROOT") /\ Sampling(percent).name = "SAMPLE"
  BY DEF Root, Sampling, Pipe
<1> HIDE DEF x, n
<1>5. /\ base[n].name = "PASS" /\ mark.name = "MARK"
      /\ \A i \in 1 .. n - 1 :
           base[i].name \notin {"PASS", "MARK", "SAMPLE", "ROOT", "none", "DROP"}
  BY <1>1 DEF Ending, n
<1>6. /\ \A i \in 1 .. n - 1 : x[i].name \notin {"PASS", "MARK", "SAMPLE", "ROOT", "none", "DROP"}
      /\ x[n].name = "PASS"
  <2>1. n \in 1 .. n /\ \A i \in 1 .. n - 1 : i \in 1 .. n
    BY <1>1
  <2> QED
    BY <1>2, <1>5, <2>1
<1>7. CASE ~Marking(percent) /\ ~Picking(percent) /\ Len(x) = n + 1 /\ x[n + 1] = Root("PASS")
  BY <1>1, <1>3, <1>6, <1>7 DEF x, n
<1>8. CASE /\ Marking(percent) /\ ~Picking(percent) /\ Len(x) = n + 2
           /\ x[n + 1] = mark /\ x[n + 2] = Root("MARK")
  BY <1>1, <1>3, <1>5, <1>6, <1>8 DEF x, n
<1>9. CASE /\ Marking(percent) /\ Picking(percent) /\ Len(x) = n + 3
           /\ x[n + 1] = mark /\ x[n + 2] = Sampling(percent) /\ x[n + 3] = Root("SAMPLE")
  <2>1. /\ x[n + 1].name = "MARK" /\ x[n + 2].name = "SAMPLE" /\ x[Len(x)].name = "ROOT"
        /\ n + 1 < Len(x) /\ SamplerAt(n, percent) = n + 2
    BY <1>1, <1>3, <1>5, <1>9 DEF SamplerAt
  <2>2. \A i \in 1 .. Len(x) : i < n \/ i = n \/ i = Len(x) \/ i = n + 1 \/ i = n + 2
    BY <1>1, <1>9
  <2> QED
    BY <1>1, <1>6, <1>9, <2>1, <2>2 DEF x, n
<1>10. CASE /\ ~Marking(percent) /\ Picking(percent) /\ Len(x) = n + 2
            /\ x[n + 1] = Sampling(percent) /\ x[n + 2] = Root("SAMPLE")
  <2>1. /\ x[n + 1].name = "SAMPLE" /\ x[Len(x)].name = "ROOT" /\ SamplerAt(n, percent) = n + 1
    BY <1>1, <1>3, <1>10 DEF SamplerAt
  <2>2. \A i \in 1 .. Len(x) : i < n \/ i = n \/ i = Len(x) \/ i = n + 1
    BY <1>1, <1>10
  <2> QED
    BY <1>1, <1>6, <1>10, <2>1, <2>2 DEF x, n
<1> QED
  BY <1>2, <1>7, <1>8, <1>9, <1>10

(* Every pipe of a pipeline can rely on the pipes before it.                   *)
LEMMA VisitsPlaced ==
  ASSUME NEW x, NEW pkt, NEW N \in Nat, NEW s, Visits(x, pkt, s, N),
         \A i \in 1 .. N : x[i].name \notin {"none", "DROP"}
  PROVE  \A i \in 1 .. N : Placed(x, s, i) /\ s[i] \in [Ecn -> Sightings]
<1>1. \A i \in 1 .. N : s[i] \in [Ecn -> Sightings]
  BY VisitsType
<1>2. \A i \in 1 .. N : \A j \in 1 .. i - 1 : j \in 1 .. N
  OBVIOUS
<1>3. \A i \in 1 .. N : Placed(x, s, i)
  BY <1>1, <1>2 DEF Placed
<1> QED
  BY <1>1, <1>3

(* From a chain's root a packet comes to the SF's way, to MARK or to PASS, or  *)
(* nowhere: picked for a MARK that is not there.                               *)
LEMMA ChainVisit ==
  ASSUME NEW S, NEW base \in Seq(S), NEW mark, NEW percent \in Int \cup {NaN}, Ending(base, mark),
         NEW pkt \in Packets, NEW s, NEW ecn \in Ecn,
         Visits(Chain(base, mark, percent), pkt, s, Len(Chain(base, mark, percent)))
  PROVE  LET n == Len(base)
         IN  s[Len(Chain(base, mark, percent))][ecn]
               = IF pkt.from = "sf" THEN Once("WIRE", ecn)
                 ELSE IF Marked(percent, pkt) THEN s[n + 1][ecn]
                 ELSE IF Strayed(percent, pkt) THEN Nothing ELSE s[n][ecn]
<1> DEFINE n == Len(base)
           x == Chain(base, mark, percent)
           N == Len(x)
           k == SamplerAt(n, percent)
<1>1. /\ n \in Nat \ {0} /\ N \in Nat /\ k \in {n + 1, n + 2}
      /\ Marking(percent) /\ Picking(percent) => k = n + 2
      /\ \/ ~Marking(percent) /\ ~Picking(percent) /\ N = n + 1 /\ x[N] = Root("PASS")
         \/ Marking(percent) /\ ~Picking(percent) /\ N = n + 2 /\ x[N] = Root("MARK")
         \/ Picking(percent) /\ N = k + 1 /\ x[k] = Sampling(percent) /\ x[N] = Root("SAMPLE")
  BY ChainShape DEF Ending, SamplerAt
<1>2. /\ \A i \in 1 .. n - 1 : x[i].name \notin {"PASS", "MARK", "SAMPLE", "ROOT", "none", "DROP"}
      /\ x[n].name = "PASS"
      /\ Marking(percent) => x[n + 1].name = "MARK" /\ n + 1 < N
      /\ Picking(percent) => x[k].name = "SAMPLE" /\ N = k + 1
      /\ x[N].name = "ROOT"
      /\ \A i \in 1 .. N : \/ i < n \/ i = n \/ i = N
                           \/ Marking(percent) /\ i = n + 1
                           \/ Picking(percent) /\ i = k
  BY ChainNames
<1>3. Visits(x, pkt, s, N)
  OBVIOUS
<1>4. pkt.from \in {"wire", "sf"}
  BY DEF Packets
<1> HIDE DEF n, x, N, k
<1>5. \A i \in 1 .. N : x[i].name \notin {"none", "DROP"}
  <2> SUFFICES ASSUME NEW i \in 1 .. N PROVE x[i].name \notin {"none", "DROP"}
    OBVIOUS
  <2>1. CASE i < n
    BY <1>1, <1>2, <2>1
  <2> QED
    BY <1>1, <1>2, <2>1
<1>6. /\ \A i \in 1 .. N : Placed(x, s, i)
      /\ \A i \in 1 .. N : s[i][ecn] = Visit(x, s, i, pkt, ecn)
  <2>1. \A i \in 1 .. N : Placed(x, s, i)
    BY <1>1, <1>3, <1>5, VisitsPlaced
  <2>2. \A i \in 1 .. N : s[i] = [e \in Ecn |-> Visit(x, s, i, pkt, e)]
    BY <1>3 DEF Visits
  <2> QED
    BY <2>1, <2>2
<1>7. ASSUME NEW i \in 1 .. N, i > n
      PROVE  Arrive(x, s, i, "PASS", ecn) = s[n][ecn]
  <2>1. Leads(x, i, "PASS", n)
    <3>1. n \in 1 .. i - 1 /\ "PASS" \notin Ports
      BY <1>1, <1>7 DEF Ports
    <3>2. ASSUME NEW j \in 1 .. i - 1 PROVE x[j].name = "PASS" <=> j = n
      <4>1. j \in 1 .. N /\ j # N
        BY <1>1, <1>7
      <4>2. j < n => j \in 1 .. n - 1
        BY <1>1
      <4> QED
        BY <1>1, <1>2, <4>1, <4>2
    <3> QED
      BY <3>1, <3>2 DEF Leads
  <2> QED
    BY <2>1, Arrives
<1>8. ASSUME NEW i \in 1 .. N, i > n + 1, Marking(percent)
      PROVE  Arrive(x, s, i, "MARK", ecn) = s[n + 1][ecn]
  <2>1. Leads(x, i, "MARK", n + 1)
    <3>1. n + 1 \in 1 .. i - 1 /\ "MARK" \notin Ports
      BY <1>1, <1>8 DEF Ports
    <3>2. ASSUME NEW j \in 1 .. i - 1 PROVE x[j].name = "MARK" <=> j = n + 1
      <4>1. j \in 1 .. N /\ j # N
        BY <1>1, <1>8
      <4>2. j < n => j \in 1 .. n - 1
        BY <1>1
      <4> QED
        BY <1>1, <1>2, <1>8, <4>1, <4>2
    <3> QED
      BY <3>1, <3>2 DEF Leads
  <2> QED
    BY <2>1, Arrives
<1>9. CASE ~Marking(percent) /\ ~Picking(percent)
  <2>1. /\ N = n + 1 /\ x[N] = Root("PASS") /\ N \in 1 .. N
        /\ ~Marked(percent, pkt) /\ ~Strayed(percent, pkt)
    BY <1>1, <1>9 DEF Marked, Strayed
  <2>2. s[N][ecn] = IF pkt.from = "wire" THEN Arrive(x, s, N, "PASS", ecn) ELSE Once("WIRE", ecn)
    <3>1. Placed(x, s, N) /\ s[N][ecn] = Visit(x, s, N, pkt, ecn) /\ x[N] = Root("PASS")
      BY <1>6, <2>1
    <3> QED
      BY <3>1, RootVisit
  <2>3. N > n
    BY <1>1, <2>1
  <2> QED
    BY <1>4, <1>7, <2>1, <2>2, <2>3 DEF n, x, N
<1>10. CASE Marking(percent) /\ ~Picking(percent)
  <2>1. N = n + 2 /\ x[N] = Root("MARK") /\ N \in 1 .. N /\ Marked(percent, pkt)
    BY <1>1, <1>10 DEF Marked
  <2>2. s[N][ecn] = IF pkt.from = "wire" THEN Arrive(x, s, N, "MARK", ecn) ELSE Once("WIRE", ecn)
    <3>1. Placed(x, s, N) /\ s[N][ecn] = Visit(x, s, N, pkt, ecn) /\ x[N] = Root("MARK")
      BY <1>6, <2>1
    <3> QED
      BY <3>1, RootVisit
  <2>3. N > n + 1
    BY <1>1, <2>1
  <2> QED
    BY <1>4, <1>8, <1>10, <2>1, <2>2, <2>3 DEF n, x, N
<1>11. CASE Picking(percent)
  <2> DEFINE to == IF Drawn(percent, pkt) THEN "MARK" ELSE "PASS"
  <2>1. /\ N = k + 1 /\ x[N] = Root("SAMPLE") /\ N \in 1 .. N /\ k \in 1 .. N
        /\ x[k] = Sampling(percent) /\ k > n /\ (Marking(percent) => k > n + 1)
    BY <1>1, <1>11
  <2>2. to \in {"MARK", "PASS"} /\ (to = "MARK" <=> Drawn(percent, pkt))
    OBVIOUS
  <2>3. s[k][ecn] = Arrive(x, s, k, to, ecn)
    BY <1>6, <2>1, SamplingVisit DEF Drawn
  <2> HIDE DEF to
  <2>4. ASSUME ~Marking(percent)
        PROVE  Arrive(x, s, k, "MARK", ecn) = Nothing
    <3>1. ASSUME NEW j \in 1 .. k - 1 PROVE x[j].name # "MARK"
      <4>1. j \in 1 .. N /\ j # N /\ j # k
        BY <1>1, <2>1
      <4>2. j < n => j \in 1 .. n - 1
        BY <1>1
      <4> QED
        BY <1>1, <1>2, <2>4, <4>1, <4>2
    <3>2. Nowhere(x, k, "MARK") /\ k \in Nat
      BY <1>1, <3>1 DEF Nowhere, Ports
    <3> QED
      BY <3>2, Arrives
  <2>5. s[k][ecn] = IF Marked(percent, pkt) THEN s[n + 1][ecn]
                    ELSE IF Strayed(percent, pkt) THEN Nothing ELSE s[n][ecn]
    <3>1. CASE to = "MARK" /\ Marking(percent)
      <4>1. Marked(percent, pkt)
        BY <2>2, <3>1 DEF Marked
      <4> QED
        BY <1>8, <2>1, <2>3, <3>1, <4>1
    <3>2. CASE to = "MARK" /\ ~Marking(percent)
      <4>1. ~Marked(percent, pkt) /\ Strayed(percent, pkt)
        BY <1>11, <2>2, <3>2 DEF Marked, Strayed
      <4> QED
        BY <2>3, <2>4, <3>2, <4>1
    <3>3. CASE to = "PASS"
      <4>1. ~Marked(percent, pkt) /\ ~Strayed(percent, pkt)
        BY <1>11, <2>2, <3>3 DEF Marked, Strayed
      <4> QED
        BY <1>7, <2>1, <2>3, <3>3, <4>1
    <3> QED
      BY <2>2, <3>1, <3>2, <3>3
  <2>6. Leads(x, N, "SAMPLE", k)
    <3>1. k \in 1 .. N - 1 /\ "SAMPLE" \notin Ports
      BY <1>1, <2>1 DEF Ports
    <3>2. ASSUME NEW j \in 1 .. N - 1 PROVE x[j].name = "SAMPLE" <=> j = k
      <4>1. j \in 1 .. N /\ j # N
        BY <1>1
      <4>2. j < n => j \in 1 .. n - 1
        BY <1>1
      <4> QED
        BY <1>1, <1>2, <1>11, <4>1, <4>2
    <3> QED
      BY <3>1, <3>2 DEF Leads
  <2>7. Arrive(x, s, N, "SAMPLE", ecn) = s[k][ecn]
    BY <1>1, <2>6, Arrives
  <2>8. s[N][ecn] = IF pkt.from = "wire" THEN Arrive(x, s, N, "SAMPLE", ecn) ELSE Once("WIRE", ecn)
    <3>1. Placed(x, s, N) /\ s[N][ecn] = Visit(x, s, N, pkt, ecn) /\ x[N] = Root("SAMPLE")
      BY <1>6, <2>1
    <3> QED
      BY <3>1, RootVisit
  <2> QED
    BY <1>4, <2>5, <2>7, <2>8 DEF n, x, N
<1> QED
  BY <1>9, <1>10, <1>11

(* A marking or a passing pipe, given what the other pipes of its chain do.    *)
SetTo(counter, ecn) == IF counter = "ce_entry" THEN "ce" ELSE ecn

(* Seen once at a counter and at some ports, with the same ECN field.          *)
Delivered(counter, ports, ecn) ==
  [at \in Places |-> [e \in Ecn |-> IF e = ecn /\ (at = counter \/ at \in ports) THEN 1 ELSE 0]]

(* What is seen from a forwarding pipe on.                                     *)
Forwarded(counter, ports, other, pkt, ecn) ==
  IF pkt.ip4 THEN Delivered(counter, ports, SetTo(counter, ecn)) ELSE Once(other, ecn)

(* Counting, copying and forwarding add up to a delivery.                      *)
LEMMA DeliveredSum ==
  ASSUME NEW counter \in {"ce_entry", "pass_entry"}, NEW ecn \in Ecn
  PROVE  /\ Both(Once(counter, ecn), Both(Nothing, Once("SF", ecn)))
              = Delivered(counter, {"SF"}, ecn)
         /\ Both(Once(counter, ecn), Both(Nothing, Both(Once("SF", ecn), Once("CPU", ecn))))
              = Delivered(counter, {"SF", "CPU"}, ecn)
         /\ Both(Once(counter, ecn), Both(Once("CPU", ecn), Once("SF", ecn)))
              = Delivered(counter, {"SF", "CPU"}, ecn)
<1> DEFINE C == Once(counter, ecn)
           F == Once("SF", ecn)
           U == Once("CPU", ecn)
<1>1. C \in Sightings /\ F \in Sightings /\ U \in Sightings
  BY SightingsAdd
<1>2. Both(F, U) \in Sightings /\ Both(U, F) \in Sightings
  BY <1>1, SightingsAdd
<1>3. Both(Nothing, F) = F /\ Both(Nothing, Both(F, U)) = Both(F, U)
  BY <1>1, <1>2, SightingsAdd
<1>4. /\ C = [at \in Places |-> [e \in Ecn |-> IF at = counter /\ e = ecn THEN 1 ELSE 0]]
      /\ F = [at \in Places |-> [e \in Ecn |-> IF at = "SF" /\ e = ecn THEN 1 ELSE 0]]
      /\ U = [at \in Places |-> [e \in Ecn |-> IF at = "CPU" /\ e = ecn THEN 1 ELSE 0]]
  BY DEF Once
<1> HIDE DEF C, F, U
<1>5. Both(C, F) = Delivered(counter, {"SF"}, ecn)
  <2>1. \A at \in Places, e \in Ecn :
          C[at][e] + F[at][e] = IF e = ecn /\ (at = counter \/ at \in {"SF"}) THEN 1 ELSE 0
    BY <1>4
  <2> QED
    BY <2>1 DEF Both, Delivered
<1>6. /\ Both(F, U) = [at \in Places |-> [e \in Ecn |-> F[at][e] + U[at][e]]]
      /\ Both(U, F) = [at \in Places |-> [e \in Ecn |-> U[at][e] + F[at][e]]]
  BY DEF Both
<1>7. \A at \in Places, e \in Ecn :
        /\ F[at][e] + U[at][e] = IF e = ecn /\ at \in {"SF", "CPU"} THEN 1 ELSE 0
        /\ U[at][e] + F[at][e] = IF e = ecn /\ at \in {"SF", "CPU"} THEN 1 ELSE 0
  BY <1>4
<1>8. ASSUME NEW G \in {Both(F, U), Both(U, F)}
      PROVE  Both(C, G) = Delivered(counter, {"SF", "CPU"}, ecn)
  <2>1. \A at \in Places, e \in Ecn :
          G[at][e] = IF e = ecn /\ at \in {"SF", "CPU"} THEN 1 ELSE 0
    BY <1>6, <1>7
  <2>2. \A at \in Places, e \in Ecn :
          C[at][e] + G[at][e]
            = IF e = ecn /\ (at = counter \/ at \in {"SF", "CPU"}) THEN 1 ELSE 0
    BY <1>4, <2>1
  <2> QED
    BY <2>2 DEF Both, Delivered
<1> QED
  BY <1>3, <1>5, <1>8 DEF C, F, U

(* What the entry of a forwarding pipe reaches, by its copy and its target.    *)
Copies(x, s, i, copy, to, ports) ==
  \A e \in Ecn :
    \/ /\ ports = {"SF"} /\ Arrive(x, s, i, copy, e) = Nothing
       /\ Arrive(x, s, i, to, e) = Once("SF", e)
    \/ /\ ports = {"SF", "CPU"} /\ Arrive(x, s, i, copy, e) = Nothing
       /\ Arrive(x, s, i, to, e) = Both(Once("SF", e), Once("CPU", e))
    \/ /\ ports = {"SF", "CPU"} /\ Arrive(x, s, i, copy, e) = Once("CPU", e)
       /\ Arrive(x, s, i, to, e) = Once("SF", e)

(* What a forwarding pipe needs of those it forwards to.                       *)
Reaches(x, s, i, pkt, copy, to, ports, other) ==
  /\ pkt.ip4 => Copies(x, s, i, copy, to, ports)
  /\ ~pkt.ip4 => \A ecn \in Ecn : Arrive(x, s, i, "PASSTHROUGH", ecn) = Once(other, ecn)

(* MARK or PASS, by its counter.                                               *)
Forwarder(x, i, counter, copy, to) ==
  \/ counter = "ce_entry"   /\ x[i] = ForwardPipe(TRUE, copy, to)
  \/ counter = "pass_entry" /\ x[i] = ForwardPipe(FALSE, copy, to)

(* What MARK or PASS does, in terms of what it copies and forwards to.         *)
LEMMA ForwarderVisit ==
  ASSUME NEW x, NEW s, NEW i, NEW pkt \in Packets, NEW counter, NEW copy, NEW to,
         NEW ecn \in Ecn, Forwarder(x, i, counter, copy, to)
  PROVE  Visit(x, s, i, pkt, ecn)
           = IF pkt.ip4
             THEN Both(Once(counter, SetTo(counter, ecn)),
                       Both(Arrive(x, s, i, copy, SetTo(counter, ecn)),
                            Arrive(x, s, i, to, SetTo(counter, ecn))))
             ELSE Arrive(x, s, i, "PASSTHROUGH", ecn)
<1>1. CASE counter = "ce_entry" /\ x[i] = ForwardPipe(TRUE, copy, to)
  <2> DEFINE e == [on |-> "ip4", mask |-> 0, setCe |-> TRUE, counter |-> "ce_entry", copy |-> copy,
                   to |-> to]
  <2>1. x[i] = Pipe("MARK", <<e>>, "PASSTHROUGH") /\ e.on = "ip4"
    BY <1>1 DEF ForwardPipe
  <2>2. SetTo(counter, ecn) = "ce"
    BY <1>1 DEF SetTo
  <2>3. Leave(x, s, i, e, ecn)
          = Both(Once("ce_entry", "ce"), Both(Arrive(x, s, i, copy, "ce"), Arrive(x, s, i, to, "ce")))
    BY DEF Leave
  <2> HIDE DEF e
  <2>4. Visit(x, s, i, pkt, ecn) = IF pkt.ip4 THEN Leave(x, s, i, e, ecn)
                                            ELSE Arrive(x, s, i, "PASSTHROUGH", ecn)
    BY <2>1, ForwardVisit
  <2> QED
    BY <1>1, <2>2, <2>3, <2>4
<1>2. CASE counter = "pass_entry" /\ x[i] = ForwardPipe(FALSE, copy, to)
  <2> DEFINE e == [on |-> "ip4", mask |-> 0, setCe |-> FALSE, counter |-> "pass_entry", copy |-> copy,
                   to |-> to]
  <2>1. x[i] = Pipe("PASS", <<e>>, "PASSTHROUGH") /\ e.on = "ip4"
    BY <1>2 DEF ForwardPipe
  <2>2. SetTo(counter, ecn) = ecn
    BY <1>2 DEF SetTo
  <2>3. Leave(x, s, i, e, ecn)
          = Both(Once("pass_entry", ecn), Both(Arrive(x, s, i, copy, ecn), Arrive(x, s, i, to, ecn)))
    BY DEF Leave
  <2> HIDE DEF e
  <2>4. Visit(x, s, i, pkt, ecn) = IF pkt.ip4 THEN Leave(x, s, i, e, ecn)
                                            ELSE Arrive(x, s, i, "PASSTHROUGH", ecn)
    BY <2>1, ForwardVisit
  <2> QED
    BY <1>2, <2>2, <2>3, <2>4
<1> QED
  BY <1>1, <1>2 DEF Forwarder

(* A forwarding pipe whose needs are met delivers.                             *)
LEMMA ForwardedBy ==
  ASSUME NEW x, NEW s, NEW i, NEW pkt \in Packets, NEW counter, NEW copy, NEW to,
         NEW ports, NEW other, Forwarder(x, i, counter, copy, to),
         s[i] = [ecn \in Ecn |-> Visit(x, s, i, pkt, ecn)],
         Reaches(x, s, i, pkt, copy, to, ports, other)
  PROVE  \A ecn \in Ecn : s[i][ecn] = Forwarded(counter, ports, other, pkt, ecn)
<1> SUFFICES ASSUME NEW ecn \in Ecn
             PROVE  s[i][ecn] = Forwarded(counter, ports, other, pkt, ecn)
  OBVIOUS
<1> DEFINE set == SetTo(counter, ecn)
<1>1. s[i][ecn] = IF pkt.ip4 THEN Both(Once(counter, set), Both(Arrive(x, s, i, copy, set),
                                                                Arrive(x, s, i, to, set)))
                  ELSE Arrive(x, s, i, "PASSTHROUGH", ecn)
  <2>1. s[i][ecn] = Visit(x, s, i, pkt, ecn)
    OBVIOUS
  <2> QED
    BY <2>1, ForwarderVisit
<1>2. counter \in {"ce_entry", "pass_entry"} /\ set \in Ecn
  BY DEF Ecn, SetTo, Forwarder
<1>3. Forwarded(counter, ports, other, pkt, ecn)
        = IF pkt.ip4 THEN Delivered(counter, ports, set) ELSE Once(other, ecn)
  BY DEF Forwarded
<1> HIDE DEF set
<1>4. CASE ~pkt.ip4
  BY <1>1, <1>3, <1>4 DEF Reaches
<1>5. CASE pkt.ip4
  <2>1. /\ Both(Once(counter, set), Both(Nothing, Once("SF", set)))
             = Delivered(counter, {"SF"}, set)
        /\ Both(Once(counter, set), Both(Nothing, Both(Once("SF", set), Once("CPU", set))))
             = Delivered(counter, {"SF", "CPU"}, set)
        /\ Both(Once(counter, set), Both(Once("CPU", set), Once("SF", set)))
             = Delivered(counter, {"SF", "CPU"}, set)
    BY <1>2, DeliveredSum
  <2>2. \/ /\ ports = {"SF"} /\ Arrive(x, s, i, copy, set) = Nothing
           /\ Arrive(x, s, i, to, set) = Once("SF", set)
        \/ /\ ports = {"SF", "CPU"} /\ Arrive(x, s, i, copy, set) = Nothing
           /\ Arrive(x, s, i, to, set) = Both(Once("SF", set), Once("CPU", set))
        \/ /\ ports = {"SF", "CPU"} /\ Arrive(x, s, i, copy, set) = Once("CPU", set)
           /\ Arrive(x, s, i, to, set) = Once("SF", set)
    BY <1>2, <1>5 DEF Reaches, Copies
  <2> QED
    BY <1>1, <1>3, <1>5, <2>1, <2>2
<1> QED
  BY <1>4, <1>5

(* What the wire delivers to: MARK counts what the percentage picks.           *)
CountedBy(percent, pkt) == IF Marked(percent, pkt) THEN "ce_entry" ELSE "pass_entry"

(* What becomes of a packet off the wire in a chain.                           *)
FromWire(percent, ports, other, pkt) ==
  IF Strayed(percent, pkt) THEN Nothing
  ELSE Forwarded(CountedBy(percent, pkt), ports, other, pkt, pkt.ecn)

(* The PASS and the MARK pipe of a chain, one of which a packet from the wire  *)
(* comes to.                                                                   *)
ForwardsAs(s, n, percent, pkt, ports, other) ==
  \A ecn \in Ecn :
    /\ s[n][ecn] = Forwarded("pass_entry", ports, other, pkt, ecn)
    /\ Marking(percent) => s[n + 1][ecn] = Forwarded("ce_entry", ports, other, pkt, ecn)

(* The same for all that can be seen from the pipes of a chain.                *)
ChainForwardsAs(base, mark, percent, pkt, ports, other) ==
  LET x == Chain(base, mark, percent)
  IN  \A s : Visits(x, pkt, s, Len(x)) => ForwardsAs(s, Len(base), percent, pkt, ports, other)

(* The journey through a chain whose PASS and MARK deliver.                    *)
LEMMA ChainJourney ==
  ASSUME NEW S, NEW base \in Seq(S), NEW mark, NEW percent \in Int \cup {NaN}, Ending(base, mark),
         NEW pkt \in Packets, NEW ports, NEW other,
         ChainForwardsAs(base, mark, percent, pkt, ports, other)
  PROVE  Journey(Chain(base, mark, percent), pkt)
           = IF pkt.from = "sf" THEN Once("WIRE", pkt.ecn)
             ELSE FromWire(percent, ports, other, pkt)
<1> DEFINE x == Chain(base, mark, percent)
           n == Len(base)
           N == Len(x)
<1>1. N \in Nat /\ DOMAIN x = 1 .. N
  BY ChainShape
<1>2. pkt.ecn \in Ecn
  BY DEF Packets
<1>3. PICK s : Visits(x, pkt, s, N) /\ Journey(x, pkt) = s[N][pkt.ecn]
  <2> HIDE DEF x
  <2> QED
    BY <1>1, JourneyVisits
<1>4. s[N][pkt.ecn] = IF pkt.from = "sf" THEN Once("WIRE", pkt.ecn)
                      ELSE IF Marked(percent, pkt) THEN s[n + 1][pkt.ecn]
                      ELSE IF Strayed(percent, pkt) THEN Nothing ELSE s[n][pkt.ecn]
  BY <1>2, <1>3, ChainVisit
<1>5. ForwardsAs(s, n, percent, pkt, ports, other)
  BY <1>3 DEF ChainForwardsAs
<1>6. CASE Marked(percent, pkt)
  <2>1. Marking(percent) /\ ~Strayed(percent, pkt)
    BY <1>6 DEF Marked, Strayed
  <2>2. s[n + 1][pkt.ecn] = Forwarded("ce_entry", ports, other, pkt, pkt.ecn)
    BY <1>2, <1>5, <2>1 DEF ForwardsAs
  <2> QED
    BY <1>3, <1>4, <1>6, <2>1, <2>2 DEF CountedBy, FromWire
<1>7. CASE ~Marked(percent, pkt)
  <2>1. s[n][pkt.ecn] = Forwarded("pass_entry", ports, other, pkt, pkt.ecn)
    BY <1>2, <1>5 DEF ForwardsAs
  <2> QED
    BY <1>3, <1>4, <1>7, <2>1 DEF CountedBy, FromWire
<1> QED
  BY <1>6, <1>7

(* Where PASS and MARK of a chain stand, and what is before them.              *)
LEMMA ChainPlaces ==
  ASSUME NEW S, NEW base \in Seq(S), NEW mark, NEW percent \in Int \cup {NaN}, Ending(base, mark),
         NEW pkt, NEW s,
         Visits(Chain(base, mark, percent), pkt, s, Len(Chain(base, mark, percent)))
  PROVE  LET x == Chain(base, mark, percent)
             n == Len(base)
         IN  /\ n \in Nat \ {0} /\ \A i \in 1 .. n : x[i] = base[i]
             /\ Marking(percent) => x[n + 1] = mark
             /\ \A i \in 1 .. n + 1 : Placed(x, s, i)
             /\ \A i \in 1 .. n + 1 : s[i] = [ecn \in Ecn |-> Visit(x, s, i, pkt, ecn)]
<1> DEFINE n == Len(base)
           x == Chain(base, mark, percent)
           N == Len(x)
<1>1. /\ n \in Nat \ {0} /\ N \in Nat /\ \A i \in 1 .. n : x[i] = base[i]
      /\ Marking(percent) => x[n + 1] = mark
      /\ n + 1 <= N
  BY ChainShape DEF Ending
<1>2. /\ \A i \in 1 .. n - 1 : x[i].name \notin {"PASS", "MARK", "SAMPLE", "ROOT", "none", "DROP"}
      /\ x[n].name = "PASS"
      /\ Marking(percent) => x[n + 1].name = "MARK" /\ n + 1 < N
      /\ Picking(percent) => x[SamplerAt(n, percent)].name = "SAMPLE"
      /\ x[N].name = "ROOT"
      /\ \A i \in 1 .. N : \/ i < n \/ i = n \/ i = N
                           \/ Marking(percent) /\ i = n + 1
                           \/ Picking(percent) /\ i = SamplerAt(n, percent)
  BY ChainNames
<1>3. Visits(x, pkt, s, N)
  OBVIOUS
<1> HIDE DEF n, x, N
<1>4. \A i \in 1 .. N : x[i].name \notin {"none", "DROP"}
  <2> SUFFICES ASSUME NEW i \in 1 .. N PROVE x[i].name \notin {"none", "DROP"}
    OBVIOUS
  <2>1. CASE i < n
    BY <1>1, <1>2, <2>1
  <2> QED
    BY <1>1, <1>2, <2>1
<1>5. \A i \in 1 .. N : Placed(x, s, i)
  BY <1>1, <1>3, <1>4, VisitsPlaced
<1>6. \A i \in 1 .. N : s[i] = [ecn \in Ecn |-> Visit(x, s, i, pkt, ecn)]
  BY <1>3 DEF Visits
<1>7. \A i \in 1 .. n + 1 : i \in 1 .. N
  BY <1>1
<1> QED
  BY <1>1, <1>5, <1>6, <1>7 DEF n, x

(* What a pipe that stands behind the pipes of base can rely on.               *)
Above(x, base, s, pkt, i) ==
  /\ i \in {Len(base), Len(base) + 1}
  /\ Placed(x, s, i)
  /\ \A k \in 1 .. i - 1 : k <= Len(base) /\ x[k] = base[k] /\ Placed(x, s, k)
  /\ \A k \in 1 .. i - 1 : s[k] = [ecn \in Ecn |-> Visit(x, s, k, pkt, ecn)]

(* The two forwarding pipes by name.                                           *)
MarkPipe(copy, to) == ForwardPipe(TRUE, copy, to)
PassPipe(copy, to) == ForwardPipe(FALSE, copy, to)

(* Any forwarding pipe behind base has its needs met.                          *)
AboveReaches(base, pkt, copy, to, ports, other) ==
  \A x, s, i : Above(x, base, s, pkt, i) => Reaches(x, s, i, pkt, copy, to, ports, other)

(* The journey through a chain whose base meets the needs of PASS and MARK.    *)
LEMMA ChainForwards ==
  ASSUME NEW S, NEW base \in Seq(S), NEW copy, NEW to, NEW percent \in Int \cup {NaN}, NEW pkt \in Packets,
         NEW ports, NEW other,
         Ending(base, MarkPipe(copy, to)),
         base[Len(base)] = PassPipe(copy, to),
         AboveReaches(base, pkt, copy, to, ports, other)
  PROVE  Journey(Chain(base, MarkPipe(copy, to), percent), pkt)
           = IF pkt.from = "sf" THEN Once("WIRE", pkt.ecn)
             ELSE FromWire(percent, ports, other, pkt)
<1> DEFINE mark == MarkPipe(copy, to)
           x    == Chain(base, mark, percent)
           n    == Len(base)
<1>1. ASSUME NEW s, Visits(x, pkt, s, Len(x))
      PROVE  ForwardsAs(s, n, percent, pkt, ports, other)
  <2>1. /\ n \in Nat \ {0} /\ \A i \in 1 .. n : x[i] = base[i]
        /\ Marking(percent) => x[n + 1] = mark
        /\ \A i \in 1 .. n + 1 : Placed(x, s, i)
        /\ \A i \in 1 .. n + 1 : s[i] = [ecn \in Ecn |-> Visit(x, s, i, pkt, ecn)]
    <3>1. Ending(base, mark)
      OBVIOUS
    <3> HIDE DEF mark
    <3> QED
      BY <1>1, <3>1, ChainPlaces
  <2> HIDE DEF x
  <2>2. Above(x, base, s, pkt, n) /\ Above(x, base, s, pkt, n + 1)
    <3>1. \A i \in {n, n + 1} : \A k \in 1 .. i - 1 : k \in 1 .. n /\ k \in 1 .. n + 1 /\ k <= n
      BY <2>1
    <3>2. n \in 1 .. n + 1 /\ n + 1 \in 1 .. n + 1
      BY <2>1
    <3> QED
      BY <2>1, <3>1, <3>2 DEF Above
  <2>3. /\ Reaches(x, s, n, pkt, copy, to, ports, other)
        /\ Reaches(x, s, n + 1, pkt, copy, to, ports, other)
    BY <2>2 DEF AboveReaches
  <2>4. /\ Forwarder(x, n, "pass_entry", copy, to)
        /\ Marking(percent) => Forwarder(x, n + 1, "ce_entry", copy, to)
        /\ s[n] = [ecn \in Ecn |-> Visit(x, s, n, pkt, ecn)]
        /\ s[n + 1] = [ecn \in Ecn |-> Visit(x, s, n + 1, pkt, ecn)]
    <3>1. n \in 1 .. n /\ n \in 1 .. n + 1 /\ n + 1 \in 1 .. n + 1
      BY <2>1
    <3> QED
      BY <2>1, <3>1 DEF Forwarder, MarkPipe, PassPipe
  <2>5. \A ecn \in Ecn : s[n][ecn] = Forwarded("pass_entry", ports, other, pkt, ecn)
    BY <2>3, <2>4, ForwardedBy
  <2>6. ASSUME Marking(percent)
        PROVE  \A ecn \in Ecn : s[n + 1][ecn] = Forwarded("ce_entry", ports, other, pkt, ecn)
    BY <2>3, <2>4, <2>6, ForwardedBy
  <2> QED
    BY <2>5, <2>6 DEF ForwardsAs
<1>2. Ending(base, mark)
  OBVIOUS
<1> HIDE DEF mark
<1>3. ChainForwardsAs(base, mark, percent, pkt, ports, other)
  BY <1>1 DEF ChainForwardsAs
<1>4. Journey(Chain(base, mark, percent), pkt)
        = IF pkt.from = "sf" THEN Once("WIRE", pkt.ecn)
          ELSE FromWire(percent, ports, other, pkt)
  BY <1>2, <1>3, ChainJourney
<1> QED
  BY <1>4 DEF mark

(* PASSTHROUGH in its two forms, wherever it stands.                           *)
LEMMA PassthroughVisit ==
  ASSUME NEW x, NEW s, NEW k, NEW pkt \in Packets, NEW on \in {"any", "ip4"}, Placed(x, s, k),
         x[k] = Pipe("PASSTHROUGH", <<Entry(on, "SF")>>, "DROP"),
         s[k] = [ecn \in Ecn |-> Visit(x, s, k, pkt, ecn)]
  PROVE  \A ecn \in Ecn : s[k][ecn] = IF pkt.ip4 \/ on = "any" THEN Once("SF", ecn) ELSE Nothing
<1> SUFFICES ASSUME NEW ecn \in Ecn
             PROVE  s[k][ecn] = IF pkt.ip4 \/ on = "any" THEN Once("SF", ecn) ELSE Nothing
  OBVIOUS
<1>1. Visit(x, s, k, pkt, ecn)
        = IF Hits(Entry(on, "SF"), pkt) THEN Arrive(x, s, k, "SF", ecn) ELSE Nothing
  BY PlainVisit
<1>2. Arrive(x, s, k, "SF", ecn) = Once("SF", ecn)
  BY DEF Arrive, Ports
<1>3. Hits(Entry(on, "SF"), pkt) <=> pkt.ip4 \/ on = "any"
  BY DEF Hits, Entry, Packets
<1> QED
  BY <1>1, <1>2, <1>3

(* What becomes of a packet that is not IPv4: by PASSTHROUGH's match.          *)
Miss(on) == IF on = "any" THEN "SF" ELSE "none"

(* No capture: MARK and PASS deliver to the SF, what is not IPv4 depends on the *)
(* PASSTHROUGH pipe.                                                           *)
LEMMA PlainChain ==
  ASSUME NEW on \in {"any", "ip4"}, NEW percent \in Int \cup {NaN}, NEW pkt \in Packets
  PROVE  Journey(Chain(<<Pipe("PASSTHROUGH", <<Entry(on, "SF")>>, "DROP"),
                         PassPipe("none", "SF")>>,
                       MarkPipe("none", "SF"), percent), pkt)
           = IF pkt.from = "sf" THEN Once("WIRE", pkt.ecn)
             ELSE FromWire(percent, {"SF"}, Miss(on), pkt)
<1> DEFINE P    == Pipe("PASSTHROUGH", <<Entry(on, "SF")>>, "DROP")
           F    == PassPipe("none", "SF")
           M    == MarkPipe("none", "SF")
           base == <<P, F>>
<1>1. base \in Seq({P, F}) /\ Len(base) = 2 /\ base[1] = P /\ base[2] = F
  OBVIOUS
<1>2. P.name = "PASSTHROUGH" /\ F.name = "PASS" /\ M.name = "MARK"
  BY DEF Pipe, ForwardPipe, MarkPipe, PassPipe
<1>3. Ending(base, M)
  <2> HIDE DEF P, F, M, base
  <2> QED
    BY <1>1, <1>2 DEF Ending
<1> HIDE DEF P, F, base
<1>4. ASSUME NEW x, NEW s, NEW i, Above(x, base, s, pkt, i)
      PROVE  Reaches(x, s, i, pkt, "none", "SF", {"SF"}, Miss(on))
  <2>1. i \in {2, 3} /\ Placed(x, s, i) /\ x[1] = P /\ Placed(x, s, 1)
    BY <1>1, <1>4 DEF Above
  <2>2. i = 3 => x[2] = F
    BY <1>1, <1>4 DEF Above
  <2>3. s[1] = [ecn \in Ecn |-> Visit(x, s, 1, pkt, ecn)]
    BY <2>1, <1>4 DEF Above
  <2>4. \A ecn \in Ecn : s[1][ecn] = IF pkt.ip4 \/ on = "any" THEN Once("SF", ecn) ELSE Nothing
    BY <2>1, <2>3, PassthroughVisit DEF P
  <2>5. Nowhere(x, i, "none")
    BY <2>1 DEF Placed, Nowhere, Ports
  <2>6. \A e \in Ecn : /\ Arrive(x, s, i, "none", e) = Nothing
                       /\ Arrive(x, s, i, "SF", e) = Once("SF", e)
    BY <2>1, <2>5, Arrives DEF Ports
  <2>7. Leads(x, i, "PASSTHROUGH", 1)
    BY <1>2, <2>1, <2>2 DEF Leads, Ports
  <2>8. \A e \in Ecn : Arrive(x, s, i, "PASSTHROUGH", e) = s[1][e]
    BY <2>1, <2>7, Arrives
  <2> QED
    BY <2>4, <2>6, <2>8, SightingsAdd DEF Reaches, Copies, Miss
<1>5. base[Len(base)] = PassPipe("none", "SF")
  BY <1>1 DEF F
<1>6. AboveReaches(base, pkt, "none", "SF", {"SF"}, Miss(on))
  BY <1>4 DEF AboveReaches
<1>7. Journey(Chain(base, M, percent), pkt)
        = IF pkt.from = "sf" THEN Once("WIRE", pkt.ecn)
          ELSE FromWire(percent, {"SF"}, Miss(on), pkt)
  BY <1>1, <1>3, <1>5, <1>6, ChainForwards
<1> QED
  BY <1>7 DEF P, F, base

(* TO_CPU: IPv4 to the CPU, the rest dropped.                                  *)
LEMMA ToCpuVisit ==
  ASSUME NEW x, NEW s, NEW k, NEW pkt \in Packets, Placed(x, s, k), x[k] = ToCpu,
         s[k] = [ecn \in Ecn |-> Visit(x, s, k, pkt, ecn)]
  PROVE  \A ecn \in Ecn : s[k][ecn] = IF pkt.ip4 THEN Once("CPU", ecn) ELSE Nothing
<1> SUFFICES ASSUME NEW ecn \in Ecn
             PROVE  s[k][ecn] = IF pkt.ip4 THEN Once("CPU", ecn) ELSE Nothing
  OBVIOUS
<1>1. Visit(x, s, k, pkt, ecn)
        = IF Hits(Entry("ip4", "CPU"), pkt) THEN Arrive(x, s, k, "CPU", ecn) ELSE Nothing
  <2>1. x[k] = Pipe("TO_CPU", <<Entry("ip4", "CPU")>>, "DROP")
    BY DEF ToCpu
  <2> QED
    BY <2>1, PlainVisit
<1>2. Arrive(x, s, k, "CPU", ecn) = Once("CPU", ecn)
  BY DEF Arrive, Ports
<1>3. Hits(Entry("ip4", "CPU"), pkt) <=> pkt.ip4
  BY DEF Hits, Entry, Packets
<1> QED
  BY <1>1, <1>2, <1>3

(* A sequence of four pipes.                                                   *)
LEMMA BaseOfFour ==
  ASSUME NEW a, NEW b, NEW c, NEW d
  PROVE  LET base == <<a, b, c, d>>
         IN  /\ base \in Seq({a, b, c, d}) /\ Len(base) = 4
             /\ base[1] = a /\ base[2] = b /\ base[3] = c /\ base[4] = d
OBVIOUS

(* What may be relied on behind three pipes and PASS.                          *)
LEMMA AboveFour ==
  ASSUME NEW x, NEW base, NEW s, NEW pkt, NEW i, Above(x, base, s, pkt, i), Len(base) = 4
  PROVE  /\ i \in {4, 5} /\ Placed(x, s, i)
         /\ x[1] = base[1] /\ x[2] = base[2] /\ x[3] = base[3] /\ (i = 5 => x[4] = base[4])
         /\ Placed(x, s, 1) /\ Placed(x, s, 2) /\ Placed(x, s, 3)
         /\ s[1] = [ecn \in Ecn |-> Visit(x, s, 1, pkt, ecn)]
         /\ s[2] = [ecn \in Ecn |-> Visit(x, s, 2, pkt, ecn)]
         /\ s[3] = [ecn \in Ecn |-> Visit(x, s, 3, pkt, ecn)]
<1>1. i \in {4, 5} /\ Placed(x, s, i)
  BY DEF Above
<1>2. 1 \in 1 .. i - 1 /\ 2 \in 1 .. i - 1 /\ 3 \in 1 .. i - 1 /\ (i = 5 => 4 \in 1 .. i - 1)
  BY <1>1
<1>3. \A k \in 1 .. i - 1 : x[k] = base[k] /\ Placed(x, s, k)
  BY DEF Above
<1>4. \A k \in 1 .. i - 1 : s[k] = [ecn \in Ecn |-> Visit(x, s, k, pkt, ecn)]
  BY DEF Above
<1> QED
  BY <1>1, <1>2, <1>3, <1>4

(* doca-3's capture: FLOOD delivers to the SF and to the CPU.                  *)
LEMMA FloodChain ==
  ASSUME NEW percent \in Int \cup {NaN}, NEW pkt \in Packets
  PROVE  Journey(Chain(<<PassthroughIp4, ToCpu, Flood, PassPipe("none", "FLOOD")>>,
                       MarkPipe("none", "FLOOD"), percent), pkt)
           = IF pkt.from = "sf" THEN Once("WIRE", pkt.ecn)
             ELSE FromWire(percent, {"SF", "CPU"}, Miss("ip4"), pkt)
<1> DEFINE F    == PassPipe("none", "FLOOD")
           M    == MarkPipe("none", "FLOOD")
           base == <<PassthroughIp4, ToCpu, Flood, F>>
<1>1. /\ base \in Seq({PassthroughIp4, ToCpu, Flood, F}) /\ Len(base) = 4
      /\ base[1] = PassthroughIp4 /\ base[2] = ToCpu /\ base[3] = Flood /\ base[4] = F
  BY BaseOfFour
<1>2. /\ PassthroughIp4.name = "PASSTHROUGH" /\ ToCpu.name = "TO_CPU" /\ Flood.name = "FLOOD"
      /\ F.name = "PASS" /\ M.name = "MARK"
  BY DEF Pipe, ForwardPipe, MarkPipe, PassPipe, PassthroughIp4, ToCpu, Flood
<1>3. Ending(base, M)
  <2> HIDE DEF F, M, base
  <2> QED
    BY <1>1, <1>2 DEF Ending
<1> HIDE DEF F, base
<1>4. ASSUME NEW x, NEW s, NEW i, Above(x, base, s, pkt, i)
      PROVE  Reaches(x, s, i, pkt, "none", "FLOOD", {"SF", "CPU"}, Miss("ip4"))
  <2>1. /\ i \in {4, 5} /\ Placed(x, s, i)
        /\ x[1] = PassthroughIp4 /\ x[2] = ToCpu /\ x[3] = Flood /\ (i = 5 => x[4] = F)
        /\ Placed(x, s, 1) /\ Placed(x, s, 2) /\ Placed(x, s, 3)
        /\ s[1] = [ecn \in Ecn |-> Visit(x, s, 1, pkt, ecn)]
        /\ s[2] = [ecn \in Ecn |-> Visit(x, s, 2, pkt, ecn)]
        /\ s[3] = [ecn \in Ecn |-> Visit(x, s, 3, pkt, ecn)]
    BY <1>1, <1>4, AboveFour
  <2>2. \A e \in Ecn : s[1][e] = IF pkt.ip4 THEN Once("SF", e) ELSE Nothing
    BY <2>1, PassthroughVisit DEF PassthroughIp4
  <2>3. \A e \in Ecn : s[2][e] = IF pkt.ip4 THEN Once("CPU", e) ELSE Nothing
    BY <2>1, ToCpuVisit
  <2>4. \A e \in Ecn : s[3][e] = Both(s[1][e], s[2][e])
    <3>1. Leads(x, 3, "PASSTHROUGH", 1) /\ Leads(x, 3, "TO_CPU", 2)
      BY <1>2, <2>1 DEF Leads, Ports
    <3>2. \A e \in Ecn : /\ Arrive(x, s, 3, "PASSTHROUGH", e) = s[1][e]
                         /\ Arrive(x, s, 3, "TO_CPU", e) = s[2][e]
      BY <3>1, Arrives
    <3>3. \A e \in Ecn : Visit(x, s, 3, pkt, e) = Both(Arrive(x, s, 3, "PASSTHROUGH", e),
                                                       Arrive(x, s, 3, "TO_CPU", e))
      BY <2>1, FloodVisit
    <3>4. \A e \in Ecn : s[3][e] = Visit(x, s, 3, pkt, e)
      BY <2>1
    <3> QED
      BY <3>2, <3>3, <3>4
  <2>5. Nowhere(x, i, "none")
    BY <2>1 DEF Placed, Nowhere, Ports
  <2>6. Leads(x, i, "PASSTHROUGH", 1) /\ Leads(x, i, "FLOOD", 3)
    BY <1>2, <2>1 DEF Leads, Ports
  <2>7. \A e \in Ecn : /\ Arrive(x, s, i, "none", e) = Nothing
                       /\ Arrive(x, s, i, "FLOOD", e) = s[3][e]
                       /\ Arrive(x, s, i, "PASSTHROUGH", e) = s[1][e]
    <3>1. i \in Nat
      BY <2>1
    <3>2. \A e \in Ecn : Arrive(x, s, i, "none", e) = Nothing
      BY <2>5, <3>1, Arrives
    <3>3. \A e \in Ecn : Arrive(x, s, i, "FLOOD", e) = s[3][e]
      BY <2>6, <3>1, Arrives
    <3>4. \A e \in Ecn : Arrive(x, s, i, "PASSTHROUGH", e) = s[1][e]
      BY <2>6, <3>1, Arrives
    <3> QED
      BY <3>2, <3>3, <3>4
  <2>8. pkt.ip4 => Copies(x, s, i, "none", "FLOOD", {"SF", "CPU"})
    BY <2>2, <2>3, <2>4, <2>7 DEF Copies
  <2>9. ~pkt.ip4 => \A e \in Ecn : Arrive(x, s, i, "PASSTHROUGH", e) = Once(Miss("ip4"), e)
    BY <2>2, <2>7, SightingsAdd DEF Miss
  <2> QED
    BY <2>8, <2>9 DEF Reaches
<1>5. base[Len(base)] = PassPipe("none", "FLOOD")
  BY <1>1 DEF F
<1>6. AboveReaches(base, pkt, "none", "FLOOD", {"SF", "CPU"}, Miss("ip4"))
  BY <1>4 DEF AboveReaches
<1>7. Journey(Chain(base, M, percent), pkt)
        = IF pkt.from = "sf" THEN Once("WIRE", pkt.ecn)
          ELSE FromWire(percent, {"SF", "CPU"}, Miss("ip4"), pkt)
  <2>1. Ending(base, MarkPipe("none", "FLOOD"))
    BY <1>3 DEF M
  <2>2. base \in Seq({PassthroughIp4, ToCpu, Flood, F})
    BY <1>1
  <2>3. Journey(Chain(base, MarkPipe("none", "FLOOD"), percent), pkt)
          = IF pkt.from = "sf" THEN Once("WIRE", pkt.ecn)
            ELSE FromWire(percent, {"SF", "CPU"}, Miss("ip4"), pkt)
    BY <1>5, <1>6, <2>1, <2>2, ChainForwards
  <2> QED
    BY <2>3 DEF M
<1> QED
  BY <1>7 DEF F, base

(* doca-2's capture: the mirror copies, the entry forwards.                    *)
LEMMA MirrorChain ==
  ASSUME NEW percent \in Int \cup {NaN}, NEW pkt \in Packets
  PROVE  Journey(Chain(<<ToCpu, CaptureMirror, PassthroughIp4, PassPipe("MIRROR", "SF")>>,
                       MarkPipe("MIRROR", "SF"), percent), pkt)
           = IF pkt.from = "sf" THEN Once("WIRE", pkt.ecn)
             ELSE FromWire(percent, {"SF", "CPU"}, Miss("ip4"), pkt)
<1> DEFINE F    == PassPipe("MIRROR", "SF")
           M    == MarkPipe("MIRROR", "SF")
           base == <<ToCpu, CaptureMirror, PassthroughIp4, F>>
<1>1. /\ base \in Seq({ToCpu, CaptureMirror, PassthroughIp4, F}) /\ Len(base) = 4
      /\ base[1] = ToCpu /\ base[2] = CaptureMirror /\ base[3] = PassthroughIp4 /\ base[4] = F
  BY BaseOfFour
<1>2. /\ PassthroughIp4.name = "PASSTHROUGH" /\ ToCpu.name = "TO_CPU"
      /\ CaptureMirror.name = "MIRROR" /\ F.name = "PASS" /\ M.name = "MARK"
  BY DEF Pipe, ForwardPipe, MarkPipe, PassPipe, PassthroughIp4, ToCpu, CaptureMirror
<1>3. Ending(base, M)
  <2> HIDE DEF F, M, base
  <2> QED
    BY <1>1, <1>2 DEF Ending
<1> HIDE DEF F, base
<1>4. ASSUME NEW x, NEW s, NEW i, Above(x, base, s, pkt, i)
      PROVE  Reaches(x, s, i, pkt, "MIRROR", "SF", {"SF", "CPU"}, Miss("ip4"))
  <2>1. /\ i \in {4, 5} /\ Placed(x, s, i)
        /\ x[1] = ToCpu /\ x[2] = CaptureMirror /\ x[3] = PassthroughIp4 /\ (i = 5 => x[4] = F)
        /\ Placed(x, s, 1) /\ Placed(x, s, 2) /\ Placed(x, s, 3)
        /\ s[1] = [ecn \in Ecn |-> Visit(x, s, 1, pkt, ecn)]
        /\ s[2] = [ecn \in Ecn |-> Visit(x, s, 2, pkt, ecn)]
        /\ s[3] = [ecn \in Ecn |-> Visit(x, s, 3, pkt, ecn)]
    BY <1>1, <1>4, AboveFour
  <2>2. \A e \in Ecn : s[3][e] = IF pkt.ip4 THEN Once("SF", e) ELSE Nothing
    BY <2>1, PassthroughVisit DEF PassthroughIp4
  <2>3. \A e \in Ecn : s[1][e] = IF pkt.ip4 THEN Once("CPU", e) ELSE Nothing
    BY <2>1, ToCpuVisit
  <2>4. \A e \in Ecn : s[2][e] = s[1][e]
    <3>1. Leads(x, 2, "TO_CPU", 1)
      BY <1>2, <2>1 DEF Leads, Ports
    <3>2. \A e \in Ecn : Arrive(x, s, 2, "TO_CPU", e) = s[1][e]
      BY <3>1, Arrives
    <3>3. Hits(Entry("any", "TO_CPU"), pkt)
      BY DEF Hits, Entry
    <3>4. x[2] = Pipe("MIRROR", <<Entry("any", "TO_CPU")>>, "DROP")
      BY <2>1 DEF CaptureMirror
    <3>5. \A e \in Ecn : Visit(x, s, 2, pkt, e) = Arrive(x, s, 2, "TO_CPU", e)
      BY <2>1, <3>3, <3>4, PlainVisit
    <3>6. \A e \in Ecn : s[2][e] = Visit(x, s, 2, pkt, e)
      BY <2>1
    <3> QED
      BY <3>2, <3>5, <3>6
  <2>5. Leads(x, i, "PASSTHROUGH", 3) /\ Leads(x, i, "MIRROR", 2)
    BY <1>2, <2>1 DEF Leads, Ports
  <2>6. \A e \in Ecn : /\ Arrive(x, s, i, "MIRROR", e) = s[2][e]
                       /\ Arrive(x, s, i, "SF", e) = Once("SF", e)
                       /\ Arrive(x, s, i, "PASSTHROUGH", e) = s[3][e]
    <3>1. i \in Nat /\ "SF" \in Ports
      BY <2>1 DEF Ports
    <3> QED
      BY <2>5, <3>1, Arrives
  <2>7. pkt.ip4 => Copies(x, s, i, "MIRROR", "SF", {"SF", "CPU"})
    BY <2>3, <2>4, <2>6 DEF Copies
  <2>8. ~pkt.ip4 => \A e \in Ecn : Arrive(x, s, i, "PASSTHROUGH", e) = Once(Miss("ip4"), e)
    BY <2>2, <2>6, SightingsAdd DEF Miss
  <2> QED
    BY <2>7, <2>8 DEF Reaches
<1>5. base[Len(base)] = PassPipe("MIRROR", "SF")
  BY <1>1 DEF F
<1>6. AboveReaches(base, pkt, "MIRROR", "SF", {"SF", "CPU"}, Miss("ip4"))
  BY <1>4 DEF AboveReaches
<1>7. Journey(Chain(base, M, percent), pkt)
        = IF pkt.from = "sf" THEN Once("WIRE", pkt.ecn)
          ELSE FromWire(percent, {"SF", "CPU"}, Miss("ip4"), pkt)
  <2>1. Ending(base, MarkPipe("MIRROR", "SF"))
    BY <1>3 DEF M
  <2>2. base \in Seq({ToCpu, CaptureMirror, PassthroughIp4, F})
    BY <1>1
  <2>3. Journey(Chain(base, MarkPipe("MIRROR", "SF"), percent), pkt)
          = IF pkt.from = "sf" THEN Once("WIRE", pkt.ecn)
            ELSE FromWire(percent, {"SF", "CPU"}, Miss("ip4"), pkt)
    BY <1>5, <1>6, <2>1, <2>2, ChainForwards
  <2> QED
    BY <2>3 DEF M
<1> QED
  BY <1>7 DEF F, base

(* An entry that may count and forwards to a port.                             *)
Reported(counter, to, ecn) == Both(Once(counter, ecn), Once(to, ecn))

(* An entry that counts and forwards to a port.                                *)
LEMMA CountingEntry ==
  ASSUME NEW x, NEW i, NEW s, NEW e, NEW ecn \in Ecn, ~e.setCe, e.copy = "none", e.to \in Ports,
         Placed(x, s, i)
  PROVE  Leave(x, s, i, e, ecn) = Reported(e.counter, e.to, ecn)
<1>1. Arrive(x, s, i, "none", ecn) = Nothing
  <2>1. Nowhere(x, i, "none") /\ i \in Nat
    BY DEF Nowhere, Placed, Ports
  <2> QED
    BY <2>1, Arrives
<1>2. Arrive(x, s, i, e.to, ecn) = Once(e.to, ecn)
  BY DEF Arrive
<1>3. Leave(x, s, i, e, ecn) = Both(Once(e.counter, ecn), Both(Nothing, Once(e.to, ecn)))
  BY <1>1, <1>2 DEF Leave
<1> QED
  BY <1>3, SightingsAdd DEF Reported

(* A program of one root pipe: the template and doca-2's nop.                  *)
LEMMA OneRoot ==
  ASSUME NEW e1, NEW e2, NEW pkt \in Packets, e1.on = "wire", e2.on = "sf",
         ~e1.setCe, e1.copy = "none", e1.to \in Ports,
         ~e2.setCe, e2.copy = "none", e2.to \in Ports
  PROVE  Journey(<<Pipe("ROOT", <<e1, e2>>, "DROP")>>, pkt)
           = IF pkt.from = "wire" THEN Reported(e1.counter, e1.to, pkt.ecn)
                                  ELSE Reported(e2.counter, e2.to, pkt.ecn)
<1> DEFINE R == Pipe("ROOT", <<e1, e2>>, "DROP")
           x == <<R>>
<1>1. DOMAIN x = 1 .. 1 /\ Len(x) = 1 /\ x[1] = R
  OBVIOUS
<1>2. pkt.ecn \in Ecn /\ 1 \in Nat
  BY DEF Packets
<1> HIDE DEF x
<1>3. PICK s : Visits(x, pkt, s, 1) /\ Journey(x, pkt) = s[1][pkt.ecn]
  BY <1>1, <1>2, JourneyVisits
<1>4. Placed(x, s, 1)
  BY DEF Placed
<1>5. s[1][pkt.ecn] = Visit(x, s, 1, pkt, pkt.ecn)
  <2>1. s = [i \in 1 .. 1 |-> [ecn \in Ecn |-> Visit(x, s, i, pkt, ecn)]]
    BY <1>3 DEF Visits
  <2>2. s[1] = [ecn \in Ecn |-> Visit(x, s, 1, pkt, ecn)]
    BY <2>1
  <2> QED
    BY <1>2, <2>2
<1>6. Visit(x, s, 1, pkt, pkt.ecn) = IF pkt.from = "wire" THEN Leave(x, s, 1, e1, pkt.ecn)
                                                           ELSE Leave(x, s, 1, e2, pkt.ecn)
  BY <1>1, <1>2, RootEntries
<1>7. /\ Leave(x, s, 1, e1, pkt.ecn) = Reported(e1.counter, e1.to, pkt.ecn)
      /\ Leave(x, s, 1, e2, pkt.ecn) = Reported(e2.counter, e2.to, pkt.ecn)
  BY <1>2, <1>4, CountingEntry
<1> QED
  BY <1>3, <1>5, <1>6, <1>7 DEF x

(* The template: from the wire to the SF, and back.                            *)
LEMMA TemplateJourney ==
  ASSUME NEW pkt \in Packets
  PROVE  Journey(TemplatePipeline, pkt)
           = IF pkt.from = "wire" THEN Once("SF", pkt.ecn) ELSE Once("WIRE", pkt.ecn)
<1> DEFINE e1 == Entry("wire", "SF")
           e2 == Entry("sf", "WIRE")
<1>1. /\ e1.on = "wire" /\ ~e1.setCe /\ e1.copy = "none" /\ e1.counter = "none" /\ e1.to = "SF"
      /\ e2.on = "sf" /\ ~e2.setCe /\ e2.copy = "none" /\ e2.counter = "none" /\ e2.to = "WIRE"
  BY DEF Entry
<1>2. TemplatePipeline = <<Pipe("ROOT", <<e1, e2>>, "DROP")>>
  BY DEF TemplatePipeline, RootNop
<1> HIDE DEF e1, e2
<1>3. Journey(TemplatePipeline, pkt) = IF pkt.from = "wire" THEN Reported("none", "SF", pkt.ecn)
                                                            ELSE Reported("none", "WIRE", pkt.ecn)
  BY <1>1, <1>2, OneRoot DEF Ports
<1>4. \A to : Reported("none", to, pkt.ecn) = Once(to, pkt.ecn)
  BY SightingsAdd DEF Reported
<1> QED
  BY <1>3, <1>4

(* doca-2's nop: the same, counted on both ways.                               *)
LEMMA Nop27Journey ==
  ASSUME NEW pkt \in Packets
  PROVE  Journey(<<Nop27Root>>, pkt)
           = IF pkt.from = "wire" THEN Reported("to_sf", "SF", pkt.ecn)
                                  ELSE Reported("to_wire", "WIRE", pkt.ecn)
<1> DEFINE e1 == [Entry("wire", "SF") EXCEPT !.counter = "to_sf"]
           e2 == [Entry("sf", "WIRE") EXCEPT !.counter = "to_wire"]
<1>1. /\ e1.on = "wire" /\ ~e1.setCe /\ e1.copy = "none" /\ e1.counter = "to_sf" /\ e1.to = "SF"
      /\ e2.on = "sf" /\ ~e2.setCe /\ e2.copy = "none" /\ e2.counter = "to_wire" /\ e2.to = "WIRE"
  BY DEF Entry
<1>2. Nop27Root = Pipe("ROOT", <<e1, e2>>, "DROP")
  BY DEF Nop27Root
<1> HIDE DEF e1, e2
<1> QED
  BY <1>1, <1>2, OneRoot DEF Ports

(* doca-3's nop: IPv4 is counted and forwarded, the rest is dropped.           *)
LEMMA NopJourney ==
  ASSUME NEW pkt \in Packets
  PROVE  Journey(NopPipeline, pkt)
           = IF pkt.from = "sf" THEN Once("WIRE", pkt.ecn)
             ELSE IF pkt.ip4 THEN Reported("fwd_entry", "SF", pkt.ecn) ELSE Nothing
<1> DEFINE e == [Entry("ip4", "SF") EXCEPT !.counter = "fwd_entry"]
           F == Pipe("FORWARD", <<e>>, "DROP")
           R == Root("FORWARD")
           x == <<F, R>>
<1>1. DOMAIN x = 1 .. 2 /\ Len(x) = 2 /\ x[1] = F /\ x[2] = R
  OBVIOUS
<1>2. pkt.ecn \in Ecn /\ 2 \in Nat /\ pkt.from \in {"wire", "sf"}
  BY DEF Packets
<1>3. NopPipeline = x /\ F.name = "FORWARD"
  BY DEF NopPipeline, NopForward, Pipe
<1>4. e.on = "ip4" /\ ~e.setCe /\ e.copy = "none" /\ e.counter = "fwd_entry" /\ e.to = "SF"
  BY DEF Entry
<1> HIDE DEF e, x
<1>5. PICK s : Visits(x, pkt, s, 2) /\ Journey(x, pkt) = s[2][pkt.ecn]
  BY <1>1, <1>2, JourneyVisits
<1>6. Placed(x, s, 1) /\ Placed(x, s, 2)
  <2>1. \A i \in 1 .. 2 : s[i] \in [Ecn -> Sightings]
    BY <1>2, <1>5, VisitsType
  <2> QED
    BY <1>1, <1>3, <2>1 DEF Placed
<1>7. s[1][pkt.ecn] = Visit(x, s, 1, pkt, pkt.ecn) /\ s[2][pkt.ecn] = Visit(x, s, 2, pkt, pkt.ecn)
  <2>1. s = [i \in 1 .. 2 |-> [ecn \in Ecn |-> Visit(x, s, i, pkt, ecn)]]
    BY <1>5 DEF Visits
  <2>2. /\ s[1] = [ecn \in Ecn |-> Visit(x, s, 1, pkt, ecn)]
        /\ s[2] = [ecn \in Ecn |-> Visit(x, s, 2, pkt, ecn)]
    BY <2>1
  <2> QED
    BY <1>2, <2>2
<1>8. s[1][pkt.ecn] = IF pkt.ip4 THEN Reported("fwd_entry", "SF", pkt.ecn) ELSE Nothing
  <2>1. Visit(x, s, 1, pkt, pkt.ecn) = IF Hits(e, pkt) THEN Leave(x, s, 1, e, pkt.ecn)
                                       ELSE Arrive(x, s, 1, "DROP", pkt.ecn)
    BY <1>1, OneEntry
  <2>2. Arrive(x, s, 1, "DROP", pkt.ecn) = Nothing
    <3>1. Nowhere(x, 1, "DROP")
      BY DEF Nowhere, Ports
    <3> QED
      BY <3>1, Arrives
  <2>3. Leave(x, s, 1, e, pkt.ecn) = Reported("fwd_entry", "SF", pkt.ecn)
    <3>1. e.to \in Ports
      BY <1>4 DEF Ports
    <3> QED
      BY <1>2, <1>4, <1>6, <3>1, CountingEntry
  <2>4. Hits(e, pkt) <=> pkt.ip4
    BY <1>4 DEF Hits, Packets
  <2> QED
    BY <1>7, <2>1, <2>2, <2>3, <2>4
<1>9. s[2][pkt.ecn] = IF pkt.from = "wire" THEN s[1][pkt.ecn] ELSE Once("WIRE", pkt.ecn)
  <2>1. Leads(x, 2, "FORWARD", 1)
    BY <1>1, <1>3 DEF Leads, Ports
  <2>2. Arrive(x, s, 2, "FORWARD", pkt.ecn) = s[1][pkt.ecn]
    BY <2>1, Arrives
  <2>3. x[2] = Root("FORWARD")
    BY <1>1
  <2> QED
    BY <1>2, <1>6, <1>7, <2>2, <2>3, RootVisit
<1> QED
  BY <1>2, <1>3, <1>5, <1>8, <1>9

(* ---------------------- the pipelines that are built ---------------------- *)

(* A pipeline: its pipes have a name and entries, and the last one is the root. *)
Laid(x) ==
  /\ \E S : x \in Seq(S)
  /\ Len(x) \in Nat \ {0} /\ DOMAIN x = 1 .. Len(x)
  /\ \A i \in 1 .. Len(x) : {"name", "entries"} \subseteq DOMAIN x[i]
  /\ \A i \in 1 .. Len(x) : x[i].name = "ROOT" => i = Len(x)

(* Every pipe has a name and entries.                                          *)
LEMMA PipeFields ==
  /\ \A name, entries, miss : {"name", "entries"} \subseteq DOMAIN Pipe(name, entries, miss)
  /\ {"name", "entries"} \subseteq DOMAIN Flood
  /\ \A copy, to : /\ {"name", "entries"} \subseteq DOMAIN MarkPipe(copy, to)
                   /\ {"name", "entries"} \subseteq DOMAIN PassPipe(copy, to)
<1>1. \A name, entries, miss : {"name", "entries"} \subseteq DOMAIN Pipe(name, entries, miss)
  BY DEF Pipe
<1>2. {"name", "entries"} \subseteq DOMAIN Flood
  BY DEF Flood
<1>3. \A copy, to : /\ {"name", "entries"} \subseteq DOMAIN MarkPipe(copy, to)
                    /\ {"name", "entries"} \subseteq DOMAIN PassPipe(copy, to)
  BY <1>1 DEF MarkPipe, PassPipe, ForwardPipe
<1> QED
  BY <1>1, <1>2, <1>3

(* A chain is a sequence.                                                      *)
LEMMA ChainInSeq ==
  ASSUME NEW S, NEW base \in Seq(S), NEW mark, NEW percent
  PROVE  \E T : Chain(base, mark, percent) \in Seq(T)
<1> DEFINE P == Root("PASS")
           M == Root("MARK")
           R == Root("SAMPLE")
           A == Sampling(percent)
           T == S \cup {mark, P, M, R, A}
<1>1. base \in Seq(T)
  BY SeqMonotonic
<1>2. mark \in T /\ P \in T /\ M \in T /\ R \in T /\ A \in T
  OBVIOUS
<1>3. MarkIf(percent, mark) \in {<<mark>>, <<>>} /\ HeadOfChain(percent) \in {<<M>>, <<P>>, <<A, R>>}
  BY DEF MarkIf, HeadOfChain
<1> HIDE DEF P, M, R, A, T
<1>4. <<mark>> \in Seq(T) /\ <<>> \in Seq(T) /\ <<M>> \in Seq(T) /\ <<P>> \in Seq(T)
  BY <1>2, EmptySeq
<1>5. <<A, R>> \in Seq(T)
  BY <1>2, SequenceOfTwo
<1>6. MarkIf(percent, mark) \in Seq(T) /\ HeadOfChain(percent) \in Seq(T)
  BY <1>3, <1>4, <1>5
<1>7. base \o MarkIf(percent, mark) \in Seq(T)
  BY <1>1, <1>6, ConcatProperties
<1>8. Chain(base, mark, percent) \in Seq(T)
  BY <1>6, <1>7, ConcatProperties DEF Chain
<1> QED
  BY <1>8

(* A chain is a pipeline if its base and its MARK are pipes.                   *)
LEMMA ChainLaid ==
  ASSUME NEW S, NEW base \in Seq(S), NEW mark, NEW percent \in Int \cup {NaN}, Ending(base, mark),
         \A i \in 1 .. Len(base) : {"name", "entries"} \subseteq DOMAIN base[i],
         {"name", "entries"} \subseteq DOMAIN mark
  PROVE  Laid(Chain(base, mark, percent))
<1> DEFINE n == Len(base)
           x == Chain(base, mark, percent)
           N == Len(x)
<1>1. \E T : x \in Seq(T)
  BY ChainInSeq
<1>2. /\ n \in Nat /\ N \in Nat /\ DOMAIN x = 1 .. N
      /\ \A i \in 1 .. n : x[i] = base[i]
      /\ \/ N = n + 1 /\ x[n + 1] = Root("PASS")
         \/ N = n + 2 /\ x[n + 1] = mark /\ x[n + 2] = Root("MARK")
         \/ /\ N = n + 3
            /\ x[n + 1] = mark /\ x[n + 2] = Sampling(percent) /\ x[n + 3] = Root("SAMPLE")
         \/ N = n + 2 /\ x[n + 1] = Sampling(percent) /\ x[n + 2] = Root("SAMPLE")
  <2>1. /\ n \in Nat /\ N \in Nat /\ DOMAIN x = 1 .. N
        /\ \A i \in 1 .. n : x[i] = base[i]
        /\ \/ /\ ~Marking(percent) /\ ~Picking(percent) /\ N = n + 1
              /\ x[n + 1] = Root("PASS")
           \/ /\ Marking(percent) /\ ~Picking(percent) /\ N = n + 2
              /\ x[n + 1] = mark /\ x[n + 2] = Root("MARK")
           \/ /\ Marking(percent) /\ Picking(percent) /\ N = n + 3
              /\ x[n + 1] = mark /\ x[n + 2] = Sampling(percent) /\ x[n + 3] = Root("SAMPLE")
           \/ /\ ~Marking(percent) /\ Picking(percent) /\ N = n + 2
              /\ x[n + 1] = Sampling(percent) /\ x[n + 2] = Root("SAMPLE")
    BY ChainShape
  <2> HIDE DEF x, n, N
  <2> QED
    BY <2>1
<1>3. /\ \A i \in 1 .. n - 1 : x[i].name \notin {"PASS", "MARK", "SAMPLE", "ROOT", "none", "DROP"}
      /\ x[n].name = "PASS"
      /\ Marking(percent) => x[n + 1].name = "MARK" /\ n + 1 < Len(x)
      /\ Picking(percent) => x[SamplerAt(n, percent)].name = "SAMPLE"
      /\ x[Len(x)].name = "ROOT"
      /\ \A i \in 1 .. Len(x) : \/ i < n \/ i = n \/ i = Len(x)
                                \/ Marking(percent) /\ i = n + 1
                                \/ Picking(percent) /\ i = SamplerAt(n, percent)
  BY ChainNames
<1>4. /\ \A t : {"name", "entries"} \subseteq DOMAIN Root(t)
      /\ {"name", "entries"} \subseteq DOMAIN Sampling(percent)
  BY PipeFields DEF Root, Sampling
<1> HIDE DEF x, n, N
<1>0. n \in Nat /\ N \in Nat /\ N \in {n + 1, n + 2, n + 3}
  BY <1>2
<1>6. \A i \in 1 .. n : {"name", "entries"} \subseteq DOMAIN x[i]
  BY <1>2 DEF n
<1>7. \A i \in 1 .. N : {"name", "entries"} \subseteq DOMAIN x[i]
  <2> SUFFICES ASSUME NEW i \in 1 .. N PROVE {"name", "entries"} \subseteq DOMAIN x[i]
    OBVIOUS
  <2>1. CASE i <= n
    BY <1>0, <1>6, <2>1
  <2>2. CASE i > n
    <3>1. i \in {n + 1, n + 2, n + 3}
      BY <1>0, <2>2
    <3> QED
      BY <1>0, <1>2, <1>4, <2>2, <3>1
  <2> QED
    BY <1>0, <2>1, <2>2
<1>8. \A i \in 1 .. N : x[i].name = "ROOT" => i = N
  <2> SUFFICES ASSUME NEW i \in 1 .. N, i # N PROVE x[i].name # "ROOT"
    OBVIOUS
  <2>1. CASE i < n
    <3>1. i \in 1 .. n - 1
      BY <1>0, <2>1
    <3> QED
      BY <1>3, <3>1
  <2> QED
    BY <1>2, <1>3, <2>1
<1>9. N \in Nat \ {0}
  BY <1>2
<1> QED
  BY <1>1, <1>2, <1>7, <1>8, <1>9 DEF Laid, x, N

(* The four ends of a chain.                                                   *)
LEMMA Bases ==
  ASSUME NEW percent \in Int \cup {NaN}
  PROVE  /\ \A on \in {"any", "ip4"} :
              Laid(Chain(<<Pipe("PASSTHROUGH", <<Entry(on, "SF")>>, "DROP"), PassPipe("none", "SF")>>,
                         MarkPipe("none", "SF"), percent))
         /\ Laid(Chain(<<PassthroughIp4, ToCpu, Flood, PassPipe("none", "FLOOD")>>,
                       MarkPipe("none", "FLOOD"), percent))
         /\ Laid(Chain(<<ToCpu, CaptureMirror, PassthroughIp4, PassPipe("MIRROR", "SF")>>,
                       MarkPipe("MIRROR", "SF"), percent))
<1>1. ASSUME NEW on \in {"any", "ip4"}
      PROVE  Laid(Chain(<<Pipe("PASSTHROUGH", <<Entry(on, "SF")>>, "DROP"), PassPipe("none", "SF")>>,
                        MarkPipe("none", "SF"), percent))
  <2> DEFINE P    == Pipe("PASSTHROUGH", <<Entry(on, "SF")>>, "DROP")
             F    == PassPipe("none", "SF")
             M    == MarkPipe("none", "SF")
             base == <<P, F>>
  <2>1. base \in Seq({P, F}) /\ Len(base) = 2 /\ base[1] = P /\ base[2] = F
    OBVIOUS
  <2>2. /\ P.name = "PASSTHROUGH" /\ F.name = "PASS" /\ M.name = "MARK"
    BY DEF Pipe, ForwardPipe, MarkPipe, PassPipe
  <2>3. /\ {"name", "entries"} \subseteq DOMAIN P /\ {"name", "entries"} \subseteq DOMAIN F
        /\ {"name", "entries"} \subseteq DOMAIN M
    BY PipeFields
  <2> HIDE DEF P, F, M, base
  <2>4. Ending(base, M)
    BY <2>1, <2>2 DEF Ending
  <2>5. \A i \in 1 .. Len(base) : {"name", "entries"} \subseteq DOMAIN base[i]
    BY <2>1, <2>3
  <2>6. Laid(Chain(base, M, percent))
    BY <2>1, <2>3, <2>4, <2>5, ChainLaid
  <2> QED
    BY <2>6 DEF base, P, F, M
<1>2. Laid(Chain(<<PassthroughIp4, ToCpu, Flood, PassPipe("none", "FLOOD")>>,
                 MarkPipe("none", "FLOOD"), percent))
  <2> DEFINE F    == PassPipe("none", "FLOOD")
             M    == MarkPipe("none", "FLOOD")
             base == <<PassthroughIp4, ToCpu, Flood, F>>
  <2>1. /\ base \in Seq({PassthroughIp4, ToCpu, Flood, F}) /\ Len(base) = 4
        /\ base[1] = PassthroughIp4 /\ base[2] = ToCpu /\ base[3] = Flood /\ base[4] = F
    BY BaseOfFour
  <2>2. /\ PassthroughIp4.name = "PASSTHROUGH" /\ ToCpu.name = "TO_CPU" /\ Flood.name = "FLOOD"
        /\ F.name = "PASS" /\ M.name = "MARK"
    BY DEF Pipe, ForwardPipe, MarkPipe, PassPipe, PassthroughIp4, ToCpu, Flood
  <2>3. /\ {"name", "entries"} \subseteq DOMAIN PassthroughIp4
        /\ {"name", "entries"} \subseteq DOMAIN ToCpu
        /\ {"name", "entries"} \subseteq DOMAIN Flood
        /\ {"name", "entries"} \subseteq DOMAIN F /\ {"name", "entries"} \subseteq DOMAIN M
    BY PipeFields DEF PassthroughIp4, ToCpu
  <2> HIDE DEF F, M, base
  <2>4. Ending(base, M)
    BY <2>1, <2>2 DEF Ending
  <2>5. \A i \in 1 .. Len(base) : {"name", "entries"} \subseteq DOMAIN base[i]
    BY <2>1, <2>3
  <2>6. Laid(Chain(base, M, percent))
    BY <2>1, <2>3, <2>4, <2>5, ChainLaid
  <2> QED
    BY <2>6 DEF base, F, M
<1>3. Laid(Chain(<<ToCpu, CaptureMirror, PassthroughIp4, PassPipe("MIRROR", "SF")>>,
                 MarkPipe("MIRROR", "SF"), percent))
  <2> DEFINE F    == PassPipe("MIRROR", "SF")
             M    == MarkPipe("MIRROR", "SF")
             base == <<ToCpu, CaptureMirror, PassthroughIp4, F>>
  <2>1. /\ base \in Seq({ToCpu, CaptureMirror, PassthroughIp4, F}) /\ Len(base) = 4
        /\ base[1] = ToCpu /\ base[2] = CaptureMirror /\ base[3] = PassthroughIp4 /\ base[4] = F
    BY BaseOfFour
  <2>2. /\ PassthroughIp4.name = "PASSTHROUGH" /\ ToCpu.name = "TO_CPU"
        /\ CaptureMirror.name = "MIRROR" /\ F.name = "PASS" /\ M.name = "MARK"
    BY DEF Pipe, ForwardPipe, MarkPipe, PassPipe, PassthroughIp4, ToCpu, CaptureMirror
  <2>3. /\ {"name", "entries"} \subseteq DOMAIN PassthroughIp4
        /\ {"name", "entries"} \subseteq DOMAIN ToCpu
        /\ {"name", "entries"} \subseteq DOMAIN CaptureMirror
        /\ {"name", "entries"} \subseteq DOMAIN F /\ {"name", "entries"} \subseteq DOMAIN M
    BY PipeFields DEF PassthroughIp4, ToCpu, CaptureMirror
  <2> HIDE DEF F, M, base
  <2>4. Ending(base, M)
    BY <2>1, <2>2 DEF Ending
  <2>5. \A i \in 1 .. Len(base) : {"name", "entries"} \subseteq DOMAIN base[i]
    BY <2>1, <2>3
  <2>6. Laid(Chain(base, M, percent))
    BY <2>1, <2>3, <2>4, <2>5, ChainLaid
  <2> QED
    BY <2>6 DEF base, F, M
<1> QED
  BY <1>1, <1>2, <1>3

(* The three forms a chain takes.                                              *)
PlainPipes(on, percent) ==
  Chain(<<Pipe("PASSTHROUGH", <<Entry(on, "SF")>>, "DROP"), PassPipe("none", "SF")>>,
        MarkPipe("none", "SF"), percent)
FloodPipes(percent) ==
  Chain(<<PassthroughIp4, ToCpu, Flood, PassPipe("none", "FLOOD")>>,
        MarkPipe("none", "FLOOD"), percent)
MirrorPipes(percent) ==
  Chain(<<ToCpu, CaptureMirror, PassthroughIp4, PassPipe("MIRROR", "SF")>>,
        MarkPipe("MIRROR", "SF"), percent)

(* A program and its command line.                                             *)
LEMMA ProgramKinds ==
  ASSUME NEW p \in Programs
  PROVE  /\ p.doca \in {2, 3} /\ p.percent \in Int \cup {NaN} /\ p.sample_n \in Int /\ p.capture \in BOOLEAN
         /\ p.file \in {"solution", "template", "ecn_pcap", "nop"}
         /\ p.capture => p.file = "ecn_pcap"
<1> DEFINE Args == [percent : Percents, capture : BOOLEAN, sample_n : Samples, tty : BOOLEAN]
<1>1. PICK a \in Args : /\ p.capture = a.capture /\ p.percent = a.percent
                        /\ p.sample_n = a.sample_n
                        /\ p.doca \in {2, 3}
                        /\ p.file \in {"solution", "template", "ecn_pcap", "nop"}
                        /\ a.capture => p.file = "ecn_pcap"
  BY DEF Programs
<1>2. a.capture \in BOOLEAN /\ a.percent \in Int \cup {NaN} /\ a.sample_n \in Int
  BY FlowRunAssumption
<1> QED
  BY <1>1, <1>2

(* What the program that runs builds.                                          *)
LEMMA Plans ==
  ASSUME prog \in Programs
  PROVE  \/ prog.file = "solution" /\ ~prog.capture /\ Plan = PlainPipes("any", prog.percent)
         \/ prog.file = "ecn_pcap" /\ ~prog.capture /\ Plan = PlainPipes("ip4", prog.percent)
         \/ prog.file = "ecn_pcap" /\ prog.capture /\ Plan = FloodPipes(prog.percent)
         \/ prog.file = "ecn_pcap" /\ prog.capture /\ Plan = MirrorPipes(prog.percent)
         \/ prog.file = "template" /\ ~prog.capture /\ Plan = TemplatePipeline
         \/ prog.file = "nop" /\ prog.doca = 3 /\ ~prog.capture /\ Plan = NopPipeline
         \/ prog.file = "nop" /\ prog.doca = 2 /\ ~prog.capture /\ Plan = <<Nop27Root>>
<1>1. /\ prog.doca \in {2, 3} /\ prog.capture \in BOOLEAN
      /\ prog.file \in {"solution", "template", "ecn_pcap", "nop"}
      /\ prog.capture => prog.file = "ecn_pcap"
  BY ProgramKinds
<1>2. CASE prog.file = "solution"
  <2>1. Plan = SolutionPipeline(prog.percent)
    BY <1>2 DEF Plan, Pipeline
  <2>2. Plan = PlainPipes("any", prog.percent)
    BY <2>1 DEF SolutionPipeline, PassthroughAny, ForwardToSf, PlainPipes, MarkPipe, PassPipe
  <2> QED
    BY <1>1, <1>2, <2>2
<1>3. CASE prog.file = "ecn_pcap" /\ prog.doca = 3
  <2>1. Plan = FloodPipeline(prog.percent, prog.capture)
    BY <1>3 DEF Plan, Pipeline
  <2>2. CASE prog.capture
    <3>1. /\ \A m : CaptureForward(m, prog.capture) = ForwardPipe(m, "none", "FLOOD")
      BY <2>2 DEF CaptureForward
    <3>2. Plan = FloodPipes(prog.percent)
      BY <2>1, <2>2, <3>1 DEF FloodPipeline, FloodPipes, MarkPipe, PassPipe
    <3> QED
      BY <1>3, <2>2, <3>2
  <2>3. CASE ~prog.capture
    <3>1. /\ CaptureForward(FALSE, prog.capture) = ForwardPipe(FALSE, "none", "SF")
          /\ CaptureForward(TRUE, prog.capture) = ForwardPipe(TRUE, "none", "SF")
      BY <2>3 DEF CaptureForward
    <3>2. Plan = Chain(<<PassthroughIp4, ForwardPipe(FALSE, "none", "SF")>>,
                       ForwardPipe(TRUE, "none", "SF"), prog.percent)
      BY <2>1, <2>3, <3>1 DEF FloodPipeline
    <3>3. Plan = PlainPipes("ip4", prog.percent)
      BY <3>2 DEF PlainPipes, PassthroughIp4, MarkPipe, PassPipe
    <3> QED
      BY <1>3, <2>3, <3>3
  <2> QED
    BY <1>1, <2>2, <2>3
<1>4. CASE prog.file = "ecn_pcap" /\ prog.doca = 2
  <2>1. Plan = MirrorPipeline(prog.percent, prog.capture)
    BY <1>4 DEF Plan, Pipeline
  <2>2. CASE prog.capture
    <3>1. /\ \A m : MirrorForward(m, prog.capture) = ForwardPipe(m, "MIRROR", "SF")
      BY <2>2 DEF MirrorForward
    <3>2. Plan = MirrorPipes(prog.percent)
      BY <2>1, <2>2, <3>1 DEF MirrorPipeline, MirrorPipes, MarkPipe, PassPipe
    <3> QED
      BY <1>4, <2>2, <3>2
  <2>3. CASE ~prog.capture
    <3>1. /\ MirrorForward(FALSE, prog.capture) = ForwardPipe(FALSE, "none", "SF")
          /\ MirrorForward(TRUE, prog.capture) = ForwardPipe(TRUE, "none", "SF")
      BY <2>3 DEF MirrorForward
    <3>2. Plan = Chain(<<PassthroughIp4, ForwardPipe(FALSE, "none", "SF")>>,
                       ForwardPipe(TRUE, "none", "SF"), prog.percent)
      BY <2>1, <2>3, <3>1 DEF MirrorPipeline
    <3>3. Plan = PlainPipes("ip4", prog.percent)
      BY <3>2 DEF PlainPipes, PassthroughIp4, MarkPipe, PassPipe
    <3> QED
      BY <1>4, <2>3, <3>3
  <2> QED
    BY <1>1, <2>2, <2>3
<1>5. CASE prog.file = "template"
  BY <1>1, <1>5 DEF Plan, Pipeline
<1>6. CASE prog.file = "nop" /\ prog.doca = 3
  BY <1>1, <1>6 DEF Plan, Pipeline
<1>7. CASE prog.file = "nop" /\ prog.doca = 2
  BY <1>1, <1>7 DEF Plan, Pipeline
<1> QED
  BY <1>1, <1>2, <1>3, <1>4, <1>5, <1>6, <1>7

(* Every plan is a pipeline: one root, the last.                               *)
LEMMA PlanLaid ==
  ASSUME prog \in Programs
  PROVE  Laid(Plan)
<1>1. prog.percent \in Int \cup {NaN}
  BY ProgramKinds
<1>2. /\ Laid(PlainPipes("any", prog.percent)) /\ Laid(PlainPipes("ip4", prog.percent))
      /\ Laid(FloodPipes(prog.percent)) /\ Laid(MirrorPipes(prog.percent))
  BY <1>1, Bases DEF PlainPipes, FloodPipes, MirrorPipes
<1>3. /\ Laid(TemplatePipeline) /\ Laid(<<Nop27Root>>)
  <2>1. ASSUME NEW r, {"name", "entries"} \subseteq DOMAIN r PROVE Laid(<<r>>)
    <3> DEFINE x == <<r>>
    <3>1. x \in Seq({r}) /\ Len(x) = 1 /\ x[1] = r /\ DOMAIN x = 1 .. 1
      OBVIOUS
    <3> HIDE DEF x
    <3>2. Laid(x)
      BY <2>1, <3>1 DEF Laid
    <3> QED
      BY <3>2 DEF x
  <2>2. {"name", "entries"} \subseteq DOMAIN RootNop /\ {"name", "entries"} \subseteq DOMAIN Nop27Root
    BY PipeFields DEF RootNop, Nop27Root
  <2> QED
    BY <2>1, <2>2 DEF TemplatePipeline
<1>4. Laid(NopPipeline)
  <2> DEFINE F == NopForward
             R == Root("FORWARD")
             x == <<F, R>>
  <2>1. x \in Seq({F, R}) /\ Len(x) = 2 /\ x[1] = F /\ x[2] = R /\ DOMAIN x = 1 .. 2
    OBVIOUS
  <2>2. {"name", "entries"} \subseteq DOMAIN F /\ {"name", "entries"} \subseteq DOMAIN R
    BY PipeFields DEF NopForward, Root
  <2>3. F.name = "FORWARD"
    BY DEF NopForward, Pipe
  <2> HIDE DEF F, R, x
  <2>4. Laid(x)
    BY <2>1, <2>2, <2>3 DEF Laid
  <2> QED
    BY <2>4 DEF x, F, R, NopPipeline
<1> QED
  BY <1>2, <1>3, <1>4, Plans

(* ------------------------ what is seen of a packet ------------------------ *)

(* Seen once at these places, with this ECN field, and nowhere else.           *)
Exactly(j, places, e) ==
  \A at \in Places : /\ Times(j, at) = IF at \in places THEN 1 ELSE 0
                     /\ j[at][e] = IF at \in places THEN 1 ELSE 0

(* The sightings above, by place.                                              *)
LEMMA ExactlyThese ==
  ASSUME NEW e \in Ecn
  PROVE  /\ Exactly(Nothing, {}, e)
         /\ \A p : Exactly(Once(p, e), {p}, e)
         /\ \A c, to : c # to => Exactly(Reported(c, to, e), {c, to}, e)
         /\ \A c, ports : Exactly(Delivered(c, ports, e), {c} \cup ports, e)
<1>1. Exactly(Nothing, {}, e)
  BY DEF Exactly, Nothing, Times, Ecn
<1>2. ASSUME NEW p PROVE Exactly(Once(p, e), {p}, e)
  BY DEF Exactly, Once, Times, Ecn
<1>3. ASSUME NEW c, NEW to, c # to PROVE Exactly(Reported(c, to, e), {c, to}, e)
  <2>1. \A at \in Places, ecn \in Ecn :
          Reported(c, to, e)[at][ecn] = IF ecn = e /\ at \in {c, to} THEN 1 ELSE 0
    <3>1. \A at \in Places, ecn \in Ecn :
            /\ Once(c, e)[at][ecn] = IF at = c /\ ecn = e THEN 1 ELSE 0
            /\ Once(to, e)[at][ecn] = IF at = to /\ ecn = e THEN 1 ELSE 0
      BY DEF Once
    <3>2. \A at \in Places, ecn \in Ecn :
            Reported(c, to, e)[at][ecn] = Once(c, e)[at][ecn] + Once(to, e)[at][ecn]
      BY DEF Reported, Both
    <3> QED
      BY <1>3, <3>1, <3>2
  <2> QED
    BY <2>1 DEF Exactly, Times, Ecn
<1>4. ASSUME NEW c, NEW ports PROVE Exactly(Delivered(c, ports, e), {c} \cup ports, e)
  BY DEF Exactly, Delivered, Times, Ecn
<1> QED
  BY <1>1, <1>2, <1>3, <1>4

(* What the places a packet is seen at have to be.                             *)
Fulfils(places, e, pkt) ==
  /\ pkt.from = "sf" => /\ "WIRE" \in places /\ places \cap {"SF", "CPU"} = {}
                        /\ places \cap {"ce_entry", "pass_entry"} = {}
                        /\ e = pkt.ecn
  /\ pkt.from = "wire" =>
       /\ "WIRE" \notin places
       /\ "SF" \in places <=> pkt.ip4 \/ ~OnlyIp4
       /\ "CPU" \in places <=> prog.capture /\ pkt.ip4
       /\ "ce_entry" \in places \/ "pass_entry" \in places <=> Marks /\ pkt.ip4
       /\ ~({"ce_entry", "pass_entry"} \subseteq places)
       /\ e = IF "ce_entry" \in places THEN "ce" ELSE pkt.ecn

(* Places as required make a promise kept.                                     *)
LEMMA KeepsPromise ==
  ASSUME prog \in Programs, NEW j, NEW places, NEW e, NEW pkt \in Packets,
         Exactly(j, places, e), Fulfils(places, e, pkt)
  PROVE  /\ Promised(pkt, j)
         /\ prog.capture => Times(j, "ce_entry") + Times(j, "pass_entry") = Times(j, "CPU")
<1>1. pkt.from \in {"sf", "wire"}
  BY DEF Packets
<1>2. \A at \in {"SF", "WIRE", "CPU", "ce_entry", "pass_entry"} :
        /\ Times(j, at) = IF at \in places THEN 1 ELSE 0
        /\ j[at][e] = IF at \in places THEN 1 ELSE 0
  BY DEF Exactly, Places, Ports, Counters
<1>3. CASE pkt.from = "sf"
  <2>1. Promised(pkt, j)
    BY <1>2, <1>3 DEF Promised, Fulfils
  <2>2. Times(j, "ce_entry") = 0 /\ Times(j, "pass_entry") = 0 /\ Times(j, "CPU") = 0
    BY <1>2, <1>3 DEF Fulfils
  <2> QED
    BY <2>1, <2>2
<1>4. CASE pkt.from = "wire"
  <2>1. e = IF Times(j, "ce_entry") = 1 THEN "ce" ELSE pkt.ecn
    BY <1>2, <1>4 DEF Fulfils
  <2>2. Times(j, "WIRE") = 0
    BY <1>2, <1>4 DEF Fulfils
  <2>3. /\ Times(j, "SF") = IF pkt.ip4 \/ ~OnlyIp4 THEN 1 ELSE 0
        /\ j["SF"][e] = IF pkt.ip4 \/ ~OnlyIp4 THEN 1 ELSE 0
    BY <1>2, <1>4 DEF Fulfils
  <2>4. /\ Times(j, "CPU") = IF prog.capture /\ pkt.ip4 THEN 1 ELSE 0
        /\ j["CPU"][e] = IF prog.capture /\ pkt.ip4 THEN 1 ELSE 0
    BY <1>2, <1>4 DEF Fulfils
  <2>5. Times(j, "ce_entry") + Times(j, "pass_entry") = IF Marks /\ pkt.ip4 THEN 1 ELSE 0
    BY <1>2, <1>4 DEF Fulfils
  <2>6. Promised(pkt, j)
    BY <1>4, <2>1, <2>2, <2>3, <2>4, <2>5 DEF Promised
  <2>7. prog.capture => Marks
    BY ProgramKinds DEF Marks
  <2> QED
    BY <2>4, <2>5, <2>6, <2>7
<1> QED
  BY <1>1, <1>3, <1>4

(* The journey through either of the capturing pipelines.                      *)
LEMMA CaptureChain ==
  ASSUME NEW percent \in Int \cup {NaN}, NEW pkt \in Packets,
         NEW x \in {FloodPipes(percent), MirrorPipes(percent)}
  PROVE  Journey(x, pkt) = IF pkt.from = "sf" THEN Once("WIRE", pkt.ecn)
                           ELSE FromWire(percent, {"SF", "CPU"}, Miss("ip4"), pkt)
<1>1. CASE x = FloodPipes(percent)
  <2>1. Journey(FloodPipes(percent), pkt)
          = IF pkt.from = "sf" THEN Once("WIRE", pkt.ecn)
            ELSE FromWire(percent, {"SF", "CPU"}, Miss("ip4"), pkt)
    BY FloodChain DEF FloodPipes
  <2> QED
    BY <1>1, <2>1
<1>2. CASE x = MirrorPipes(percent)
  <2>1. Journey(MirrorPipes(percent), pkt)
          = IF pkt.from = "sf" THEN Once("WIRE", pkt.ecn)
            ELSE FromWire(percent, {"SF", "CPU"}, Miss("ip4"), pkt)
    BY MirrorChain DEF MirrorPipes
  <2> QED
    BY <1>2, <2>1
<1> QED
  BY <1>1, <1>2

(* Each of the plans, with what is seen of a packet that goes through it and   *)
(* is not picked for a MARK that is not there.                                 *)
LEMMA PlanFulfils ==
  ASSUME prog \in Programs, NEW pkt \in Packets, ~Strayed(prog.percent, pkt)
  PROVE  \E places, e : Exactly(Journey(Plan, pkt), places, e) /\ Fulfils(places, e, pkt)
<1>1. /\ prog.percent \in Int \cup {NaN} /\ pkt.from \in {"sf", "wire"} /\ pkt.ecn \in Ecn
  BY ProgramKinds DEF Packets
<1> DEFINE c   == CountedBy(prog.percent, pkt)
           set == SetTo(c, pkt.ecn)
<1>2. c \in {"ce_entry", "pass_entry"} /\ set \in Ecn
  BY <1>1 DEF CountedBy, SetTo, Ecn
<1>3. set = IF c = "ce_entry" THEN "ce" ELSE pkt.ecn
  BY DEF SetTo
<1> HIDE DEF c, set
<1>4. CASE prog.file = "solution" /\ ~prog.capture /\ Plan = PlainPipes("any", prog.percent)
  <2>1. Journey(Plan, pkt) = IF pkt.from = "sf" THEN Once("WIRE", pkt.ecn)
                             ELSE Forwarded(c, {"SF"}, Miss("any"), pkt, pkt.ecn)
    BY <1>1, <1>4, PlainChain DEF PlainPipes, FromWire, c
  <2>2. Marks /\ ~OnlyIp4
    BY <1>4 DEF Marks, OnlyIp4
  <2>3. CASE pkt.from = "sf"
    BY <1>1, <2>1, <2>3, ExactlyThese DEF Fulfils
  <2>4. CASE pkt.from = "wire" /\ pkt.ip4
    <3>1. Journey(Plan, pkt) = Delivered(c, {"SF"}, set)
      BY <2>1, <2>4 DEF Forwarded, set
    <3>2. Exactly(Journey(Plan, pkt), {c} \cup {"SF"}, set)
      BY <1>2, <3>1, ExactlyThese
    <3>3. Fulfils({c} \cup {"SF"}, set, pkt)
      BY <1>2, <1>3, <1>4, <2>2, <2>4 DEF Fulfils
    <3> QED
      BY <3>2, <3>3
  <2>5. CASE pkt.from = "wire" /\ ~pkt.ip4
    <3>1. Journey(Plan, pkt) = Once("SF", pkt.ecn)
      BY <2>1, <2>5 DEF Forwarded, Miss
    <3>2. Exactly(Journey(Plan, pkt), {"SF"}, pkt.ecn)
      BY <1>1, <3>1, ExactlyThese
    <3>3. Fulfils({"SF"}, pkt.ecn, pkt)
      BY <1>4, <2>2, <2>5 DEF Fulfils
    <3> QED
      BY <3>2, <3>3
  <2> QED
    BY <1>1, <2>3, <2>4, <2>5
<1>5. CASE prog.file = "ecn_pcap" /\ ~prog.capture /\ Plan = PlainPipes("ip4", prog.percent)
  <2>1. Journey(Plan, pkt) = IF pkt.from = "sf" THEN Once("WIRE", pkt.ecn)
                             ELSE Forwarded(c, {"SF"}, Miss("ip4"), pkt, pkt.ecn)
    BY <1>1, <1>5, PlainChain DEF PlainPipes, FromWire, c
  <2>2. Marks /\ OnlyIp4
    BY <1>5 DEF Marks, OnlyIp4
  <2>3. CASE pkt.from = "sf"
    BY <1>1, <2>1, <2>3, ExactlyThese DEF Fulfils
  <2>4. CASE pkt.from = "wire" /\ pkt.ip4
    <3>1. Journey(Plan, pkt) = Delivered(c, {"SF"}, set)
      BY <2>1, <2>4 DEF Forwarded, set
    <3>2. Exactly(Journey(Plan, pkt), {c} \cup {"SF"}, set)
      BY <1>2, <3>1, ExactlyThese
    <3>3. Fulfils({c} \cup {"SF"}, set, pkt)
      BY <1>2, <1>3, <1>5, <2>2, <2>4 DEF Fulfils
    <3> QED
      BY <3>2, <3>3
  <2>5. CASE pkt.from = "wire" /\ ~pkt.ip4
    <3>1. Journey(Plan, pkt) = Nothing
      BY <2>1, <2>5, SightingsAdd DEF Forwarded, Miss
    <3>2. Exactly(Journey(Plan, pkt), {}, pkt.ecn)
      BY <1>1, <3>1, ExactlyThese
    <3>3. Fulfils({}, pkt.ecn, pkt)
      BY <1>5, <2>2, <2>5 DEF Fulfils
    <3> QED
      BY <3>2, <3>3
  <2> QED
    BY <1>1, <2>3, <2>4, <2>5
<1>6. CASE prog.file = "ecn_pcap" /\ prog.capture
             /\ Plan \in {FloodPipes(prog.percent), MirrorPipes(prog.percent)}
  <2>1. Journey(Plan, pkt) = IF pkt.from = "sf" THEN Once("WIRE", pkt.ecn)
                             ELSE Forwarded(c, {"SF", "CPU"}, Miss("ip4"), pkt, pkt.ecn)
    <3>1. Journey(Plan, pkt) = IF pkt.from = "sf" THEN Once("WIRE", pkt.ecn)
                               ELSE FromWire(prog.percent, {"SF", "CPU"}, Miss("ip4"), pkt)
      BY <1>1, <1>6, CaptureChain
    <3> QED
      BY <3>1 DEF FromWire, c
  <2>2. Marks /\ OnlyIp4
    BY <1>6 DEF Marks, OnlyIp4
  <2>3. CASE pkt.from = "sf"
    BY <1>1, <2>1, <2>3, ExactlyThese DEF Fulfils
  <2>4. CASE pkt.from = "wire" /\ pkt.ip4
    <3>1. Journey(Plan, pkt) = Delivered(c, {"SF", "CPU"}, set)
      BY <2>1, <2>4 DEF Forwarded, set
    <3>2. Exactly(Journey(Plan, pkt), {c} \cup {"SF", "CPU"}, set)
      BY <1>2, <3>1, ExactlyThese
    <3>3. Fulfils({c} \cup {"SF", "CPU"}, set, pkt)
      BY <1>2, <1>3, <1>6, <2>2, <2>4 DEF Fulfils
    <3> QED
      BY <3>2, <3>3
  <2>5. CASE pkt.from = "wire" /\ ~pkt.ip4
    <3>1. Journey(Plan, pkt) = Nothing
      BY <2>1, <2>5, SightingsAdd DEF Forwarded, Miss
    <3>2. Exactly(Journey(Plan, pkt), {}, pkt.ecn)
      BY <1>1, <3>1, ExactlyThese
    <3>3. Fulfils({}, pkt.ecn, pkt)
      BY <1>6, <2>2, <2>5 DEF Fulfils
    <3> QED
      BY <3>2, <3>3
  <2> QED
    BY <1>1, <2>3, <2>4, <2>5
<1>7. CASE prog.file = "template" /\ ~prog.capture /\ Plan = TemplatePipeline
  <2>1. Journey(Plan, pkt) = IF pkt.from = "wire" THEN Once("SF", pkt.ecn) ELSE Once("WIRE", pkt.ecn)
    BY <1>7, TemplateJourney
  <2>2. ~Marks /\ ~OnlyIp4
    BY <1>7 DEF Marks, OnlyIp4
  <2>3. CASE pkt.from = "sf"
    BY <1>1, <2>1, <2>3, ExactlyThese DEF Fulfils
  <2>4. CASE pkt.from = "wire"
    <3>1. Exactly(Journey(Plan, pkt), {"SF"}, pkt.ecn)
      BY <1>1, <2>1, <2>4, ExactlyThese
    <3>2. Fulfils({"SF"}, pkt.ecn, pkt)
      BY <1>7, <2>2, <2>4 DEF Fulfils
    <3> QED
      BY <3>1, <3>2
  <2> QED
    BY <1>1, <2>3, <2>4
<1>8. CASE prog.file = "nop" /\ prog.doca = 3 /\ ~prog.capture /\ Plan = NopPipeline
  <2>1. Journey(Plan, pkt) = IF pkt.from = "sf" THEN Once("WIRE", pkt.ecn)
                             ELSE IF pkt.ip4 THEN Reported("fwd_entry", "SF", pkt.ecn) ELSE Nothing
    BY <1>8, NopJourney
  <2>2. ~Marks /\ OnlyIp4
    BY <1>8 DEF Marks, OnlyIp4
  <2>3. CASE pkt.from = "sf"
    BY <1>1, <2>1, <2>3, ExactlyThese DEF Fulfils
  <2>4. CASE pkt.from = "wire" /\ pkt.ip4
    <3>1. Exactly(Journey(Plan, pkt), {"fwd_entry", "SF"}, pkt.ecn)
      BY <1>1, <2>1, <2>4, ExactlyThese
    <3>2. Fulfils({"fwd_entry", "SF"}, pkt.ecn, pkt)
      BY <1>8, <2>2, <2>4 DEF Fulfils
    <3> QED
      BY <3>1, <3>2
  <2>5. CASE pkt.from = "wire" /\ ~pkt.ip4
    <3>1. Exactly(Journey(Plan, pkt), {}, pkt.ecn)
      BY <1>1, <2>1, <2>5, ExactlyThese
    <3>2. Fulfils({}, pkt.ecn, pkt)
      BY <1>8, <2>2, <2>5 DEF Fulfils
    <3> QED
      BY <3>1, <3>2
  <2> QED
    BY <1>1, <2>3, <2>4, <2>5
<1>9. CASE prog.file = "nop" /\ prog.doca = 2 /\ ~prog.capture /\ Plan = <<Nop27Root>>
  <2>1. Journey(Plan, pkt) = IF pkt.from = "wire" THEN Reported("to_sf", "SF", pkt.ecn)
                                                  ELSE Reported("to_wire", "WIRE", pkt.ecn)
    BY <1>9, Nop27Journey
  <2>2. ~Marks /\ ~OnlyIp4
    BY <1>9 DEF Marks, OnlyIp4
  <2>3. CASE pkt.from = "sf"
    <3>1. Exactly(Journey(Plan, pkt), {"to_wire", "WIRE"}, pkt.ecn)
      BY <1>1, <2>1, <2>3, ExactlyThese
    <3>2. Fulfils({"to_wire", "WIRE"}, pkt.ecn, pkt)
      BY <2>3 DEF Fulfils
    <3> QED
      BY <3>1, <3>2
  <2>4. CASE pkt.from = "wire"
    <3>1. Exactly(Journey(Plan, pkt), {"to_sf", "SF"}, pkt.ecn)
      BY <1>1, <2>1, <2>4, ExactlyThese
    <3>2. Fulfils({"to_sf", "SF"}, pkt.ecn, pkt)
      BY <1>9, <2>2, <2>4 DEF Fulfils
    <3> QED
      BY <3>1, <3>2
  <2> QED
    BY <1>1, <2>3, <2>4
<1> QED
  BY <1>4, <1>5, <1>6, <1>7, <1>8, <1>9, Plans

(* Every plan keeps its promise, if it is of a percentage; and in every plan   *)
(* as many packets are copied as are counted.                                  *)
LEMMA PlanKeepsPromise ==
  ASSUME prog \in Programs, NEW pkt \in Packets
  PROVE  /\ prog.percent # NaN => Promised(pkt, Journey(Plan, pkt))
         /\ prog.capture => Times(Journey(Plan, pkt), "ce_entry")
                              + Times(Journey(Plan, pkt), "pass_entry")
                              = Times(Journey(Plan, pkt), "CPU")
<1> DEFINE j == Journey(Plan, pkt)
<1>1. CASE ~Strayed(prog.percent, pkt)
  <2>1. PICK places, e : Exactly(j, places, e) /\ Fulfils(places, e, pkt)
    BY <1>1, PlanFulfils
  <2> HIDE DEF j
  <2>2. /\ Promised(pkt, j)
        /\ prog.capture => Times(j, "ce_entry") + Times(j, "pass_entry") = Times(j, "CPU")
    BY <2>1, KeepsPromise
  <2> QED
    BY <2>2 DEF j
<1>2. CASE Strayed(prog.percent, pkt)
  <2>1. prog.percent = NaN
    BY <1>2 DEF Strayed, Marking, Picking
  <2>2. ASSUME prog.capture
        PROVE  j \in {Nothing, Once("WIRE", pkt.ecn)}
    <3>1. Plan \in {FloodPipes(prog.percent), MirrorPipes(prog.percent)}
      BY <2>2, Plans
    <3>2. j = IF pkt.from = "sf" THEN Once("WIRE", pkt.ecn)
              ELSE FromWire(prog.percent, {"SF", "CPU"}, Miss("ip4"), pkt)
      BY <2>1, <3>1, CaptureChain
    <3> QED
      BY <1>2, <3>2 DEF FromWire
  <2>3. \A c \in {"ce_entry", "pass_entry", "CPU"} :
          Times(Nothing, c) = 0 /\ Times(Once("WIRE", pkt.ecn), c) = 0
    BY DEF Times, Nothing, Once, Places, Ports, Counters, Ecn
  <2> HIDE DEF j
  <2>4. prog.capture => Times(j, "ce_entry") + Times(j, "pass_entry") = Times(j, "CPU")
    BY <2>2, <2>3
  <2> QED
    BY <2>1, <2>4 DEF j
<1> QED
  BY <1>1, <1>2

(* ----------------------- bring-up and the way down ------------------------ *)

(* Before there is anything to release; with both ports started; done.         *)
Fresh    == {"setup_logging", "parse_args"}
Built    == {"build_pipeline", "add_entries", "install_signal_handlers", "log_startup", "loop",
             "poll_capture_toggle", "report", "print_stats", "restore_key_toggle",
             "close_capture_pcap", "stop_sf_rep"}
Ended    == {"done", "exit", "killed", "died"}

(* Only ecn_pcap captures.                                                     *)
Arguments ==
  /\ prog.capture \in BOOLEAN /\ prog.sample_n \in Int
  /\ prog.capture => prog.file = "ecn_pcap"

(* What stands on what (Needs, thing by thing).                                *)
Standing ==
  /\ held \subseteq DOMAIN Needs
  /\ "dev" \in held => "eal" \in held
  /\ "ethdev" \in held => "dev" \in held
  /\ "flow" \in held => "ethdev" \in held
  /\ "pf_port" \in held => {"flow", "dev"} \subseteq held
  /\ "rep_dev" \in held => "dev" \in held
  /\ "rep_port" \in held => "pf_port" \in held
  /\ "sigusr1" \in held => "sigint" \in held

(* What each step of bring-up has acquired for the next, and what each step of *)
(* the way down has released.                                                  *)
Reached ==
  /\ pc \in {"open_capture_pcap", "open_and_probe_dev"} => "eal" \in held
  /\ pc = "configure_and_start_dpdk_port" => "dev" \in held
  /\ pc = "initialize_doca_flow" => "ethdev" \in held
  /\ pc = "port_start" => "flow" \in held
  /\ pc \in {"open_sf_representor", "rep_port_start"} => "pf_port" \in held
  /\ pc \in Built => {"pf_port", "rep_port"} \subseteq held
  /\ pc = "stop_port" => "rep_port" \notin held
  /\ pc = "destroy" => {"rep_port", "pf_port"} \cap held = {}

(* The terminal is raw only while no step of main() ends the program, nor a    *)
(* signal that has a handler in some program; or it died raw.                  *)
Guarded ==
  /\ terminal \subseteq {"raw", "nonblock"}
  /\ pc \in {"log_startup", "loop", "poll_capture_toggle", "report", "print_stats",
             "restore_key_toggle"} =>
       /\ "sigint" \in held
       /\ prog.capture => "sigusr1" \in held
  /\ "raw" \in terminal =>
       /\ prog.capture
       /\ pc \in {"loop", "poll_capture_toggle", "report", "restore_key_toggle", "died"}

(* The sample counter numbers the copies received, and only multiples of       *)
(* sample_n are written.                                                       *)
Sampled ==
  /\ sink \in [mirrored : Nat, sample_ctr : Nat, written : SUBSET Nat]
  /\ sink.sample_ctr = sink.mirrored
  /\ sink.written \subseteq 1 .. sink.mirrored
  /\ pc \notin Fresh \cup Ended => prog.sample_n >= 1
  /\ prog.sample_n < Uint32Range => \A i \in sink.written : i % prog.sample_n = 0

Inv == Arguments /\ Standing /\ Reached /\ Guarded /\ Sampled

(* What a burst takes was just received, each copy the sample_n-th.            *)
LEMMA TakenOfBurst ==
  ASSUME NEW k \in Nat, Arguments, Sampled, prog.sample_n >= 1
  PROVE  /\ Taken(k) \subseteq 1 .. sink.mirrored + k
         /\ prog.sample_n < Uint32Range => \A i \in Taken(k) : i % prog.sample_n = 0
<1>1. sink.mirrored \in Nat /\ sink.sample_ctr = sink.mirrored /\ prog.sample_n \in Nat \ {0}
  BY DEF Arguments, Sampled
<1>2. ASSUME NEW c \in Taken(k)
      PROVE  /\ c \in 1 .. sink.mirrored + k
             /\ SampleN # 0 /\ c % SampleN = 0
  <2>1. PICK i \in 1 .. k : /\ c = sink.mirrored + i
                            /\ SampleN # 0 /\ (sink.mirrored + i) % SampleN = 0
    BY <1>1, <1>2 DEF Taken
  <2> QED
    BY <1>1, <2>1
<1>3. prog.sample_n < Uint32Range => SampleN = prog.sample_n
  BY <1>1, FlowRunAssumption DEF SampleN
<1> QED
  BY <1>2, <1>3

(* The command line stays.                                                     *)
LEMMA ArgumentsStep == Inv /\ [Next]_vars => Arguments'
<1> SUFFICES ASSUME Arguments, [Next]_vars PROVE Arguments'
  BY DEF Inv
<1> USE DEF Arguments
<1>1. CASE UNCHANGED vars
  BY <1>1 DEF vars, toggles, capture, bringUp
<1>2. CASE SetupLogging
  BY <1>2 DEF SetupLogging, Start, bringUp, toggles, capture
<1>3. CASE ParseArgs
  BY <1>3 DEF ParseArgs, Start, LegalArgs, bringUp, toggles, capture
<1>4. CASE RefuseArgs
  BY <1>4 DEF RefuseArgs, bringUp, toggles, capture
<1>5. CASE OpenCapturePcap
  BY <1>5 DEF OpenCapturePcap, Start, bringUp, toggles, capture
<1>6. CASE OpenAndProbeDev
  BY <1>6 DEF OpenAndProbeDev, Start, bringUp, toggles, capture
<1>7. CASE ConfigureAndStartDpdkPort
  BY <1>7 DEF ConfigureAndStartDpdkPort, Start, bringUp, toggles, capture
<1>8. CASE InitializeDocaFlow
  BY <1>8 DEF InitializeDocaFlow, Start, bringUp, toggles, capture
<1>9. CASE PortStart
  BY <1>9 DEF PortStart, Start, bringUp, toggles, capture
<1>10. CASE OpenSfRepresentor
  BY <1>10 DEF OpenSfRepresentor, Start, bringUp, toggles, capture
<1>11. CASE RepPortStart
  BY <1>11 DEF RepPortStart, Start, bringUp, toggles, capture
<1>12. CASE CreatePipe
  BY <1>12 DEF CreatePipe, bringUp, toggles, capture
<1>13. CASE AddEntries
  BY <1>13 DEF AddEntries, bringUp, toggles, capture
<1>14. CASE InstallSignalHandlers
  BY <1>14 DEF InstallSignalHandlers, bringUp, toggles, capture
<1>15. CASE LogStartup
  BY <1>15 DEF LogStartup, bringUp, toggles, capture
<1>16. CASE CaptureBurst
  BY <1>16 DEF CaptureBurst, bringUp, toggles, capture
<1>17. CASE PollCaptureToggle
  BY <1>17 DEF PollCaptureToggle, bringUp, toggles, capture
<1>18. CASE Report
  BY <1>18 DEF Report, bringUp, toggles, capture
<1>19. CASE PrintStats
  BY <1>19 DEF PrintStats, bringUp, toggles, capture
<1>20. CASE LeaveLoop
  BY <1>20 DEF LeaveLoop, bringUp, toggles, capture
<1>21. CASE RestoreKeyToggle
  BY <1>21 DEF RestoreKeyToggle, bringUp, toggles, capture
<1>22. CASE CloseCapturePcap
  BY <1>22 DEF CloseCapturePcap, Stop, bringUp, toggles, capture
<1>23. CASE StopPorts
  BY <1>23 DEF StopPorts, Stop, bringUp, toggles, capture
<1>24. CASE Destroy
  BY <1>24 DEF Destroy, Stop, bringUp, toggles, capture
<1>25. CASE Interrupt
  BY <1>25 DEF Interrupt, Signal, Over, bringUp, toggles, capture
<1>26. CASE ToggleSignal
  BY <1>26 DEF ToggleSignal, Signal, Over, bringUp, toggles, capture
<1>27. CASE PressSpace
  BY <1>27 DEF PressSpace, bringUp, toggles, capture
<1>28. CASE Packet
  BY <1>28 DEF Packet, bringUp, toggles, capture
<1>29. CASE DivideByZero
  BY <1>29 DEF DivideByZero, bringUp, toggles, capture
<1>30. CASE UncaughtSignal
  BY <1>30 DEF UncaughtSignal, bringUp, toggles, capture
<1> QED
  BY <1>1, <1>2, <1>3, <1>4, <1>5, <1>6, <1>7, <1>8, <1>9, <1>10, <1>11,
     <1>12, <1>13, <1>14, <1>15, <1>16, <1>17, <1>18, <1>19, <1>20, <1>21,
     <1>22, <1>23, <1>24, <1>25, <1>26, <1>27, <1>28, <1>29, <1>30
  DEF Next, Main, BringUp, Loop, WayDown, Environment

(* What a step acquires stands on what is held; what it releases carries       *)
(* nothing.                                                                    *)
LEMMA StandingStep == Inv /\ [Next]_vars => Standing'
<1> SUFFICES ASSUME Arguments, Standing, Reached, [Next]_vars PROVE Standing'
  BY DEF Inv
<1> USE DEF Standing, Reached, Needs, Fresh, Built
<1>1. CASE UNCHANGED vars
  BY <1>1 DEF vars, toggles, capture, bringUp
<1>2. CASE SetupLogging
  BY <1>2 DEF SetupLogging, Start, bringUp, toggles, capture
<1>3. CASE ParseArgs
  BY <1>3 DEF ParseArgs, Start, LegalArgs, bringUp, toggles, capture
<1>4. CASE RefuseArgs
  BY <1>4 DEF RefuseArgs, bringUp, toggles, capture
<1>5. CASE OpenCapturePcap
  BY <1>5 DEF OpenCapturePcap, Start, bringUp, toggles, capture
<1>6. CASE OpenAndProbeDev
  BY <1>6 DEF OpenAndProbeDev, Start, bringUp, toggles, capture
<1>7. CASE ConfigureAndStartDpdkPort
  BY <1>7 DEF ConfigureAndStartDpdkPort, Start, bringUp, toggles, capture
<1>8. CASE InitializeDocaFlow
  BY <1>8 DEF InitializeDocaFlow, Start, bringUp, toggles, capture
<1>9. CASE PortStart
  BY <1>9 DEF PortStart, Start, bringUp, toggles, capture
<1>10. CASE OpenSfRepresentor
  BY <1>10 DEF OpenSfRepresentor, Start, bringUp, toggles, capture
<1>11. CASE RepPortStart
  BY <1>11 DEF RepPortStart, Start, bringUp, toggles, capture
<1>12. CASE CreatePipe
  BY <1>12 DEF CreatePipe, bringUp, toggles, capture
<1>13. CASE AddEntries
  BY <1>13 DEF AddEntries, bringUp, toggles, capture
<1>14. CASE InstallSignalHandlers
  BY <1>14 DEF InstallSignalHandlers, bringUp, toggles, capture
<1>15. CASE LogStartup
  BY <1>15 DEF LogStartup, bringUp, toggles, capture
<1>16. CASE CaptureBurst
  BY <1>16 DEF CaptureBurst, bringUp, toggles, capture
<1>17. CASE PollCaptureToggle
  BY <1>17 DEF PollCaptureToggle, bringUp, toggles, capture
<1>18. CASE Report
  BY <1>18 DEF Report, bringUp, toggles, capture
<1>19. CASE PrintStats
  BY <1>19 DEF PrintStats, bringUp, toggles, capture
<1>20. CASE LeaveLoop
  BY <1>20 DEF LeaveLoop, bringUp, toggles, capture
<1>21. CASE RestoreKeyToggle
  BY <1>21 DEF RestoreKeyToggle, bringUp, toggles, capture
<1>22. CASE CloseCapturePcap
  BY <1>22 DEF CloseCapturePcap, Stop, bringUp, toggles, capture
<1>23. CASE StopPorts
  BY <1>23 DEF StopPorts, Stop, bringUp, toggles, capture
<1>24. CASE Destroy
  BY <1>24 DEF Destroy, Stop, bringUp, toggles, capture
<1>25. CASE Interrupt
  BY <1>25 DEF Interrupt, Signal, Over, bringUp, toggles, capture
<1>26. CASE ToggleSignal
  BY <1>26 DEF ToggleSignal, Signal, Over, bringUp, toggles, capture
<1>27. CASE PressSpace
  BY <1>27 DEF PressSpace, bringUp, toggles, capture
<1>28. CASE Packet
  BY <1>28 DEF Packet, bringUp, toggles, capture
<1>29. CASE DivideByZero
  BY <1>29 DEF DivideByZero, bringUp, toggles, capture
<1>30. CASE UncaughtSignal
  BY <1>30 DEF UncaughtSignal, bringUp, toggles, capture
<1> QED
  BY <1>1, <1>2, <1>3, <1>4, <1>5, <1>6, <1>7, <1>8, <1>9, <1>10, <1>11,
     <1>12, <1>13, <1>14, <1>15, <1>16, <1>17, <1>18, <1>19, <1>20, <1>21,
     <1>22, <1>23, <1>24, <1>25, <1>26, <1>27, <1>28, <1>29, <1>30
  DEF Next, Main, BringUp, Loop, WayDown, Environment

(* Every step leaves the next what it asks for.                                *)
LEMMA ReachedStep == Inv /\ [Next]_vars => Reached'
<1> SUFFICES ASSUME Standing, Reached, [Next]_vars PROVE Reached'
  BY DEF Inv
<1> USE DEF Standing, Reached, Fresh, Built, Ended, Needs
<1>1. CASE UNCHANGED vars
  BY <1>1 DEF vars, toggles, capture, bringUp
<1>2. CASE SetupLogging
  BY <1>2 DEF SetupLogging, Start, bringUp, toggles, capture
<1>3. CASE ParseArgs
  BY <1>3 DEF ParseArgs, Start, LegalArgs, bringUp, toggles, capture
<1>4. CASE RefuseArgs
  BY <1>4 DEF RefuseArgs, bringUp, toggles, capture
<1>5. CASE OpenCapturePcap
  BY <1>5 DEF OpenCapturePcap, Start, bringUp, toggles, capture
<1>6. CASE OpenAndProbeDev
  BY <1>6 DEF OpenAndProbeDev, Start, bringUp, toggles, capture
<1>7. CASE ConfigureAndStartDpdkPort
  BY <1>7 DEF ConfigureAndStartDpdkPort, Start, bringUp, toggles, capture
<1>8. CASE InitializeDocaFlow
  BY <1>8 DEF InitializeDocaFlow, Start, bringUp, toggles, capture
<1>9. CASE PortStart
  BY <1>9 DEF PortStart, Start, bringUp, toggles, capture
<1>10. CASE OpenSfRepresentor
  BY <1>10 DEF OpenSfRepresentor, Start, bringUp, toggles, capture
<1>11. CASE RepPortStart
  BY <1>11 DEF RepPortStart, Start, bringUp, toggles, capture
<1>12. CASE CreatePipe
  BY <1>12 DEF CreatePipe, bringUp, toggles, capture
<1>13. CASE AddEntries
  BY <1>13 DEF AddEntries, bringUp, toggles, capture
<1>14. CASE InstallSignalHandlers
  BY <1>14 DEF InstallSignalHandlers, bringUp, toggles, capture
<1>15. CASE LogStartup
  BY <1>15 DEF LogStartup, bringUp, toggles, capture
<1>16. CASE CaptureBurst
  BY <1>16 DEF CaptureBurst, bringUp, toggles, capture
<1>17. CASE PollCaptureToggle
  BY <1>17 DEF PollCaptureToggle, bringUp, toggles, capture
<1>18. CASE Report
  BY <1>18 DEF Report, bringUp, toggles, capture
<1>19. CASE PrintStats
  BY <1>19 DEF PrintStats, bringUp, toggles, capture
<1>20. CASE LeaveLoop
  BY <1>20 DEF LeaveLoop, bringUp, toggles, capture
<1>21. CASE RestoreKeyToggle
  BY <1>21 DEF RestoreKeyToggle, bringUp, toggles, capture
<1>22. CASE CloseCapturePcap
  BY <1>22 DEF CloseCapturePcap, Stop, bringUp, toggles, capture
<1>23. CASE StopPorts
  BY <1>23 DEF StopPorts, Stop, bringUp, toggles, capture
<1>24. CASE Destroy
  BY <1>24 DEF Destroy, Stop, bringUp, toggles, capture
<1>25. CASE Interrupt
  BY <1>25 DEF Interrupt, Signal, Over, bringUp, toggles, capture
<1>26. CASE ToggleSignal
  BY <1>26 DEF ToggleSignal, Signal, Over, bringUp, toggles, capture
<1>27. CASE PressSpace
  BY <1>27 DEF PressSpace, bringUp, toggles, capture
<1>28. CASE Packet
  BY <1>28 DEF Packet, bringUp, toggles, capture
<1>29. CASE DivideByZero
  BY <1>29 DEF DivideByZero, bringUp, toggles, capture
<1>30. CASE UncaughtSignal
  BY <1>30 DEF UncaughtSignal, bringUp, toggles, capture
<1> QED
  BY <1>1, <1>2, <1>3, <1>4, <1>5, <1>6, <1>7, <1>8, <1>9, <1>10, <1>11,
     <1>12, <1>13, <1>14, <1>15, <1>16, <1>17, <1>18, <1>19, <1>20, <1>21,
     <1>22, <1>23, <1>24, <1>25, <1>26, <1>27, <1>28, <1>29, <1>30
  DEF Next, Main, BringUp, Loop, WayDown, Environment

(* Signals are caught before the terminal is made raw, and no call that may    *)
(* end the program comes before it is restored.                                *)
LEMMA GuardedStep == Inv /\ [Next]_vars => Guarded'
<1> SUFFICES ASSUME Arguments, Guarded, [Next]_vars PROVE Guarded'
  BY DEF Inv
<1> USE DEF Arguments, Guarded
<1>1. CASE UNCHANGED vars
  BY <1>1 DEF vars, toggles, capture, bringUp
<1>2. CASE SetupLogging
  BY <1>2 DEF SetupLogging, Start, bringUp, toggles, capture
<1>3. CASE ParseArgs
  BY <1>3 DEF ParseArgs, Start, LegalArgs, bringUp, toggles, capture
<1>4. CASE RefuseArgs
  BY <1>4 DEF RefuseArgs, bringUp, toggles, capture
<1>5. CASE OpenCapturePcap
  BY <1>5 DEF OpenCapturePcap, Start, bringUp, toggles, capture
<1>6. CASE OpenAndProbeDev
  BY <1>6 DEF OpenAndProbeDev, Start, bringUp, toggles, capture
<1>7. CASE ConfigureAndStartDpdkPort
  BY <1>7 DEF ConfigureAndStartDpdkPort, Start, bringUp, toggles, capture
<1>8. CASE InitializeDocaFlow
  BY <1>8 DEF InitializeDocaFlow, Start, bringUp, toggles, capture
<1>9. CASE PortStart
  BY <1>9 DEF PortStart, Start, bringUp, toggles, capture
<1>10. CASE OpenSfRepresentor
  BY <1>10 DEF OpenSfRepresentor, Start, bringUp, toggles, capture
<1>11. CASE RepPortStart
  BY <1>11 DEF RepPortStart, Start, bringUp, toggles, capture
<1>12. CASE CreatePipe
  BY <1>12 DEF CreatePipe, bringUp, toggles, capture
<1>13. CASE AddEntries
  BY <1>13 DEF AddEntries, bringUp, toggles, capture
<1>14. CASE InstallSignalHandlers
  BY <1>14 DEF InstallSignalHandlers, bringUp, toggles, capture
<1>15. CASE LogStartup
  BY <1>15 DEF LogStartup, bringUp, toggles, capture
<1>16. CASE CaptureBurst
  BY <1>16 DEF CaptureBurst, bringUp, toggles, capture
<1>17. CASE PollCaptureToggle
  BY <1>17 DEF PollCaptureToggle, bringUp, toggles, capture
<1>18. CASE Report
  BY <1>18 DEF Report, bringUp, toggles, capture
<1>19. CASE PrintStats
  BY <1>19 DEF PrintStats, bringUp, toggles, capture
<1>20. CASE LeaveLoop
  BY <1>20 DEF LeaveLoop, bringUp, toggles, capture
<1>21. CASE RestoreKeyToggle
  BY <1>21 DEF RestoreKeyToggle, bringUp, toggles, capture
<1>22. CASE CloseCapturePcap
  BY <1>22 DEF CloseCapturePcap, Stop, bringUp, toggles, capture
<1>23. CASE StopPorts
  BY <1>23 DEF StopPorts, Stop, bringUp, toggles, capture
<1>24. CASE Destroy
  BY <1>24 DEF Destroy, Stop, bringUp, toggles, capture
<1>25. CASE Interrupt
  BY <1>25 DEF Interrupt, Signal, Over, bringUp, toggles, capture
<1>26. CASE ToggleSignal
  BY <1>26 DEF ToggleSignal, Signal, Over, bringUp, toggles, capture
<1>27. CASE PressSpace
  BY <1>27 DEF PressSpace, bringUp, toggles, capture
<1>28. CASE Packet
  BY <1>28 DEF Packet, bringUp, toggles, capture
<1>29. CASE DivideByZero
  BY <1>29 DEF DivideByZero, bringUp, toggles, capture
<1>30. CASE UncaughtSignal
  BY <1>30 DEF UncaughtSignal, bringUp, toggles, capture
<1> QED
  BY <1>1, <1>2, <1>3, <1>4, <1>5, <1>6, <1>7, <1>8, <1>9, <1>10, <1>11,
     <1>12, <1>13, <1>14, <1>15, <1>16, <1>17, <1>18, <1>19, <1>20, <1>21,
     <1>22, <1>23, <1>24, <1>25, <1>26, <1>27, <1>28, <1>29, <1>30
  DEF Next, Main, BringUp, Loop, WayDown, Environment

(* A burst numbers on, and writes every n-th copy, if any.                     *)
LEMMA SampledStep == Inv /\ [Next]_vars => Sampled'
<1> SUFFICES ASSUME Arguments, Sampled, [Next]_vars PROVE Sampled'
  BY DEF Inv
<1> USE DEF Sampled, Fresh, Ended
<1>1. CASE UNCHANGED vars
  BY <1>1 DEF vars, toggles, capture, bringUp
<1>2. CASE SetupLogging
  BY <1>2 DEF SetupLogging, Start, bringUp, toggles, capture
<1>3. CASE ParseArgs
  BY <1>3 DEF ParseArgs, Start, LegalArgs, capture
<1>4. CASE RefuseArgs
  BY <1>4 DEF RefuseArgs, bringUp, toggles, capture
<1>5. CASE OpenCapturePcap
  BY <1>5 DEF OpenCapturePcap, Start, bringUp, toggles, capture
<1>6. CASE OpenAndProbeDev
  BY <1>6 DEF OpenAndProbeDev, Start, bringUp, toggles, capture
<1>7. CASE ConfigureAndStartDpdkPort
  BY <1>7 DEF ConfigureAndStartDpdkPort, Start, bringUp, toggles, capture
<1>8. CASE InitializeDocaFlow
  BY <1>8 DEF InitializeDocaFlow, Start, bringUp, toggles, capture
<1>9. CASE PortStart
  BY <1>9 DEF PortStart, Start, bringUp, toggles, capture
<1>10. CASE OpenSfRepresentor
  BY <1>10 DEF OpenSfRepresentor, Start, bringUp, toggles, capture
<1>11. CASE RepPortStart
  BY <1>11 DEF RepPortStart, Start, bringUp, toggles, capture
<1>12. CASE CreatePipe
  BY <1>12 DEF CreatePipe, bringUp, toggles, capture
<1>13. CASE AddEntries
  BY <1>13 DEF AddEntries, bringUp, toggles, capture
<1>14. CASE InstallSignalHandlers
  BY <1>14 DEF InstallSignalHandlers, bringUp, toggles, capture
<1>15. CASE LogStartup
  BY <1>15 DEF LogStartup, bringUp, toggles, capture
<1>16. CASE CaptureBurst
  <2>1. PICK k \in 0 .. RxBurst :
           /\ pc = "loop" /\ pc' = "poll_capture_toggle" /\ UNCHANGED prog
           /\ sink' = [mirrored   |-> sink.mirrored + k,
                       sample_ctr |-> sink.sample_ctr + k,
                       written    |-> IF g_capture_writing THEN sink.written \cup Taken(k)
                                                           ELSE sink.written]
    BY <1>16 DEF CaptureBurst, bringUp
  <2>2. k \in Nat /\ sink.mirrored \in Nat /\ prog.sample_n >= 1
    BY <2>1, FlowRunAssumption
  <2>3. /\ Taken(k) \subseteq 1 .. sink.mirrored + k
        /\ prog.sample_n < Uint32Range => \A i \in Taken(k) : i % prog.sample_n = 0
    BY <2>2, TakenOfBurst
  <2>4. sink.written \subseteq 1 .. sink.mirrored + k
    BY <2>2
  <2>5. PICK w : /\ w \subseteq 1 .. sink.mirrored + k
                 /\ prog.sample_n < Uint32Range => \A i \in w : i % prog.sample_n = 0
                 /\ sink' = [mirrored |-> sink.mirrored + k,
                             sample_ctr |-> sink.sample_ctr + k, written |-> w]
    <3>1. CASE g_capture_writing
      BY <2>1, <2>3, <2>4, <3>1
    <3>2. CASE ~g_capture_writing
      BY <2>1, <2>4, <3>2
    <3> QED
      BY <3>1, <3>2
  <2>6. sink.mirrored + k \in Nat /\ w \subseteq Nat
    BY <2>2, <2>5
  <2>7. sink' \in [mirrored : Nat, sample_ctr : Nat, written : SUBSET Nat]
    BY <2>2, <2>5, <2>6
  <2>8. sink'.sample_ctr = sink'.mirrored
    BY <2>5
  <2>9. sink'.written = w /\ sink'.mirrored = sink.mirrored + k
    BY <2>5
  <2>10. sink'.written \subseteq 1 .. sink'.mirrored
    BY <2>5, <2>9
  <2>11. prog'.sample_n >= 1 /\ prog' = prog
    BY <2>1, <2>2
  <2>12. prog'.sample_n < Uint32Range => \A i \in sink'.written : i % prog'.sample_n = 0
    BY <2>5, <2>9, <2>11
  <2> QED
    BY <2>7, <2>8, <2>10, <2>11, <2>12
<1>17. CASE PollCaptureToggle
  BY <1>17 DEF PollCaptureToggle, bringUp, toggles, capture
<1>18. CASE Report
  BY <1>18 DEF Report, bringUp, toggles, capture
<1>19. CASE PrintStats
  BY <1>19 DEF PrintStats, bringUp, toggles, capture
<1>20. CASE LeaveLoop
  BY <1>20 DEF LeaveLoop, bringUp, toggles, capture
<1>21. CASE RestoreKeyToggle
  BY <1>21 DEF RestoreKeyToggle, bringUp, toggles, capture
<1>22. CASE CloseCapturePcap
  BY <1>22 DEF CloseCapturePcap, Stop, bringUp, toggles, capture
<1>23. CASE StopPorts
  BY <1>23 DEF StopPorts, Stop, bringUp, toggles, capture
<1>24. CASE Destroy
  BY <1>24 DEF Destroy, Stop, bringUp, toggles, capture
<1>25. CASE Interrupt
  BY <1>25 DEF Interrupt, Signal, Over, bringUp, toggles, capture
<1>26. CASE ToggleSignal
  BY <1>26 DEF ToggleSignal, Signal, Over, bringUp, toggles, capture
<1>27. CASE PressSpace
  BY <1>27 DEF PressSpace, bringUp, toggles, capture
<1>28. CASE Packet
  BY <1>28 DEF Packet, bringUp, toggles, capture
<1>29. CASE DivideByZero
  BY <1>29 DEF DivideByZero, bringUp, toggles, capture
<1>30. CASE UncaughtSignal
  BY <1>30 DEF UncaughtSignal, bringUp, toggles, capture
<1> QED
  BY <1>1, <1>2, <1>3, <1>4, <1>5, <1>6, <1>7, <1>8, <1>9, <1>10, <1>11,
     <1>12, <1>13, <1>14, <1>15, <1>16, <1>17, <1>18, <1>19, <1>20, <1>21,
     <1>22, <1>23, <1>24, <1>25, <1>26, <1>27, <1>28, <1>29, <1>30
  DEF Next, Main, BringUp, Loop, WayDown, Environment

(* main() has acquired nothing yet.                                            *)
LEMMA InvInit == Init => Inv
<1> SUFFICES ASSUME Init PROVE Inv
  OBVIOUS
<1>1. Arguments
  BY ProgramKinds DEF Init, Arguments
<1>2. Standing /\ Reached /\ Guarded
  BY DEF Init, Standing, Reached, Guarded, Built
<1>3. Sampled
  <2>1. sink = [mirrored |-> 0, sample_ctr |-> 0, written |-> {}] /\ pc = "setup_logging"
    BY DEF Init
  <2> QED
    BY <2>1 DEF Sampled, Fresh
<1> QED
  BY <1>1, <1>2, <1>3 DEF Inv

(* Every step preserves the conjunction.                                       *)
LEMMA Invariant == Spec => []Inv
<1>1. Inv /\ [Next]_vars => Inv'
  BY ArgumentsStep, StandingStep, ReachedStep, GuardedStep, SampledStep DEF Inv
<1> QED
  BY InvInit, <1>1, PTL DEF Spec

(* ------------------------ the pipes that are there ------------------------ *)

(* The pipes created so far are those of the plan, in its order; the last one  *)
(* may still be without its entries.                                           *)
Laying ==
  /\ prog \in Programs
  /\ \E S : pipes \in Seq(S)
  /\ Len(pipes) <= Len(Plan)
  /\ \A i \in 1 .. Len(pipes) : pipes[i] = Plan[i] \/ (i = Len(pipes) /\ pipes[i].entries = <<>>)
  /\ pc \notin {"add_entries"} \cup Ended => \A i \in 1 .. Len(pipes) : pipes[i] = Plan[i]
  /\ pc = "add_entries" => pipes # <<>>
  /\ pc \notin Fresh \cup Ended => prog.percent = NaN \/ prog.percent \in 0 .. Whole

(* What no step of main() does besides build_pipeline()'s two.                 *)
LEMMA LayingKept ==
  ASSUME Laying, prog' = prog, pipes' = pipes,
         pc' = "add_entries" => pc = "add_entries",
         pc' \notin {"add_entries"} \cup Ended => pc \notin {"add_entries"} \cup Ended,
         pc' \notin Fresh \cup Ended => pc \notin Fresh \cup Ended \/ LegalArgs
  PROVE  Laying'
BY DEF Laying, Plan, LegalArgs

(* build_pipeline() lays the plan pipe by pipe, and nothing else touches it.   *)
LEMMA LayingStep == Laying /\ [Next]_vars => Laying'
<1> SUFFICES ASSUME Laying, [Next]_vars PROVE Laying'
  OBVIOUS
<1> USE LayingKept DEF Fresh, Ended
<1>1. CASE UNCHANGED vars
  BY <1>1 DEF vars, toggles, capture, bringUp
<1>2. CASE SetupLogging
  BY <1>2 DEF SetupLogging, Start, bringUp, toggles, capture
<1>3. CASE ParseArgs
  BY <1>3 DEF ParseArgs, Start, bringUp, toggles, capture
<1>4. CASE RefuseArgs
  BY <1>4 DEF RefuseArgs, bringUp, toggles, capture
<1>5. CASE OpenCapturePcap
  BY <1>5 DEF OpenCapturePcap, Start, bringUp, toggles, capture
<1>6. CASE OpenAndProbeDev
  BY <1>6 DEF OpenAndProbeDev, Start, bringUp, toggles, capture
<1>7. CASE ConfigureAndStartDpdkPort
  BY <1>7 DEF ConfigureAndStartDpdkPort, Start, bringUp, toggles, capture
<1>8. CASE InitializeDocaFlow
  BY <1>8 DEF InitializeDocaFlow, Start, bringUp, toggles, capture
<1>9. CASE PortStart
  BY <1>9 DEF PortStart, Start, bringUp, toggles, capture
<1>10. CASE OpenSfRepresentor
  BY <1>10 DEF OpenSfRepresentor, Start, bringUp, toggles, capture
<1>11. CASE RepPortStart
  BY <1>11 DEF RepPortStart, Start, bringUp, toggles, capture
<1>12. CASE CreatePipe
  <2>1. CASE pc' = "exit" /\ UNCHANGED pipes
    BY <1>12, <2>1 DEF CreatePipe
  <2> DEFINE n    == Len(pipes)
             pipe == [Plan[n + 1] EXCEPT !.entries = <<>>]
  <2>2. CASE pipes' = Append(pipes, pipe) /\ pc' = "add_entries"
    <3>1. PICK S : pipes \in Seq(S)
      BY DEF Laying
    <3>2. n \in Nat /\ n < Len(Plan) /\ pc = "build_pipeline" /\ prog' = prog
      BY <1>12, <3>1, LenProperties DEF CreatePipe
    <3>10. Laid(Plan)
      BY PlanLaid DEF Laying
    <3>11. Len(Plan) \in Nat
      BY <3>10 DEF Laid
    <3>3. n + 1 \in 1 .. Len(Plan)
      BY <3>2, <3>11
    <3>4. pipe.entries = <<>>
      BY <3>3, <3>10 DEF Laid
    <3> HIDE DEF pipe
    <3>5. /\ pipes' \in Seq(S \cup {pipe}) /\ Len(pipes') = n + 1 /\ pipes'[n + 1] = pipe
          /\ \A i \in 1 .. n : pipes'[i] = pipes[i]
      <4>1. pipes \in Seq(S \cup {pipe})
        BY <3>1, SeqMonotonic
      <4> QED
        BY <2>2, <4>1
    <3>6. \A i \in 1 .. n : pipes[i] = Plan[i]
      BY <3>2 DEF Laying
    <3>7. \A i \in 1 .. n + 1 : pipes'[i] = Plan[i] \/ (i = n + 1 /\ pipes'[i].entries = <<>>)
      <4>1. \A i \in 1 .. n + 1 : i \in 1 .. n \/ i = n + 1
        BY <3>2
      <4> QED
        BY <3>4, <3>5, <3>6, <4>1
    <3>8. n + 1 <= Len(Plan) /\ pipes' # <<>> /\ Plan' = Plan
      <4>1. n + 1 <= Len(Plan) /\ n + 1 # 0
        BY <3>2, <3>3, <3>11
      <4> QED
        BY <3>2, <3>5, <4>1, EmptySeq DEF Plan
    <3> HIDE DEF n
    <3> QED
      BY <2>2, <3>2, <3>5, <3>7, <3>8 DEF Laying
  <2> QED
    BY <1>12, <2>1, <2>2 DEF CreatePipe
<1>13. CASE AddEntries
  <2>1. CASE pc' = "exit" /\ UNCHANGED pipes
    BY <1>13, <2>1 DEF AddEntries
  <2> DEFINE n == Len(pipes)
  <2>2. CASE /\ pipes' = [pipes EXCEPT ![n] = Plan[n]]
             /\ pc' \in {"install_signal_handlers", "build_pipeline"}
    <3>1. PICK S : pipes \in Seq(S)
      BY DEF Laying
    <3>2. pc = "add_entries" /\ prog' = prog
      BY <1>13 DEF AddEntries
    <3>3. n \in Nat \ {0} /\ DOMAIN pipes = 1 .. n
      BY <3>1, <3>2, LenProperties, EmptySeq DEF Laying
    <3>4. pipes' \in Seq(S \cup {Plan[n]}) /\ Len(pipes') = n
      <4>1. pipes \in Seq(S \cup {Plan[n]}) /\ n \in 1 .. Len(pipes)
        BY <3>1, <3>3, SeqMonotonic
      <4> QED
        BY <2>2, <4>1, ExceptSeq
    <3>5. \A i \in 1 .. n : pipes'[i] = Plan[i]
      <4>1. \A i \in 1 .. n : i # n => pipes[i] = Plan[i]
        BY DEF Laying
      <4> QED
        BY <2>2, <3>3, <4>1
    <3> HIDE DEF n
    <3>6. /\ n <= Len(Plan) /\ prog \in Programs
          /\ prog.percent = NaN \/ prog.percent \in 0 .. Whole
      BY <3>2 DEF Laying, n
    <3>7. Plan' = Plan
      BY <3>2 DEF Plan
    <3> QED
      BY <2>2, <3>2, <3>4, <3>5, <3>6, <3>7 DEF Laying
  <2> QED
    BY <1>13, <2>1, <2>2 DEF AddEntries
<1>14. CASE InstallSignalHandlers
  BY <1>14 DEF InstallSignalHandlers, bringUp, toggles, capture
<1>15. CASE LogStartup
  BY <1>15 DEF LogStartup, bringUp, toggles, capture
<1>16. CASE CaptureBurst
  BY <1>16 DEF CaptureBurst, bringUp, toggles, capture
<1>17. CASE PollCaptureToggle
  BY <1>17 DEF PollCaptureToggle, bringUp, toggles, capture
<1>18. CASE Report
  BY <1>18 DEF Report, bringUp, toggles, capture
<1>19. CASE PrintStats
  BY <1>19 DEF PrintStats, bringUp, toggles, capture
<1>20. CASE LeaveLoop
  BY <1>20 DEF LeaveLoop, bringUp, toggles, capture
<1>21. CASE RestoreKeyToggle
  BY <1>21 DEF RestoreKeyToggle, bringUp, toggles, capture
<1>22. CASE CloseCapturePcap
  BY <1>22 DEF CloseCapturePcap, Stop, bringUp, toggles, capture
<1>23. CASE StopPorts
  BY <1>23 DEF StopPorts, Stop, bringUp, toggles, capture
<1>24. CASE Destroy
  BY <1>24 DEF Destroy, Stop, bringUp, toggles, capture
<1>25. CASE Interrupt
  BY <1>25 DEF Interrupt, Signal, Over, bringUp, toggles, capture
<1>26. CASE ToggleSignal
  BY <1>26 DEF ToggleSignal, Signal, Over, bringUp, toggles, capture
<1>27. CASE PressSpace
  BY <1>27 DEF PressSpace, bringUp, toggles, capture
<1>28. CASE Packet
  BY <1>28 DEF Packet, bringUp, toggles, capture
<1>29. CASE DivideByZero
  BY <1>29 DEF DivideByZero, bringUp, toggles, capture
<1>30. CASE UncaughtSignal
  BY <1>30 DEF UncaughtSignal, bringUp, toggles, capture
<1> QED
  BY <1>1, <1>2, <1>3, <1>4, <1>5, <1>6, <1>7, <1>8, <1>9, <1>10, <1>11,
     <1>12, <1>13, <1>14, <1>15, <1>16, <1>17, <1>18, <1>19, <1>20, <1>21,
     <1>22, <1>23, <1>24, <1>25, <1>26, <1>27, <1>28, <1>29, <1>30
  DEF Next, Main, BringUp, Loop, WayDown, Environment

(* A root that is live is the end of the plan: every pipe is there, with its   *)
(* entries.                                                                    *)
LEMMA LiveIsPlan ==
  ASSUME Laying, RootLive
  PROVE  pipes = Plan
<1> DEFINE n == Len(pipes)
<1>1. PICK S : pipes \in Seq(S)
  BY DEF Laying
<1>2. n \in Nat \ {0}
  BY <1>1, EmptySeq DEF RootLive
<1>3. Laid(Plan) /\ n <= Len(Plan)
  BY PlanLaid DEF Laying
<1>4. pipes[n].name = "ROOT" /\ pipes[n].entries # <<>>
  BY DEF RootLive
<1>5. n \in 1 .. n
  BY <1>2
<1>6. \A i \in 1 .. n : pipes[i] = Plan[i]
  BY <1>4, <1>5 DEF Laying
<1>7. Len(Plan) = n
  <2>1. Plan[n].name = "ROOT"
    BY <1>4, <1>5, <1>6
  <2>2. Len(Plan) \in Nat /\ \A i \in 1 .. Len(Plan) : Plan[i].name = "ROOT" => i = Len(Plan)
    BY <1>3 DEF Laid
  <2>3. n \in 1 .. Len(Plan)
    BY <1>2, <1>3, <2>2
  <2> QED
    BY <2>1, <2>2, <2>3
<1>8. PICK T : Plan \in Seq(T)
  BY <1>3 DEF Laid
<1>9. pipes \in Seq(S \cup T) /\ Plan \in Seq(S \cup T)
  BY <1>1, <1>8, SeqMonotonic
<1> QED
  BY <1>6, <1>7, <1>9, SeqEqual

(* Once its root is live, the pipes created keep the promise,                  *)
LEMMA LivePromise ==
  ASSUME Laying, RootLive, NEW pkt \in Packets
  PROVE  /\ prog.percent # NaN => Promised(pkt, Journey(pipes, pkt))
         /\ prog.capture => Times(Journey(pipes, pkt), "ce_entry")
                              + Times(Journey(pipes, pkt), "pass_entry")
                              = Times(Journey(pipes, pkt), "CPU")
BY LiveIsPlan, PlanKeepsPromise DEF Laying

(* and what is seen of a packet are numbers.                                   *)
LEMMA LiveSighting ==
  ASSUME Laying, RootLive, NEW pkt \in Packets
  PROVE  Journey(pipes, pkt) \in Sightings
<1> DEFINE n == Len(Plan)
<1>0. pipes = Plan /\ Laid(Plan)
  BY LiveIsPlan, PlanLaid DEF Laying
<1>4. n \in Nat \ {0} /\ DOMAIN Plan = 1 .. n
  BY <1>0 DEF Laid
<1>1. n \in Nat /\ n \in 1 .. n /\ DOMAIN Plan = 1 .. n
  BY <1>4
<1>2. PICK s : Visits(Plan, pkt, s, n) /\ Journey(Plan, pkt) = s[n][pkt.ecn]
  BY <1>1, JourneyVisits
<1>3. s[n] \in [Ecn -> Sightings]
  BY <1>1, <1>2, VisitsType
<1> QED
  BY <1>0, <1>2, <1>3 DEF Packets

(* The type of every variable, and where the copies are.                       *)
Counting ==
  /\ terminal \subseteq {"raw", "nonblock"}
  /\ {g_running, g_toggle_pending, g_capture_writing} \subseteq BOOLEAN
  /\ typed \in 0 .. keys /\ keys \in 0 .. MaxKeys /\ signals \in Nat
  /\ ring \in 0 .. RxRing /\ lost \in Nat /\ count \in [Counters -> Nat]
  /\ prog.capture => count["ce_entry"] + count["pass_entry"] = sink.mirrored + ring + lost

(* A packet is counted as often as it is copied; no copy gets lost unseen.     *)
LEMMA CountingStep == Inv /\ Laying /\ Counting /\ [Next]_vars => Counting'
<1> SUFFICES ASSUME Inv, Laying, Counting, [Next]_vars PROVE Counting'
  OBVIOUS
<1>0. Sampled /\ RxRing \in Nat /\ RxBurst \in Nat /\ MaxKeys \in Nat
  BY FlowRunAssumption DEF Inv
<1> USE DEF Counting
<1>1. CASE UNCHANGED vars
  BY <1>1 DEF vars, toggles, capture, bringUp
<1>2. CASE SetupLogging
  BY <1>2 DEF SetupLogging, Start, bringUp, toggles, capture
<1>3. CASE ParseArgs
  BY <1>3 DEF ParseArgs, Start, bringUp, toggles, capture
<1>4. CASE RefuseArgs
  BY <1>4 DEF RefuseArgs, bringUp, toggles, capture
<1>5. CASE OpenCapturePcap
  BY <1>5 DEF OpenCapturePcap, Start, bringUp, toggles, capture
<1>6. CASE OpenAndProbeDev
  BY <1>6 DEF OpenAndProbeDev, Start, bringUp, toggles, capture
<1>7. CASE ConfigureAndStartDpdkPort
  BY <1>7 DEF ConfigureAndStartDpdkPort, Start, bringUp, toggles, capture
<1>8. CASE InitializeDocaFlow
  BY <1>8 DEF InitializeDocaFlow, Start, bringUp, toggles, capture
<1>9. CASE PortStart
  BY <1>9 DEF PortStart, Start, bringUp, toggles, capture
<1>10. CASE OpenSfRepresentor
  BY <1>10 DEF OpenSfRepresentor, Start, bringUp, toggles, capture
<1>11. CASE RepPortStart
  BY <1>11 DEF RepPortStart, Start, bringUp, toggles, capture
<1>12. CASE CreatePipe
  BY <1>12 DEF CreatePipe, bringUp, toggles, capture
<1>13. CASE AddEntries
  BY <1>13 DEF AddEntries, bringUp, toggles, capture
<1>14. CASE InstallSignalHandlers
  BY <1>14 DEF InstallSignalHandlers, bringUp, toggles, capture
<1>15. CASE LogStartup
  BY <1>15 DEF LogStartup, bringUp, toggles, capture
<1>16. CASE CaptureBurst
  <2>1. PICK k \in 0 .. RxBurst :
           /\ IF prog.capture THEN k <= ring ELSE k = 0
           /\ sink'.mirrored = sink.mirrored + k
           /\ ring' = ring - k
           /\ UNCHANGED <<prog, toggles, g_running, lost, count>>
    BY <1>16 DEF CaptureBurst
  <2>2. sink.mirrored \in Nat /\ k \in Nat
    BY <1>0, <2>1 DEF Sampled
  <2>3. ring' \in 0 .. RxRing
    BY <1>0, <2>1, <2>2
  <2>4. sink'.mirrored + ring' = sink.mirrored + ring
    BY <1>0, <2>1, <2>2
  <2> QED
    BY <1>0, <2>1, <2>2, <2>3, <2>4 DEF toggles
<1>17. CASE PollCaptureToggle
  <2>1. typed' \in 0 .. keys'
    <3>1. typed' \in {0, typed} /\ keys' = keys
      BY <1>17 DEF PollCaptureToggle
    <3> QED
      BY <1>0, <3>1
  <2>2. g_toggle_pending' \in BOOLEAN /\ g_capture_writing' \in BOOLEAN
    BY <1>17 DEF PollCaptureToggle
  <2>3. UNCHANGED <<prog, g_running, terminal, keys, signals, capture>>
    BY <1>17 DEF PollCaptureToggle
  <2> QED
    BY <2>1, <2>2, <2>3 DEF capture
<1>18. CASE Report
  BY <1>18 DEF Report, bringUp, toggles, capture
<1>19. CASE PrintStats
  BY <1>19 DEF PrintStats, bringUp, toggles, capture
<1>20. CASE LeaveLoop
  BY <1>20 DEF LeaveLoop, bringUp, toggles, capture
<1>21. CASE RestoreKeyToggle
  BY <1>21 DEF RestoreKeyToggle, bringUp, toggles, capture
<1>22. CASE CloseCapturePcap
  BY <1>22 DEF CloseCapturePcap, Stop, bringUp, toggles, capture
<1>23. CASE StopPorts
  BY <1>23 DEF StopPorts, Stop, bringUp, toggles, capture
<1>24. CASE Destroy
  BY <1>24 DEF Destroy, Stop, bringUp, toggles, capture
<1>25. CASE Interrupt
  <2>1. g_running' \in BOOLEAN /\ g_toggle_pending' \in BOOLEAN
    BY <1>25 DEF Interrupt, Signal
  <2>2. signals' = signals + 1
    BY <1>25 DEF Interrupt, Signal
  <2>3. UNCHANGED <<prog, terminal, keys, typed, g_capture_writing, capture>>
    BY <1>25 DEF Interrupt, Signal
  <2> QED
    BY <2>1, <2>2, <2>3 DEF capture
<1>26. CASE ToggleSignal
  <2>1. g_running' \in BOOLEAN /\ g_toggle_pending' \in BOOLEAN
    BY <1>26 DEF ToggleSignal, Signal
  <2>2. signals' = signals + 1
    BY <1>26 DEF ToggleSignal, Signal
  <2>3. UNCHANGED <<prog, terminal, keys, typed, g_capture_writing, capture>>
    BY <1>26 DEF ToggleSignal, Signal
  <2> QED
    BY <2>1, <2>2, <2>3 DEF capture
<1>27. CASE PressSpace
  BY <1>0, <1>27 DEF PressSpace, bringUp, toggles, capture
<1>28. CASE Packet
  <2>1. PICK pkt \in Packets :
           /\ count' = [c \in Counters |-> count[c] + Times(Journey(pipes, pkt), c)]
           /\ ring' = IF ring + Times(Journey(pipes, pkt), "CPU") <= RxRing
                      THEN ring + Times(Journey(pipes, pkt), "CPU") ELSE RxRing
           /\ lost' = lost + (ring + Times(Journey(pipes, pkt), "CPU") - ring')
    BY <1>28 DEF Packet
  <2>2. RootLive /\ UNCHANGED <<prog, g_running, toggles, sink>>
    BY <1>28 DEF Packet, bringUp
  <2> DEFINE j == Journey(pipes, pkt)
  <2>3. j \in Sightings
    BY <2>2, LiveSighting
  <2>4. prog.capture => Times(j, "ce_entry") + Times(j, "pass_entry") = Times(j, "CPU")
    BY <2>2, LivePromise
  <2> HIDE DEF j
  <2>5. /\ \A c \in Counters : Times(j, c) \in Nat
        /\ Times(j, "CPU") \in Nat
    BY <2>3 DEF Sightings, Times, Places, Ports, Ecn
  <2>6. {"ce_entry", "pass_entry"} \subseteq Counters
    BY DEF Counters
  <2>7. sink.mirrored \in Nat
    BY <1>0 DEF Sampled
  <2>8. /\ count' = [c \in Counters |-> count[c] + Times(j, c)]
        /\ ring' = IF ring + Times(j, "CPU") <= RxRing THEN ring + Times(j, "CPU") ELSE RxRing
        /\ lost' = lost + (ring + Times(j, "CPU") - ring')
    BY <2>1 DEF j
  <2>9. count' \in [Counters -> Nat]
    BY <2>5, <2>8
  <2>10. /\ ring' \in 0 .. RxRing /\ lost' \in Nat
         /\ ring' + lost' = ring + lost + Times(j, "CPU")
    <3> DEFINE m == Times(j, "CPU")
    <3>1. m \in Nat /\ ring \in Nat /\ ring <= RxRing /\ lost \in Nat
      BY <1>0, <2>5
    <3>2. /\ ring' = IF ring + m <= RxRing THEN ring + m ELSE RxRing
          /\ lost' = lost + (ring + m - ring')
      BY <2>8
    <3> HIDE DEF m
    <3>3. ring' \in 0 .. RxRing /\ lost' \in Nat /\ ring' + lost' = ring + lost + m
      BY <1>0, <3>1, <3>2
    <3> QED
      BY <3>3 DEF m
  <2>11. /\ count'["ce_entry"] = count["ce_entry"] + Times(j, "ce_entry")
         /\ count'["pass_entry"] = count["pass_entry"] + Times(j, "pass_entry")
    BY <2>6, <2>8
  <2>12. prog.capture => count'["ce_entry"] + count'["pass_entry"] = sink.mirrored + ring' + lost'
    <3> SUFFICES ASSUME prog.capture
                 PROVE  count'["ce_entry"] + count'["pass_entry"] = sink.mirrored + ring' + lost'
      OBVIOUS
    <3> DEFINE a == count["ce_entry"]
               b == count["pass_entry"]
               da == Times(j, "ce_entry")
               db == Times(j, "pass_entry")
               m  == Times(j, "CPU")
               r  == sink.mirrored
    <3>1. r \in Nat /\ a \in Nat /\ b \in Nat /\ da \in Nat /\ db \in Nat /\ m \in Nat /\ ring \in Nat /\ lost \in Nat
      BY <1>0, <2>5, <2>6, <2>7
    <3>2. da + db = m /\ a + b = r + ring + lost
      BY <2>4
    <3>3. count'["ce_entry"] = a + da /\ count'["pass_entry"] = b + db
      BY <2>11
    <3>4. ring' \in Nat /\ lost' \in Nat /\ ring' + lost' = ring + lost + m
      BY <1>0, <2>10
    <3> HIDE DEF a, b, da, db, m, r
    <3>5. (a + da) + (b + db) = r + ring' + lost'
      <4>1. PICK ka, kb, kc, kd, km, kr, ki, ko, kj, kl \in Nat :
               /\ ka = a /\ kb = b /\ kc = da /\ kd = db /\ km = m /\ kr = r
               /\ ki = ring /\ ko = lost /\ kj = ring' /\ kl = lost'
        BY <3>1, <3>4, Zenon
      <4>2. kc + kd = km /\ ka + kb = kr + ki + ko /\ kj + kl = ki + ko + km
        BY <3>2, <3>4, <4>1, Zenon
      <4>3. (ka + kc) + (kb + kd) = kr + kj + kl
        BY <4>2
      <4> QED
        BY <4>1, <4>3, Zenon
    <3> QED
      BY <3>3, <3>5 DEF r
  <2> QED
    BY <2>2, <2>9, <2>10, <2>12 DEF toggles
<1>29. CASE DivideByZero
  BY <1>29 DEF DivideByZero, bringUp, toggles, capture
<1>30. CASE UncaughtSignal
  BY <1>30 DEF UncaughtSignal, bringUp, toggles, capture
<1> QED
  BY <1>1, <1>2, <1>3, <1>4, <1>5, <1>6, <1>7, <1>8, <1>9, <1>10, <1>11,
     <1>12, <1>13, <1>14, <1>15, <1>16, <1>17, <1>18, <1>19, <1>20, <1>21,
     <1>22, <1>23, <1>24, <1>25, <1>26, <1>27, <1>28, <1>29, <1>30
  DEF Next, Main, BringUp, Loop, WayDown, Environment

(* At first there are no pipes and no copies.                                  *)
LEMMA LayingInit == Init => Laying /\ Counting
<1> SUFFICES ASSUME Init PROVE Laying /\ Counting
  OBVIOUS
<1>1. Laying
  <2>1. prog \in Programs /\ pipes = <<>> /\ pc = "setup_logging"
    BY DEF Init
  <2>2. \A S : <<>> \in Seq(S) /\ Len(<<>>) = 0
    BY EmptySeq
  <2>3. Laid(Plan)
    BY <2>1, PlanLaid
  <2>4. Len(Plan) \in Nat
    BY <2>3 DEF Laid
  <2> QED
    BY <2>1, <2>2, <2>4 DEF Laying, Fresh
<1>2. Counting
  <2>1. count \in [Counters -> Nat] /\ count["ce_entry"] = 0 /\ count["pass_entry"] = 0
    BY DEF Init, Counters
  <2>2. sink.mirrored = 0 /\ ring = 0 /\ lost = 0 /\ typed = 0 /\ keys = 0 /\ signals = 0
    BY DEF Init
  <2>3. terminal = {} /\ {g_running, g_toggle_pending, g_capture_writing} \subseteq BOOLEAN
    BY DEF Init
  <2> QED
    BY <2>1, <2>2, <2>3, FlowRunAssumption DEF Counting
<1> QED
  BY <1>1, <1>2

(* All parts of the invariant hold throughout.                                 *)
LEMMA PipesInvariant == Spec => [](Inv /\ Laying /\ Counting)
<1>1. Inv /\ Laying /\ Counting /\ [Next]_vars => (Laying /\ Counting)'
  BY LayingStep, CountingStep
<1> QED
  BY LayingInit, Invariant, <1>1, PTL DEF Spec

(* ------------------------- the share that is marked ----------------------- *)

(* The random values in a mask's terms: 2^i times 2^(W-i).                     *)
LEMMA PowerSplit ==
  \A i \in 0 .. RandomWidth : 2 ^ i * 2 ^ (RandomWidth - i) = 2 ^ RandomWidth
<1> DEFINE W   == RandomWidth
           Bad == {i \in 0 .. W : 2 ^ i * 2 ^ (W - i) # 2 ^ W}
<1>0. W \in Nat \ {0}
  BY RandomWidthAssumption
<1>1. SUFFICES ASSUME Bad # {} PROVE FALSE
  OBVIOUS
<1>2. PICK i \in Bad : \A m \in Bad : ~(m < i)
  <2>1. Bad \subseteq Nat
    BY <1>0
  <2> HIDE DEF Bad
  <2>2. PICK i \in Bad : \A m \in Bad : <<m, i>> \notin OpToRel(<, Nat)
    BY <1>1, <2>1, NatLessThanWellFounded, WFMin
  <2>3. \A m \in Bad : m < i => <<m, i>> \in OpToRel(<, Nat)
    BY <2>1, <2>2 DEF OpToRel
  <2> QED
    BY <2>2, <2>3
<1>3. i \in 0 .. W /\ 2 ^ i * 2 ^ (W - i) # 2 ^ W
  BY <1>2
<1>4. i # 0
  <2>1. CASE i = 0
    <3>1. W - i = W /\ 2 ^ i = 1
      BY <1>0, <2>1, PowersOfTwo
    <3>2. 2 ^ W \in Nat
      BY <1>0, TwoTo
    <3> QED
      BY <1>3, <3>1, <3>2
  <2> QED
    BY <2>1
<1>5. i - 1 \in 0 .. W /\ W - i \in 0 .. W /\ i - 1 < i
  BY <1>0, <1>3, <1>4
<1>6. 2 ^ (i - 1) * 2 ^ (W - (i - 1)) = 2 ^ W
  <2>1. i - 1 \notin Bad
    BY <1>2, <1>5
  <2> QED
    BY <1>5, <2>1
<1>7. (i - 1) + 1 = i /\ W - (i - 1) = (W - i) + 1
  BY <1>0, <1>3
<1>8. 2 ^ i = 2 * 2 ^ (i - 1)
  BY <1>5, <1>7, PowersOfTwo
<1>9. 2 ^ (W - (i - 1)) = 2 * 2 ^ (W - i)
  BY <1>5, <1>7, PowersOfTwo
<1>10. PICK a \in Nat, b \in Nat : a = 2 ^ (i - 1) /\ b = 2 ^ (W - i)
  <2>1. 2 ^ (i - 1) \in Nat /\ 2 ^ (W - i) \in Nat
    BY <1>0, <1>5, TwoTo
  <2> QED
    BY <2>1
<1>11. (2 * a) * b = a * (2 * b)
  OBVIOUS
<1>12. (2 * a) * b = 2 ^ i * 2 ^ (W - i) /\ a * (2 * b) = 2 ^ W
  BY <1>6, <1>8, <1>9, <1>10, Zenon
<1> QED
  BY <1>3, <1>11, <1>12, Zenon

(* Among the first a * d numbers, d are multiples of a.                        *)
LEMMA Multiples ==
  ASSUME NEW a \in Nat \ {0}, NEW d \in Nat \ {0}
  PROVE  Cardinality({r \in 0 .. a * d - 1 : r % a = 0}) = d
<1> DEFINE M == {r \in 0 .. a * d - 1 : r % a = 0}
           f == [k \in 1 .. d |-> a * (k - 1)]
<1>1. \A k \in 1 .. d : a * (k - 1) \in M
  <2> SUFFICES ASSUME NEW k \in 1 .. d PROVE a * (k - 1) \in M
    OBVIOUS
  <2>1. k - 1 \in Nat /\ k - 1 <= d - 1
    OBVIOUS
  <2>2. PICK q \in Nat : q = k - 1 /\ q <= d - 1
    BY <2>1
  <2>3. a * q \in Nat /\ a * q <= a * (d - 1)
    BY <2>2
  <2>4. a * (d - 1) <= a * d - 1
    OBVIOUS
  <2>5. (a * q) % a = 0
    OBVIOUS
  <2>6. a * q \in 0 .. a * d - 1
    BY <2>3, <2>4
  <2> QED
    BY <2>2, <2>5, <2>6
<1>2. \A r \in M : \E k \in 1 .. d : f[k] = r
  <2> SUFFICES ASSUME NEW r \in M PROVE \E k \in 1 .. d : f[k] = r
    OBVIOUS
  <2>1. r \in Nat /\ r <= a * d - 1 /\ r % a = 0
    OBVIOUS
  <2>2. PICK q \in Nat : r = a * q
    <3>1. PICK x \in Nat : x = r /\ x % a = 0
      BY <2>1
    <3> HIDE DEF M
    <3>2. (x \div a) \in Nat
      OBVIOUS
    <3>3. x = a * (x \div a) + (x % a)
      OBVIOUS
    <3>4. x = a * (x \div a)
      BY <3>1, <3>2, <3>3
    <3> QED
      BY <3>1, <3>2, <3>4
  <2>3. q < d
    <3>1. CASE q >= d
      <4>1. a * q >= a * d
        BY <3>1
      <4> QED
        BY <2>1, <2>2, <4>1
    <3> QED
      BY <3>1
  <2>4. q + 1 \in 1 .. d /\ (q + 1) - 1 = q
    BY <2>3
  <2> QED
    BY <2>2, <2>4
<1>3. \A k, l \in 1 .. d : f[k] = f[l] => k = l
  <2> SUFFICES ASSUME NEW k \in 1 .. d, NEW l \in 1 .. d, f[k] = f[l] PROVE k = l
    OBVIOUS
  <2>1. a * (k - 1) = a * (l - 1)
    OBVIOUS
  <2>2. PICK p \in Nat, q \in Nat : p = k - 1 /\ q = l - 1
    OBVIOUS
  <2>3. a * p = a * q
    BY <2>1, <2>2
  <2>4. p = q
    BY <2>3
  <2> QED
    BY <2>2, <2>4
<1>4. f \in Bijection(1 .. d, M)
  <2>1. f \in [1 .. d -> M]
    BY <1>1
  <2> HIDE DEF f, M
  <2> QED
    BY <1>2, <1>3, <2>1 DEF Bijection, Injection, Surjection, IsInjective
<1> QED
  BY <1>4, FS_CountingElements DEF ExistsBijection

(* Whole is twice the number of random values.                                 *)
LEMMA Halves ==
  /\ 2 ^ RandomWidth \in Nat \ {0} /\ Whole = 2 * 2 ^ RandomWidth
  /\ Whole \in Nat
<1>1. 2 ^ RandomWidth \in Nat \ {0}
  BY TwoTo, RandomWidthAssumption
<1>2. Whole = 2 * 2 ^ RandomWidth
  BY PowersOfTwo, RandomWidthAssumption DEF Whole
<1>3. \A x \in Nat : 2 * x \in Nat
  OBVIOUS
<1> QED
  BY <1>1, <1>2, <1>3

(* The round GetRandomMask() stops in.                                         *)
LEMMA MaskRound ==
  ASSUME NEW percent \in 1 .. Whole - 1
  PROVE  \E i \in 1 .. RandomWidth + 1 :
           /\ i = RandomWidth + 1 \/ percent * 2 ^ i >= Whole
           /\ \A j \in 1 .. i - 1 : percent * 2 ^ j < Whole
           /\ GetRandomMask(percent) = (2 ^ i - 1) % 2 ^ RandomWidth
<1> DEFINE Bad == {i \in 1 .. RandomWidth + 1 : i = RandomWidth + 1 \/ percent * 2 ^ i >= Whole}
           Stops(i) == /\ i = RandomWidth + 1 \/ percent * 2 ^ i >= Whole
                       /\ \A j \in 1 .. i - 1 : percent * 2 ^ j < Whole
<1>1. Bad # {} /\ Bad \subseteq Nat
  BY RandomWidthAssumption
<1>2. PICK i \in Bad : \A m \in Bad : ~(m < i)
  <2> HIDE DEF Bad
  <2>2. PICK i \in Bad : \A m \in Bad : <<m, i>> \notin OpToRel(<, Nat)
    BY <1>1, NatLessThanWellFounded, WFMin
  <2>3. \A m \in Bad : m < i => <<m, i>> \in OpToRel(<, Nat)
    BY <1>1, <2>2 DEF OpToRel
  <2> QED
    BY <2>2, <2>3
<1>3. \A j \in 1 .. i - 1 : j \in 1 .. RandomWidth /\ j \notin Bad
  BY <1>2, RandomWidthAssumption
<1>4. \A j \in 1 .. RandomWidth : percent * 2 ^ j \in Int /\ Whole \in Int
  <2>1. \A j \in 1 .. RandomWidth : 2 ^ j \in Nat
    BY TwoTo, RandomWidthAssumption
  <2>2. Whole \in Nat
    BY TwoTo, RandomWidthAssumption DEF Whole
  <2> QED
    BY <2>1, <2>2
<1>5. \A j \in 1 .. i - 1 : percent * 2 ^ j < Whole
  <2> SUFFICES ASSUME NEW j \in 1 .. i - 1 PROVE percent * 2 ^ j < Whole
    OBVIOUS
  <2>1. j \in 1 .. RandomWidth /\ ~(percent * 2 ^ j >= Whole)
    <3>1. j \in 1 .. RandomWidth /\ j \in 1 .. RandomWidth + 1 /\ j \notin Bad
      BY <1>3, RandomWidthAssumption
    <3> QED
      BY <3>1, Zenon
  <2>2. PICK x \in Int, w \in Int : x = percent * 2 ^ j /\ w = Whole
    BY <1>4, <2>1
  <2>3. ~(x >= w)
    BY <2>1, <2>2, Zenon
  <2>4. x < w
    BY <2>3
  <2> QED
    BY <2>2, <2>4, Zenon
<1>6. i \in 1 .. RandomWidth + 1 /\ Stops(i)
  BY <1>2, <1>5
<1> DEFINE k == CHOOSE k \in 1 .. RandomWidth + 1 : Stops(k)
<1> HIDE DEF Stops
<1>7. k \in 1 .. RandomWidth + 1 /\ Stops(k)
  BY <1>6
<1>8. GetRandomMask(percent) = (2 ^ k - 1) % 2 ^ RandomWidth
  <2>1. ASSUME NEW m \in 1 .. RandomWidth + 1
        PROVE  Stops(m) <=> /\ m = RandomWidth + 1 \/ Fits(percent, m)
                            /\ \A j \in 1 .. m - 1 : ~Fits(percent, j)
    <3>1. percent # NaN
      BY NaNAssumption, Halves
    <3>2. \A j \in 1 .. m - 1 : j \in 1 .. RandomWidth
      BY RandomWidthAssumption
    <3>3. \A j \in 1 .. m - 1 : percent * 2 ^ j < Whole <=> ~(percent * 2 ^ j >= Whole)
      <4> SUFFICES ASSUME NEW j \in 1 .. m - 1
                   PROVE  percent * 2 ^ j < Whole <=> ~(percent * 2 ^ j >= Whole)
        OBVIOUS
      <4>1. PICK x \in Int, w \in Int : x = percent * 2 ^ j /\ w = Whole
        BY <1>4, <3>2
      <4>2. x < w <=> ~(x >= w)
        BY <4>1
      <4> QED
        BY <4>1, <4>2, Zenon
    <3> QED
      BY <3>1, <3>3 DEF Stops, Fits
  <2>2. k = CHOOSE m \in 1 .. RandomWidth + 1 :
              /\ m = RandomWidth + 1 \/ Fits(percent, m)
              /\ \A j \in 1 .. m - 1 : ~Fits(percent, j)
    BY <2>1 DEF k
  <2> QED
    BY <2>2 DEF GetRandomMask
<1> HIDE DEF k
<1> QED
  BY <1>7, <1>8 DEF Stops

(* A mask of i ones lets d of the random values through: i and d fit the       *)
(* percentage, unless it is below what the field can tell apart.               *)
LEMMA MaskShare ==
  ASSUME NEW percent \in 1 .. Whole - 1
  PROVE  \E a, d \in Nat \ {0} :
           /\ GetRandomMask(percent) + 1 = a /\ a * d = 2 ^ RandomWidth
           /\ percent = 1 => d = 1
           /\ percent # 1 => 2 * d <= percent /\ percent < 4 * d
<1> DEFINE W == RandomWidth
<1>0. W \in Nat \ {0} /\ Whole \in Nat /\ percent \in Nat \ {0} /\ percent < Whole
  BY RandomWidthAssumption, Halves
<1>1. PICK R \in Nat \ {0} : R = 2 ^ W
  BY Halves
<1>2. Whole = 2 * R
  BY <1>1, Halves
<1>3. PICK i \in 1 .. W + 1 :
        /\ i = W + 1 \/ percent * 2 ^ i >= Whole
        /\ \A j \in 1 .. i - 1 : percent * 2 ^ j < Whole
        /\ GetRandomMask(percent) = (2 ^ i - 1) % 2 ^ W
  BY MaskRound
<1> HIDE DEF W
<1>4. CASE i = W + 1
  <2>1. 2 ^ i = 2 * R
    BY <1>1, <1>2, <1>4 DEF Whole, W
  <2>2. (2 * R - 1) % R = R - 1
    <3>1. 2 * R - 1 = R * 1 + (R - 1)
      OBVIOUS
    <3> QED
      BY <3>1
  <2>3. GetRandomMask(percent) + 1 = R
    BY <1>1, <1>3, <2>1, <2>2
  <2>4. percent = 1
    <3>1. W \in 1 .. i - 1
      BY <1>0, <1>4
    <3>2. percent * R < 2 * R
      BY <1>1, <1>2, <1>3, <3>1
    <3>3. CASE percent >= 2
      <4>1. percent * R >= 2 * R
        BY <1>0, <3>3
      <4> QED
        BY <1>0, <3>2, <4>1
    <3> QED
      BY <1>0, <3>3
  <2>5. R * 1 = R
    OBVIOUS
  <2> QED
    BY <1>1, <2>3, <2>4, <2>5 DEF W
<1>5. CASE i # W + 1
  <2>1. i \in 1 .. W /\ i \in 0 .. W /\ W - i \in 0 .. W + 1
        /\ i - 1 \in 0 .. W /\ i - 1 \in 0 .. W + 1
    BY <1>0, <1>3, <1>5
  <2>2. PICK a \in Nat \ {0}, d \in Nat \ {0} : a = 2 ^ i /\ d = 2 ^ (W - i)
    <3>1. 2 ^ i \in Nat \ {0} /\ 2 ^ (W - i) \in Nat \ {0}
      BY <2>1, TwoTo DEF W
    <3> QED
      BY <3>1
  <2>3. a * d = R
    BY <1>1, <2>1, <2>2, PowerSplit DEF W
  <2>4. a <= R
    BY <2>3
  <2>5. GetRandomMask(percent) + 1 = a
    <3>1. (a - 1) % R = a - 1
      BY <2>4
    <3> QED
      BY <1>1, <1>3, <2>2, <3>1
  <2>6. percent * a >= 2 * R
    BY <1>2, <1>3, <1>5, <2>2
  <2>7. percent >= 2 * d
    <3>1. 2 * R = (2 * d) * a
      BY <2>3
    <3>2. CASE percent < 2 * d
      <4>1. percent * a < (2 * d) * a
        BY <1>0, <3>2
      <4> QED
        BY <1>0, <2>6, <3>1, <4>1
    <3> QED
      BY <1>0, <3>2
  <2>8. percent < 4 * d
    <3>1. PICK b \in Nat \ {0} : b = 2 ^ (i - 1)
      BY <2>1, TwoTo DEF W
    <3>2. a = 2 * b
      <4>1. (i - 1) + 1 = i
        BY <2>1
      <4> QED
        BY <2>1, <2>2, <3>1, <4>1, PowersOfTwo DEF W
    <3>3. 2 * R = (4 * d) * b
      <4>1. R = (2 * b) * d
        BY <2>3, <3>2
      <4> QED
        BY <4>1
    <3>4. percent * b < 2 * R
      <4>1. CASE i = 1
        <5>1. b = 1
          BY <3>1, <4>1, PowersOfTwo
        <5> QED
          BY <1>0, <1>2, <5>1
      <4>2. CASE i # 1
        <5>1. i - 1 \in 1 .. i - 1
          BY <2>1, <4>2
        <5> QED
          BY <1>2, <1>3, <3>1, <5>1
      <4> QED
        BY <4>1, <4>2
    <3>5. CASE percent >= 4 * d
      <4>1. percent * b >= (4 * d) * b
        BY <1>0, <3>5
      <4> QED
        BY <1>0, <3>3, <3>4, <4>1
    <3> QED
      BY <1>0, <3>5
  <2>9. percent # 1
    BY <2>7
  <2> QED
    BY <1>1, <2>3, <2>5, <2>7, <2>8, <2>9 DEF W
<1> QED
  BY <1>4, <1>5

(* MARK counts an IPv4 packet from the wire if and only if it is picked.       *)
LEMMA PlanMarks ==
  ASSUME prog \in Programs, prog.percent # NaN, Marks, NEW pkt \in Packets, pkt.from = "wire", pkt.ip4
  PROVE  Times(Journey(Plan, pkt), "ce_entry") = IF Marked(prog.percent, pkt) THEN 1 ELSE 0
<1> DEFINE c   == CountedBy(prog.percent, pkt)
           set == SetTo(c, pkt.ecn)
<1>1. prog.percent \in Int \cup {NaN} /\ pkt.ecn \in Ecn
  BY ProgramKinds DEF Packets
<1>8. ~Strayed(prog.percent, pkt)
  BY DEF Strayed, Marking, Picking
<1>2. c \in {"ce_entry", "pass_entry"} /\ set \in Ecn
  BY <1>1 DEF CountedBy, SetTo, Ecn
<1>3. c = "ce_entry" <=> Marked(prog.percent, pkt)
  BY DEF CountedBy
<1>4. \E ports \in {{"SF"}, {"SF", "CPU"}} : Journey(Plan, pkt) = Delivered(c, ports, set)
  <2>1. CASE ~prog.capture
    <3>1. PICK on \in {"any", "ip4"} : Plan = PlainPipes(on, prog.percent)
      BY <2>1, Plans DEF Marks
    <3>2. Journey(Plan, pkt) = Forwarded(c, {"SF"}, Miss(on), pkt, pkt.ecn)
      BY <1>1, <1>8, <3>1, PlainChain DEF PlainPipes, FromWire
    <3> QED
      BY <3>2 DEF Forwarded
  <2>2. CASE prog.capture
    <3>1. Plan \in {FloodPipes(prog.percent), MirrorPipes(prog.percent)}
      BY <2>2, Plans DEF Marks
    <3>2. Journey(Plan, pkt) = Forwarded(c, {"SF", "CPU"}, Miss("ip4"), pkt, pkt.ecn)
      BY <1>1, <1>8, <3>1, CaptureChain DEF FromWire
    <3> QED
      BY <3>2 DEF Forwarded
  <2> QED
    BY <2>1, <2>2
<1> HIDE DEF c, set
<1>5. PICK ports \in {{"SF"}, {"SF", "CPU"}} : Journey(Plan, pkt) = Delivered(c, ports, set)
  BY <1>4
<1>6. Exactly(Journey(Plan, pkt), {c} \cup ports, set)
  BY <1>2, <1>5, ExactlyThese
<1>7. Times(Journey(Plan, pkt), "ce_entry") = IF c = "ce_entry" THEN 1 ELSE 0
  BY <1>6 DEF Exactly, Places, Counters
<1> QED
  BY <1>3, <1>7

(* A live pipeline marks the share that was asked for.                         *)
LEMMA LiveShare ==
  ASSUME Laying, RootLive, Marks, prog.percent \in 0 .. Whole
  PROVE  ShareAsAsked
<1> DEFINE p      == prog.percent
           ip4(r) == [from |-> "wire", ip4 |-> TRUE, ecn |-> "other", random |-> r]
           Picked == {r \in RandomValues : Marked(p, ip4(r))}
<1>0. p # NaN
  BY NaNAssumption, Halves
<1>1. MarkedValues = Cardinality(Picked)
  <2>1. \A r \in RandomValues : ip4(r) \in Packets
    BY DEF Packets, Ecn
  <2>2. ASSUME NEW r \in RandomValues
        PROVE  Times(Journey(pipes, ip4(r)), "ce_entry") = 1 <=> Marked(p, ip4(r))
    <3>1. PICK pkt \in Packets : pkt = ip4(r)
      BY <2>1
    <3>2. pkt.from = "wire" /\ pkt.ip4
      BY <3>1
    <3>3. Times(Journey(pipes, pkt), "ce_entry") = IF Marked(p, pkt) THEN 1 ELSE 0
      BY <1>0, <3>2, LiveIsPlan, PlanMarks DEF Laying
    <3> QED
      BY <3>1, <3>3
  <2> HIDE DEF ip4
  <2>3. {r \in RandomValues : Times(Journey(pipes, ip4(r)), "ce_entry") = 1} = Picked
    BY <2>2
  <2> HIDE DEF Picked
  <2> QED
    BY <2>3 DEF MarkedValues, ip4
<1>2. PICK R \in Nat \ {0} : R = 2 ^ RandomWidth /\ Whole = 2 * R /\ RandomValues = 0 .. R - 1
  BY Halves DEF RandomValues
<1>3. \A r : ip4(r).random = r
  OBVIOUS
<1>4. p \in 0 .. Whole /\ Whole >= 2
  BY <1>2
<1> HIDE DEF p, ip4
<1>5. CASE p = 0
  <2>1. Picked = {}
    BY <1>5 DEF Marked, Marking
  <2>2. MarkedValues = 0
    BY <1>1, <2>1, FS_EmptySet
  <2>3. p \notin 2 .. Whole - 1 /\ p # Whole
    BY <1>4, <1>5
  <2> QED
    BY <1>5, <2>2, <2>3 DEF ShareAsAsked, p
<1>6. CASE p = Whole
  <2>1. Picked = 0 .. R - 1
    BY <1>0, <1>2, <1>4, <1>6 DEF Marked, Marking, Picking
  <2>2. Cardinality(0 .. R - 1) = R
    BY FS_Interval
  <2>3. MarkedValues = 2 ^ RandomWidth
    BY <1>1, <1>2, <2>1, <2>2
  <2>4. p # 0 /\ p \notin 2 .. Whole - 1
    BY <1>2, <1>4, <1>6
  <2> QED
    BY <1>6, <2>3, <2>4 DEF ShareAsAsked, p
<1>7. CASE p \in 1 .. Whole - 1
  <2>1. PICK a \in Nat \ {0}, d \in Nat \ {0} :
          /\ GetRandomMask(p) + 1 = a /\ a * d = R
          /\ p = 1 => d = 1
          /\ p # 1 => 2 * d <= p /\ p < 4 * d
    BY <1>2, <1>7, MaskShare
  <2>2. \A r \in RandomValues : Marked(p, ip4(r)) <=> r % a = 0
    BY <1>0, <1>2, <1>3, <1>7, <2>1 DEF Marked, Marking, Picking, Drawn
  <2>3. Picked = {r \in 0 .. a * d - 1 : r % a = 0}
    BY <1>2, <2>1, <2>2
  <2>4. MarkedValues = d
    BY <1>1, <2>3, Multiples
  <2>5. p # 0 /\ p # Whole
    BY <1>2, <1>7
  <2> QED
    BY <1>7, <2>1, <2>4, <2>5 DEF ShareAsAsked, p
<1> QED
  BY <1>2, <1>4, <1>5, <1>6, <1>7

(* -------------------------------- theorems -------------------------------- *)

(* DependenciesHeld: no failure of bring-up, no signal and no step of the way  *)
(* down leaves something that outlives what it stands on (doca_flow_*.c,       *)
(* main()).                                                                    *)
THEOREM AlwaysDependenciesHeld == Spec => []DependenciesHeld
<1>1. Inv => DependenciesHeld
  BY DEF Inv, Standing, Reached, Built, DependenciesHeld, Needs
<1> QED
  BY Invariant, <1>1, PTL

(* TerminalRestored: the terminal's mode is put back whenever the program      *)
(* returns, exits on a failed call, or is ended by a signal that came before   *)
(* its handler; not when it dies of one no program catches, and O_NONBLOCK is  *)
(* not part of it (enable_key_toggle() and restore_key_toggle() of             *)
(* doca_flow_ecn_pcap.c).                                                      *)
THEOREM AlwaysTerminalRestored == Spec => []TerminalRestored
<1>1. Inv => TerminalRestored
  BY DEF Inv, Guarded, TerminalRestored
<1> QED
  BY Invariant, <1>1, PTL

(* TypeOK: the pipes created never outgrow the plan, and the queue, the keys   *)
(* waiting and the counters stay what they are declared to be (main() and what *)
(* it calls in doca_flow_*.c).                                                 *)
THEOREM AlwaysTypeOK == Spec => []TypeOK
<1>1. Inv /\ Laying /\ Counting => TypeOK
  BY DEF Inv, Standing, Sampled, Needs, Laying, Counting, TypeOK
<1> QED
  BY PipesInvariant, <1>1, PTL

(* ForwardsAsPromised: what becomes of a packet in the pipes build_pipeline()  *)
(* has created, in every program and for every percentage that is a number     *)
(* (whether ecn_pcap and doca-3's nop forward what is not IPv4 is left out),   *)
(* and, from the finest sample on, how many of the random values get it marked. *)
THEOREM AlwaysForwardsAsPromised == Spec => []ForwardsAsPromised
<1>1. Laying => ForwardsAsPromised
  <2>1. ASSUME Laying, RootLive, pc = "install_signal_handlers", prog.percent # NaN
        PROVE  prog.percent \in 0 .. Whole
    BY <2>1 DEF Laying, Fresh, Ended
  <2> QED
    BY <2>1, LivePromise, LiveShare DEF ForwardsAsPromised
<1> QED
  BY PipesInvariant, <1>1, PTL

(* CopiesAccountedFor: each packet a capturing pipeline counts has its copy in *)
(* the file's count, in the queue or among the overflow; and whenever the      *)
(* capture is paused and resumed, what is written is a sample_n-th of all that *)
(* were received (capture_burst()).                                            *)
THEOREM AlwaysCopiesAccountedFor == Spec => []CopiesAccountedFor
<1>1. Inv /\ Counting => CopiesAccountedFor
  BY DEF Inv, Sampled, Counting, CopiesAccountedFor
<1> QED
  BY PipesInvariant, <1>1, PTL
================================================================================
