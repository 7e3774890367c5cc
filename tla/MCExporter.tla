----------------------------- MODULE MCExporter -----------------------------
(* Instances of Exporter: one node with one or two cards.                  *)
EXTENDS Exporter

MCPool == <<"p">>
MCNode == <<"n">>

\* Sizes that no percentage divides evenly; the card's is no whole number of MiBs.
MCModel == [product |-> "X", needles |-> {}, mem |-> 97 * MiB + 1, compute |-> "9.0", budgetMem |-> 0,
            budgetSlices |-> 3,
            profiles |-> <<[name |-> <<1, 33>>, mem |-> 33 * MiB, slices |-> 1],
                           [name |-> <<2, 61>>, mem |-> 61 * MiB, slices |-> 2],
                           [name |-> <<3, 97>>, mem |-> 97 * MiB, slices |-> 3]>>]

Anywhere == << >>
App(a)   == [app |-> a]
MCPods   == [train |-> App("train"), serve |-> App("serve")]
MCClaims == {"c1", "c2"}

Whole == [model |-> "m", selector |-> Anywhere, gpus |-> 2, mig |-> FALSE, partition |-> << >>,
          nvlink |-> 0, numa |-> FALSE, dra |-> TRUE, ext |-> TRUE,
          occupancy |-> << >>, faults |-> << >>]
Dynamic  == [Whole EXCEPT !.mig = TRUE, !.gpus = 1]
Static   == [Dynamic EXCEPT !.partition = <<[profile |-> <<1, 33>>, count |-> 1],
                                            [profile |-> <<2, 61>>, count |-> 1]>>]
Thirds   == [Dynamic EXCEPT !.partition = <<[profile |-> <<1, 33>>, count |-> 2]>>]
Failing(spec, n) ==
  [spec EXCEPT !.faults = <<[sel |-> Anywhere, gpus |-> n, effect |-> "Unschedulable", xid |-> 79]>>]

NoUtil  == [allocated |-> << >>, idle |-> << >>, workloads |-> << >>]
Profile1 == [allocated |-> [util |-> 90, fb |-> 47, power |-> 300],
             idle      |-> [fb |-> 3],
             workloads |-> <<[sel |-> App("train"), sample |-> [util |-> 30, fb |-> 81]]>>]

Decl(spec, util) == [spec |-> spec, util |-> util]

\* Three whole cards, one failed, one busy and one free; two partitioned cards, one
\* failed.
Mixed == [Failing(Whole, 1) EXCEPT !.gpus = 3, !.occupancy = <<[sel |-> Anywhere, busy |-> 2]>>]
Pair  == Failing([Static EXCEPT !.gpus = 2], 1)

MCDeclarations == {Decl(Mixed, Profile1), Decl(Pair, Profile1)}
MCStart        == Decl(Thirds, Profile1)

FaultDeclarations == {Decl(Failing(Static, 1), NoUtil)}
=============================================================================
