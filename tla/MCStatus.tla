------------------------------- MODULE MCStatus -------------------------------
(* Instances of StatusReport: two pools, each with a node of its own.      *)
EXTENDS StatusReport, TLC

PoolP == <<"p">>
PoolQ == <<"q">>
MCHome == [p \in {PoolP, PoolQ} |-> IF p = PoolP THEN <<"n">> ELSE <<"o">>]

MCModel == [product |-> "X", needles |-> {}, mem |-> 40, compute |-> "9.0", budgetMem |-> 0,
            budgetSlices |-> 4,
            profiles |-> <<[name |-> <<1, 10>>, mem |-> 10, slices |-> 1],
                           [name |-> <<2, 20>>, mem |-> 20, slices |-> 2]>>]

Anywhere == << >>
Whole    == [model |-> "m", selector |-> Anywhere, gpus |-> 2, mig |-> FALSE, partition |-> << >>,
          nvlink |-> 0, numa |-> FALSE, dra |-> TRUE, ext |-> TRUE,
          occupancy |-> << >>, faults |-> << >>]
Dynamic  == [Whole EXCEPT !.mig = TRUE, !.gpus = 1]
Static(n) == [Dynamic EXCEPT !.partition = <<[profile |-> <<1, 10>>, count |-> n],
                                             [profile |-> <<2, 20>>, count |-> 1]>>]
Failing  == [Whole EXCEPT !.occupancy = <<[sel |-> Anywhere, busy |-> 2]>>,
               !.faults = <<[sel |-> Anywhere, gpus |-> 1, effect |-> "Unschedulable", xid |-> 79]>>]

ClaimSymmetry == Permutations(Claims)

\* One pool goes through every kind of declaration.  It starts with a layout that
\* takes two device slices of two; the next one has all its devices in the first,
\* where the 2g instance is while the old second slice still has it.  The other pool
\* has devices of the same names on its node, and may be deleted.
MCSpecs == [p \in {PoolP, PoolQ} |-> IF p = PoolP THEN {Failing, Dynamic, Static(1)} ELSE {}]
MCStart == [p \in {PoolP, PoolQ} |-> IF p = PoolP THEN Static(2) ELSE Whole]
=============================================================================
