---------------------------- MODULE MCController ----------------------------
(* Instances of GPUPoolController: small clusters, one per question.       *)
EXTENDS PoolRefinement

Anywhere == << >>
On(zone) == [zone |-> zone]

\* Two slices of two profiles fit the partitionable model; the other has none.
Card    == [product |-> "X", needles |-> {}, mem |-> 20, compute |-> "9.0", budgetMem |-> 0,
            budgetSlices |-> 2,
            profiles |-> <<[name |-> <<1, 10>>, mem |-> 10, slices |-> 1],
                           [name |-> <<2, 20>>, mem |-> 20, slices |-> 2]>>]
Plain   == [Card EXCEPT !.product = "Y", !.profiles = << >>]

Whole(selector) ==
  [model |-> "m", selector |-> selector, gpus |-> 1, mig |-> FALSE, partition |-> << >>,
   nvlink |-> 0, numa |-> FALSE, dra |-> TRUE, ext |-> TRUE,
   occupancy |-> << >>, faults |-> << >>]
Mig(selector) == [Whole(selector) EXCEPT !.mig = TRUE]
Static(selector, n) ==
  [Mig(selector) EXCEPT !.partition = <<[profile |-> <<1, 10>>, count |-> n]>>]
\* Two GPUs, one failed where zone is "x", one busy everywhere.
Busy(selector) ==
  [Whole(selector) EXCEPT !.gpus = 2, !.occupancy = <<[sel |-> Anywhere, busy |-> 1]>>,
     !.faults = <<[sel |-> On("x"), gpus |-> 2, effect |-> "", xid |-> 79]>>]
\* Declares more busy GPUs than there are.
Overfull(selector) ==
  [Whole(selector) EXCEPT !.occupancy = <<[sel |-> Anywhere, busy |-> 2]>>]
Legacy(selector) == [Busy(selector) EXCEPT !.dra = FALSE]

Simulated(zone) == [simulated |-> TRUE, labels |-> On(zone)]
Real(zone)      == [simulated |-> FALSE, labels |-> On(zone)]

MCModels == {"m"}
OneModel == [m \in {"m"} |-> Card]

-----------------------------------------------------------------------------
(* Names that collide: pool a on node b-c, pool a-b on node c.             *)

PoolA == <<"a">>
PoolB == <<"a", "b">>
NodeA == <<"b", "c">>
NodeB == <<"c">>

ClashPools  == {PoolA, PoolB}
ClashNodes  == {NodeA, NodeB}
ClashSpecs  == {Whole(On("x")), Whole(On("y"))}
ClashShapes == [n \in ClashNodes |-> {Simulated(IF n = NodeA THEN "x" ELSE "y")}]
ClashStart  == [pools  |-> [p \in ClashPools |-> Whole(On(IF p = PoolA THEN "x" ELSE "y"))],
                models |-> OneModel,
                nodes  |-> [n \in ClashNodes |-> Simulated(IF n = NodeA THEN "x" ELSE "y")]]

-----------------------------------------------------------------------------
(* One pool, a simulated node and a real one, all kinds of declaration.    *)

OnePool == {<<"p">>}
NodeN   == <<"n">>
NodeR   == <<"r">>
MixNodes  == {NodeN, NodeR}
MixShapes == [n \in MixNodes |-> IF n = NodeN THEN {Simulated("x"), Simulated("y")} ELSE {Real("x")}]
MixModels == {Card, Plain}
MixStart(spec) ==
  [pools  |-> [p \in OnePool |-> spec],
   models |-> OneModel,
   nodes  |-> [n \in MixNodes |-> IF n = NodeN THEN Simulated("x") ELSE Real("x")]]

\* The pool's declaration changes: whole GPUs, MIG on the DRA path only, and a
\* partition that does not fit.
DRAOnly   == [Mig(On("x")) EXCEPT !.ext = FALSE]
SpecSpecs == {Busy(Anywhere), DRAOnly, Static(Anywhere, 3)}
SpecStart == MixStart(DRAOnly)

\* The nodes change under three declarations, one on the legacy path only and one
\* that is invalid.
NodeSpecs == {Busy(On("x")), Legacy(Anywhere), Overfull(Anywhere)}
NodeStart == MixStart(Busy(On("x")))
-----------------------------------------------------------------------------
(* One pool, one simulated node: everything that is watched changes.       *)

OneNode       == {NodeN}
OneShapes     == [n \in OneNode |-> {Simulated("x"), Simulated("y")}]
ConvergeSpecs == {Busy(Anywhere), Static(On("x"), 2)}
ConvergeStart == [pools  |-> [p \in OnePool |-> Static(On("x"), 2)],
                  models |-> OneModel,
                  nodes  |-> [n \in OneNode |-> Simulated("x")]]
=============================================================================
