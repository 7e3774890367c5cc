------------------------------- MODULE MCFleet -------------------------------
(* Declarations for FleetBuilder: pool sizes around the shard boundaries,  *)
(* built-in and custom tables, occupancy and faults that overlap.  Flags   *)
(* and clusters for RoundTrip.                                             *)
EXTENDS RoundTrip

MCPool == <<"p">>
MCNode == <<"n">>

NoEntries == << >>
Anywhere  == << >>
RackA     == [rack |-> "a"]

Model(product, needles, mem) ==
  [product |-> product, needles |-> needles, mem |-> mem, compute |-> "9.0",
   profiles |-> << >>, budgetMem |-> 0, budgetSlices |-> 0]

H100   == Model("H100-80GB", {"h100", "80gb"}, GiB(80))
NVL    == Model("H100-NVL", {"h100"}, GiB(94))
A100   == Model("A100-40GB", {"a100", "40gb"}, GiB(40))
Small  == Model("H100-40GB", {"h100", "40gb"}, GiB(40))
L4     == Model("L4", {}, GiB(24))
Custom == [L4 EXCEPT !.profiles = <<Profile(1, 6), Profile(2, 12), Profile(4, 24)>>,
                     !.budgetSlices = 4]
\* Not a whole number of MiBs, and less than one.
Odd    == [L4 EXCEPT !.mem = GiB(24) + 1]
Tiny   == [L4 EXCEPT !.mem = 1]

Occupancies == {NoEntries,
                <<[sel |-> RackA, busy |-> 2], [sel |-> Anywhere, busy |-> 1]>>,
                <<[sel |-> Anywhere, busy |-> 9]>>}
Faults      == {NoEntries,
                <<[sel |-> RackA, gpus |-> 1, effect |-> "", xid |-> 79]>>,
                <<[sel |-> Anywhere, gpus |-> 3, effect |-> "Unschedulable", xid |-> 0]>>}
Labels      == {<< >>, RackA}

Entry(g, gb, n) == [profile |-> <<g, gb>>, count |-> n]
Partitions  == {NoEntries,
                <<Entry(3, 40, 1), Entry(1, 10, 4)>>,
                <<Entry(1, 10, 3), Entry(2, 20, 1), Entry(1, 10, 2)>>,
                <<Entry(1, 10, 7)>>,
                <<Entry(1, 20, 5)>>,
                <<Entry(7, 80, 1), Entry(1, 10, 1)>>}

PoolSpec(gpus, mig, partition, occupancy, faults) ==
  [model |-> "m", selector |-> Anywhere, gpus |-> gpus, mig |-> mig,
   partition |-> partition, nvlink |-> 0, numa |-> FALSE, dra |-> TRUE, ext |-> TRUE,
   occupancy |-> occupancy, faults |-> faults]

WholeDeclarations ==
  {[spec |-> PoolSpec(g, FALSE, NoEntries, o, f), model |-> m, labels |-> l] :
     g \in {1, 2, 4, 64}, o \in Occupancies, f \in Faults, m \in {H100, L4}, l \in Labels}

MIGDeclarations ==
  {[spec |-> PoolSpec(g, TRUE, p, o, f), model |-> m, labels |-> l] :
     g \in {1, 3, 8, 9, 11, 17}, p \in Partitions, o \in Occupancies, f \in Faults,
     m \in {H100, NVL, A100, Small, L4, Custom}, l \in Labels}

MCDeclarations == WholeDeclarations \cup MIGDeclarations

\* gpusPerNode may go to 128, and devices carry taints under occupancy.
LargeTaintedDeclarations ==
  {[spec |-> PoolSpec(g, FALSE, NoEntries, o, NoEntries), model |-> H100, labels |-> << >>] :
     g \in {64, 65, 128}, o \in Occupancies}

-----------------------------------------------------------------------------
(* Flags of `up`: each field wrong in turn, and MIG flags that select,     *)
(* repeat, exceed and contradict.                                          *)

MCWords == [p \in {"H100-80GB", "H100-NVL", "L4", "NVIDIA-L4", "A100"} |->
              CASE p = "H100-80GB" -> <<"h100", "80gb">>
                [] p = "H100-NVL"  -> <<"h100", "nvl">>
                [] p = "L4"        -> <<"l4">>
                [] p = "NVIDIA-L4" -> <<"nvidia", "l4">>
                [] p = "A100"      -> <<"a100">>]

\* "A100|" < "H100-80GB|" < "H100-NVL|" < "L4|" < "NVIDIA-L4|"; "8.0|" < "9.0|".
MCTextRank == [t \in DOMAIN MCWords \cup {"8.0", "9.0"} |->
                 CASE t = "A100"      -> 1
                   [] t = "H100-80GB" -> 2
                   [] t = "H100-NVL"  -> 3
                   [] t = "L4"        -> 4
                   [] t = "NVIDIA-L4" -> 5
                   [] t = "8.0"       -> 1
                   [] t = "9.0"       -> 2]

Typed == [name |-> "m", product |-> "H100-80GB", needles |-> {"h100", "80gb"}, mem |-> GiB(80),
          compute |-> "9.0", gpus |-> 2, nvlink |-> 0, numa |-> FALSE, selector |-> Anywhere,
          dra |-> TRUE, ext |-> TRUE, mode |-> "none", profiles |-> << >>,
          partition |-> << >>, busy |-> 0]

WrongFlags ==
  {[Typed EXCEPT !.name = Malformed], [Typed EXCEPT !.product = Malformed],
   [Typed EXCEPT !.compute = Malformed], [Typed EXCEPT !.selector = Malformed],
   [Typed EXCEPT !.mem = Malformed], [Typed EXCEPT !.mem = 0], [Typed EXCEPT !.nvlink = 0 - 1],
   [Typed EXCEPT !.mode = "shared"], [Typed EXCEPT !.profiles = <<Blank>>],
   [Typed EXCEPT !.partition = <<Entry(1, 10, 1)>>]}

WholeFlags ==
  {[Typed EXCEPT !.gpus = g, !.busy = b, !.mode = m, !.nvlink = n] :
     g \in {0, 1, 8, 128, 129}, b \in {0 - 1, 0, 1, 8, 9}, m \in {"", "none"}, n \in {0, 4}}

MIGFlags ==
  {[Typed EXCEPT !.mode = "mig", !.product = p, !.needles = ToSet(MCWords[p]), !.mem = GiB(g),
                 !.profiles = names, !.partition = part] :
     p \in DOMAIN MCWords, g \in {40, 80, 94},
     names \in {<< >>, <<Blank>>, <<<<1, 10>>>>, <<<<3, 40>>, Blank, <<1, 10>>>>, <<<<9, 9>>>>},
     part \in {<< >>, <<Blank>>, <<Entry(1, 10, Blank)>>, <<Entry(1, 10, 7)>>,
               <<Entry(1, 10, 8)>>, <<Entry(1, 10, 0)>>, <<Entry(1, 10, Malformed)>>,
               <<Entry(1, 10, 1), Entry(1, 10, 1)>>, <<Entry(3, 40, 1), Entry(1, 10, 4)>>,
               <<Entry(3, 40, 2), Entry(1, 10, 1)>>, <<Entry(7, 80, 1)>>}}

MCFlags == WrongFlags \cup WholeFlags \cup MIGFlags

-----------------------------------------------------------------------------
(* Clusters for capture.                                                   *)

L4N      == Model("NVIDIA-L4", {"l4"}, GiB(24))
OneProf  == [H100 EXCEPT !.profiles = <<Profile(1, 10)>>]
Linked(gpus, size, numa) == [PoolSpec(gpus, FALSE, NoEntries, NoEntries, NoEntries) EXCEPT
                               !.nvlink = size, !.numa = numa]
Carved(gpus, part)       == PoolSpec(gpus, TRUE, part, NoEntries, NoEntries)
Mixed == <<Entry(3, 40, 1), Entry(1, 10, 4)>>

\* Two profiles of a product without a built-in table, listed by size and by name.
BySize == [L4 EXCEPT !.profiles = <<Profile(1, 6), Profile(1, 12)>>]
ByName == [Odd EXCEPT !.profiles = <<Profile(1, 12), Profile(1, 6)>>]
TwoOfThem == <<Entry(1, 6, 2), Entry(1, 12, 1)>>

Of(spec, model) == [spec |-> spec, model |-> model, labels |-> << >>]

Invertible ==
  {Of(Linked(2, 0, TRUE), H100), Of(Linked(3, 2, TRUE), H100), Of(Linked(3, 2, FALSE), H100),
   Of([Linked(3, 4, FALSE) EXCEPT !.ext = FALSE], H100),
   Of([Linked(2, 2, FALSE) EXCEPT !.dra = FALSE], L4), Of(Linked(2, 2, TRUE), L4N),
   Of([Carved(2, Mixed) EXCEPT !.occupancy = <<[sel |-> Anywhere, busy |-> 1]>>, !.nvlink = 1], H100),
   Of([Carved(9, Mixed) EXCEPT !.nvlink = 4, !.numa = TRUE], H100),
   Of([Carved(2, <<Entry(1, 10, 7)>>) EXCEPT !.dra = FALSE], OneProf),
   Of(Carved(2, <<Entry(1, 6, 3)>>), [Custom EXCEPT !.budgetSlices = 0]),
   Of(Carved(2, TwoOfThem), [ByName EXCEPT !.mem = GiB(24)])}

\* Dynamic MIG, static MIG on the DRA path only, a budget of the model's own, and
\* what is lost without a word: the order of profiles and fractions of a MiB.
Lossy ==
  {Of(Carved(2, NoEntries), H100), Of(Carved(2, NoEntries), OneProf),
   Of([Carved(2, Mixed) EXCEPT !.ext = FALSE], H100),
   Of(Carved(2, <<Entry(1, 6, 3)>>), Custom),
   Of(Carved(2, TwoOfThem), BySize), Of(Carved(2, TwoOfThem), ByName),
   Of(Linked(2, 2, FALSE), Odd), Of(Linked(1, 0, FALSE), Tiny)}

MCPublications == Invertible \cup Lossy

\* Nodes of a real cluster: no GPU, a label missing, the single strategy, MIG
\* resources that are uneven, too many, or of an unreadable name.
GFD == [present |-> "true", product |-> "A100", memory |-> GiB(80) \div MiB, compute |-> "8.0", count |-> 0]
Offers(name, n) == [r \in {<<"mig">> \o name} |-> n]
ForeignNode(labels, capacity) == [labels |-> labels, capacity |-> capacity, slices |-> {}]
MCForeignNodes ==
  {ForeignNode([zone |-> "x"], << >>),
   ForeignNode([present |-> "true", product |-> "A100", memory |-> GiB(80) \div MiB], << >>),
   ForeignNode([GFD EXCEPT !.count = 2] @@ [migStrategy |-> "single"], << >>),
   ForeignNode([GFD EXCEPT !.count = 1], Offers(<<1, 10>>, 9)),
   ForeignNode(GFD, Offers(<<1, 10>>, 1)), ForeignNode(GFD, Offers(<<1, 10>>, 60)),
   ForeignNode(GFD, Offers(<<"1c">>, 2)),
   ForeignNode([GFD EXCEPT !.product = "L4"] @@ [migStrategy |-> "mixed"], << >>)}
=============================================================================
