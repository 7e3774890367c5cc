------------------------------- MODULE Manifests -------------------------------
(***************************************************************************)
(* `ghostgpu up` before it contacts a cluster (internal/cli/up.go): from   *)
(* flags to the GPUModel and the GPUPool it applies.                       *)
(*                                                                         *)
(* Flags are [name, product, needles, mem, compute, gpus, nvlink, numa,    *)
(* selector, dra, ext, mode, profiles, partition, busy].  Text the code    *)
(* only accepts or refuses (names, the product as a label value, compute   *)
(* capability, a quantity, a selector) is Malformed when it is refused.    *)
(* profiles is the list of names typed, partition the list of              *)
(* [profile, count] typed, where Blank stands for an empty item and for a  *)
(* count that was left out.                                                *)
(***************************************************************************)
EXTENDS Fleet

CONSTANTS Malformed, Blank

MaxGPUsPerNode == 128

\* A bare profile name means one instance.
ParsedCount(entry) == IF entry.count = Blank THEN 1 ELSE entry.count

Parses(typed) ==
  /\ \A i \in 1..Len(typed) : /\ typed[i] # Blank
                              /\ typed[i].profile # Blank
                              /\ ParsedCount(typed[i]) # Malformed
                              /\ ParsedCount(typed[i]) >= 1
  /\ \A i, j \in 1..Len(typed) : typed[i].profile = typed[j].profile => i = j

ParsePartition(typed) ==
  [i \in 1..Len(typed) |-> [profile |-> typed[i].profile, count |-> ParsedCount(typed[i])]]

Wanted(flags) == ToSet(flags.profiles) \ {Blank}

\* Only products with a built-in table, and only profiles of that table.
Selects(flags) ==
  LET table == ProfilesFor(flags.needles)
  IN  table # NoTable /\ Wanted(flags) \subseteq ProfileNames(table)

\* In table order; no name typed leaves the whole table to the operator.
migSelection(flags) ==
  SelectSeq(ProfilesFor(flags.needles).profiles, LAMBDA p : p.name \in Wanted(flags))

\* The table a partition is validated against.
FlagTable(flags) ==
  LET table == ProfilesFor(flags.needles)
  IN  IF migSelection(flags) = << >> THEN table
      ELSE [table EXCEPT !.profiles = migSelection(flags)]

\* Faulty variant: a partition is taken as it was typed.
MIGFlagsParsed(flags) ==
  /\ Selects(flags)
  /\ Parses(flags.partition)

MIGFlagsValid(flags) ==
  /\ Selects(flags)
  /\ Parses(flags.partition)
  /\ ValidatePartition(ParsePartition(flags.partition), FlagTable(flags))

Accepts(flags) ==
  /\ flags.name # Malformed
  /\ flags.product # Malformed
  /\ flags.gpus \in 1..MaxGPUsPerNode
  /\ flags.nvlink >= 0
  /\ flags.compute # Malformed
  /\ flags.mem # Malformed /\ flags.mem > 0
  /\ flags.mode \in {"", "none", "mig"}
  /\ IF flags.mode = "mig" THEN MIGFlagsValid(flags)
     ELSE flags.profiles = << >> /\ flags.partition = << >>
  /\ flags.busy \in 0..flags.gpus
  /\ flags.selector # Malformed

ModelOf(flags) ==
  [product |-> flags.product, needles |-> flags.needles, mem |-> flags.mem,
   compute |-> flags.compute, budgetMem |-> 0, budgetSlices |-> 0,
   profiles |-> IF flags.mode = "mig" THEN migSelection(flags) ELSE << >>]

PoolOf(flags) ==
  [model |-> flags.name, selector |-> flags.selector, gpus |-> flags.gpus,
   mig |-> flags.mode = "mig",
   partition |-> IF flags.mode = "mig" THEN ParsePartition(flags.partition) ELSE << >>,
   nvlink |-> flags.nvlink, numa |-> flags.numa, dra |-> flags.dra, ext |-> flags.ext,
   occupancy |-> IF flags.busy > 0 THEN <<[sel |-> << >>, busy |-> flags.busy]>> ELSE << >>,
   faults |-> << >>]

\* The CRD schema of a GPUPool, which the API server enforces.
SchemaAccepts(spec) ==
  /\ spec.gpus \in 1..128
  /\ spec.nvlink >= 0
  /\ \A i \in 1..Len(spec.partition) : spec.partition[i].count \in 1..8
  /\ \A i, j \in 1..Len(spec.partition) :
       spec.partition[i].profile = spec.partition[j].profile => i = j
  /\ \A i \in 1..Len(spec.occupancy) : spec.occupancy[i].busy \in 0..128
  /\ \A i \in 1..Len(spec.faults) : spec.faults[i].gpus \in 0..128
=============================================================================
