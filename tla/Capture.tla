-------------------------------- MODULE Capture --------------------------------
(***************************************************************************)
(* `ghostgpu capture` (internal/cli/capture.go): from the nodes and the    *)
(* ResourceSlices of a cluster to the GPUModels, GPUPools and kwok nodes   *)
(* that reproduce it, with warnings about what they do not reproduce.      *)
(*                                                                         *)
(* A node is [name, labels, capacity, slices]: GFD labels as NodeLabels    *)
(* writes them (a label that is missing, or that does not parse, is not in *)
(* the domain), extended resources, and the slices that name the node.     *)
(* Names are sequences of dash-separated words, as in Fleet.               *)
(***************************************************************************)
EXTENDS Fleet, FiniteSetsExt

CONSTANTS
  Words,      \* [products -> words of the lower-cased product name]
  TextRank    \* [products and compute capabilities -> place among these texts in
              \* byte order, each with the bar that follows it in a key]

Needles(product) == ToSet(Words[product])

maxInstancesPerGPU == 8

-----------------------------------------------------------------------------
(* Reading one node.                                                       *)

countCounterSets(slices) == Cardinality({c.gpu : c \in UNION {s.counters : s \in slices}})

countDevices(slices) == MapThenSumSet(LAMBDA s : Len(s.devices), slices)

\* Faulty variant: devices are counted, not cards.
topologyByDevice(slices) ==
  LET devices == UNION {ToSet(s.devices) : s \in slices}
      members(domain) == Cardinality({d \in devices : d.domain = domain})
  IN  [nvlink |-> Max({0} \cup {members(d.domain) : d \in {e \in devices : e.domain # Absent}}),
       numa   |-> \E d \in devices : d.numa # Absent]

\* The size of the largest domain.  Instances carry their card's uuid, so a card
\* counts once.
topologyOf(slices) ==
  LET devices == UNION {ToSet(s.devices) : s \in slices}
      members(domain) == Cardinality({d.gpu : d \in {e \in devices : e.domain = domain}})
  IN  [nvlink |-> Max({0} \cup {members(d.domain) : d \in {e \in devices : e.domain # Absent}}),
       numa   |-> \E d \in devices : d.numa # Absent]

\* MIG instances advertised, by profile; an unreadable profile name is a tuple
\* of another length.
migCapacity(node) ==
  LET offered == {r \in DOMAIN node.capacity : r[1] = "mig" /\ node.capacity[r] > 0}
  IN  [profile \in {Tail(r) : r \in offered} |-> node.capacity[<<"mig">> \o profile]]

ParseProfileName(name) == Len(name) = 2 /\ name[1] >= 1 /\ name[2] >= 1

Strategy(node) == Lookup(node.labels, "migStrategy")

\* mig.capable alone does not mean MIG is on.
Partitioned(node) == Strategy(node) = "mixed" \/ DOMAIN migCapacity(node) # {}

CountLabel(node) == IF "count" \in DOMAIN node.labels THEN node.labels["count"] ELSE 0

\* Faulty variant: the flag decides whenever it is given.
physicalGPUsByFlag(node, gpusPerNode) ==
  IF gpusPerNode > 0 THEN gpusPerNode
  ELSE IF countCounterSets(node.slices) > 0 THEN countCounterSets(node.slices)
  ELSE IF Partitioned(node) THEN 0
  ELSE IF CountLabel(node) > 0 THEN CountLabel(node)
  ELSE countDevices(node.slices)

\* 0 when nothing tells, which is an error.  The flag only fills gaps.
physicalGPUs(node, gpusPerNode) ==
  LET sets    == countCounterSets(node.slices)
      derived == IF Partitioned(node) THEN 0
                 ELSE IF CountLabel(node) > 0 THEN CountLabel(node)
                 ELSE countDevices(node.slices)
  IN  CASE sets > 0        -> sets
        [] derived > 0     -> derived
        [] gpusPerNode > 0 -> gpusPerNode
        [] OTHER           -> 0

\* The order slices.Sort puts texts in: by the first byte that differs, a prefix first.
TextBefore(a, b) ==
  LET differ == {i \in 1..Min({Len(a), Len(b)}) : a[i] # b[i]}
  IN  IF differ = {} THEN Len(a) < Len(b) ELSE a[Min(differ)] < b[Min(differ)]

\* Profile names are sorted as text: 1g.12gb comes before 1g.6gb.
NameBefore(p, q) == TextBefore(Runes(p), Runes(q))

\* The label is a count of whole MiBs.
gpuMemory(node) == node.labels["memory"] * MiB

\* The profiles a layout keeps, given what the node advertises in total.
keptProfiles(total, gpus) ==
  SetToSortSeq({p \in DOMAIN total : ParseProfileName(p) /\ total[p] \div gpus >= 1}, NameBefore)

\* A partition of the kept profiles, and their shapes when the product has no
\* built-in table.
layoutOf(node, gpus, total, kept) ==
  LET builtIn   == ProfilesFor(Needles(node.labels["product"]))
      known     == builtIn # NoTable
      perGPU(p) == total[p] \div gpus
      partition == [i \in 1..Len(kept) |->
                      [profile |-> kept[i], count |-> Min({perGPU(kept[i]), maxInstancesPerGPU})]]
      profiles  == [i \in 1..Len(kept) |-> Profile(kept[i][1], kept[i][2])]
      table     == IF known THEN builtIn
                   ELSE [profiles |-> profiles, mem |-> gpuMemory(node), slices |-> defaultSlices]
  IN  [partition |-> partition,
       profiles  |-> IF known THEN << >> ELSE profiles,
       warned    |-> \/ DOMAIN total = {} /\ ~known
                     \/ \E p \in DOMAIN total : \/ p \notin ToSet(kept)
                                                \/ total[p] % gpus # 0
                                                \/ perGPU(p) > maxInstancesPerGPU
                     \/ ~ValidatePartition(partition, table)]

migLayout(node, gpus) ==
  layoutOf(node, gpus, migCapacity(node), keptProfiles(migCapacity(node), gpus))

IsGPUNode(node) == Lookup(node.labels, "present") = "true"

\* The labels a manifest cannot do without.
Readable(node) ==
  {"product", "memory", "compute"} \subseteq DOMAIN node.labels /\ gpuMemory(node) > 0

WholeGPUs == [partition |-> << >>, profiles |-> << >>, warned |-> FALSE]

\* A readable node whose cards, layout and interconnect are known.
shapeWith(node, gpus, layout, topology) ==
  LET mig == Partitioned(node)
  IN  [failed |-> FALSE,
       warned |-> \/ Strategy(node) = "single"
                  \/ mig /\ CountLabel(node) > 0
                  \/ layout.warned,
       shape  |-> [product |-> node.labels["product"], mem |-> gpuMemory(node),
                   compute |-> node.labels["compute"], gpus |-> gpus, mig |-> mig,
                   partition |-> layout.partition, profiles |-> layout.profiles,
                   nvlink |-> topology.nvlink, numa |-> topology.numa]]

\* [shape, warned, failed]; the shape is None when the node is not reproduced.
shapeOf(node, gpusPerNode) ==
  LET none == [shape |-> None, warned |-> FALSE, failed |-> FALSE]
      gpus == physicalGPUs(node, gpusPerNode)
  IN  IF ~IsGPUNode(node) THEN none
      ELSE IF ~Readable(node) THEN [none EXCEPT !.warned = TRUE]
      ELSE IF gpus = 0 THEN [none EXCEPT !.failed = TRUE]
      ELSE shapeWith(node, gpus, IF Partitioned(node) THEN migLayout(node, gpus) ELSE WholeGPUs,
                     topologyOf(node.slices))

-----------------------------------------------------------------------------
(* Naming and assembling.  Product names are taken to stay within the      *)
(* fifty characters that are not cut off.                                  *)

baseName(product) ==
  LET words == Words[product]
      name  == IF Len(words) > 1 /\ words[1] = "nvidia" THEN Tail(words) ELSE words
  IN  IF name = << >> THEN <<"gpu">> ELSE name

\* Faulty variant: a name is used again.
pickBase(taken, base) == base

pick(taken, base) ==
  LET numbered(i) == base \o <<ShardWord(i)>>
  IN  IF base \notin taken THEN base
      ELSE numbered(CHOOSE i \in 2..(Cardinality(taken) + 2) :
                      /\ numbered(i) \notin taken
                      /\ \A j \in 2..(i - 1) : numbered(j) \in taken)

modelKey(shape) ==
  [product |-> shape.product, mem |-> shape.mem, compute |-> shape.compute,
   profiles |-> shape.profiles]

buildModel(shape) ==
  [product |-> shape.product, needles |-> Needles(shape.product), mem |-> shape.mem,
   compute |-> shape.compute, profiles |-> shape.profiles, budgetMem |-> 0, budgetSlices |-> 0]

\* advertise is left out, so both paths default on.
buildPool(name, modelRef, shape) ==
  [model |-> modelRef, selector |-> [shape |-> name], gpus |-> shape.gpus, mig |-> shape.mig,
   partition |-> shape.partition, nvlink |-> shape.nvlink, numa |-> shape.numa,
   dra |-> TRUE, ext |-> TRUE, occupancy |-> << >>, faults |-> << >>]

GPUWord(n) == <<"1gpu", "2gpu", "3gpu", "4gpu", "5gpu", "6gpu", "7gpu", "8gpu",
                "9gpu", "10gpu", "11gpu", "12gpu">>[n]

PoolBase(modelName, shape, shared) ==
  IF ~shared THEN modelName \o <<"pool">>
  ELSE modelName \o <<GPUWord(shape.gpus)>> \o (IF shape.mig THEN <<"mig">> ELSE << >>)

\* TrimSuffix "-pool", and the position among the nodes of the pool.
NodeName(poolName, i) ==
  LET n == Len(poolName)
      prefix == IF n > 1 /\ poolName[n] = "pool" THEN SubSeq(poolName, 1, n - 1) ELSE poolName
  IN  prefix \o <<ShardWord(i - 1)>>

\* kwok nodes the pool selects.
buildNodes(poolName, n) ==
  [i \in 1..n |-> [name |-> NodeName(poolName, i), labels |-> [shape |-> poolName]]]

-----------------------------------------------------------------------------
(* Grouping.  A key is a text, the sequence of its bytes; a word that is   *)
(* only ever compared with its alternatives is one number, ordered as the  *)
(* alternatives are: the product, the compute capability, mig before none, *)
(* false before true, part before prof.                                    *)

Bar == 124

\* Quantity.String, for whole MiBs below a TiB: the largest unit that divides.
QuantityText(mem) ==
  IF mem % GiB(1) = 0 THEN Digits(mem \div GiB(1)) \o <<71, 105>>
  ELSE Digits(mem \div MiB) \o <<77, 105>>

Rank(condition) == IF condition THEN 1 ELSE 0

PartText(e) == <<Bar, 0>> \o Runes(e.profile) \o <<61>> \o Digits(e.count)

ProfText(p) ==
  <<Bar, 1>> \o Runes(p.name) \o <<61>> \o QuantityText(p.mem) \o <<47>> \o Digits(p.slices)

\* Faulty variant: the key does not tell whether devices carry a NUMA node.
keyWithoutNUMA(shape) ==
  <<TextRank[shape.product]>> \o QuantityText(shape.mem) \o <<Bar, TextRank[shape.compute]>>
    \o Digits(shape.gpus) \o <<Bar, Rank(~shape.mig)>> \o Digits(shape.nvlink) \o <<Bar>>
    \o FlattenSeq([i \in DOMAIN shape.partition |-> PartText(shape.partition[i])])
    \o FlattenSeq([i \in DOMAIN shape.profiles |-> ProfText(shape.profiles[i])])

\* What two nodes of one group have in common.
key(shape) ==
  <<TextRank[shape.product]>> \o QuantityText(shape.mem) \o <<Bar, TextRank[shape.compute]>>
    \o Digits(shape.gpus) \o <<Bar, Rank(~shape.mig)>> \o Digits(shape.nvlink)
    \o <<Bar, Rank(shape.numa)>>
    \o FlattenSeq([i \in DOMAIN shape.partition |-> PartText(shape.partition[i])])
    \o FlattenSeq([i \in DOMAIN shape.profiles |-> ProfText(shape.profiles[i])])

\* Faulty variant: keys stay in the order in which the nodes were listed.
ListedKeys(seen) == seen

SortedKeys(seen) == SortSeq(seen, TextBefore)

\* Models by key, pools and nodes by name, for groups taken in the given order.
\* groups[k] is the shape of a group, count[k] how many nodes to emit for it.
assemble(groups, order, count) ==
  LET shared(k) == \E other \in ToSet(order) \ {k} : modelKey(groups[other]) = modelKey(groups[k])
      add(out, k) ==
        LET shape     == groups[k]
            known     == {m \in out.models : m.key = modelKey(shape)}
            modelName == IF known # {} THEN (CHOOSE m \in known : TRUE).name
                         ELSE pick({m.name : m \in out.models}, baseName(shape.product))
            poolName  == pick({p.name : p \in out.pools}, PoolBase(modelName, shape, shared(k)))
        IN  [models |-> out.models \cup
                          (IF known # {} THEN {}
                           ELSE {[key |-> modelKey(shape), name |-> modelName,
                                  model |-> buildModel(shape)]}),
             pools  |-> out.pools \cup {[name |-> poolName, key |-> k, of |-> shape,
                                         spec |-> buildPool(poolName, modelName, shape)]},
             nodes  |-> out.nodes \o buildNodes(poolName, count[k])]
  IN  FoldLeft(add, [models |-> {}, pools |-> {}, nodes |-> << >>], order)

\* Groups of nodes that were read and have these keys.  A group has the shape of the
\* first of its nodes.
render(read, keys, emitNodes) ==
  LET seen   == FoldLeft(LAMBDA out, k : IF k \in {None} \cup ToSet(out) THEN out ELSE Append(out, k),
                         << >>, keys)
      groups == [k \in ToSet(seen) |-> read[SelectInSeq(keys, LAMBDA other : other = k)].shape]
      count  == [k \in ToSet(seen) |->
                   IF emitNodes THEN Cardinality({i \in DOMAIN keys : keys[i] = k}) ELSE 0]
  IN  IF seen = << >> \/ \E i \in DOMAIN read : read[i].failed THEN None
      ELSE [objects |-> assemble(groups, SortedKeys(seen), count), keys |-> keys,
            warned  |-> {i \in DOMAIN read : read[i].warned}]

readKeys(read) ==
  [i \in DOMAIN read |-> IF read[i].shape = None THEN None ELSE key(read[i].shape)]

CaptureRead(read, emitNodes) == render(read, readKeys(read), emitNodes)

\* Capture: None when it fails, otherwise the objects, the key each node was
\* grouped by and the nodes warned about.  With emitNodes off no node is emitted, a
\* warning of its own.
Capture(cluster, gpusPerNode, emitNodes) ==
  CaptureRead([i \in 1..Len(cluster) |-> shapeOf(cluster[i], gpusPerNode)], emitNodes)
=============================================================================
