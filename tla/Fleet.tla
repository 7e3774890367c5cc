-------------------------------- MODULE Fleet --------------------------------
(***************************************************************************)
(* What ghostgpu publishes for one node: ResourceSlices, the node's        *)
(* extended resources and its GFD labels.  These are the pure builders of  *)
(* internal/gpu, functions of a pool's spec, its model and the node.       *)
(*                                                                         *)
(* A pool spec is [model, selector, gpus, mig, partition, nvlink, numa,    *)
(* dra, ext, occupancy, faults], nvlink and numa being its topology.       *)
(* Object names are sequences of the dash-separated words of the real      *)
(* name, so that joining two names forgets where one ends.  A device is    *)
(* [gpu, profile, ordinal, id, product, mem, domain, numa, taint]; gpu,    *)
(* profile and ordinal are its name, with the profile <<0, 0>> for a whole *)
(* GPU; a topology attribute it does not carry is Absent.                  *)
(***************************************************************************)
EXTENDS NodeState, MIG

MaxDevicesPerSlice     == 128
MaxCounterSetsPerSlice == 8

CONSTANT MaxMIGDevicesPerSlice   \* 64 in the program

ASSUME DeviceLimitAssumption == MaxMIGDevicesPerSlice \in Nat \ {0}

-----------------------------------------------------------------------------
(* ResourceSlices.  count is the ResourceSliceCount every slice of a DRA   *)
(* pool repeats.                                                           *)

SliceName(pool, node) == pool \o node

ShardWord(shard) == <<"0", "1", "2", "3", "4", "5", "6", "7", "8", "9",
                      "10", "11", "12", "13", "14", "15">>[shard + 1]

MIGCounterSliceName(pool, node, shard) ==
  SliceName(pool, node) \o <<"counters", ShardWord(shard)>>

MIGDeviceSliceName(pool, node, shard) ==
  SliceName(pool, node) \o <<"devices", ShardWord(shard)>>

WholeGPU == <<0, 0>>

\* Topology attributes.  One the pool does not ask for is left out, not zero.
Absent == 0 - 1

NVLinkDomain(index, size) == IF size <= 0 THEN Absent ELSE index \div size

NUMANode(index, size) == IF size <= 0 THEN 0 ELSE index \div size

NUMAOf(spec, index) == IF spec.numa THEN NUMANode(index, spec.nvlink) ELSE Absent

BuildResourceSlice(pool, spec, model, node, state) ==
  [name |-> SliceName(pool, node), node |-> node, count |-> 1, counters |-> {},
   devices |-> [k \in 1..spec.gpus |->
                  [gpu |-> k - 1, profile |-> WholeGPU, ordinal |-> 0 - 1, id |-> 0,
                   product |-> model.product, mem |-> model.mem,
                   domain |-> NVLinkDomain(k - 1, spec.nvlink), numa |-> NUMAOf(spec, k - 1),
                   taint |-> Taint(state, k - 1)]]]

\* Faulty variant: a last, incomplete shard is dropped.
floorDiv(a, b) == IF a <= 0 THEN 0 ELSE IF a < b THEN 1 ELSE a \div b

ceilDiv(a, b) == IF a <= 0 THEN 0 ELSE (a + b - 1) \div b

\* Faulty variant: the bound of a shard is taken to be inclusive.
ShardInclusive(n, size, shard) ==
  (shard * size) .. (IF (shard + 1) * size < n THEN (shard + 1) * size ELSE n - 1)

\* The elements of 0..(n - 1) that fall into a shard of the given size.
Shard(n, size, shard) ==
  (shard * size) .. ((IF (shard + 1) * size < n THEN (shard + 1) * size ELSE n) - 1)

\* A declared partition means static MIG, its absence dynamic MIG.
Instances(spec, table) ==
  IF spec.partition = << >> THEN Expand(spec.gpus, table)
  ELSE ExpandPartitioned(spec.gpus, table, spec.partition)

\* Faulty variant: taints are given out by instance, not by card.
migDeviceByID(spec, model, instance, state) ==
  [gpu |-> instance.gpu, profile |-> instance.profile.name,
   ordinal |-> instance.ordinal, id |-> instance.id,
   product |-> model.product, mem |-> instance.profile.mem,
   domain |-> NVLinkDomain(instance.gpu, spec.nvlink), numa |-> NUMAOf(spec, instance.gpu),
   taint |-> Taint(state, instance.id)]

\* Topology and taint are those of the card the instance is carved from.
migDevice(spec, model, instance, state) ==
  [gpu |-> instance.gpu, profile |-> instance.profile.name,
   ordinal |-> instance.ordinal, id |-> instance.id,
   product |-> model.product, mem |-> instance.profile.mem,
   domain |-> NVLinkDomain(instance.gpu, spec.nvlink), numa |-> NUMAOf(spec, instance.gpu),
   taint |-> Taint(state, instance.gpu)]

CounterShards(spec) == ceilDiv(spec.gpus, MaxCounterSetsPerSlice)

DeviceShards(spec, model) ==
  ceilDiv(Len(Instances(spec, baseTable(model))), MaxMIGDevicesPerSlice)

newMIGSlice(name, node, total) ==
  [name |-> name, node |-> node, devices |-> << >>, counters |-> {}, count |-> total]

counterSlice(pool, spec, model, node, shard) ==
  LET table == baseTable(model)
      total == CounterShards(spec) + DeviceShards(spec, model)
  IN  [newMIGSlice(MIGCounterSliceName(pool, node, shard), node, total) EXCEPT !.counters =
         {[gpu |-> g, mem |-> table.mem, slices |-> table.slices] :
            g \in Shard(spec.gpus, MaxCounterSetsPerSlice, shard)}]

deviceSlice(pool, spec, model, node, state, shard) ==
  LET instances == Instances(spec, baseTable(model))
      first     == shard * MaxMIGDevicesPerSlice
      total     == CounterShards(spec) + DeviceShards(spec, model)
  IN  [newMIGSlice(MIGDeviceSliceName(pool, node, shard), node, total) EXCEPT !.devices =
         [k \in 1..Cardinality(Shard(Len(instances), MaxMIGDevicesPerSlice, shard)) |->
            migDevice(spec, model, instances[first + k], state)]]

\* Counter slices first, then device slices, all in the node's one DRA pool.
BuildMIGSlices(pool, spec, model, node, state) ==
  [s \in 1..CounterShards(spec) |-> counterSlice(pool, spec, model, node, s - 1)]
    \o [s \in 1..DeviceShards(spec, model) |->
          deviceSlice(pool, spec, model, node, state, s - 1)]

\* What reconcileSlices applies for one node, in order.
DesiredSlices(pool, spec, model, node, state) ==
  IF ~spec.dra THEN << >>
  ELSE IF spec.mig THEN BuildMIGSlices(pool, spec, model, node, state)
  ELSE <<BuildResourceSlice(pool, spec, model, node, state)>>

\* The devices one node of a pool carries.
DevicesPerNode(spec, model) ==
  IF ~spec.dra THEN 0
  ELSE IF spec.mig THEN Len(Instances(spec, baseTable(model)))
  ELSE spec.gpus

\* The states one step of a reconcile may take a pool's slices to, for modules
\* that need no more of the controller: the first slice that is not as wanted is
\* written; once all are, stale ones are deleted in any order.
ReconcileSteps(want, have) ==
  LET i == SelectInSeq(want, LAMBDA s : s \notin have)
  IN  IF i # 0 THEN {{s \in have : s.name # want[i].name} \cup {want[i]}}
      ELSE {have \ {s} : s \in have \ ToSet(want)}

-----------------------------------------------------------------------------
(* Extended resources.  A resource name is a tuple headed by its family;   *)
(* ghostgpu manages "gpu" and every "mig" resource.                        *)

GPUResource == <<"gpu">>

MIGResource(profileName) == <<"mig", profileName[1], profileName[2]>>

nodeResourcesFor(spec, table, gpus) ==
  LET perCard(p) == IF spec.partition = << >> THEN MaxInstances(p, table)
                    ELSE CountOf(spec.partition, p.name)
      offered == {i \in 1..Len(table.profiles) : perCard(table.profiles[i]) > 0}
      mig == {MIGResource(table.profiles[i].name) : i \in offered}
  IN  IF ~spec.mig THEN [r \in {GPUResource} |-> gpus]
      ELSE [r \in {GPUResource} \cup mig |->
              IF r = GPUResource THEN 0
              ELSE perCard(ProfileNamed(table, <<r[2], r[3]>>)) * gpus]

NodeResources(spec, table) == nodeResourcesFor(spec, table, spec.gpus)

NodeAllocatable(spec, table, state) ==
  nodeResourcesFor(spec, table, Clamp(spec.gpus - Unavailable(state), spec.gpus))

managesResource(name) == name[1] \in {"gpu", "mig"}

-----------------------------------------------------------------------------
(* GFD labels, a function from label keys to values.  Memory is a count of *)
(* whole MiBs.  Under MIG no card is left unpartitioned, so the count of   *)
(* cards is zero.                                                          *)

NodeLabels(spec, model) ==
  LET gfd == [present |-> "true", product |-> model.product, memory |-> model.mem \div MiB,
              compute |-> model.compute, count |-> IF spec.mig THEN 0 ELSE spec.gpus]
      mig == IF spec.mig THEN [migCapable |-> "true", migStrategy |-> "mixed"] ELSE << >>
  IN  [key \in DOMAIN gfd \cup DOMAIN mig |->
         IF key \in DOMAIN gfd THEN gfd[key] ELSE mig[key]]

-----------------------------------------------------------------------------
(* Reconcile's checks in order: the condition reason an early return       *)
(* writes, or "Reconciled" when all of them pass.  model is None when the  *)
(* modelRef does not resolve.                                              *)

CONSTANT None   \* an absent object

Verdict(spec, model) ==
  IF model = None THEN "ModelNotFound"
  ELSE IF spec.mig /\ ~Resolves(model) THEN "MIGProfilesInvalid"
  ELSE IF spec.mig /\ ~ValidatePartition(spec.partition, baseTable(model))
       THEN "MIGPartitionInvalid"
  ELSE IF ~ValidateOccupancy(spec) THEN "OccupancyInvalid"
  ELSE IF ~ValidateFaults(spec) THEN "FaultsInvalid"
  ELSE "Reconciled"
=============================================================================
