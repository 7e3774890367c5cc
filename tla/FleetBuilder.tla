----------------------------- MODULE FleetBuilder -----------------------------
(***************************************************************************)
(* The builders of Fleet run on every declaration of a bounded set: one    *)
(* step takes a declaration (a pool spec, the model it names, the labels   *)
(* of a node) through the checks of Reconcile and, when they pass, to the  *)
(* slices and the resources reconcileSlices and reconcileNode would write. *)
(***************************************************************************)
EXTENDS Fleet

CONSTANTS
  Declarations,   \* records [spec, model, labels]
  Pool, Node      \* names, as sequences of words

VARIABLES
  decl,           \* the declaration at hand
  built           \* None before the step, then the outcome

vars == <<decl, built>>

Init == decl \in Declarations /\ built = None

Build ==
  /\ built = None
  /\ LET state == StateFor(decl.spec, decl.labels)
         table == baseTable(decl.model)
     IN  built' = IF Verdict(decl.spec, decl.model) # "Reconciled"
                  THEN [ok |-> FALSE, slices |-> << >>, capacity |-> << >>, allocatable |-> << >>]
                  ELSE [ok          |-> TRUE,
                        slices      |-> DesiredSlices(Pool, decl.spec, decl.model, Node, state),
                        capacity    |-> NodeResources(decl.spec, table),
                        allocatable |-> NodeAllocatable(decl.spec, table, state)]
  /\ UNCHANGED decl

Next == Build

Spec == Init /\ [][Next]_vars

-----------------------------------------------------------------------------
Published == built # None /\ built.ok

Table == baseTable(decl.model)

\* Positions of devices: the slice, and the place within it.
DeviceSlots == UNION {{s} \X (1..Len(built.slices[s].devices)) : s \in 1..Len(built.slices)}

DeviceAt(slot) == built.slices[slot[1]].devices[slot[2]]

DevicesOf(gpu) == {slot \in DeviceSlots : DeviceAt(slot).gpu = gpu}

\* The GPUs none of whose devices is tainted.
FreeGPUs == {g \in 0..(decl.spec.gpus - 1) :
               \A slot \in DevicesOf(g) : DeviceAt(slot).taint = NoTaint}

\* The DRA path and the legacy path describe one fleet: what the device taints
\* of the slices leave free is what node allocatable offers, for whole GPUs and
\* for each MIG profile (Taint against NodeAllocatable).
AvailabilityAgrees ==
  (Published /\ decl.spec.dra) =>
    \A r \in DOMAIN built.capacity :
      built.allocatable[r] * decl.spec.gpus = built.capacity[r] * Cardinality(FreeGPUs)

\* A card is out of service as a whole: the instances carved from one GPU all
\* carry the same taint, in whatever shard of the device slices they fall.
CardTaintIsUniform ==
  Published =>
    \A g \in 0..(decl.spec.gpus - 1) : \A a, b \in DevicesOf(g) :
      DeviceAt(a).taint = DeviceAt(b).taint

\* BuildMIGSlices keeps within the measured limits, never mixes counters and
\* devices in a slice, gives slices distinct names, and every slice repeats the
\* number of slices actually built.
MIGSlicesWithinLimits ==
  (Published /\ decl.spec.mig) =>
    \A i \in 1..Len(built.slices) :
      LET s == built.slices[i]
      IN  /\ Cardinality(s.counters) <= 8
          /\ Len(s.devices) <= 64
          /\ s.counters = {} \/ s.devices = << >>
          /\ s.count = Len(built.slices)
          /\ \A j \in 1..Len(built.slices) : built.slices[j].name = s.name => i = j

\* Sharding loses and repeats nothing: every GPU has exactly one counter set,
\* and every device name the layout calls for occurs exactly once.
EveryInstanceOnce ==
  (Published /\ decl.spec.dra) =>
    LET wanted(g) == IF ~decl.spec.mig THEN {<<WholeGPU, 0 - 1>>}
                     ELSE IF decl.spec.partition = << >>
                     THEN ProfileNames(Table) \X {0 - 1}
                     ELSE {<<p, o>> \in ProfileNames(Table) \X (0..63) :
                             o < CountOf(decl.spec.partition, p)}
        card(g) == DevicesOf(g)
    IN  \A g \in 0..(decl.spec.gpus - 1) :
          /\ {<<DeviceAt(a).profile, DeviceAt(a).ordinal>> : a \in card(g)} = wanted(g)
          /\ Cardinality(card(g)) = Cardinality(wanted(g))
          /\ decl.spec.mig =>
               Quantify(1..Len(built.slices),
                        LAMBDA i : \E c \in built.slices[i].counters : c.gpu = g) = 1

\* A declared partition that passes validation is satisfiable as published: the
\* instances of a card can all be allocated at once within the card's counters.
PartitionCoexists ==
  (Published /\ decl.spec.mig /\ decl.spec.partition # << >> /\ decl.spec.dra) =>
    \A g \in 0..(decl.spec.gpus - 1) :
      LET slices(a) == ProfileNamed(Table, DeviceAt(a).profile).slices
          mem(a)    == DeviceAt(a).mem
      IN  /\ MapThenSumSet(slices, DevicesOf(g)) <= Table.slices
          /\ MapThenSumSet(mem, DevicesOf(g)) <= Table.mem

\* The extended-resource projection is the count of a profile the hardware can
\* hold: one more instance per card would exceed the slices or the memory, and
\* the advertised ones do not (MaxInstances against its definition).
DynamicCountsAreMaximal ==
  (Published /\ decl.spec.mig /\ decl.spec.partition = << >>) =>
    \A p \in ToSet(Table.profiles) :
      LET fits(n) == n * p.slices <= Table.slices /\ n * p.mem <= Table.mem
          r == MIGResource(p.name)
          n == IF r \in DOMAIN built.capacity THEN built.capacity[r] \div decl.spec.gpus ELSE 0
      IN  fits(n) /\ ~fits(n + 1)

\* The order in which a manifest lists its partition does not show in what is
\* published (ExpandPartitioned emits in table order).
EntryOrderIsInvisible ==
  (Published /\ decl.spec.mig) =>
    LET swapped == [decl.spec EXCEPT !.partition = Reverse(@)]
    IN  built.slices = DesiredSlices(Pool, swapped, decl.model, Node,
                                     StateFor(decl.spec, decl.labels))

\* GPU_I_ID tells the instances of one GPU apart, which is what the exporter
\* keys per-instance metrics on, for the built-in tables (InstanceID, and nextID of
\* ExpandPartitioned).
InstanceIDsUnique ==
  (Published /\ decl.spec.mig) =>
    \A g \in 0..(decl.spec.gpus - 1) : \A a, b \in DevicesOf(g) :
      DeviceAt(a).id = DeviceAt(b).id => a = b

\* A slice respects the API limit the code states for it: 128 devices, and 64
\* once any of them uses a taint or consumes counters.
SliceWithinDeviceLimit ==
  Published =>
    \A i \in 1..Len(built.slices) :
      LET s == built.slices[i]
          limited == decl.spec.mig \/ \E k \in 1..Len(s.devices) : s.devices[k].taint # NoTaint
      IN  Len(s.devices) <= (IF limited THEN 64 ELSE MaxDevicesPerSlice)
=============================================================================
