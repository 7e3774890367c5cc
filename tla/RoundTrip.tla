------------------------------- MODULE RoundTrip -------------------------------
(***************************************************************************)
(* The command line against the operator.  Flags of `ghostgpu up` go       *)
(* through BuildManifests to the checks of Reconcile and the builders; and *)
(* a cluster of nodes the operator has published, with others it has not,  *)
(* is captured and published again.                                        *)
(***************************************************************************)
EXTENDS FleetBuilder, Manifests, Capture

CONSTANTS
  Flags,          \* flags `ghostgpu up` is run with
  Publications,   \* declarations whose nodes may be captured
  ForeignNodes,   \* [labels, capacity, slices] of nodes ghostgpu did not publish
  FleetFlags,     \* values of --gpus-per-node given to capture
  MaxNodes        \* bound on the nodes of a captured cluster

VARIABLES
  flags,          \* flags of `up`, or None
  cluster,        \* nodes to be captured, in the order the API lists them
  captured        \* None before the capture, then [flag, emit, result]

toolVars == <<flags, cluster, captured>>

ToolInit ==
  /\ \/ decl \in Declarations /\ flags = None
     \/ decl = None /\ flags \in Flags \cup {None}
  /\ built = None
  /\ cluster = << >>
  /\ captured = None

\* BuildManifests; flags it refuses lead nowhere.
Declare ==
  /\ flags # None /\ decl = None
  /\ Accepts(flags)
  /\ decl' = [spec |-> PoolOf(flags), model |-> ModelOf(flags), labels |-> << >>]
  /\ UNCHANGED <<built, toolVars>>

Reconcile ==
  /\ decl # None
  /\ Build
  /\ UNCHANGED toolVars

\* Labels only accumulate: a node that was once under MIG keeps saying so.
LeftBehind == {<< >>, [migCapable |-> "true", migStrategy |-> "mixed"]}

\* A node as the operator leaves it.
PublishedNode(d, left) ==
  LET labels == NodeLabels(d.spec, d.model)
      state  == StateFor(d.spec, d.labels)
  IN  [labels   |-> [k \in DOMAIN left \cup DOMAIN labels |->
                       IF k \in DOMAIN labels THEN labels[k] ELSE left[k]],
       capacity |-> IF d.spec.ext THEN NodeResources(d.spec, baseTable(d.model)) ELSE << >>,
       slices   |-> ToSet(DesiredSlices(Pool, d.spec, d.model, Node, state)),
       of       |-> d]

Collecting == decl = None /\ flags = None /\ captured = None

Join ==
  /\ Collecting
  /\ Len(cluster) < MaxNodes
  /\ \/ \E d \in Publications, left \in LeftBehind :
          /\ Verdict(d.spec, d.model) = "Reconciled"
          /\ cluster' = Append(cluster, PublishedNode(d, left))
     \/ \E node \in ForeignNodes :
          cluster' = Append(cluster, [labels |-> node.labels, capacity |-> node.capacity,
                                      slices |-> node.slices, of |-> None])
  /\ UNCHANGED <<decl, built, flags, captured>>

runCapture ==
  /\ Collecting
  /\ cluster # << >>
  /\ \E flag \in FleetFlags, emit \in BOOLEAN :
       captured' = [flag |-> flag, emit |-> emit, result |-> Capture(cluster, flag, emit)]
  /\ UNCHANGED <<decl, built, flags, cluster>>

ToolNext == Declare \/ Reconcile \/ Join \/ runCapture

ToolSpec == ToolInit /\ [][ToolNext]_<<vars, toolVars>>

-----------------------------------------------------------------------------
(* up.                                                                     *)

\* What `up` accepts the operator accepts too, both its schema and the checks of
\* Reconcile, as long as --memory does not fall short of the built-in table's:
\* BuildManifests and --dry-run predict the verdict.
AcceptedIsAdmitted ==
  (flags # None /\ built # None) =>
    /\ SchemaAccepts(decl.spec)
    /\ ProfilesFor(flags.needles).mem <= flags.mem => built.ok

-----------------------------------------------------------------------------
(* capture.                                                                *)

Succeeded == captured # None /\ captured.result # None

Objects == captured.result.objects

PoolFor(i) == CHOOSE p \in Objects.pools : p.key = captured.result.keys[i]

ModelFor(spec) == (CHOOSE m \in Objects.models : m.name = spec.model).model

\* What a scheduler can tell apart: devices without their taints, and counters.
Surface(slices) ==
  [devices  |-> {[d EXCEPT !.taint = NoTaint] : d \in UNION {ToSet(s.devices) : s \in slices}},
   counters |-> UNION {s.counters : s \in slices}]

InMiB(mem) == (mem \div MiB) * MiB

\* The same, with memory in whole MiBs and without the numbers of MIG instances.
Coarse(surface) ==
  [devices  |-> {[d EXCEPT !.id = 0, !.mem = InMiB(d.mem)] : d \in surface.devices},
   counters |-> {[c EXCEPT !.mem = InMiB(c.mem)] : c \in surface.counters}]

\* The interconnect alone.
Cards(surface) == {[gpu |-> d.gpu, domain |-> d.domain, numa |-> d.numa] : d \in surface.devices}

\* The node shows its whole layout: whole GPUs, or static MIG whose resources are
\* advertised, on a model that overrides no budget and no profile shape.
ReadBack(d) ==
  \/ ~d.spec.mig
  \/ /\ d.spec.partition # << >> /\ d.spec.ext
     /\ d.model.budgetMem = 0 /\ d.model.budgetSlices = 0
     /\ \A p \in ToSet(d.model.profiles) : p = Profile(p.name[1], p.name[2])

\* The profiles in use come in the order a captured model has them in: the built-in
\* table's, or that of their names as text.
InCaptureOrder(d) ==
  LET used(table) == SelectSeq([i \in DOMAIN table.profiles |-> table.profiles[i].name],
                               LAMBDA name : CountOf(d.spec.partition, name) > 0)
      declared == used(baseTable(d.model))
      builtIn  == ProfilesFor(d.model.needles)
  IN  declared = IF builtIn # NoTable THEN used(builtIn)
                 ELSE SetToSortSeq(ToSet(declared), NameBefore)

\* --gpus-per-node is not needed for the node, or is right about it.
FlagHarmless(i) ==
  physicalGPUs(cluster[i], 0) > 0 \/ captured.flag = cluster[i].of.spec.gpus

Unwarned == {i \in 1..Len(cluster) : /\ cluster[i].of # None
                                     /\ captured.result.keys[i] # None
                                     /\ i \notin captured.result.warned}

\* What the operator makes of a captured pool for the node, against what the node had.
Reproduces(node, spec, model, had, gets) ==
  LET d == node.of
  IN  /\ Verdict(spec, model) = "Reconciled"
      /\ NodeLabels(spec, model) = node.labels
      /\ spec.gpus = d.spec.gpus
      /\ d.spec.dra => Cards(gets) = Cards(had)
      /\ ReadBack(d) =>
           /\ d.spec.ext => NodeResources(spec, baseTable(model)) = node.capacity
           /\ d.spec.dra => Coarse(gets) = Coarse(had)
           /\ (d.spec.dra /\ InMiB(d.model.mem) = d.model.mem /\ InCaptureOrder(d)) => gets = had

PublishedAgain(node, spec, model) ==
  Reproduces(node, spec, model, Surface(node.slices),
             Surface(ToSet(DesiredSlices(Pool, spec, model, Node, StateFor(spec, << >>)))))

\* Capture inverts the operator, or warns, whatever other nodes, foreign ones
\* included, are captured along with the node, and whatever --gpus-per-node says
\* about a node that does not need it.  The operator accepts the captured pool and
\* gives the node its labels, its cards and their interconnect again.  A node that
\* shows its whole layout also gets its resources, devices and counters again, with
\* memory cut to whole MiBs, as the label has it, and with the numbers of static MIG
\* instances when the model listed its profiles in the order capture will.  No
\* warning tells of the two exceptions.  A whole-GPU node that keeps the MIG labels
\* of an earlier pool has to be warned about.
RoundTrips ==
  Succeeded => \A i \in {j \in Unwarned : FlagHarmless(j)} :
    LET spec == PoolFor(i).spec IN PublishedAgain(cluster[i], spec, ModelFor(spec))

\* Every GPU node gets a pool or a warning; every object has a name of its
\* own; every emitted node is selected by one pool, and every pool has its model.
NothingLost ==
  Succeeded =>
    LET keys  == captured.result.keys
        nodes == Objects.nodes
        selecting(n) == {p \in Objects.pools : selectorMatches(p.spec.selector, nodes[n].labels)}
    IN  /\ \A i \in 1..Len(cluster) :
             IsGPUNode(cluster[i]) => keys[i] # None \/ i \in captured.result.warned
        /\ Cardinality({p.name : p \in Objects.pools}) = Cardinality(ToSet(keys) \ {None})
        /\ \A p \in Objects.pools : \E m \in Objects.models :
             m.name = p.spec.model /\ m.key = modelKey(p.of)
        /\ \A m, o \in Objects.models : m.name = o.name => m = o
        /\ captured.emit =>
             /\ Len(nodes) = Cardinality({i \in DOMAIN keys : keys[i] # None})
             /\ \A n \in 1..Len(nodes) : Cardinality(selecting(n)) = 1
             /\ \A m, n \in 1..Len(nodes) : nodes[m].name = nodes[n].name => m = n

\* The same cluster listed in another order is rendered alike: the same objects with
\* the same names and contents, and nodes in the same order.  Every part of a shape
\* that reaches an object has to be in its key, or the first node listed would decide
\* for its group; and keys have to be sorted, or the first shape listed would take the
\* name without a number.
ListOrderInvisible ==
  Succeeded => Capture(Reverse(cluster), captured.flag, captured.emit).objects = Objects

=============================================================================
