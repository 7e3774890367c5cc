# ghostgpu in TLA+

ghostgpu simulates GPU clusters on Kubernetes: an operator turns a `GPUPool` and
the `GPUModel` it names into ResourceSlices, extended resources and labels on
kwok nodes, an exporter reports DCGM-shaped metrics for the simulated fleet, and
a command line applies pools, reports on them and captures real clusters. This
directory models the operator, the builders it is made of, the exporter and the
three commands `up`, `status` and `capture`, model-checks them with TLC, and
proves with TLAPS safety properties of the operator and that it implements an
abstract contract. Paths below are relative to the repository.

## The system and its parts

| Part | Source | Module |
| --- | --- | --- |
| Reconciler, watches, queue | `internal/controller/gpupool_controller.go` | `GPUPoolController` |
| What the reconciler promises | the same, `api/v1alpha1/gpupool_types.go` | `PoolObject`, `PoolContract`, `PoolRefinement` |
| Occupancy, faults, taints | `internal/gpu/occupancy.go`, `faults.go` | `NodeState` |
| MIG tables, resolution, expansion | `internal/mig/{profiles,resolve,expand,partition}.go` | `MIG` |
| Slices, sharding, resources, labels, topology | `internal/gpu/{resourceslice,migslices,migresources,nodelabels,identity}.go` | `Fleet`, `FleetBuilder` |
| Metrics | `internal/metrics/{exporter,collector,series}.go`, the cache transform of `cmd/main.go` | `Exporter` |
| `ghostgpu status` | `internal/cli/status.go`, `cmd/ghostgpu/main.go` | `StatusReport` |
| `ghostgpu up`, flags to manifests | `internal/cli/up.go` | `Manifests` |
| `ghostgpu up`, apply and wait | `internal/cli/apply.go`, `cmd/ghostgpu/main.go` | `Up` |
| `ghostgpu capture` | `internal/cli/capture.go`, `internal/mig/parse.go`, `cmd/ghostgpu/main.go` | `Capture` |
| Command line against operator | the above together | `RoundTrip` |
| Safety guard | `internal/safety/guard.go` | the `simulated` flag in `GPUPoolController` |
| API types | `api/v1alpha1` | the records the modules work on |

The parts interact through the API server only. The reconciler reads caches and
writes slices, node status, node labels and pool status. The scheduler reads the
slices and writes claims. The exporter and the status command read pools, slices
and claims. `up` writes a model and a pool and reads the pool's status; `capture`
reads nodes and slices and prints models, pools and nodes. The API server, the informer caches, the garbage collector, the
scheduler and users are external: they are modelled from how the code uses them.

`NodeState` and `MIG` are pure; `Fleet` builds on both; the state machines
(`FleetBuilder`, `GPUPoolController`, `Exporter`, `StatusReport`, `Up`) all extend
`Fleet`, so one set of operators stands for the builders everywhere. `Manifests`
and `Capture` are pure too; `RoundTrip` joins them with `FleetBuilder`, so that
what one end of the program writes is what the other end reads.

`PoolContract` is the seam between the operator and its readers: how a pool
object may change, without caches, queue, slices, nodes or half-done work.
`PoolRefinement` instantiates it with the reconciler's own variables, and the
reconciler is shown to implement it; `Up` uses it in place of the operator.

## How state and actions correspond to the code

### Data

Object names are sequences of the dash-separated words of the real name, so that
`SliceName` loses the border between pool and node as the code does. A MIG
profile name is the pair of its numbers; it is spelled out rune by rune in
`InstanceID`, whose int32 arithmetic is kept as two 16-bit halves, and where
`capture` sorts names as text. Memory is counted in halves of a MiB: labels and
framebuffer metrics are in whole MiBs, and the division that rounds them down is
modelled. The 64 devices a MIG slice may hold are a parameter,
`MaxMIGDevicesPerSlice`, so that a small instance can have layouts of several
device slices. A device is its index, profile, ordinal, id, product, memory,
NVLink domain, NUMA node and taint. Product names are the family and capacity words `normalize` leaves to be
searched.

### GPUPoolController

`pools`, `models`, `nodes`, `slices` are the API server; `cPools` and so on are
the caches; `events` holds watch events not delivered yet; `queue` is the work
queue; `work` is the reconcile in progress (there is one worker).

One reconcile is a sequence of steps, each with at most one API write:

| Action | Code |
| --- | --- |
| `Begin` | the gets, the five checks and the node list |
| `ReportInvalid` | the early returns that write a condition |
| `StartNode`, `ApplySlice` | the loop head, `reconcileSlices` and `applySlice` |
| `PatchResources`, `PatchLabels` | the two halves of `reconcileNode` |
| `ListStale`, `DeleteStale` | `pruneSlices` |
| `Report` | the final status update |
| `Sync*`, `poolsForNode` | the watches of `SetupWithManager` |
| `APIFailure`, `Restart` | an error from any call, a crash of the manager |

Writes have the API server's semantics: an update and a status update fail on a
resource version that is not current, a create fails when the object exists, a
merge patch carries the difference to the copy that was read and no version, a
delete is by name. `SetControllerReference` refuses a slice of another pool. A
write that took effect although its caller saw an error is the write followed by
`APIFailure`.

Events of one object that pile up are delivered together, with its latest state.
A cache that shows an older version is one that was brought up to date while that
version was current, so every version a reconcile can read is still reached.

### Exporter

Pool, model, slices, claims and pods change; each kind has its own cache; a
scrape reads the five caches. `util` stands for the utilization fields, which
`apply` and `summarizeCard` treat alike, `power` for power and temperature. The
controller is abstracted to `ReconcileSteps`: the next slice that is not as
wanted is written, then stale ones are deleted. The scheduler gives out free,
untainted devices that fit their card, and may give other drivers' devices of
the same name to claims.

### StatusReport

The command's three lists are three steps; everything may change between them.
`describeDevices`, `summarisePools`, `describeGPUs`, `Free` and `RowStatus` are
the tables. A report exists in the state right after it was printed.

### PoolContract

Users create, update and delete a pool object. The operator reports (one status,
for the generation and the spec the object has at that step, whose counts are
those of whole nodes) or refuses (a condition with a reason the checks can give,
counts and observed generation left alone). `Truthful` is what a status owes its
reader; `ObservedIsTruthful` what the reader may conclude later.

### Up

Several people run `up` for one fleet name; each run is `Start`, `GetModel`,
`PutModel`, `GetPool`, `PutPool` and, with `--wait`, any number of `Poll`s until
the count is there or the deadline has passed. A write after a read that is no
longer current fails (`AlreadyExists`, conflict) and ends the run, as does an API
error. Deadlines, failures, deletions of the pool by hand, and an operator that
has seen any of the models stored so far happen at any time.

### Manifests, Capture and RoundTrip

Flags are a record; a flag whose text is refused is `Malformed`, an item left out
is `Blank`. `Accepts` is `BuildManifests`, with every check in it; `ModelOf` and
`PoolOf` are what it builds. `Capture` reads each node into a shape
(`shapeOf`), and names and assembles models, pools and nodes for the shapes;
warnings are kept as the set of nodes warned about. Shapes are grouped and sorted
by `key`, a text with the fields the code prints in the order it prints them; the
first node listed decides what a group's manifests say. A key is the sequence of its
bytes, except that a word that is only ever compared with its alternatives (a
product, a compute capability) is one number that ranks it among them (`TextRank`).
`RoundTrip` has two uses: flags
are accepted, declared and built; and nodes that the operator published (also
with labels left over from an earlier MIG pool), or nodes of some other cluster,
are put together in any order, captured with or without `--gpus-per-node` and
`--nodes`, and compared with what the operator would publish for the result.

`RoundTrips` is stated in steps, since `capture` keeps less of some layouts than of
others, and does not always say so. Every node that is not warned about comes back
with its labels, cards and interconnect. One that shows its layout in full (whole
GPUs, or static MIG on the legacy path with the table's own budget; `ReadBack`) comes
back with its whole publication, except that memory is known to the MiB only and
that instances are numbered by the order of the profiles: the comparison is up to
these two (`Coarse`), and exact for memory in whole MiBs and profiles in the order
`capture` lists them (`InMiB`, `InCaptureOrder`).

## Runs

Passing runs:

| Run (cfg) | Properties | What it shows |
| --- | --- | --- |
| `fleet` (`MCFleet`) | `AvailabilityAgrees`, `CardTaintIsUniform`, `MIGSlicesWithinLimits`, `EveryInstanceOnce`, `PartitionCoexists`, `DynamicCountsAreMaximal`, `EntryOrderIsInvisible`, `InstanceIDsUnique` | the builders on 4032 declarations |
| | `AcceptedIsAdmitted` | flags `up` accepts, its own partition checks included, pass the schema and, with `--memory` not below the built-in table's, the reconciler's checks |
| | `NothingLost`, `RoundTrips`, `ListOrderInvisible` | every cluster of up to two of the instance's nodes, published or foreign: a GPU node gets a pool or a warning, names are unique, the manifests are the same whichever node is listed first, and a node is reproduced, as far as the steps above say, or warned about, if `--gpus-per-node` is not wrong where it is needed |
| `clash` (`MCClash`) | `ForeignSlicesUntouched` | pools whose slice names collide leave each other alone |
| `specs` (`MCSpecs`) | `TypeOK`, `PublishedIsDeclared`, `StatusFaithful`, `KeepsContract` | changing declarations, some invalid, and changing models; the reconciler implements `PoolContract` |
| `nodes` (`MCNodes`) | `SimulatedOnly`, `SlicesOnSimulated`, `StatusFaithful`, `NodeWritesAreScoped`, `Convergence` | two changes of pool, spec, nodes or slices and a failure or restart, with a real node beside the simulated one |
| `converge_failures` (`MCConvergeFailures`) | `Convergence` | everything settles after a change of any kind, models and MIG layouts included, and a failure or restart |
| `scrapes` (`MCExporter`) | `SamplesDistinct`, `AttributionExact`, `FaultedDoNoWork`, `CardMatchesInstances`, `MetricsCatchUp` | scrapes of lagging caches, with or without a pod list, which come back to the truth; a card's numbers are those of its instances, and of its own reading while a change of sharing mode is half applied and it is listed whole beside them |
| `status_tables` (`MCStatus`) | `BudgetShowsHolders`, `FreeNeverOverstates`, `SummaryAgreesWithRows` | the status tables on torn lists and on layouts whose two device slices are half replaced: the budget view of a card that was not published again since it was listed shows exactly what is held on it, or more if a device is listed in an old slice and a new one; the pool table counts once each device the device table shows as allocated |
| `up` (`MCUp`) | `RerunTakesEffect`, `ReportIsOfItsSpec`, `UpEnds` | two people, two runs, a failure and a deletion: a run nobody overlaps takes effect, the count printed is one of the run's own pool spec unless the pool was changed again before it was read, and every run ends |

Runs that end in a counterexample, each about one statement of a comment or a
doc; `PROJECT.json` quotes the line under "findings":

| Run (cfg) | Property | The counterexample |
| --- | --- | --- |
| `fleet_limit` (`MCFleetLimit`) | `SliceWithinDeviceLimit` | a slice of 65 or more GPUs, some tainted, exceeds the 64 devices stated for that case |
| `retract` (`MCRetract`) | `ResourcesRetracted` | a deleted pool's extended resources stay on the node |
| `scrape_xid` (`MCScrapeXID`) | `FaultReported` | a failed card that is partitioned reports XID 0 |
| `up_reapply` (`MCUpReapply`) | `ReportedIsApplied` | a re-apply that changes the model alone leaves the pool's generation, and the old count is printed as the new one |

Where the code is known to do less than a reader might expect and no run is kept
for it, the hazard's note in `PROJECT.json` says so: colliding instance ids of
declared profiles, pools that share a node, a node that loses the annotation
between list and patch, devices that move between two device slices (until the old
slice is replaced they are listed twice, drawn twice from their card's budget and
exported twice under one label set), a budget view that exceeds the card when the
layout changed between the lists, FREE
counting a device twice, two overlapping `up`s that mix one's model with the
other's pool, and layouts (dynamic MIG, MIG on the DRA path only, a budget of the
model's own, reordered profiles, memory that is no whole number of MiBs) that
`capture` reproduces differently without saying so, although
`docs/tools/capture.md` promises a warning; a capture torn between its two lists;
`up --dra=false`, whose wait can only time out.

### Bounds

`MaxChanges` bounds what users (and, in `Exporter` and `StatusReport`, the
scheduler) do, `MaxFailures` failed calls and restarts; `MaxRuns`, `MaxDeletes`
and `MaxMatched` the runs of `up`, the deletions and the nodes of `Up`; `MaxNodes`
the nodes captured. The controller, the caches, the collector, the status command
and the polling of `up` are unbounded. Two changes allow
delete and re-create, a switch forth and back, and a change that arrives while
the previous one is half applied; one failure can hit any step of any reconcile.
Scrapes take three changes, enough to allocate, reserve and change the layout;
status takes three too, enough to allocate, change the layout under the holder and
release or change back between two lists; its instance with four changes has 2.2
million states and takes a quarter of an hour; it passed, and is not kept.
Two successive changes together with a failure are covered for whole GPUs and the
legacy path (`MCNodes`). With a static MIG pool among the specs that instance has
1.2 million states and takes a quarter of an hour; it passed, and is not kept as a
run for its size. Two runs of `up` are enough for one to find what the other left,
finished or half-way, and to overlap it at any call. Two nodes are enough to
share a model, share a pool, collide in a name or differ in order.

One pool and one or two nodes are used except where pools meet: names that
collide (`MCClash`), equal device names on two nodes (`MCStatus`).
`MaxMIGDevicesPerSlice` is the program's 64 everywhere but in `MCStatus`, where it is
2, so that a layout of a few instances takes two device slices, which are replaced
one after the other. The builders are checked at 64, and proved for every limit. `MCFleet`
takes sizes on both sides of 8 counter sets and 64 devices, models that resolve to
a table and models that do not, and occupancy and faults that overlap, exceed
the node or match by label; its captured nodes include memory that is no whole
number of MiBs, two profiles declared in either order, and names whose order as text
is not that of their numbers. `MCExporter` uses memory sizes no percentage divides,
one of them no whole number of MiBs, and switches between whole cards and instances
both ways; its layouts need one device slice only, as the comment of `SamplesDistinct`
says. `MCStatus` uses symmetry of claims, which no definition tells apart.

Controller instances may come to rest, when every pool is settled and the bounds
are used up, so they do not check for deadlock; `Convergence` says what the rest
looks like. `FleetBuilder` and `RoundTrip` stop once the declaration is built or
the cluster captured, and `Up` once the runs are used up and the pool deleted. `Exporter` and
`StatusReport` never stop and are checked for deadlock.

### Fairness

Convergence assumes what controller-runtime provides: a reconcile that has begun
goes on; the queue is first-in first-out, so every queued pool gets its turn
even if others are queued again (strong fairness of `Begin`); informers deliver
their events; the garbage collector runs. Users and failures owe
nothing. `GPUModel`s are not watched, so a changed model is picked up only by the
informers' periodic resync; `ResyncSpec` assumes that it comes in behaviours in
which a model has changed, and in no others, so that every other change has to
get through by its watch. `UpEnds` assumes only that a run that is not over makes
its next call and that its timer fires; the operator owes it nothing. `MetricsCatchUp` assumes that the informers
deliver and that Prometheus keeps scraping with success now and then; the controller may stop
halfway through a layout. Where weak
fairness of an action is meant, its enabling condition is written out as a state
predicate (`Settled`, `Fresh`, `work.pc = "idle"`), which says the same and
spares TLC evaluating ENABLED.

## Proofs

Proved for every set of pools, nodes, models, specs and every bound:

| Theorem (module) | Statement | Inductive invariant |
| --- | --- | --- |
| `TypeCorrect` (`GPUPoolControllerProofs`) | `Spec => []TypeOK` | `TypeOK` itself: it says that a reconcile past `Begin` works on a checked declaration and on nodes of its snapshot |
| `ForeignSlicesSafe` (same) | `Spec => ForeignSlicesUntouched` | `OwnersKnown` |
| `PublicationSound` (same) | `Spec => []PublishedIsDeclared` | `DesiredIsDeclared` |
| `NodeWritesSafe` (`NodeWriteProofs`) | `Spec => NodeWritesAreScoped` | from `TypeOK` |
| `RealNodesUntouched` (same) | `Spec => []SimulatedOnly` | `LoopOnSimulated` |
| `RealNodesUnpublished` (`SliceWriteProofs`) | `Spec => []SlicesOnSimulated` | `BuiltForSimulated` |
| `ContractKept` (`PoolRefinementProofs`) | `Spec => KeepsContract`: the reconciler implements `PoolContract` | `Counted` |
| `StatusIsFaithful` (same) | `Spec => []StatusFaithful` | `Counted`, and the contract's own argument |
| `ContractIsTruthful` (`PoolContract`) | `Spec => []ObservedIsTruthful` | `ObservedIsPast` |
| `DesiredShape`, `CarriedEnds` (`FleetProofs`) | the slices of a node name it, hold at most `MaxMIGDevicesPerSlice` devices under MIG, and their lengths add up to `DevicesPerNode` | none, facts of `Fleet` |
| `UntaintedCount` (`NodeStateProofs`) | untainted GPUs of a node = `gpus - Unavailable` | none, a fact of `NodeState` |

Assumptions on the constants: `SpecsAssumption` (the numbers and lists of a
spec are of the kind the CRD schema demands, and it names a model), `StartAssumption` (the initial objects
are of the declared kinds), `ShapesAssumption` (users do not write the GFD label
keys themselves), `LayoutsAssumption` (the list of MIG instances of a declaration
that passes the checks has a length that is a natural number: it is built by
flattening sequences, and what a fold yields for every input is out of the
prover's reach). TLC evaluates all four in every controller run.
`DeviceLimitAssumption` (a slice may hold at least one device) is evaluated in every
run.

`ForeignSlicesSafe`: an update is safe because `SetControllerReference` refuses
a cached slice of another owner and the API server refuses a cached copy that is
out of date. The prune deletes by name, with no precondition and from a stale
list, so its safety needs an invariant. `OwnersKnown` says that a slice that is
both cached and live has the same owner in both places, and that whatever is
still live among the slices a prune has listed belongs to the pool being
reconciled. It is inductive because only the one worker creates slices, and it
creates one only where its cache shows none: a name cannot change hands behind
the cache's back. With more than one concurrent reconcile, or a second manager,
this argument would not go through.

`PublicationSound` rests on `DesiredIsDeclared`: the slices still to be applied
are those `DesiredSlices` yields for a declaration that passed `Verdict`
(`TypeOK`) and a state in `NodeStates`, one that entries of the spec declare.
`StateForInRange` of `NodeStateProofs` shows that `StateFor` yields such a state
once both validations have passed, since then `Clamp` changes nothing.

`ContractKept` is the refinement. Every step of the reconciler, its caches,
the cluster and the users either leaves `pools` and `uids` alone, or is a user's
step of the contract, or writes a status. A status write goes through only if the
object is the one read at the start, so the spec counted and the spec stored are
the same; that the counts are those of whole nodes is `Counted`. It says that
between two nodes the devices counted are `matched` times what one node carries,
and within a node that they are that plus what the slices applied so far carry
(`Applying`, with `Carried` of `FleetProofs` as the running count). `DesiredShape`
and `CarriedEnds` close the loop over the slices of a node: their lengths add up, for every size.
These are statements about lengths; that the devices in them are the right ones,
each once, is `EveryInstanceOnce`, which TLC checks. `Counted` also says that a reconcile about to
refuse has a reason to. TLC has checked `Counted` and `BuiltForSimulated` on the
instances of `MCSpecs` and `MCNodes`.

`ContractIsTruthful` needs `ObservedIsPast`: no status claims a generation yet to
come. Without it an update could make an old claim current.

`RealNodesUnpublished` adds to `LoopOnSimulated` that the slices in hand name the
node the loop is at (`DesiredShape`), so none names a real one.

`RealNodesUntouched` rests on `LoopOnSimulated`: no node that can never be
simulated is among those the loop still has to visit, since `Begin` takes only
nodes that were simulated when listed. `NodeWritesSafe` is about `MergePatch`: only keys that differ between the
copy read and the copy wanted are touched, and these are managed.

Only model-checked: `Convergence`, `MetricsCatchUp`, `UpEnds`, `ResourcesRetracted`
(fairness); the builder, capture, exporter and status properties, which are about folds
over sequences or about sorted texts, so that what they compute for every input is out of the prover's
reach; `RerunTakesEffect` and `ReportIsOfItsSpec`.

## Not modelled

- Text: parsing of flags, quantities and profile names beyond what is accepted or
  refused, YAML rendering, wording of conditions and warnings, column layout and
  sorting of tables, the MODE and NODES columns of the status command,
  `internal/cli/version.go`. Profile names are pairs of numbers, and product names
  are short enough for `baseName` to keep them whole.
- The CPU, memory and pod capacity `capture` copies from node to node, and
  `internal/cli/readonly.go`, the wrapper that takes the write methods away from its
  client: no property here is about it.
- A capture torn by a reconcile between its two lists: a captured cluster is at rest.
- UUIDs of `internal/gpu/identity.go`: a card is known by its node and index.
- `internal/metrics/{server,names}.go`: an HTTP listener and constants.
- Flags, probes, TLS and leader election in `cmd/main.go`: one manager is assumed.
- Generated deep copies, development tools and test helpers.
- Pools with overlapping selectors settle on no common state, since each writes its
  own labels; `Convergence` is checked for one pool. MIG labels that stay after a
  switch to whole GPUs are allowed by `Settled`: no doc promises their removal, and
  `RoundTrips` requires `capture` to warn about such a node.
- What a scheduler allocates while a layout is half replaced. `Exporter` and
  `StatusReport` have a scheduler, over the controller abstracted to `ReconcileSteps`.
